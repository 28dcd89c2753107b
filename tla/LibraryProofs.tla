---------------------------- MODULE LibraryProofs ----------------------------
(***************************************************************************)
(* Proofs about what agents read and remember, for any number of devices,  *)
(* commands, documents and books, and texts of any size.                   *)
(* ArtifactSync: packages between devices and the gateway are kept while   *)
(* needed, versions stay and documents move forward.  Chunking,            *)
(* KnowledgeIndex, DocumentImport: texts are cut without a loss, versions, *)
(* packages and searches agree, imports store what they have hashed.       *)
(* MemoryVectors, ExplicitMemories, Reading: memories and their vectors,   *)
(* the two documents, and books with their conversations agree.            *)
(***************************************************************************)
EXTENDS ArtifactSync, ExplicitMemories, DocumentImport, Reading,
        FiniteSetTheorems, FunctionTheorems, SequenceTheorems, WellFoundedInduction,
        NaturalsInduction, TLAPS

(***************************************************************************)
(* Packages: the inductive invariant.                                      *)
(***************************************************************************)
Places == {"none", "outbox", "install"}
Replicas == [status : {"none", "ready", "deleted"}, key : Nat, orphaned : BOOLEAN, claimed : BOOLEAN]
Uploads == [status : {"none", "pending", "claimed", "read", "completing", "completed", "failed", "aborted"},
            key : Nat, parts : SUBSET PartNumbers, seen : 0 .. MaxVersion]
Pubs == [pc : {"idle", "cached", "begin", "part", "complete", "wait", "abort", "stat", "record", "report"},
         a : Artifacts \cup {None}, path : Places, part : Nat]
Fetching == {"download", "install", "import", "record", "replica", "report"}
Reps == [pc : {"idle", "item"} \cup Fetching, a : Artifacts \cup {None}, next : Nat, end : Nat, keyed : BOOLEAN]
RowRecords == [path : Places, status : {"none", "built", "available", "installed"}]
Candidates == [a : Artifacts, path : {"outbox", "install"}]
Cleans == [pc : {"idle", "remove", "clear"}, todo : SUBSET Candidates, at : Candidates \cup {None}]

\* The gateway's variables have their types.
StoreTypes ==
    /\ manifest \in [version : 0 .. MaxVersion, artifact : Artifacts \cup {None}]
    /\ replicas \in [Artifacts -> Replicas]
    /\ uploads \in [Artifacts -> Uploads]
    /\ changes \in Seq([artifact : Artifacts, version : 1 .. MaxVersion])
    /\ gc = None \/ gc \in [artifact : Artifacts, key : Nat, deleted : BOOLEAN]

StateTypes ==
    /\ states \in [Devices -> [observed : Nat, artifact : Artifacts \cup {None},
                      status : {"none", "incompatible", "missing", "downloading", "failed", "installed"}]]
    /\ \A d \in Devices : states[d].status = "installed" => states[d].artifact \in Artifacts

\* So have those of the devices.
DeviceTypes ==
    /\ scenario \in Scenarios
    /\ doc \in [Devices -> Sources \cup {NoSource}]
    /\ rows \in [Devices -> [Artifacts -> RowRecords]]
    /\ ready \in [Devices -> SUBSET Artifacts]
    /\ files \in [Devices -> SUBSET ({"outbox", "install"} \X Artifacts)]
    /\ pointer \in [Devices -> Artifacts \cup {None}]
    /\ objectCursor \in [Devices -> Nat]
    /\ skipped \in [Devices -> SUBSET Nat]
    /\ entity \in [Devices -> BOOLEAN] /\ epub \in [Devices -> BOOLEAN]
    /\ pub \in [Devices -> Pubs]
    /\ rep \in [Devices -> Reps]
    /\ clean \in [Devices -> Cleans]

\* What the gateway keeps: the current artifact; a log that does not go beyond
\* it; a key of its own for every session; and a collection of what has been
\* superseded and can never be current again.
Open == {"pending", "claimed", "read", "completing"}
ManifestCurrent ==
    manifest.version > 0 =>
        /\ manifest.artifact \in Artifacts /\ manifest.artifact.src.version = manifest.version
        /\ Available(manifest.artifact)
Logged ==
    \A i \in 1 .. Len(changes) :
        changes[i].version = changes[i].artifact.src.version /\ changes[i].version <= manifest.version
Keyed ==
    \A a \in Artifacts :
        /\ replicas[a].key <= uploads[a].key
        /\ uploads[a].status \in Open => replicas[a].key < uploads[a].key
        /\ uploads[a].status \in {"claimed", "read"} => <<a, uploads[a].key>> \in blobs
Superseded ==
    /\ \A a \in Artifacts : replicas[a].orphaned => a.src.version <= manifest.version
    /\ gc # None =>
        /\ gc.artifact # manifest.artifact /\ gc.artifact.src.version <= manifest.version
        /\ gc.key <= replicas[gc.artifact].key

\* The rows of a device: one artifact of a source, built by whose ciphertext is
\* in the outbox; what is uploaded has a row where it was built.
Recorded(d, a) == rows[d][a].status # "none"
Rowed ==
    /\ \A d \in Devices, a, b \in Artifacts : Recorded(d, a) /\ Recorded(d, b) /\ a.src = b.src => a = b
    /\ \A d \in Devices, a \in Artifacts : rows[d][a].path = "outbox" => a.builder = d
    /\ \A d \in Devices : \A a \in ready[d] : Recorded(d, a)
    /\ \A a \in Artifacts : uploads[a].key > 0 => a.builder \in Devices /\ Recorded(a.builder, a)

\* A publication in progress.
InPublication(d, p) ==
    p.pc # "idle" =>
        /\ p.a \in Artifacts
        /\ p.pc \in {"cached", "begin"} \/ p.path = "outbox" => p.a.builder = d
        /\ p.pc = "cached" => p.a \in ready[d] \/ <<"outbox", p.a>> \in files[d]
        /\ p.pc # "cached" => Recorded(d, p.a)
        /\ p.pc = "record" => p.a \in ready[d]
        /\ p.pc = "report" => rows[d][p.a].status = "installed"
        /\ p.pc = "part" => p.part \in PartNumbers
Publishing == \A d \in Devices : InPublication(d, pub[d])

\* A replication in progress: what the page has passed is covered, what it
\* fetches covers the next change.
Covered(d, i) ==
    \/ i \in skipped[d]
    \/ \E a \in Artifacts : a.src.version >= changes[i].version /\ rows[d][a].status = "installed"
InReplication(d, r) ==
    /\ r.pc # "idle" =>
        /\ objectCursor[d] < r.next /\ r.next <= r.end + 1 /\ r.end <= Len(changes)
        /\ \A i \in 1 .. r.end : i < r.next => Covered(d, i)
    /\ r.pc \in Fetching =>
        /\ r.a \in Artifacts /\ r.next <= r.end
        /\ r.a.src.version >= changes[r.next].version
        /\ r.pc # "report" => replicas[r.a].status # "none"
        /\ r.pc \in {"replica", "report"} => rows[d][r.a].status = "installed"
CursorBounds ==
    /\ \A d \in Devices : objectCursor[d] <= Len(changes)
    /\ \A d \in Devices : \A i \in 1 .. objectCursor[d] : Covered(d, i)
Replicating == CursorBounds /\ \A d \in Devices : InReplication(d, rep[d])

\* A cleanup in progress, and the document of a book.
InCleanup(d, c) ==
    /\ \A candidate \in c.todo : candidate.a \in ready[d]
    /\ c.pc = "clear" => c.at \in Candidates /\ c.at.a \in ready[d]
Cleaning == \A d \in Devices : InCleanup(d, clean[d])
BooksOnce == kind = "reading_epub" => \A d \in Devices : doc[d].version <= 1

IInv ==
    /\ StoreTypes /\ StateTypes /\ DeviceTypes
    /\ ManifestCurrent /\ Logged /\ Keyed /\ Superseded
    /\ Rowed /\ Publishing /\ Replicating /\ Cleaning /\ BooksOnce
    /\ PublicationRetryable /\ ReplicasAreReal /\ ReportsAreTrue

StoreInv == StoreTypes /\ ManifestCurrent /\ Logged /\ Keyed /\ Superseded

\* What no step of the gateway takes back.
Kept ==
    /\ VersionStays
    /\ Len(changes) <= Len(changes')
    /\ \A i \in 1 .. Len(changes) : changes'[i] = changes[i]
    /\ \A a \in Artifacts : replicas[a].status # "none" => replicas'[a].status # "none"

-----------------------------------------------------------------------------
(* The steps of one device, by what they belong to.                        *)
Publication(d) ==
    \/ prepare_publication(d) \/ record_built(d) \/ begin_upload(d) \/ upload_chunk(d)
    \/ complete_upload(d) \/ await_completion(d) \/ abort_upload(d) \/ stat_object(d)
    \/ record_published(d) \/ report_installed_object(d)
Replication(d) ==
    \/ list_object_changes(d) \/ replicate_change(d) \/ replication_fails(d)
    \/ download_artifact(d) \/ install_artifact(d) \/ import_artifact(d)
    \/ record_installed(d) \/ record_replica(d) \/ report_state(d) \/ advance_object_cursor(d)
Cleanup(d) == list_candidates(d) \/ remove_candidate(d) \/ reconcile_record(d) \/ finish_gc(d)
DeviceRest(d) == import_version(d) \/ entity_arrives(d) \/ crash(d)
Gateway == StoreNext /\ UNCHANGED deviceVars

(* A step is one of the gateway, or of one device in one of its parts.     *)
LEMMA Steps ==
  ASSUME scenario \in Scenarios, ObjectsNext
  PROVE  Gateway \/ \E d \in Devices : Publication(d) \/ Replication(d) \/ Cleanup(d) \/ DeviceRest(d)
<1>1. scenario.publish \subseteq Devices /\ scenario.edit \subseteq Devices
      /\ scenario.replicate \subseteq Devices /\ scenario.clean \subseteq Devices
  BY ScenariosAssumption
<1> QED
  BY <1>1 DEF ObjectsNext, Gateway, Publication, Replication, Cleanup, DeviceRest

(* The version of an artifact is that of its source, and within the bound. *)
LEMMA Versions ==
  ASSUME NEW a \in Artifacts
  PROVE  /\ MaxVersion \in Nat \ {0} /\ MaxBuilds \in Nat
         /\ a.src \in Sources /\ a.src.version \in 1 .. MaxVersion /\ a.src.version \in Nat
<1>1. MaxVersion \in Nat \ {0} /\ MaxBuilds \in Nat
  BY ScenariosAssumption
<1>2. a.src \in Sources
  BY DEF Artifacts
<1>3. a.src.version \in 1 .. MaxVersion
  BY <1>1, <1>2 DEF Sources
<1> QED
  BY <1>1, <1>2, <1>3

(***************************************************************************)
(* The gateway.                                                            *)
(***************************************************************************)

(* Which steps reach the gateway's store.                                  *)
StoreWrite(a) ==
    \/ createObjectUpload(a) /\ UNCHANGED gc
    \/ (\E part \in PartNumbers : uploadObjectPart(a, part)) /\ UNCHANGED gc
    \/ completeObjectUpload(a) /\ UNCHANGED gc
    \/ abortObjectUpload(a) /\ UNCHANGED gc
    \/ read_current(a) /\ UNCHANGED gc
    \/ publish_batch(a) /\ UNCHANGED gc
    \/ completion_lost(a) /\ UNCHANGED gc
    \/ expire_upload(a) /\ UNCHANGED gc
    \/ claim_orphan(a)

StoreSame == UNCHANGED <<manifest, replicas, uploads, blobs, changes, gc>>

(* Which step of the whole does what to the store of the gateway.          *)
LEMMA StoreSteps ==
  ASSUME IInv, ObjectsNext
  PROVE  (\E a \in Artifacts : StoreWrite(a)) \/ delete_orphan \/ finish_orphan \/ collection_ends \/ StoreSame
<1>0. scenario \in Scenarios /\ Publishing
  BY DEF IInv, DeviceTypes
<1>1. CASE Gateway
  BY <1>1 DEF Gateway, StoreNext, StoreWrite
<1>2. ASSUME NEW d \in Devices, Publication(d)
      PROVE  (\E a \in Artifacts : StoreWrite(a)) \/ StoreSame
  <2>1. CASE begin_upload(d)
    <3>1. pub[d].a \in Artifacts
      BY <1>0, <2>1 DEF begin_upload, Publishing, InPublication
    <3>2. StoreSame \/ StoreWrite(pub[d].a)
      BY <2>1 DEF begin_upload, StoreWrite, StoreSame, storeVars
    <3> QED
      BY <3>1, <3>2
  <2>2. CASE upload_chunk(d)
    <3>1. pub[d].a \in Artifacts /\ pub[d].part \in PartNumbers
      BY <1>0, <2>2 DEF upload_chunk, Publishing, InPublication
    <3>2. StoreSame \/ StoreWrite(pub[d].a)
      BY <2>2, <3>1 DEF upload_chunk, StoreWrite, StoreSame, storeVars
    <3> QED
      BY <3>1, <3>2
  <2>3. CASE complete_upload(d)
    <3>1. pub[d].a \in Artifacts
      BY <1>0, <2>3 DEF complete_upload, Publishing, InPublication
    <3>2. StoreSame \/ StoreWrite(pub[d].a)
      BY <2>3 DEF complete_upload, StoreWrite, StoreSame, storeVars
    <3> QED
      BY <3>1, <3>2
  <2>4. CASE abort_upload(d)
    <3>1. pub[d].a \in Artifacts
      BY <1>0, <2>4 DEF abort_upload, Publishing, InPublication
    <3>2. StoreSame \/ StoreWrite(pub[d].a)
      BY <2>4 DEF abort_upload, StoreWrite, StoreSame, storeVars
    <3> QED
      BY <3>1, <3>2
  <2>5. CASE report_installed_object(d)
    BY <2>5 DEF report_installed_object, updateObjectState, StoreSame, storeVars
  <2> QED
    BY <1>2, <2>1, <2>2, <2>3, <2>4, <2>5 DEF Publication, prepare_publication, record_built, await_completion,
       stat_object, record_published, storeSame, StoreSame, storeVars
<1>3. ASSUME NEW d \in Devices, Replication(d) PROVE StoreSame
  BY <1>3 DEF Replication, list_object_changes, replicate_change, replication_fails, download_artifact,
     install_artifact, import_artifact, record_installed, record_replica, report_state, advance_object_cursor,
     updateObjectState, storeSame, StoreSame, storeVars
<1>4. ASSUME NEW d \in Devices, Cleanup(d) \/ DeviceRest(d) PROVE StoreSame
  BY <1>4 DEF Cleanup, list_candidates, remove_candidate, reconcile_record, finish_gc, DeviceRest, import_version,
     entity_arrives, crash, storeSame, StoreSame, storeVars
<1> QED
  BY <1>0, <1>1, <1>2, <1>3, <1>4, Steps

(* A session that changes and maybe adds an object to R2.                  *)
LEMMA SessionStep ==
  ASSUME StoreInv, NEW a \in Artifacts, NEW u \in Uploads,
         uploads' = [uploads EXCEPT ![a] = u],
         UNCHANGED <<manifest, replicas, changes, gc>>, blobs \subseteq blobs',
         uploads[a].key <= u.key,
         u.status \in Open => replicas[a].key < u.key,
         u.status \in {"claimed", "read"} => <<a, u.key>> \in blobs'
  PROVE  StoreInv' /\ Kept
<1>1. uploads' \in [Artifacts -> Uploads] /\ uploads'[a] = u
      /\ \A b \in Artifacts : b # a => uploads'[b] = uploads[b]
  BY DEF StoreInv, StoreTypes
<1>2. StoreTypes'
  BY <1>1 DEF StoreInv, StoreTypes
<1>3. ManifestCurrent' /\ Logged' /\ Superseded'
  BY DEF StoreInv, ManifestCurrent, Available, Ready, Logged, Superseded
<1>4. replicas[a].key \in Nat /\ uploads[a].key \in Nat /\ u.key \in Nat
  BY DEF StoreInv, StoreTypes, Replicas, Uploads
<1>5. Keyed'
  <2> SUFFICES ASSUME NEW b \in Artifacts
               PROVE  /\ replicas[b].key <= uploads'[b].key
                      /\ uploads'[b].status \in Open => replicas[b].key < uploads'[b].key
                      /\ uploads'[b].status \in {"claimed", "read"} => <<b, uploads'[b].key>> \in blobs'
    BY DEF Keyed
  <2>1. CASE b = a
    <3>1. replicas[a].key <= uploads[a].key
      BY DEF StoreInv, Keyed
    <3> QED
      BY <1>1, <1>4, <2>1, <3>1
  <2>2. CASE b # a
    BY <1>1, <2>2 DEF StoreInv, Keyed
  <2> QED
    BY <2>1, <2>2
<1>6. Kept
  <2>1. Len(changes) \in Nat /\ manifest.version \in Nat
    BY ScenariosAssumption, LenProperties DEF StoreInv, StoreTypes
  <2> QED
    BY <2>1 DEF Kept, VersionStays
<1> QED
  BY <1>2, <1>3, <1>5, <1>6 DEF StoreInv

(* The steps of an upload session keep the store in order.                 *)
LEMMA Sessions ==
  ASSUME StoreInv, NEW a \in Artifacts,
         \/ createObjectUpload(a)
         \/ \E part \in PartNumbers : uploadObjectPart(a, part)
         \/ completeObjectUpload(a) \/ abortObjectUpload(a)
         \/ completion_lost(a) \/ expire_upload(a),
         UNCHANGED gc
  PROVE  StoreInv' /\ Kept
<1> DEFINE old == uploads[a]
<1>0. 0 \in 0 .. MaxVersion
  BY ScenariosAssumption
<1>1. old \in Uploads /\ old.key \in Nat /\ replicas[a].key \in Nat
  BY DEF StoreInv, StoreTypes, Uploads, Replicas
<1>2. old.status \in Open => replicas[a].key < old.key
  BY DEF StoreInv, Keyed
<1>3. replicas[a].key <= old.key
  BY DEF StoreInv, Keyed
<1>4. old.key <= old.key /\ uploads = [uploads EXCEPT ![a] = old]
  BY <1>1 DEF StoreInv, StoreTypes
<1>5. CASE createObjectUpload(a)
  <2> DEFINE u == [status |-> "pending", key |-> old.key + 1, parts |-> {}, seen |-> 0]
  <2>1. u \in Uploads
    BY <1>1, ScenariosAssumption DEF Uploads
  <2>2. UNCHANGED <<manifest, replicas, blobs, changes>>
        /\ (uploads' = uploads \/ uploads' = [uploads EXCEPT ![a] = u])
    BY <1>5 DEF createObjectUpload
  <2>3. CASE uploads' = uploads
    <3>1. old.status \in {"claimed", "read"} => <<a, old.key>> \in blobs
      BY DEF StoreInv, Keyed
    <3> QED
      BY <1>1, <1>2, <1>4, <2>2, <2>3, <3>1, SessionStep
  <2>4. CASE uploads' = [uploads EXCEPT ![a] = u]
    <3>1. old.key <= u.key /\ replicas[a].key < u.key /\ u.status = "pending"
      BY <1>1, <1>3
    <3> HIDE DEF u
    <3> QED
      BY <2>1, <2>2, <2>4, <3>1, SessionStep
  <2> QED
    BY <2>2, <2>3, <2>4
<1>6. CASE \E part \in PartNumbers : uploadObjectPart(a, part)
  <2>1. PICK part \in PartNumbers : uploadObjectPart(a, part)
    BY <1>6
  <2> DEFINE u == [old EXCEPT !.parts = @ \cup {part}]
  <2>2. u \in Uploads /\ u.key = old.key /\ u.status = "pending"
    BY <1>1, <2>1 DEF Uploads, uploadObjectPart, PartAccepted
  <2>3. UNCHANGED <<manifest, replicas, blobs, changes>> /\ uploads' = [uploads EXCEPT ![a] = u]
        /\ old.status = "pending"
    BY <2>1 DEF uploadObjectPart, PartAccepted
  <2>4. replicas[a].key < u.key
    BY <1>2, <2>2, <2>3 DEF Open
  <2> HIDE DEF u
  <2> QED
    BY <1>4, <2>2, <2>3, <2>4, SessionStep
<1>7. CASE completeObjectUpload(a)
  <2>1. UNCHANGED <<manifest, replicas, changes>> /\ old.status = "pending"
    BY <1>7 DEF completeObjectUpload
  <2>2. CASE uploads' = [uploads EXCEPT ![a].status = "claimed"] /\ blobs' = blobs \cup {<<a, uploads[a].key>>}
    <3> DEFINE u == [old EXCEPT !.status = "claimed"]
    <3>1. u \in Uploads /\ u.key = old.key /\ u.status = "claimed"
      BY <1>1 DEF Uploads
    <3>2. uploads' = [uploads EXCEPT ![a] = u] /\ <<a, u.key>> \in blobs' /\ blobs \subseteq blobs'
      BY <2>2, <3>1
    <3>3. replicas[a].key < u.key
      BY <1>2, <2>1, <3>1 DEF Open
    <3> HIDE DEF u
    <3> QED
      BY <1>4, <2>1, <3>1, <3>2, <3>3, SessionStep
  <2>3. CASE uploads' = [uploads EXCEPT ![a].status = "failed", ![a].parts = {}] /\ UNCHANGED blobs
    <3> DEFINE u == [old EXCEPT !.status = "failed", !.parts = {}]
    <3>1. u \in Uploads /\ u.key = old.key /\ u.status = "failed"
      BY <1>1 DEF Uploads
    <3>2. uploads' = [uploads EXCEPT ![a] = u] /\ blobs \subseteq blobs'
      BY <2>3
    <3>3. u.status \notin Open
      BY <3>1 DEF Open
    <3> HIDE DEF u
    <3> QED
      BY <1>4, <2>1, <3>1, <3>2, <3>3, SessionStep
  <2> QED
    BY <1>7, <2>2, <2>3 DEF completeObjectUpload
<1>8. CASE abortObjectUpload(a) \/ expire_upload(a)
  <2> DEFINE u == [old EXCEPT !.status = "aborted", !.parts = {}, !.seen = 0]
  <2>1. u \in Uploads /\ u.key = old.key /\ u.status = "aborted"
    BY <1>0, <1>1 DEF Uploads
  <2>2. UNCHANGED <<manifest, replicas, blobs, changes>> /\ uploads' = [uploads EXCEPT ![a] = u]
    BY <1>8 DEF abortObjectUpload, expire_upload
  <2>3. u.status \notin Open
    BY <2>1 DEF Open
  <2> HIDE DEF u
  <2> QED
    BY <1>4, <2>1, <2>2, <2>3, SessionStep
<1>9. CASE completion_lost(a)
  <2> DEFINE u == [old EXCEPT !.status = "completing", !.seen = 0]
  <2>1. u \in Uploads /\ u.key = old.key /\ u.status = "completing"
    BY <1>0, <1>1 DEF Uploads
  <2>2. UNCHANGED <<manifest, replicas, blobs, changes>> /\ uploads' = [uploads EXCEPT ![a] = u]
        /\ old.status \in {"claimed", "read"}
    BY <1>9 DEF completion_lost
  <2>3. replicas[a].key < u.key
    BY <1>2, <2>1, <2>2 DEF Open
  <2> HIDE DEF u
  <2> QED
    BY <1>4, <2>1, <2>2, <2>3, SessionStep
<1> QED
  BY <1>5, <1>6, <1>7, <1>8, <1>9

(* The comparison with the current manifest; a loser's object is removed.  *)
LEMMA ReadCurrent ==
  ASSUME StoreInv, NEW a \in Artifacts, read_current(a), UNCHANGED gc
  PROVE  StoreInv' /\ Kept
<1> DEFINE old == uploads[a]
<1>1. old \in Uploads /\ old.key \in Nat /\ replicas[a].key \in Nat /\ old.key <= old.key
  BY DEF StoreInv, StoreTypes, Uploads, Replicas
<1>2. old.status = "claimed" /\ UNCHANGED <<manifest, replicas, changes>>
  BY DEF read_current
<1>3. replicas[a].key < old.key /\ <<a, old.key>> \in blobs
  BY <1>2 DEF StoreInv, Keyed, Open
<1>4. manifest.version \in 0 .. MaxVersion /\ MaxVersion \in Nat
  BY ScenariosAssumption DEF StoreInv, StoreTypes
<1>5. CASE ~Conflicts(a, manifest.version, manifest.artifact)
  <2> DEFINE u == [old EXCEPT !.status = "read", !.seen = manifest.version]
  <2>1. u \in Uploads /\ u.key = old.key /\ u.status = "read"
    BY <1>1, <1>4 DEF Uploads
  <2>2. UNCHANGED blobs /\ uploads' = [uploads EXCEPT ![a] = u]
    BY <1>5 DEF read_current
  <2> HIDE DEF u
  <2> QED
    BY <1>1, <1>2, <1>3, <2>1, <2>2, SessionStep
<1>6. CASE Conflicts(a, manifest.version, manifest.artifact)
  <2> DEFINE u == [old EXCEPT !.status = "failed", !.parts = {}]
  <2>1. u \in Uploads /\ u.key = old.key /\ u.status = "failed"
    BY <1>1 DEF Uploads
  <2>2. blobs' = blobs \ {<<a, old.key>>} /\ uploads' = [uploads EXCEPT ![a] = u]
    BY <1>6 DEF read_current
  <2> HIDE DEF u
  <2>3. uploads' \in [Artifacts -> Uploads] /\ uploads'[a] = u
        /\ \A b \in Artifacts : b # a => uploads'[b] = uploads[b]
    BY <2>1, <2>2 DEF StoreInv, StoreTypes
  <2>4. StoreTypes'
    BY <1>2, <2>3 DEF StoreInv, StoreTypes
  <2>5. ManifestCurrent'
    <3> SUFFICES ASSUME manifest.version > 0
                 PROVE  <<manifest.artifact, replicas[manifest.artifact].key>> \in blobs'
      BY <1>2 DEF StoreInv, ManifestCurrent, Available, Ready
    <3>1. <<manifest.artifact, replicas[manifest.artifact].key>> \in blobs
      BY DEF StoreInv, ManifestCurrent, Available
    <3>2. replicas[a].key # old.key
      BY <1>1, <1>3
    <3>3. <<manifest.artifact, replicas[manifest.artifact].key>> # <<a, old.key>>
      BY <3>2
    <3> QED
      BY <2>2, <3>1, <3>3
  <2>6. Logged' /\ Superseded'
    BY <1>2 DEF StoreInv, Logged, Superseded
  <2>7. Keyed'
    <3> SUFFICES ASSUME NEW b \in Artifacts
                 PROVE  /\ replicas[b].key <= uploads'[b].key
                        /\ uploads'[b].status \in Open => replicas[b].key < uploads'[b].key
                        /\ uploads'[b].status \in {"claimed", "read"} => <<b, uploads'[b].key>> \in blobs'
      BY <1>2 DEF Keyed
    <3>1. CASE b = a
      BY <1>1, <1>3, <2>1, <2>3, <3>1 DEF Open
    <3>2. CASE b # a
      <4>1. \A k : <<b, k>> \in blobs => <<b, k>> \in blobs'
        BY <2>2, <3>2
      <4> QED
        BY <2>3, <3>2, <4>1 DEF StoreInv, Keyed
    <3> QED
      BY <3>1, <3>2
  <2>8. Kept
    <3>1. Len(changes) \in Nat
      BY LenProperties DEF StoreInv, StoreTypes
    <3> QED
      BY <1>2, <1>4, <3>1 DEF Kept, VersionStays
  <2> QED
    BY <2>4, <2>5, <2>6, <2>7, <2>8 DEF StoreInv
<1> QED
  BY <1>5, <1>6

(* The batch of a completion.                                              *)
LEMMA Published ==
  ASSUME StoreInv, NEW a \in Artifacts, publish_batch(a), UNCHANGED gc
  PROVE  StoreInv' /\ Kept
<1> DEFINE old == uploads[a]
           entry == [artifact |-> a, version |-> a.src.version]
           mine == [status |-> "ready", key |-> old.key, orphaned |-> FALSE, claimed |-> FALSE]
           stored == [replicas EXCEPT ![a] = mine]
           u == [old EXCEPT !.status = "completed", !.parts = {}, !.seen = 0]
<1>1. old \in Uploads /\ old.key \in Nat /\ replicas[a].key \in Nat /\ old.status = "read"
  BY DEF StoreInv, StoreTypes, Uploads, Replicas, publish_batch
<1>2. replicas[a].key < old.key /\ <<a, old.key>> \in blobs
  BY <1>1 DEF StoreInv, Keyed, Open
<1>3. /\ manifest.version \in 0 .. MaxVersion /\ MaxVersion \in Nat /\ manifest.version \in Nat
      /\ a.src.version \in 1 .. MaxVersion /\ a.src.version \in Nat
  BY Versions DEF StoreInv, StoreTypes
<1>4. UNCHANGED blobs /\ uploads' = [uploads EXCEPT ![a] = u]
  BY DEF publish_batch
<1>0. 0 \in 0 .. MaxVersion
  BY ScenariosAssumption
<1>5. u \in Uploads /\ u.key = old.key /\ u.status = "completed"
  BY <1>0, <1>1 DEF Uploads
<1> HIDE DEF u
<1>6. uploads' \in [Artifacts -> Uploads] /\ uploads'[a] = u
      /\ \A b \in Artifacts : b # a => uploads'[b] = uploads[b]
  BY <1>4, <1>5 DEF StoreInv, StoreTypes
<1>7. \/ manifest' = manifest /\ changes' = changes /\ replicas' = stored
      \/ /\ manifest' = manifest \/ manifest' = [version |-> a.src.version, artifact |-> a]
         /\ manifest' = manifest => a.src.version <= manifest.version
         /\ manifest' # manifest => manifest.version < a.src.version
         /\ changes' = Append(changes, entry)
         /\ replicas' = orphan_others(stored, changes', manifest'.artifact)
  BY <1>3 DEF publish_batch, newer_manifest
<1>8. manifest' \in [version : 0 .. MaxVersion, artifact : Artifacts \cup {None}]
  BY <1>3, <1>7 DEF StoreInv, StoreTypes
<1>9. \/ manifest' = manifest
      \/ manifest' = [version |-> a.src.version, artifact |-> a] /\ manifest.version < a.src.version
  BY <1>7
<1>10. manifest'.version \in Nat /\ manifest.version <= manifest'.version
  BY <1>3, <1>8, <1>9
<1>11. entry \in [artifact : Artifacts, version : 1 .. MaxVersion]
  BY <1>3
<1>12. changes \in Seq([artifact : Artifacts, version : 1 .. MaxVersion]) /\ Len(changes) \in Nat
       /\ \A i \in 1 .. Len(changes) : changes[i] \in [artifact : Artifacts, version : 1 .. MaxVersion]
  BY LenProperties, ElementOfSeq DEF StoreInv, StoreTypes
<1>13. changes' \in Seq([artifact : Artifacts, version : 1 .. MaxVersion])
  <2>1. CASE changes' = changes
    BY <1>12, <2>1
  <2>2. CASE changes' = Append(changes, entry)
    <3> HIDE DEF entry
    <3> QED
      BY <1>11, <1>12, <2>2, AppendProperties
  <2> QED
    BY <1>7, <2>1, <2>2
<1>14. /\ Len(changes) <= Len(changes') /\ Len(changes') \in Nat
       /\ \A i \in 1 .. Len(changes) : changes'[i] = changes[i]
       /\ \A i \in 1 .. Len(changes') : i \in 1 .. Len(changes) \/ (changes'[i] = entry /\ changes' # changes)
  <2>1. CASE changes' = changes
    BY <1>12, <2>1
  <2>2. CASE changes' = Append(changes, entry)
    <3>1. Len(changes') = Len(changes) + 1 /\ changes'[Len(changes) + 1] = entry
          /\ \A i \in 1 .. Len(changes) : changes'[i] = changes[i]
      BY <1>11, <1>12, <2>2, AppendProperties
    <3>2. changes' # changes
      BY <1>12, <3>1
    <3> HIDE DEF entry
    <3> QED
      BY <1>12, <3>1, <3>2
  <2> QED
    BY <1>7, <2>1, <2>2
<1>15. changes' # changes => a.src.version <= manifest'.version
  BY <1>3, <1>7
<1>16. Logged'
  <2> SUFFICES ASSUME NEW i \in 1 .. Len(changes')
               PROVE  changes'[i].version = changes'[i].artifact.src.version /\ changes'[i].version <= manifest'.version
    BY DEF Logged
  <2>1. CASE i \in 1 .. Len(changes)
    <3>1. changes[i].version = changes[i].artifact.src.version /\ changes[i].version <= manifest.version
          /\ changes[i].version \in Nat
      BY <1>12, <2>1 DEF StoreInv, Logged
    <3> QED
      BY <1>3, <1>10, <1>14, <2>1, <3>1
  <2>2. CASE changes'[i] = entry /\ changes' # changes
    BY <1>15, <2>2
  <2> QED
    BY <1>14, <2>1, <2>2
<1>17. stored \in [Artifacts -> Replicas] /\ stored[a] = mine
       /\ \A b \in Artifacts : b # a => stored[b] = replicas[b]
  <2>1. mine \in Replicas
    BY <1>1 DEF Replicas
  <2> HIDE DEF mine
  <2> QED
    BY <2>1 DEF StoreInv, StoreTypes
<1>18. \A b \in Artifacts :
         \/ replicas'[b] = stored[b]
         \/ /\ replicas'[b] = [stored[b] EXCEPT !.orphaned = TRUE, !.claimed = FALSE]
            /\ \E i \in DOMAIN changes' : changes'[i].artifact = b
  <2> HIDE DEF stored
  <2> QED
    BY <1>7 DEF orphan_others
<1>19. replicas' \in [Artifacts -> Replicas]
  <2>1. CASE replicas' = stored
    BY <1>17, <2>1
  <2>2. CASE replicas' = orphan_others(stored, changes', manifest'.artifact)
    <3>1. \A b \in Artifacts : [stored[b] EXCEPT !.orphaned = TRUE, !.claimed = FALSE] \in Replicas
      <4> SUFFICES ASSUME NEW b \in Artifacts PROVE [stored[b] EXCEPT !.orphaned = TRUE, !.claimed = FALSE] \in Replicas
        OBVIOUS
      <4>1. stored[b] \in Replicas
        BY <1>17
      <4> HIDE DEF stored
      <4> QED
        BY <4>1 DEF Replicas
    <3> HIDE DEF stored
    <3> QED
      BY <1>17, <2>2, <3>1 DEF orphan_others
  <2> QED
    BY <1>7, <2>1, <2>2
<1>20. \A b \in Artifacts : replicas'[b].status = stored[b].status /\ replicas'[b].key = stored[b].key
  <2> SUFFICES ASSUME NEW b \in Artifacts
               PROVE  replicas'[b].status = stored[b].status /\ replicas'[b].key = stored[b].key
    OBVIOUS
  <2>1. stored[b] \in Replicas
    BY <1>17
  <2> HIDE DEF stored
  <2> QED
    BY <1>18, <2>1 DEF Replicas
<1>21. /\ replicas'[a].status = "ready" /\ replicas'[a].key = old.key
       /\ \A b \in Artifacts : b # a => replicas'[b].status = replicas[b].status /\ replicas'[b].key = replicas[b].key
  BY <1>17, <1>20
<1> HIDE DEF stored, mine
<1>22. \A b \in Artifacts : replicas'[b].orphaned => b.src.version <= manifest'.version
  <2> SUFFICES ASSUME NEW b \in Artifacts, replicas'[b].orphaned PROVE b.src.version <= manifest'.version
    OBVIOUS
  <2>0. b.src.version \in Nat
    BY Versions
  <2>1. CASE replicas'[b] = stored[b]
    <3>1. stored[b].orphaned /\ b # a
      BY <1>17, <2>1 DEF mine
    <3>2. replicas[b].orphaned
      BY <1>17, <3>1
    <3>3. b.src.version <= manifest.version
      BY <3>2 DEF StoreInv, Superseded
    <3> QED
      BY <1>3, <1>10, <2>0, <3>3
  <2>2. CASE \E i \in DOMAIN changes' : changes'[i].artifact = b
    <3>1. PICK i \in DOMAIN changes' : changes'[i].artifact = b
      BY <2>2
    <3>2. i \in 1 .. Len(changes')
      BY <1>13, <3>1
    <3> QED
      BY <1>16, <3>1, <3>2 DEF Logged
  <2> QED
    BY <1>18, <2>1, <2>2
<1>23. ManifestCurrent'
  <2> SUFFICES ASSUME manifest'.version > 0
               PROVE  /\ manifest'.artifact \in Artifacts
                      /\ manifest'.artifact.src.version = manifest'.version
                      /\ replicas'[manifest'.artifact].status = "ready"
                      /\ <<manifest'.artifact, replicas'[manifest'.artifact].key>> \in blobs
    BY <1>4 DEF ManifestCurrent, Available, Ready
  <2>1. CASE manifest' = manifest
    <3>1. /\ manifest.artifact \in Artifacts /\ manifest.artifact.src.version = manifest.version
          /\ replicas[manifest.artifact].status = "ready"
          /\ <<manifest.artifact, replicas[manifest.artifact].key>> \in blobs
      BY <2>1 DEF StoreInv, ManifestCurrent, Available, Ready
    <3> QED
      BY <1>2, <1>21, <2>1, <3>1
  <2>2. CASE manifest' = [version |-> a.src.version, artifact |-> a]
    BY <1>2, <1>21, <2>2
  <2> QED
    BY <1>9, <2>1, <2>2
<1>24. Keyed'
  <2> SUFFICES ASSUME NEW b \in Artifacts
               PROVE  /\ replicas'[b].key <= uploads'[b].key
                      /\ uploads'[b].status \in Open => replicas'[b].key < uploads'[b].key
                      /\ uploads'[b].status \in {"claimed", "read"} => <<b, uploads'[b].key>> \in blobs
    BY <1>4 DEF Keyed
  <2>1. CASE b = a
    BY <1>1, <1>5, <1>6, <1>21, <2>1 DEF Open
  <2>2. CASE b # a
    BY <1>6, <1>21, <2>2 DEF StoreInv, Keyed
  <2> QED
    BY <2>1, <2>2
<1>25. Superseded'
  <2> SUFFICES ASSUME gc # None
               PROVE  /\ gc.artifact # manifest'.artifact /\ gc.artifact.src.version <= manifest'.version
                      /\ gc.key <= replicas'[gc.artifact].key
    BY <1>22 DEF Superseded
  <2>1. /\ gc.artifact # manifest.artifact /\ gc.artifact.src.version <= manifest.version
        /\ gc.key <= replicas[gc.artifact].key /\ gc.artifact \in Artifacts /\ gc.key \in Nat
    BY DEF StoreInv, Superseded, StoreTypes
  <2>2. gc.artifact.src.version \in Nat
    BY <2>1, Versions
  <2>3. gc.artifact # manifest'.artifact
    <3>1. CASE manifest' = manifest
      BY <2>1, <3>1
    <3>2. CASE manifest' = [version |-> a.src.version, artifact |-> a] /\ manifest.version < a.src.version
      <4>1. gc.artifact # a
        BY <1>3, <2>1, <2>2, <3>2
      <4> QED
        BY <3>2, <4>1
    <3> QED
      BY <1>9, <3>1, <3>2
  <2>4. gc.artifact.src.version <= manifest'.version
    BY <1>3, <1>10, <2>1, <2>2
  <2>5. gc.key <= replicas'[gc.artifact].key
    BY <1>1, <1>2, <1>21, <2>1
  <2> QED
    BY <2>3, <2>4, <2>5
<1>26. StoreTypes'
  BY <1>6, <1>8, <1>13, <1>19 DEF StoreInv, StoreTypes
<1>27. Kept
  <2>1. VersionStays
    BY <1>3, <1>9, <1>10 DEF VersionStays
  <2>2. \A b \in Artifacts : replicas[b].status # "none" => replicas'[b].status # "none"
    BY <1>21
  <2> QED
    BY <1>14, <2>1, <2>2 DEF Kept
<1> QED
  BY <1>16, <1>23, <1>24, <1>25, <1>26, <1>27 DEF StoreInv

(* The collection of what has been superseded.                             *)
LEMMA Collection ==
  ASSUME StoreInv,
         (\E a \in Artifacts : claim_orphan(a)) \/ delete_orphan \/ finish_orphan \/ collection_ends
  PROVE  StoreInv' /\ Kept
<1>0. /\ Len(changes) \in Nat /\ manifest.version \in Nat
      /\ \A a \in Artifacts : replicas[a] \in Replicas /\ uploads[a].key \in Nat /\ replicas[a].key \in Nat
  BY ScenariosAssumption, LenProperties DEF StoreInv, StoreTypes, Replicas, Uploads
<1>1. ASSUME NEW a \in Artifacts, claim_orphan(a) PROVE StoreInv' /\ Kept
  <2> DEFINE r == [replicas[a] EXCEPT !.claimed = TRUE]
             job == [artifact |-> a, key |-> replicas[a].key, deleted |-> FALSE]
  <2>1. /\ UNCHANGED <<manifest, uploads, blobs, changes>>
        /\ replicas' = [replicas EXCEPT ![a] = r] /\ gc' = job
        /\ replicas[a].orphaned /\ manifest.artifact # a
    BY <1>1 DEF claim_orphan, Collectable
  <2>2. r \in Replicas /\ r.key = replicas[a].key /\ r.status = replicas[a].status /\ r.orphaned = replicas[a].orphaned
    BY <1>0 DEF Replicas
  <2> HIDE DEF r
  <2>3. replicas' \in [Artifacts -> Replicas]
        /\ \A b \in Artifacts : /\ replicas'[b].key = replicas[b].key /\ replicas'[b].status = replicas[b].status
                                /\ replicas'[b].orphaned = replicas[b].orphaned
    BY <2>1, <2>2 DEF StoreInv, StoreTypes
  <2>4. gc' \in [artifact : Artifacts, key : Nat, deleted : BOOLEAN]
    BY <1>0, <2>1
  <2>5. StoreTypes'
    BY <2>1, <2>3, <2>4 DEF StoreInv, StoreTypes
  <2>6. ManifestCurrent'
    BY <2>1, <2>3 DEF StoreInv, ManifestCurrent, Available, Ready
  <2>7. Logged' /\ Keyed'
    BY <2>1, <2>3 DEF StoreInv, Logged, Keyed
  <2>8. Superseded'
    BY <1>0, <2>1, <2>3 DEF StoreInv, Superseded
  <2>9. Kept
    BY <1>0, <2>1, <2>3 DEF Kept, VersionStays
  <2> QED
    BY <2>5, <2>6, <2>7, <2>8, <2>9 DEF StoreInv
<1>2. CASE delete_orphan
  <2>1. /\ UNCHANGED <<manifest, replicas, uploads, changes>>
        /\ blobs' = blobs \ {<<gc.artifact, gc.key>>} /\ gc' = [gc EXCEPT !.deleted = TRUE] /\ gc # None
    BY <1>2 DEF delete_orphan
  <2>2. /\ gc \in [artifact : Artifacts, key : Nat, deleted : BOOLEAN] /\ gc.artifact \in Artifacts /\ gc.key \in Nat
        /\ gc.artifact # manifest.artifact /\ gc.artifact.src.version <= manifest.version
        /\ gc.key <= replicas[gc.artifact].key
    BY <2>1 DEF StoreInv, StoreTypes, Superseded
  <2>3. gc' \in [artifact : Artifacts, key : Nat, deleted : BOOLEAN] /\ gc'.artifact = gc.artifact /\ gc'.key = gc.key
    BY <2>1, <2>2
  <2>4. StoreTypes'
    BY <2>1, <2>3 DEF StoreInv, StoreTypes
  <2>5. ManifestCurrent'
    <3> SUFFICES ASSUME manifest.version > 0
                 PROVE  <<manifest.artifact, replicas[manifest.artifact].key>> \in blobs'
      BY <2>1 DEF StoreInv, ManifestCurrent, Available, Ready
    <3>1. <<manifest.artifact, replicas[manifest.artifact].key>> \in blobs
      BY DEF StoreInv, ManifestCurrent, Available
    <3> QED
      BY <2>1, <2>2, <3>1
  <2>6. Logged' /\ Superseded'
    BY <2>1, <2>2, <2>3 DEF StoreInv, Logged, Superseded
  <2>7. Keyed'
    <3> SUFFICES ASSUME NEW b \in Artifacts, uploads[b].status \in {"claimed", "read"}
                 PROVE  <<b, uploads[b].key>> \in blobs'
      BY <2>1 DEF StoreInv, Keyed
    <3>1. <<b, uploads[b].key>> \in blobs /\ replicas[b].key < uploads[b].key
      BY DEF StoreInv, Keyed, Open
    <3>2. b = gc.artifact => gc.key # uploads[b].key
      BY <1>0, <2>2, <3>1
    <3> QED
      BY <2>1, <3>1, <3>2
  <2>8. Kept
    BY <1>0, <2>1 DEF Kept, VersionStays
  <2> QED
    BY <2>4, <2>5, <2>6, <2>7, <2>8 DEF StoreInv
<1>3. CASE finish_orphan
  <2> DEFINE a == gc.artifact
             r == [replicas[a] EXCEPT !.status = "deleted", !.claimed = FALSE]
  <2>1. /\ UNCHANGED <<manifest, uploads, blobs, changes>> /\ gc # None /\ gc' = None
        /\ replicas' = replicas \/ (replicas' = [replicas EXCEPT ![a] = r] /\ Ready(a))
    BY <1>3 DEF finish_orphan, Collectable
  <2>2. a \in Artifacts /\ a # manifest.artifact
    BY <2>1 DEF StoreInv, StoreTypes, Superseded
  <2>3. r \in Replicas /\ r.key = replicas[a].key /\ r.status = "deleted" /\ r.orphaned = replicas[a].orphaned
    BY <1>0, <2>2 DEF Replicas
  <2> HIDE DEF r, a
  <2>4. replicas' \in [Artifacts -> Replicas]
        /\ \A b \in Artifacts : /\ replicas'[b].key = replicas[b].key /\ replicas'[b].orphaned = replicas[b].orphaned
                                /\ b # a => replicas'[b].status = replicas[b].status
                                /\ replicas[b].status # "none" => replicas'[b].status # "none"
    BY <2>1, <2>2, <2>3 DEF StoreInv, StoreTypes
  <2>5. StoreTypes'
    BY <2>1, <2>4 DEF StoreInv, StoreTypes
  <2>6. ManifestCurrent'
    BY <2>1, <2>2, <2>4 DEF StoreInv, ManifestCurrent, Available, Ready
  <2>7. Logged' /\ Keyed' /\ Superseded'
    BY <2>1, <2>4 DEF StoreInv, Logged, Keyed, Superseded
  <2>8. Kept
    BY <1>0, <2>1, <2>4 DEF Kept, VersionStays
  <2> QED
    BY <2>5, <2>6, <2>7, <2>8 DEF StoreInv
<1>4. CASE collection_ends
  <2>1. UNCHANGED <<manifest, replicas, uploads, blobs, changes>> /\ gc' = None
    BY <1>4 DEF collection_ends, storeVars
  <2>2. StoreTypes' /\ ManifestCurrent' /\ Logged' /\ Keyed' /\ Superseded'
    BY <2>1 DEF StoreInv, StoreTypes, ManifestCurrent, Available, Ready, Logged, Keyed, Superseded
  <2>3. Kept
    BY <1>0, <2>1 DEF Kept, VersionStays
  <2> QED
    BY <2>2, <2>3 DEF StoreInv
<1> QED
  BY <1>1, <1>2, <1>3, <1>4

(* Every step keeps the store in order and takes back nothing of it.       *)
LEMMA StoreStep ==
  ASSUME IInv, ObjectsNext
  PROVE  StoreInv' /\ Kept
<1>0. StoreInv
  BY DEF IInv, StoreInv
<1>1. ASSUME NEW a \in Artifacts, StoreWrite(a) PROVE StoreInv' /\ Kept
  <2>1. CASE claim_orphan(a)
    BY <1>0, <2>1, Collection
  <2>2. CASE read_current(a) /\ UNCHANGED gc
    BY <1>0, <2>2, ReadCurrent
  <2>3. CASE publish_batch(a) /\ UNCHANGED gc
    BY <1>0, <2>3, Published
  <2> QED
    BY <1>0, <1>1, <2>1, <2>2, <2>3, Sessions DEF StoreWrite
<1>2. CASE StoreSame
  <2>1. StoreTypes' /\ ManifestCurrent' /\ Logged' /\ Keyed' /\ Superseded'
    BY <1>0, <1>2 DEF StoreSame, StoreInv, StoreTypes, ManifestCurrent, Available, Ready, Logged, Keyed, Superseded
  <2>2. Len(changes) \in Nat /\ manifest.version \in Nat
    BY <1>0, ScenariosAssumption, LenProperties DEF StoreInv, StoreTypes
  <2>3. Kept
    BY <1>2, <2>2 DEF StoreSame, Kept, VersionStays
  <2> QED
    BY <2>1, <2>3 DEF StoreInv
<1> QED
  BY <1>0, <1>1, <1>2, StoreSteps, Collection

-----------------------------------------------------------------------------
(***************************************************************************)
(* The devices: what a step can do to each of their variables.             *)
(***************************************************************************)

Manifests == [Devices -> [Artifacts -> RowRecords]]

WithRow(d, a, row) == rows' = [rows EXCEPT ![d][a] = row]

(* What writing one row does to the table of artifacts.                    *)
LEMMA RowWritten ==
  ASSUME rows \in Manifests, NEW d \in Devices, NEW a \in Artifacts, NEW row \in RowRecords,
         WithRow(d, a, row)
  PROVE  /\ rows' \in Manifests /\ rows'[d][a] = row
         /\ \A e \in Devices, b \in Artifacts : e # d \/ b # a => rows'[e][b] = rows[e][b]
<1> DEFINE line == [rows[d] EXCEPT ![a] = row]
<1>1. line \in [Artifacts -> RowRecords] /\ line[a] = row /\ \A b \in Artifacts : b # a => line[b] = rows[d][b]
  BY DEF Manifests
<1>2. rows' = [rows EXCEPT ![d] = line]
  BY DEF WithRow
<1> HIDE DEF line
<1> QED
  BY <1>1, <1>2 DEF Manifests

(* upsert_manifest keeps "installed", and a path unless given another.     *)
LEMMA Upserted ==
  ASSUME NEW row \in RowRecords, NEW path \in Places, NEW status \in {"built", "available", "installed"}
  PROVE  LET new == upsert_manifest(row, path, status) IN
         /\ new \in RowRecords /\ new.status # "none"
         /\ row.status = "installed" \/ status = "installed" => new.status = "installed"
         /\ new.path = IF path = "none" THEN row.path ELSE path
BY DEF upsert_manifest, RowRecords, Places

(* A row is written for a recorded artifact or for the first of its source *)
(* (~FingerprintTaken); what it says about a local copy is true.           *)
RowFor(d, a, row) ==
    /\ row \in RowRecords /\ row.status # "none"
    /\ Recorded(d, a) \/ ~FingerprintTaken(d, a)
    /\ rows[d][a].status = "installed" => row.status = "installed"
    /\ row.path = "outbox" => a.builder = d
    /\ row.path # "install" => a \in ready[d] \/ (row.path = "outbox" /\ <<"outbox", a>> \in files[d])

RowsEffect == \E d \in Devices, a \in Artifacts, row \in RowRecords :
                  WithRow(d, a, row) /\ RowFor(d, a, row)

(* Every step that writes a row writes one that RowFor allows.             *)
LEMMA RowsStep ==
  ASSUME IInv, ObjectsNext
  PROVE  UNCHANGED rows \/ RowsEffect
<1>0. /\ scenario \in Scenarios /\ rows \in Manifests
      /\ pub \in [Devices -> Pubs] /\ rep \in [Devices -> Reps] /\ clean \in [Devices -> Cleans]
      /\ Publishing /\ Replicating /\ Cleaning /\ Rowed /\ PublicationRetryable
  BY DEF IInv, DeviceTypes, Manifests
<1>1. ASSUME NEW d \in Devices, record_built(d) PROVE UNCHANGED rows \/ RowsEffect
  <2> DEFINE a == pub[d].a
             row == upsert_manifest(rows[d][a], "outbox", "built")
  <2>1. a \in Artifacts /\ a.builder = d /\ (a \in ready[d] \/ <<"outbox", a>> \in files[d])
    BY <1>0, <1>1 DEF Publishing, InPublication, record_built
  <2>2. rows[d][a] \in RowRecords
    BY <1>0, <2>1 DEF Manifests
  <2>3. /\ row \in RowRecords /\ row.status # "none" /\ row.path = "outbox"
        /\ rows[d][a].status = "installed" => row.status = "installed"
    BY <2>2, Upserted DEF Places
  <2>4. UNCHANGED rows \/ (~FingerprintTaken(d, a) /\ rows' = [rows EXCEPT ![d][a] = row])
    BY <1>1 DEF record_built
  <2> HIDE DEF row
  <2> QED
    BY <2>1, <2>3, <2>4 DEF RowsEffect, RowFor, WithRow
<1>2. ASSUME NEW d \in Devices, begin_upload(d) PROVE RowsEffect
  <2> DEFINE a == pub[d].a
             row == upsert_manifest(rows[d][a], "none", "available")
  <2>1. a \in Artifacts /\ a.builder = d /\ Recorded(d, a)
    BY <1>0, <1>2 DEF Publishing, InPublication, begin_upload
  <2>2. rows[d][a] \in RowRecords
    BY <1>0, <2>1 DEF Manifests
  <2>3. /\ row \in RowRecords /\ row.status # "none" /\ row.path = rows[d][a].path
        /\ rows[d][a].status = "installed" => row.status = "installed"
    BY <2>2, Upserted DEF Places
  <2>4. rows' = [rows EXCEPT ![d][a] = row]
    BY <1>2 DEF begin_upload
  <2>5. row.path # "install" => a \in ready[d] \/ (row.path = "outbox" /\ <<"outbox", a>> \in files[d])
    BY <1>0, <2>1, <2>3 DEF PublicationRetryable, Recorded
  <2> HIDE DEF row
  <2> QED
    BY <2>1, <2>3, <2>4, <2>5 DEF RowsEffect, RowFor, WithRow
<1>3. ASSUME NEW d \in Devices, record_published(d) PROVE RowsEffect
  <2> DEFINE a == pub[d].a
             row == upsert_manifest(rows[d][a], pub[d].path, "installed")
  <2>1. a \in Artifacts /\ a \in ready[d] /\ Recorded(d, a) /\ (pub[d].path = "outbox" => a.builder = d)
    BY <1>0, <1>3 DEF Publishing, InPublication, record_published
  <2>2. rows[d][a] \in RowRecords /\ pub[d].path \in Places
    BY <1>0, <2>1 DEF Manifests, Pubs
  <2>3. /\ row \in RowRecords /\ row.status = "installed"
        /\ row.path = IF pub[d].path = "none" THEN rows[d][a].path ELSE pub[d].path
    BY <2>2, Upserted
  <2>4. rows' = [rows EXCEPT ![d][a] = row]
    BY <1>3 DEF record_published
  <2>5. row.path = "outbox" => a.builder = d
    BY <1>0, <2>1, <2>3 DEF Rowed
  <2> HIDE DEF row
  <2> QED
    BY <2>1, <2>3, <2>4, <2>5 DEF RowsEffect, RowFor, WithRow
<1>4. ASSUME NEW d \in Devices, record_installed(d) PROVE RowsEffect
  <2> DEFINE a == rep[d].a
             row == upsert_manifest(rows[d][a], "install", "installed")
  <2>1. a \in Artifacts
    BY <1>0, <1>4 DEF Replicating, InReplication, record_installed, Fetching
  <2>2. rows[d][a] \in RowRecords
    BY <1>0, <2>1 DEF Manifests
  <2>3. row \in RowRecords /\ row.status = "installed" /\ row.path = "install"
    BY <2>2, Upserted DEF Places
  <2>4. ~FingerprintTaken(d, a) /\ rows' = [rows EXCEPT ![d][a] = row]
    BY <1>4 DEF record_installed
  <2> HIDE DEF row
  <2> QED
    BY <2>1, <2>3, <2>4 DEF RowsEffect, RowFor, WithRow
<1>5. ASSUME NEW d \in Devices, reconcile_record(d) PROVE UNCHANGED rows \/ RowsEffect
  <2> DEFINE a == clean[d].at.a
             row == [rows[d][a] EXCEPT !.path = "none"]
  <2>1. a \in Artifacts /\ a \in ready[d] /\ Recorded(d, a)
    BY <1>0, <1>5 DEF Cleaning, InCleanup, reconcile_record, Rowed, Candidates
  <2>2. rows[d][a] \in RowRecords
    BY <1>0, <2>1 DEF Manifests
  <2>3. row \in RowRecords /\ row.status = rows[d][a].status /\ row.path = "none"
    BY <2>2 DEF RowRecords, Places
  <2>4. UNCHANGED rows \/ rows' = [rows EXCEPT ![d][a].path = "none"]
    BY <1>5 DEF reconcile_record, clear_local_path
  <2>5. UNCHANGED rows \/ rows' = [rows EXCEPT ![d][a] = row]
    BY <2>4
  <2> HIDE DEF row
  <2> QED
    BY <2>1, <2>3, <2>5 DEF RowsEffect, RowFor, WithRow, Recorded
<1>6. CASE Gateway
  BY <1>6 DEF Gateway, deviceVars
<1>7. ASSUME NEW d \in Devices, Publication(d) PROVE UNCHANGED rows \/ RowsEffect
  BY <1>1, <1>2, <1>3, <1>7 DEF Publication, prepare_publication, upload_chunk, complete_upload,
     await_completion, abort_upload, stat_object, report_installed_object
<1>8. ASSUME NEW d \in Devices, Replication(d) PROVE UNCHANGED rows \/ RowsEffect
  BY <1>4, <1>8 DEF Replication, list_object_changes, replicate_change, replication_fails, download_artifact,
     install_artifact, import_artifact, record_replica, report_state, advance_object_cursor
<1>9. ASSUME NEW d \in Devices, Cleanup(d) \/ DeviceRest(d) PROVE UNCHANGED rows \/ RowsEffect
  BY <1>5, <1>9 DEF Cleanup, list_candidates, remove_candidate, finish_gc, DeviceRest, import_version, entity_arrives, crash
<1> QED
  BY <1>0, <1>6, <1>7, <1>8, <1>9, Steps

(* The replica of an artifact is recorded when it has been in the store.   *)
LEMMA ReadyStep ==
  ASSUME IInv, ObjectsNext
  PROVE  \/ UNCHANGED ready
         \/ \E d \in Devices, a \in Artifacts :
               ready' = [ready EXCEPT ![d] = @ \cup {a}] /\ Recorded(d, a) /\ replicas[a].status # "none"
<1> DEFINE Goal == \/ UNCHANGED ready
                   \/ \E d \in Devices, a \in Artifacts :
                         ready' = [ready EXCEPT ![d] = @ \cup {a}] /\ Recorded(d, a) /\ replicas[a].status # "none"
<1>0. scenario \in Scenarios /\ Publishing /\ Replicating
  BY DEF IInv, DeviceTypes
<1>1. ASSUME NEW d \in Devices, stat_object(d) PROVE Goal
  <2>1. pub[d].a \in Artifacts /\ Recorded(d, pub[d].a)
    BY <1>0, <1>1 DEF Publishing, InPublication, stat_object
  <2>2. UNCHANGED ready \/ (Available(pub[d].a) /\ ready' = [ready EXCEPT ![d] = @ \cup {pub[d].a}])
    BY <1>1 DEF stat_object
  <2> QED
    BY <2>1, <2>2 DEF Available, Ready
<1>2. ASSUME NEW d \in Devices, record_replica(d) PROVE Goal
  <2>1. rep[d].a \in Artifacts /\ rows[d][rep[d].a].status = "installed" /\ replicas[rep[d].a].status # "none"
    BY <1>0, <1>2 DEF Replicating, InReplication, record_replica, Fetching
  <2>2. ready' = [ready EXCEPT ![d] = @ \cup {rep[d].a}]
    BY <1>2 DEF record_replica
  <2> QED
    BY <2>1, <2>2 DEF Recorded
<1>3. CASE Gateway
  BY <1>3 DEF Gateway, deviceVars
<1>4. ASSUME NEW d \in Devices, Publication(d) PROVE Goal
  BY <1>1, <1>4 DEF Publication, prepare_publication, record_built, begin_upload, upload_chunk, complete_upload,
     await_completion, abort_upload, record_published, report_installed_object
<1>5. ASSUME NEW d \in Devices, Replication(d) PROVE Goal
  BY <1>2, <1>5 DEF Replication, list_object_changes, replicate_change, replication_fails, download_artifact,
     install_artifact, import_artifact, record_installed, report_state, advance_object_cursor
<1>6. ASSUME NEW d \in Devices, Cleanup(d) \/ DeviceRest(d) PROVE UNCHANGED ready
  BY <1>6 DEF Cleanup, list_candidates, remove_candidate, reconcile_record, finish_gc, cleanSame,
     DeviceRest, import_version, entity_arrives, crash
<1> QED
  BY <1>0, <1>3, <1>4, <1>5, <1>6, Steps

(* Only the cleanup removes files, and only of artifacts with a replica.   *)
LEMMA FilesStep ==
  ASSUME IInv, ObjectsNext
  PROVE  /\ files' \in [Devices -> SUBSET ({"outbox", "install"} \X Artifacts)]
         /\ \A d \in Devices, a \in Artifacts :
               <<"outbox", a>> \in files[d] => <<"outbox", a>> \in files'[d] \/ a \in ready[d]
<1> DEFINE Kind == {"outbox", "install"} \X Artifacts
           Goal == /\ files' \in [Devices -> SUBSET Kind]
                   /\ \A d \in Devices, a \in Artifacts :
                         <<"outbox", a>> \in files[d] => <<"outbox", a>> \in files'[d] \/ a \in ready[d]
<1>0. scenario \in Scenarios /\ Publishing /\ Replicating /\ Cleaning
      /\ files \in [Devices -> SUBSET Kind] /\ clean \in [Devices -> Cleans]
  BY DEF IInv, DeviceTypes
<1>1. ASSUME NEW d \in Devices, NEW f \in Kind, files' = [files EXCEPT ![d] = @ \cup {f}] PROVE Goal
  <2> HIDE DEF Kind
  <2>1. files' \in [Devices -> SUBSET Kind]
    BY <1>0, <1>1
  <2> QED
    BY <1>0, <1>1, <2>1
<1>2. ASSUME NEW d \in Devices, prepare_publication(d) PROVE Goal
  <2>1. UNCHANGED files \/ \E a \in Artifacts : files' = [files EXCEPT ![d] = @ \cup {<<"outbox", a>>}]
    BY <1>2 DEF prepare_publication, NewBuild
  <2> QED
    BY <1>0, <1>1, <2>1
<1>3. ASSUME NEW d \in Devices, install_artifact(d) PROVE Goal
  <2>1. rep[d].a \in Artifacts
    BY <1>0, <1>3 DEF Replicating, InReplication, install_artifact, Fetching
  <2>2. files' = [files EXCEPT ![d] = @ \cup {<<"install", rep[d].a>>}]
    BY <1>3 DEF install_artifact
  <2>3. <<"install", rep[d].a>> \in Kind
    BY <2>1
  <2> HIDE DEF Kind
  <2> QED
    BY <1>1, <2>2, <2>3
<1>4. ASSUME NEW d \in Devices, remove_candidate(d) PROVE Goal
  <2>1. PICK c \in clean[d].todo : UNCHANGED files \/ files' = [files EXCEPT ![d] = @ \ {<<c.path, c.a>>}]
    BY <1>4 DEF remove_candidate
  <2>2. c.a \in ready[d]
    BY <1>0 DEF Cleaning, InCleanup
  <2>3. CASE files' = [files EXCEPT ![d] = @ \ {<<c.path, c.a>>}]
    <3>1. files' \in [Devices -> SUBSET Kind]
      <4> HIDE DEF Kind
      <4> QED
        BY <1>0, <2>3
    <3>2. ASSUME NEW e \in Devices, NEW a \in Artifacts, <<"outbox", a>> \in files[e]
          PROVE  <<"outbox", a>> \in files'[e] \/ a \in ready[e]
      <4>1. CASE e = d /\ a = c.a
        BY <2>2, <4>1
      <4>2. CASE ~(e = d /\ a = c.a)
        BY <1>0, <2>3, <3>2, <4>2
      <4> QED
        BY <4>1, <4>2
    <3> QED
      BY <3>1, <3>2
  <2> QED
    BY <1>0, <2>1, <2>3
<1>5. ASSUME UNCHANGED files PROVE Goal
  BY <1>0, <1>5
<1> HIDE DEF Goal
<1>6. ASSUME Gateway PROVE Goal
  BY <1>5, <1>6 DEF Gateway, deviceVars
<1>7. ASSUME NEW d \in Devices, Publication(d) PROVE Goal
  BY <1>2, <1>5, <1>7 DEF Publication, record_built, begin_upload, upload_chunk, complete_upload,
     await_completion, abort_upload, stat_object, record_published, report_installed_object
<1>8. ASSUME NEW d \in Devices, Replication(d) PROVE Goal
  BY <1>3, <1>5, <1>8 DEF Replication, list_object_changes, replicate_change, replication_fails, download_artifact,
     import_artifact, record_installed, record_replica, report_state, advance_object_cursor
<1>9. ASSUME NEW d \in Devices, Cleanup(d) \/ DeviceRest(d) PROVE Goal
  BY <1>4, <1>5, <1>9 DEF Cleanup, list_candidates, reconcile_record, finish_gc, DeviceRest, import_version, entity_arrives, crash
<1>10. Goal
  BY <1>0, <1>6, <1>7, <1>8, <1>9, Steps
<1> QED
  BY <1>10 DEF Goal

(* A session is opened by the builder of the artifact, which has its row.  *)
LEMMA KeysStep ==
  ASSUME IInv, ObjectsNext, NEW a \in Artifacts, uploads'[a].key > 0
  PROVE  uploads[a].key > 0 \/ (a.builder \in Devices /\ Recorded(a.builder, a))
<1>0. /\ scenario \in Scenarios /\ Publishing
      /\ uploads \in [Artifacts -> Uploads] /\ uploads[a].key \in Nat
  BY DEF IInv, DeviceTypes, StoreTypes, Uploads
<1>1. ASSUME uploads'[a].key = uploads[a].key PROVE uploads[a].key > 0
  BY <1>1
<1>2. ASSUME UNCHANGED uploads PROVE uploads[a].key > 0
  BY <1>2
<1>3. ASSUME NEW d \in Devices, begin_upload(d)
      PROVE  uploads[a].key > 0 \/ (a.builder \in Devices /\ Recorded(a.builder, a))
  <2>1. pub[d].a \in Artifacts /\ pub[d].a.builder = d /\ Recorded(d, pub[d].a)
    BY <1>0, <1>3 DEF Publishing, InPublication, begin_upload
  <2>2. UNCHANGED uploads \/ createObjectUpload(pub[d].a)
    BY <1>3 DEF begin_upload, storeVars
  <2>3. uploads'[a] = uploads[a] \/ a = pub[d].a
    BY <1>0, <2>1, <2>2 DEF createObjectUpload
  <2> QED
    BY <2>1, <2>3
<1>4. ASSUME NEW d \in Devices, upload_chunk(d) PROVE uploads[a].key > 0
  <2>1. pub[d].a \in Artifacts /\ pub[d].part \in PartNumbers
    BY <1>0, <1>4 DEF upload_chunk, Publishing, InPublication
  <2>2. UNCHANGED uploads \/ (uploadObjectPart(pub[d].a, pub[d].part) /\ UNCHANGED gc)
    BY <1>4 DEF upload_chunk, storeVars
  <2>3. uploads'[a].key = uploads[a].key
    BY <1>0, <2>1, <2>2 DEF uploadObjectPart, Uploads
  <2> QED
    BY <2>3
<1>5. ASSUME NEW d \in Devices, complete_upload(d) \/ abort_upload(d) PROVE uploads[a].key > 0
  <2>1. pub[d].a \in Artifacts
    BY <1>0, <1>5 DEF complete_upload, abort_upload, Publishing, InPublication
  <2>2. UNCHANGED uploads \/ completeObjectUpload(pub[d].a) \/ abortObjectUpload(pub[d].a)
    BY <1>5 DEF complete_upload, abort_upload, storeVars
  <2>3. uploads'[a].key = uploads[a].key
    <3>1. CASE completeObjectUpload(pub[d].a)
      <4>1. \/ uploads' = [uploads EXCEPT ![pub[d].a].status = "claimed"]
            \/ uploads' = [uploads EXCEPT ![pub[d].a].status = "failed", ![pub[d].a].parts = {}]
        BY <3>1 DEF completeObjectUpload
      <4> QED
        BY <1>0, <2>1, <4>1 DEF Uploads
    <3>2. CASE abortObjectUpload(pub[d].a)
      <4>1. uploads' = [uploads EXCEPT ![pub[d].a].status = "aborted", ![pub[d].a].parts = {}, ![pub[d].a].seen = 0]
        BY <3>2 DEF abortObjectUpload
      <4> QED
        BY <1>0, <2>1, <4>1 DEF Uploads
    <3> QED
      BY <2>2, <3>1, <3>2
  <2> QED
    BY <2>3
<1>6. CASE Gateway
  <2>1. \/ UNCHANGED uploads
        \/ \E b \in Artifacts : read_current(b) \/ publish_batch(b) \/ completion_lost(b) \/ expire_upload(b)
    BY <1>6 DEF Gateway, StoreNext, claim_orphan, delete_orphan, finish_orphan, collection_ends, storeVars
  <2>2. ASSUME NEW b \in Artifacts, read_current(b) \/ publish_batch(b) \/ completion_lost(b) \/ expire_upload(b)
        PROVE  uploads'[a].key = uploads[a].key
    <3>1. CASE publish_batch(b)
      <4>1. uploads' = [uploads EXCEPT ![b].status = "completed", ![b].parts = {}, ![b].seen = 0]
        BY <3>1 DEF publish_batch
      <4> QED
        BY <1>0, <4>1 DEF Uploads
    <3>2. CASE read_current(b) \/ completion_lost(b) \/ expire_upload(b)
      BY <1>0, <3>2 DEF read_current, completion_lost, expire_upload, Uploads
    <3> QED
      BY <2>2, <3>1, <3>2
  <2> QED
    BY <1>1, <2>1, <2>2
<1>7. ASSUME NEW d \in Devices, Publication(d)
      PROVE  uploads[a].key > 0 \/ (a.builder \in Devices /\ Recorded(a.builder, a))
  <2>1. CASE begin_upload(d)
    BY <1>3, <2>1
  <2>2. CASE upload_chunk(d)
    BY <1>4, <2>2
  <2>3. CASE complete_upload(d) \/ abort_upload(d)
    BY <1>5, <2>3
  <2>4. CASE report_installed_object(d)
    BY <1>2, <2>4 DEF report_installed_object, updateObjectState, storeVars
  <2> QED
    BY <1>2, <1>7, <2>1, <2>2, <2>3, <2>4 DEF Publication, prepare_publication, record_built, await_completion,
       stat_object, record_published, storeSame, storeVars
<1>8. ASSUME NEW d \in Devices, Replication(d) PROVE UNCHANGED uploads
  BY <1>8 DEF Replication, list_object_changes, replicate_change, replication_fails, download_artifact,
     install_artifact, import_artifact, record_installed, record_replica, report_state, advance_object_cursor,
     updateObjectState, storeSame, storeVars
<1>9. ASSUME NEW d \in Devices, Cleanup(d) \/ DeviceRest(d) PROVE UNCHANGED uploads
  BY <1>9 DEF Cleanup, list_candidates, remove_candidate, reconcile_record, finish_gc, DeviceRest, import_version,
     entity_arrives, crash, storeSame, storeVars
<1> QED
  BY <1>0, <1>2, <1>6, <1>7, <1>8, <1>9, Steps

(* What a device reports: installed only with the artifact it installed.   *)
StateRecords == [observed : Nat, artifact : Artifacts \cup {None},
                 status : {"none", "incompatible", "missing", "downloading", "failed", "installed"}]
StateFor(d, s) ==
    s.status = "installed" => s.artifact \in Artifacts /\ rows[d][s.artifact].status = "installed"

(* Every report of an installation names an artifact that is installed.    *)
LEMMA StatesStep ==
  ASSUME IInv, ObjectsNext
  PROVE  \/ UNCHANGED states
         \/ \E d \in Devices, s \in StateRecords : states' = [states EXCEPT ![d] = s] /\ StateFor(d, s)
<1> DEFINE Goal == \/ UNCHANGED states
                   \/ \E d \in Devices, s \in StateRecords :
                         states' = [states EXCEPT ![d] = s] /\ StateFor(d, s)
<1>0. scenario \in Scenarios /\ Publishing /\ Replicating /\ StoreTypes /\ MaxVersion \in Nat
  BY ScenariosAssumption DEF IInv, DeviceTypes
<1>1. ASSUME NEW d \in Devices, NEW n \in Nat, NEW a \in Artifacts, rows[d][a].status = "installed",
             updateObjectState(d, n, "installed", a)
      PROVE  Goal
  <2> DEFINE s == [observed |-> n, status |-> "installed", artifact |-> a]
  <2>1. s \in StateRecords /\ StateFor(d, s)
    BY <1>1 DEF StateRecords, StateFor
  <2>2. UNCHANGED states \/ states' = [states EXCEPT ![d] = s]
    BY <1>1 DEF updateObjectState
  <2> HIDE DEF s
  <2> QED
    BY <2>1, <2>2
<1>2. ASSUME NEW d \in Devices, NEW n \in Nat, NEW status \in {"incompatible", "missing", "downloading", "failed"},
             updateObjectState(d, n, status, None)
      PROVE  Goal
  <2> DEFINE s == [observed |-> n, status |-> status, artifact |-> None]
  <2>1. s \in StateRecords /\ StateFor(d, s)
    BY <1>2 DEF StateRecords, StateFor
  <2>2. UNCHANGED states \/ states' = [states EXCEPT ![d] = s]
    BY <1>2 DEF updateObjectState
  <2> HIDE DEF s
  <2> QED
    BY <2>1, <2>2
<1>3. ASSUME UNCHANGED states PROVE Goal
  BY <1>3
<1> HIDE DEF Goal
<1>4. ASSUME NEW d \in Devices, report_installed_object(d) PROVE Goal
  <2>1. pub[d].a \in Artifacts /\ rows[d][pub[d].a].status = "installed"
    BY <1>0, <1>4 DEF Publishing, InPublication, report_installed_object
  <2>2. pub[d].a.src.version \in Nat
    BY <2>1, Versions
  <2>3. UNCHANGED states \/ updateObjectState(d, pub[d].a.src.version, "installed", pub[d].a)
    BY <1>4 DEF report_installed_object, storeVars
  <2> QED
    BY <1>1, <1>3, <2>1, <2>2, <2>3
<1>5. ASSUME NEW d \in Devices, report_state(d) PROVE Goal
  <2>1. rep[d].a \in Artifacts /\ rows[d][rep[d].a].status = "installed"
    BY <1>0, <1>5 DEF Replicating, InReplication, report_state, Fetching
  <2>2. rep[d].a.src.version \in Nat
    BY <2>1, Versions
  <2>3. UNCHANGED states \/ updateObjectState(d, rep[d].a.src.version, "installed", rep[d].a)
    BY <1>5 DEF report_state, storeVars
  <2> QED
    BY <1>1, <1>3, <2>1, <2>2, <2>3
<1>6. ASSUME NEW d \in Devices, replication_fails(d) PROVE Goal
  <2>1. rep[d].a \in Artifacts
    BY <1>0, <1>6 DEF Replicating, InReplication, replication_fails, Fetching
  <2>2. rep[d].a.src.version \in Nat
    BY <2>1, Versions
  <2>3. UNCHANGED states \/ updateObjectState(d, rep[d].a.src.version, "failed", None)
    BY <1>6 DEF replication_fails, storeVars
  <2> QED
    BY <1>2, <1>3, <2>2, <2>3
<1>7. ASSUME NEW d \in Devices, replicate_change(d) PROVE Goal
  <2>1. manifest.version \in Nat
    BY <1>0 DEF StoreTypes
  <2>2. \/ UNCHANGED states
        \/ updateObjectState(d, manifest.version, "incompatible", None)
        \/ updateObjectState(d, manifest.version, "missing", None)
        \/ updateObjectState(d, manifest.version, "downloading", None)
    BY <1>7 DEF replicate_change, storeVars
  <2> QED
    BY <1>2, <1>3, <2>1, <2>2
<1>8. ASSUME Gateway PROVE Goal
  BY <1>3, <1>8 DEF Gateway, StoreNext, read_current, publish_batch, completion_lost, expire_upload, claim_orphan,
     delete_orphan, finish_orphan, collection_ends, storeVars
<1>9. ASSUME NEW d \in Devices, Publication(d) PROVE Goal
  <2>1. CASE report_installed_object(d)
    BY <1>4, <2>1
  <2>2. CASE begin_upload(d) \/ upload_chunk(d) \/ complete_upload(d) \/ abort_upload(d)
    BY <1>3, <2>2 DEF begin_upload, upload_chunk, complete_upload, abort_upload, createObjectUpload,
       uploadObjectPart, completeObjectUpload, abortObjectUpload, storeVars
  <2> QED
    BY <1>3, <1>9, <2>1, <2>2 DEF Publication, prepare_publication, record_built, await_completion,
       stat_object, record_published, storeSame, storeVars
<1>10. ASSUME NEW d \in Devices, Replication(d) PROVE Goal
  BY <1>3, <1>5, <1>6, <1>7, <1>10 DEF Replication, list_object_changes, download_artifact,
     install_artifact, import_artifact, record_installed, record_replica, advance_object_cursor, storeSame, storeVars
<1>11. ASSUME NEW d \in Devices, Cleanup(d) \/ DeviceRest(d) PROVE Goal
  BY <1>3, <1>11 DEF Cleanup, list_candidates, remove_candidate, reconcile_record, finish_gc, DeviceRest, import_version,
     entity_arrives, crash, storeSame, storeVars
<1>12. Goal
  BY <1>0, <1>8, <1>9, <1>10, <1>11, Steps
<1> QED
  BY <1>12 DEF Goal

(* The remaining variables of a device.                                    *)
LEMMA RestStep ==
  ASSUME IInv, ObjectsNext
  PROVE  /\ scenario' = scenario
         /\ doc' \in [Devices -> Sources \cup {NoSource}]
         /\ pointer' \in [Devices -> Artifacts \cup {None}]
         /\ entity' \in [Devices -> BOOLEAN] /\ epub' \in [Devices -> BOOLEAN]
         /\ BooksOnce' /\ DocumentsForward
<1>0. /\ scenario \in Scenarios /\ Replicating /\ BooksOnce
      /\ doc \in [Devices -> Sources \cup {NoSource}] /\ pointer \in [Devices -> Artifacts \cup {None}]
      /\ entity \in [Devices -> BOOLEAN] /\ epub \in [Devices -> BOOLEAN]
  BY DEF IInv, DeviceTypes
<1>1. /\ MaxVersion \in Nat \ {0} /\ kind \in {"knowledge_vectors", "reading_epub"}
      /\ \A s \in Sources : s.version \in Nat /\ s # None
  <2>1. MaxVersion \in Nat \ {0} /\ kind \in {"knowledge_vectors", "reading_epub"}
    BY <1>0, ScenariosAssumption DEF kind
  <2>2. ASSUME NEW s \in Sources PROVE s.version \in Nat /\ s # None
    BY <2>1, <2>2 DEF Sources, None
  <2> QED
    BY <2>1, <2>2
<1>2. ASSUME UNCHANGED <<scenario, doc>> PROVE scenario' = scenario /\ BooksOnce' /\ DocumentsForward
                                            /\ doc' \in [Devices -> Sources \cup {NoSource}]
  <2>1. \A d \in Devices : doc[d] # NoSource => doc[d] \in Sources
    BY <1>0
  <2>2. \A d \in Devices : doc[d] # NoSource => doc[d] # None /\ doc[d].version >= doc[d].version
    BY <1>1, <2>1
  <2> QED
    BY <1>0, <1>2, <2>2 DEF BooksOnce, kind, DocumentsForward
<1>3. ASSUME NEW d \in Devices, NEW s \in Sources, UNCHANGED scenario, doc' = [doc EXCEPT ![d] = s],
             doc[d] # NoSource => s.version >= doc[d].version, kind = "reading_epub" => s.version <= 1
      PROVE  scenario' = scenario /\ BooksOnce' /\ DocumentsForward /\ doc' \in [Devices -> Sources \cup {NoSource}]
  <2>1. doc' \in [Devices -> Sources \cup {NoSource}] /\ doc'[d] = s /\ \A e \in Devices : e # d => doc'[e] = doc[e]
    BY <1>0, <1>3
  <2>2. BooksOnce'
    BY <1>0, <1>3, <2>1 DEF BooksOnce, kind
  <2>3. DocumentsForward
    <3> SUFFICES ASSUME NEW e \in Devices, doc[e] # NoSource
                 PROVE  doc'[e] # None /\ doc'[e].version >= doc[e].version
      BY DEF DocumentsForward
    <3>1. doc[e] \in Sources /\ doc[e].version \in Nat
      BY <1>0, <1>1
    <3> QED
      BY <1>1, <1>3, <2>1, <3>1
  <2> QED
    BY <1>3, <2>1, <2>2, <2>3
<1>4. ASSUME NEW d \in Devices, import_artifact(d)
      PROVE  /\ scenario' = scenario /\ BooksOnce' /\ DocumentsForward
             /\ doc' \in [Devices -> Sources \cup {NoSource}] /\ epub' \in [Devices -> BOOLEAN]
  <2>1. UNCHANGED scenario
    BY <1>4 DEF import_artifact, repSame
  <2>2. CASE kind = "reading_epub"
    <3>1. UNCHANGED <<scenario, doc>> /\ epub' = [epub EXCEPT ![d] = TRUE]
      BY <1>4, <2>2 DEF import_artifact, repSame
    <3> QED
      BY <1>0, <1>2, <3>1
  <2>3. CASE kind # "reading_epub"
    <3> DEFINE s == rep[d].a.src
    <3>1. rep[d].a \in Artifacts
      BY <1>0, <1>4 DEF import_artifact, Replicating, InReplication, Fetching
    <3>2. s \in Sources /\ s.version \in Nat
      BY <3>1, Versions
    <3>3. UNCHANGED epub /\ doc' = [doc EXCEPT ![d] = imported_version(doc[d], s)]
      BY <1>4, <2>3 DEF import_artifact
    <3>4. CASE doc[d].version < s.version
      <4>1. doc' = [doc EXCEPT ![d] = s]
        BY <3>3, <3>4 DEF imported_version
      <4>2. doc[d] # NoSource => s.version >= doc[d].version
        BY <1>0, <1>1, <3>2, <3>4
      <4> HIDE DEF s
      <4> QED
        BY <1>0, <1>3, <2>1, <2>3, <3>2, <3>3, <4>1, <4>2
    <3>5. CASE ~(doc[d].version < s.version)
      <4>1. doc' = doc
        BY <1>0, <3>3, <3>5 DEF imported_version
      <4> QED
        BY <1>0, <1>2, <2>1, <3>3, <4>1
    <3> QED
      BY <3>4, <3>5
  <2> QED
    BY <2>2, <2>3
<1>5. ASSUME NEW d \in Devices, import_version(d)
      PROVE  /\ scenario' = scenario /\ BooksOnce' /\ DocumentsForward
             /\ doc' \in [Devices -> Sources \cup {NoSource}]
  <2> DEFINE s == [by |-> d, version |-> doc[d].version + 1]
  <2>1. doc[d] \in Sources /\ doc[d].version \in Nat /\ doc[d].version < MaxVersion /\ kind = "knowledge_vectors"
    BY <1>0, <1>1, <1>5 DEF import_version
  <2>2. s \in Sources /\ s.version >= doc[d].version
    BY <1>1, <2>1 DEF Sources
  <2>3. doc' = [doc EXCEPT ![d] = s] /\ UNCHANGED scenario
    BY <1>5 DEF import_version
  <2> HIDE DEF s
  <2> QED
    BY <1>3, <2>1, <2>2, <2>3
<1>6. ASSUME NEW d \in Devices, entity_arrives(d)
      PROVE  /\ scenario' = scenario /\ BooksOnce' /\ DocumentsForward
             /\ doc' \in [Devices -> Sources \cup {NoSource}] /\ entity' \in [Devices -> BOOLEAN]
  <2>1. UNCHANGED scenario /\ entity' = [entity EXCEPT ![d] = TRUE]
        /\ doc' = IF kind = "reading_epub" THEN [doc EXCEPT ![d] = Book] ELSE doc
    BY <1>6 DEF entity_arrives
  <2>2. entity' \in [Devices -> BOOLEAN]
    BY <1>0, <2>1
  <2>3. CASE kind = "reading_epub"
    <3>1. Book \in Sources /\ Book.version = 1
      BY DEF Book, Sources
    <3>2. doc[d] # NoSource => 1 >= doc[d].version
      BY <1>0, <1>1, <2>3 DEF BooksOnce
    <3>3. PICK s \in Sources : s = Book /\ s.version = 1
      BY <3>1
    <3>4. doc' = [doc EXCEPT ![d] = s]
      BY <2>1, <2>3, <3>3
    <3>5. doc[d] # NoSource => s.version >= doc[d].version
      BY <3>2, <3>3
    <3>6. kind = "reading_epub" => s.version <= 1
      BY <3>3
    <3> HIDE DEF kind
    <3> QED
      BY <1>3, <2>1, <2>2, <3>4, <3>5, <3>6
  <2>4. CASE kind # "reading_epub"
    BY <1>2, <2>1, <2>2, <2>4
  <2> QED
    BY <2>3, <2>4
<1>7. ASSUME NEW d \in Devices, install_artifact(d) PROVE pointer' \in [Devices -> Artifacts \cup {None}]
  <2>1. rep[d].a \in Artifacts
    BY <1>0, <1>7 DEF install_artifact, Replicating, InReplication, Fetching
  <2> QED
    BY <1>0, <1>7, <2>1 DEF install_artifact
<1>8. CASE Gateway
  BY <1>0, <1>2, <1>8 DEF Gateway, deviceVars
<1>9. ASSUME NEW d \in Devices, Publication(d) PROVE UNCHANGED <<scenario, doc, pointer, entity, epub>>
  BY <1>9 DEF Publication, prepare_publication, record_built, begin_upload, upload_chunk, complete_upload,
     await_completion, abort_upload, stat_object, record_published, report_installed_object, pubSame
<1>10. ASSUME NEW d \in Devices, Replication(d), ~import_artifact(d)
       PROVE  UNCHANGED <<scenario, doc, entity, epub>> /\ (UNCHANGED pointer \/ install_artifact(d))
  BY <1>10 DEF Replication, list_object_changes, replicate_change, replication_fails, download_artifact,
     install_artifact, record_installed, record_replica, report_state, advance_object_cursor, repSame
<1>11. ASSUME NEW d \in Devices, import_artifact(d) PROVE UNCHANGED <<pointer, entity>>
  BY <1>11 DEF import_artifact, repSame
<1>12. ASSUME NEW d \in Devices, Cleanup(d) \/ crash(d) PROVE UNCHANGED <<scenario, doc, pointer, entity, epub>>
  BY <1>12 DEF Cleanup, list_candidates, remove_candidate, reconcile_record, finish_gc, cleanSame, crash
<1>13. ASSUME NEW d \in Devices, import_version(d) PROVE UNCHANGED <<pointer, entity, epub>>
  BY <1>13 DEF import_version
<1>14. ASSUME NEW d \in Devices, entity_arrives(d) PROVE UNCHANGED <<pointer, epub>>
  BY <1>14 DEF entity_arrives
<1> DEFINE Goal == /\ scenario' = scenario
                   /\ doc' \in [Devices -> Sources \cup {NoSource}]
                   /\ pointer' \in [Devices -> Artifacts \cup {None}]
                   /\ entity' \in [Devices -> BOOLEAN] /\ epub' \in [Devices -> BOOLEAN]
                   /\ BooksOnce' /\ DocumentsForward
<1>15. ASSUME UNCHANGED <<scenario, doc, pointer, entity, epub>> PROVE Goal
  BY <1>0, <1>2, <1>15
<1>16. ASSUME NEW d \in Devices, Replication(d) PROVE Goal
  <2>1. CASE import_artifact(d)
    BY <1>0, <1>4, <1>11, <2>1
  <2>2. CASE ~import_artifact(d)
    BY <1>0, <1>2, <1>7, <1>10, <1>16, <2>2
  <2> QED
    BY <2>1, <2>2
<1>17. ASSUME NEW d \in Devices, import_version(d) PROVE Goal
  BY <1>0, <1>5, <1>13, <1>17
<1>18. ASSUME NEW d \in Devices, entity_arrives(d) PROVE Goal
  BY <1>0, <1>6, <1>14, <1>18
<1> HIDE DEF Goal
<1>19. ASSUME Gateway PROVE Goal
  BY <1>15, <1>19 DEF Gateway, deviceVars
<1>20. Goal
  BY <1>0, <1>9, <1>12, <1>15, <1>16, <1>17, <1>18, <1>19, Steps DEF DeviceRest
<1> QED
  BY <1>20 DEF Goal

(* What no step takes back from a device.                                  *)
LEMMA Grows ==
  ASSUME IInv, ObjectsNext
  PROVE  /\ rows' \in Manifests /\ ready' \in [Devices -> SUBSET Artifacts]
         /\ \A d \in Devices, a \in Artifacts :
               /\ rows[d][a].status # "none" => rows'[d][a].status # "none"
               /\ rows[d][a].status = "installed" => rows'[d][a].status = "installed"
               /\ a \in ready[d] => a \in ready'[d]
               /\ <<"outbox", a>> \in files[d] => <<"outbox", a>> \in files'[d] \/ a \in ready'[d]
         /\ \A a \in Artifacts : replicas[a].status # "none" => replicas'[a].status # "none"
<1>0. rows \in Manifests /\ ready \in [Devices -> SUBSET Artifacts]
  BY DEF IInv, DeviceTypes, Manifests
<1>1. /\ rows' \in Manifests
      /\ \A d \in Devices, a \in Artifacts :
            /\ rows[d][a].status # "none" => rows'[d][a].status # "none"
            /\ rows[d][a].status = "installed" => rows'[d][a].status = "installed"
  <2>1. CASE UNCHANGED rows
    BY <1>0, <2>1
  <2>2. ASSUME NEW d \in Devices, NEW a \in Artifacts, NEW row \in RowRecords,
               WithRow(d, a, row), RowFor(d, a, row)
        PROVE  /\ rows' \in Manifests
               /\ \A e \in Devices, b \in Artifacts :
                     /\ rows[e][b].status # "none" => rows'[e][b].status # "none"
                     /\ rows[e][b].status = "installed" => rows'[e][b].status = "installed"
    <3>1. row.status # "none" /\ (rows[d][a].status = "installed" => row.status = "installed")
      BY <2>2 DEF RowFor
    <3> QED
      BY <1>0, <2>2, <3>1, RowWritten
  <2> QED
    BY <2>1, <2>2, RowsStep DEF RowsEffect
<1>2. ready' \in [Devices -> SUBSET Artifacts] /\ \A d \in Devices : ready[d] \subseteq ready'[d]
  BY <1>0, ReadyStep
<1>3. \A a \in Artifacts : replicas[a].status # "none" => replicas'[a].status # "none"
  BY StoreStep DEF Kept
<1>4. \A d \in Devices, a \in Artifacts :
         <<"outbox", a>> \in files[d] => <<"outbox", a>> \in files'[d] \/ a \in ready'[d]
  BY <1>2, FilesStep
<1> QED
  BY <1>1, <1>2, <1>3, <1>4

(* A source has one row per device, and a publication can be tried again.  *)
LEMMA RowedStep ==
  ASSUME IInv, ObjectsNext
  PROVE  Rowed' /\ PublicationRetryable'
<1>0. rows \in Manifests /\ ready \in [Devices -> SUBSET Artifacts] /\ Rowed /\ PublicationRetryable
  BY DEF IInv, DeviceTypes, Manifests
<1>1. ASSUME NEW d \in Devices, NEW a \in Artifacts, NEW row \in RowRecords,
             WithRow(d, a, row), RowFor(d, a, row)
      PROVE  /\ \A e \in Devices, b, c \in Artifacts :
                   rows'[e][b].status # "none" /\ rows'[e][c].status # "none" /\ b.src = c.src => b = c
             /\ \A e \in Devices, b \in Artifacts :
                   /\ rows'[e][b].path = "outbox" => b.builder = e
                   /\ rows'[e][b].status # "none" /\ rows'[e][b].path # "install"
                         => b \in ready[e] \/ (rows'[e][b].path = "outbox" /\ <<"outbox", b>> \in files[e])
  <2>1. rows'[d][a] = row /\ \A e \in Devices, b \in Artifacts : e # d \/ b # a => rows'[e][b] = rows[e][b]
    BY <1>0, <1>1, RowWritten
  <2>2. ASSUME NEW e \in Devices, NEW b \in Artifacts, NEW c \in Artifacts,
               rows'[e][b].status # "none", rows'[e][c].status # "none", b.src = c.src
        PROVE  b = c
    <3>1. CASE e # d \/ (b # a /\ c # a)
      BY <1>0, <2>1, <2>2, <3>1 DEF Rowed, Recorded
    <3>2. ASSUME e = d, NEW o \in Artifacts, o # a, o.src = a.src, rows'[d][o].status # "none" PROVE FALSE
      <4>1. Recorded(d, o)
        BY <2>1, <3>2 DEF Recorded
      <4>2. ~Recorded(d, a)
        BY <1>0, <3>2, <4>1 DEF Rowed
      <4>3. ~FingerprintTaken(d, a)
        BY <1>1, <4>2 DEF RowFor
      <4> QED
        BY <3>2, <4>1, <4>3 DEF FingerprintTaken, RowOf, Recorded
    <3> QED
      BY <2>2, <3>1, <3>2
  <2>3. ASSUME NEW e \in Devices, NEW b \in Artifacts
        PROVE  /\ rows'[e][b].path = "outbox" => b.builder = e
               /\ rows'[e][b].status # "none" /\ rows'[e][b].path # "install"
                     => b \in ready[e] \/ (rows'[e][b].path = "outbox" /\ <<"outbox", b>> \in files[e])
    <3>1. CASE e = d /\ b = a
      BY <1>1, <2>1, <3>1 DEF RowFor
    <3>2. CASE e # d \/ b # a
      BY <1>0, <2>1, <3>2 DEF Rowed, PublicationRetryable
    <3> QED
      BY <3>1, <3>2
  <2> QED
    BY <2>2, <2>3
<1>2. /\ \A e \in Devices, b, c \in Artifacts :
            rows'[e][b].status # "none" /\ rows'[e][c].status # "none" /\ b.src = c.src => b = c
      /\ \A e \in Devices, b \in Artifacts :
            /\ rows'[e][b].path = "outbox" => b.builder = e
            /\ rows'[e][b].status # "none" /\ rows'[e][b].path # "install"
                  => b \in ready[e] \/ (rows'[e][b].path = "outbox" /\ <<"outbox", b>> \in files[e])
  <2>1. CASE UNCHANGED rows
    BY <1>0, <2>1 DEF Rowed, Recorded, PublicationRetryable
  <2> QED
    BY <1>1, <2>1, RowsStep DEF RowsEffect
<1>3. \A d \in Devices : \A a \in ready'[d] : rows'[d][a].status # "none"
  <2>1. \A d \in Devices : \A a \in ready'[d] : rows[d][a].status # "none"
    BY <1>0, ReadyStep DEF Rowed, Recorded
  <2> QED
    BY <2>1, Grows
<1>4. ASSUME NEW a \in Artifacts, uploads'[a].key > 0
      PROVE  a.builder \in Devices /\ rows'[a.builder][a].status # "none"
  <2>1. uploads[a].key > 0 => a.builder \in Devices /\ Recorded(a.builder, a)
    BY <1>0 DEF Rowed
  <2>2. a.builder \in Devices /\ Recorded(a.builder, a)
    BY <1>4, <2>1, KeysStep
  <2> QED
    BY <2>2, Grows DEF Recorded
<1>5. PublicationRetryable'
  <2> SUFFICES ASSUME NEW d \in Devices, NEW a \in Artifacts, rows'[d][a].status # "none", rows'[d][a].path # "install"
               PROVE  a \in ready'[d] \/ (rows'[d][a].path = "outbox" /\ <<"outbox", a>> \in files'[d])
    BY DEF PublicationRetryable
  <2>1. a \in ready[d] \/ (rows'[d][a].path = "outbox" /\ <<"outbox", a>> \in files[d])
    BY <1>2
  <2> QED
    BY <2>1, Grows
<1> QED
  BY <1>2, <1>3, <1>4, <1>5 DEF Rowed, Recorded

(* Recorded replicas were in the store, and reports stay true.             *)
LEMMA ReportsStep ==
  ASSUME IInv, ObjectsNext
  PROVE  StateTypes' /\ ReplicasAreReal' /\ ReportsAreTrue'
<1>0. StateTypes /\ ReplicasAreReal /\ ReportsAreTrue /\ ready \in [Devices -> SUBSET Artifacts]
      /\ states \in [Devices -> StateRecords]
  BY DEF IInv, DeviceTypes, StateTypes, StateRecords
<1>1. ReplicasAreReal'
  <2>1. \A d \in Devices : \A a \in ready'[d] : a \in Artifacts /\ replicas[a].status # "none"
    BY <1>0, ReadyStep DEF ReplicasAreReal
  <2> QED
    BY <2>1, Grows DEF ReplicasAreReal
<1>2. states' \in [Devices -> StateRecords]
  BY <1>0, StatesStep
<1>3. \A d \in Devices : StateFor(d, states'[d])
  BY <1>0, StatesStep DEF StateFor, StateTypes, ReportsAreTrue
<1>4. ReportsAreTrue' /\ \A d \in Devices : states'[d].status = "installed" => states'[d].artifact \in Artifacts
  BY <1>3, Grows DEF StateFor, ReportsAreTrue
<1> QED
  BY <1>1, <1>2, <1>4 DEF StateTypes, StateRecords

(* What is known of a publication stays true.                              *)
LEMMA PublicationKept ==
  ASSUME IInv, ObjectsNext, NEW d \in Devices, NEW p \in Pubs, InPublication(d, p)
  PROVE  InPublication(d, p)'
BY Grows DEF InPublication, Recorded

(* What is known of the publications in progress.                          *)
LEMMA PublishingStep ==
  ASSUME IInv, ObjectsNext
  PROVE  pub' \in [Devices -> Pubs] /\ Publishing'
<1> DEFINE Goal == pub' \in [Devices -> Pubs] /\ Publishing'
<1>0. /\ scenario \in Scenarios /\ pub \in [Devices -> Pubs] /\ Publishing /\ Rowed /\ rows \in Manifests
      /\ files \in [Devices -> SUBSET ({"outbox", "install"} \X Artifacts)]
  BY DEF IInv, DeviceTypes, Manifests
<1>1. ASSUME UNCHANGED pub PROVE Goal
  <2>1. \A d \in Devices : InPublication(d, pub[d])
    BY <1>0 DEF Publishing
  <2>2. ASSUME NEW d \in Devices PROVE InPublication(d, pub[d])'
    <3>1. PICK p \in Pubs : p = pub[d]
      BY <1>0
    <3>2. InPublication(d, p)'
      BY <2>1, <3>1, PublicationKept
    <3> QED
      BY <1>1, <3>1, <3>2 DEF InPublication
  <2> QED
    BY <1>0, <1>1, <2>2 DEF Publishing
<1>2. ASSUME NEW d \in Devices, NEW p \in Pubs, pub' = [pub EXCEPT ![d] = p], InPublication(d, p)' PROVE Goal
  <2>1. pub' \in [Devices -> Pubs] /\ pub'[d] = p /\ \A e \in Devices : e # d => pub'[e] = pub[e]
    BY <1>0, <1>2
  <2>2. ASSUME NEW e \in Devices PROVE InPublication(e, pub[e])'
    <3>1. CASE e = d
      BY <1>2, <2>1, <3>1 DEF InPublication
    <3>2. CASE e # d
      <4>1. PICK q \in Pubs : q = pub[e]
        BY <1>0
      <4>2. InPublication(e, q)'
        BY <1>0, <4>1, PublicationKept DEF Publishing
      <4> QED
        BY <2>1, <3>2, <4>1, <4>2 DEF InPublication
    <3> QED
      BY <3>1, <3>2
  <2> QED
    BY <2>1, <2>2 DEF Publishing
<1>3. ASSUME NEW d \in Devices, EndPub(d) \/ crash(d) PROVE Goal
  <2>1. IdlePub \in Pubs /\ IdlePub.pc = "idle"
    BY DEF IdlePub, Pubs, Places
  <2>2. PICK p \in Pubs : p = IdlePub
    BY <2>1
  <2>3. pub' = [pub EXCEPT ![d] = p] /\ InPublication(d, p)'
    BY <1>3, <2>1, <2>2 DEF EndPub, crash, InPublication
  <2> QED
    BY <1>2, <2>3
<1>4. ASSUME NEW d \in Devices, pub[d].pc \notin {"idle", "cached"},
             NEW pc \in {"complete", "wait", "abort", "stat"}, PubStep(d, pc)
      PROVE  Goal
  <2>1. PICK p \in Pubs : p = [pub[d] EXCEPT !.pc = pc]
    BY <1>0 DEF Pubs
  <2>2. p.pc = pc /\ p.a = pub[d].a /\ p.path = pub[d].path
    BY <1>0, <2>1 DEF Pubs
  <2>3. InPublication(d, pub[d])
    BY <1>0 DEF Publishing
  <2>4. InPublication(d, p)
    BY <1>4, <2>2, <2>3 DEF InPublication
  <2> QED
    BY <1>2, <1>4, <2>1, <2>4, PublicationKept DEF PubStep
<1>5. ASSUME NEW d \in Devices, prepare_publication(d) PROVE Goal
  <2>1. ASSUME NEW a \in RowOf(d, doc[d]), NEW pc \in {"record", "begin"}, NEW path \in Places,
               path = rows[d][a].path, pc = "record" => a \in ready[d], pc = "begin" => path = "outbox",
               pub' = [pub EXCEPT ![d] = [pc |-> pc, a |-> a, path |-> path, part |-> 0]]
        PROVE  Goal
    <3>1. a \in Artifacts /\ Recorded(d, a) /\ (path = "outbox" => a.builder = d)
      BY <1>0, <2>1 DEF RowOf, Rowed, Recorded
    <3>2. PICK p \in Pubs : p = [pc |-> pc, a |-> a, path |-> path, part |-> 0]
      BY <3>1 DEF Pubs
    <3>3. InPublication(d, p)
      BY <2>1, <3>1, <3>2 DEF InPublication
    <3> QED
      BY <1>2, <2>1, <3>2, <3>3, PublicationKept
  <2>2. ASSUME NEW a \in NewBuild(d, doc[d]), files' = [files EXCEPT ![d] = @ \cup {<<"outbox", a>>}],
               pub' = [pub EXCEPT ![d] = [pc |-> "cached", a |-> a, path |-> "outbox", part |-> 0]]
        PROVE  Goal
    <3>1. a \in Artifacts /\ a.builder = d
      BY <2>2 DEF NewBuild
    <3>2. PICK p \in Pubs : p = [pc |-> "cached", a |-> a, path |-> "outbox", part |-> 0]
      BY <3>1 DEF Pubs, Places
    <3>3. <<"outbox", a>> \in files'[d]
      BY <1>0, <2>2
    <3>4. InPublication(d, p)'
      BY <3>1, <3>2, <3>3 DEF InPublication
    <3> QED
      BY <1>2, <2>2, <3>2, <3>4
  <2>3. \A a \in RowOf(d, doc[d]) : rows[d][a].path \in Places
    BY <1>0 DEF RowOf, Manifests, RowRecords
  <2> QED
    BY <1>5, <2>1, <2>2, <2>3 DEF prepare_publication, Places
<1>6. ASSUME NEW d \in Devices, record_built(d) PROVE Goal
  <2>1. CASE EndPub(d)
    BY <1>3, <2>1
  <2>2. CASE ~EndPub(d)
    <3>0. PICK a \in Artifacts : a = pub[d].a
      BY <1>0, <1>6 DEF record_built, Publishing, InPublication
    <3>1. PICK p \in Pubs : p = [pub[d] EXCEPT !.pc = "begin"]
      BY <1>0 DEF Pubs
    <3>2. p.pc = "begin" /\ p.a = a
      BY <1>0, <3>0, <3>1 DEF Pubs
    <3>3. a.builder = d
      BY <1>0, <1>6, <3>0 DEF record_built, Publishing, InPublication
    <3>4. rows' = [rows EXCEPT ![d][a] = upsert_manifest(rows[d][a], "outbox", "built")]
          /\ pub' = [pub EXCEPT ![d].pc = "begin"]
      BY <1>6, <2>2, <3>0 DEF record_built, PubStep
    <3>5. rows[d][a] \in RowRecords
      BY <1>0 DEF Manifests
    <3>6. PICK row \in RowRecords : row = upsert_manifest(rows[d][a], "outbox", "built") /\ row.status # "none"
      BY <3>5, Upserted DEF Places
    <3>7. rows'[d][a].status # "none"
      <4>1. WithRow(d, a, row)
        BY <3>4, <3>6 DEF WithRow
      <4> QED
        BY <1>0, <3>6, <4>1, RowWritten
    <3>8. InPublication(d, p)'
      BY <3>2, <3>3, <3>7 DEF InPublication, Recorded
    <3> QED
      BY <1>2, <3>1, <3>4, <3>8
  <2> QED
    BY <2>1, <2>2
<1>7. ASSUME NEW d \in Devices, begin_upload(d) PROVE Goal
  <2>1. pub[d].pc = "begin" /\ (EndPub(d) \/ PubStep(d, "stat") \/ pub' = [pub EXCEPT ![d].pc = "part", ![d].part = 1])
    BY <1>7 DEF begin_upload
  <2>2. CASE pub' = [pub EXCEPT ![d].pc = "part", ![d].part = 1]
    <3>1. PICK p \in Pubs : p = [pub[d] EXCEPT !.pc = "part", !.part = 1]
      BY <1>0 DEF Pubs
    <3>2. p.pc = "part" /\ p.part = 1 /\ p.a = pub[d].a /\ p.path = pub[d].path
      BY <1>0, <3>1 DEF Pubs
    <3>3. InPublication(d, pub[d])
      BY <1>0 DEF Publishing
    <3>4. InPublication(d, p)
      BY <2>1, <3>2, <3>3 DEF InPublication, PartNumbers
    <3> QED
      BY <1>2, <2>2, <3>1, <3>4, PublicationKept
  <2> QED
    BY <1>3, <1>4, <2>1, <2>2
<1>8. ASSUME NEW d \in Devices, upload_chunk(d) PROVE Goal
  <2> DEFINE n == pub[d].part
             part == IF n + 1 \in PartNumbers THEN n + 1 ELSE 0
             pc == IF n + 1 \in PartNumbers THEN "part" ELSE "complete"
  <2>1. pub[d].pc = "part" /\ (PubStep(d, "abort") \/ pub' = [pub EXCEPT ![d].part = part, ![d].pc = pc])
    BY <1>8 DEF upload_chunk
  <2>2. n \in Nat /\ part \in Nat /\ pc \in {"part", "complete"} /\ (pc = "part" => part \in PartNumbers)
    BY <1>0 DEF Pubs
  <2> HIDE DEF part, pc
  <2>3. CASE pub' = [pub EXCEPT ![d].part = part, ![d].pc = pc]
    <3>1. PICK p \in Pubs : p = [pub[d] EXCEPT !.part = part, !.pc = pc]
      BY <1>0, <2>2 DEF Pubs
    <3>2. p.pc = pc /\ p.part = part /\ p.a = pub[d].a /\ p.path = pub[d].path
      BY <1>0, <3>1 DEF Pubs
    <3>3. InPublication(d, pub[d])
      BY <1>0 DEF Publishing
    <3>4. InPublication(d, p)
      BY <2>1, <2>2, <3>2, <3>3 DEF InPublication
    <3> QED
      BY <1>2, <2>3, <3>1, <3>4, PublicationKept
  <2> QED
    BY <1>4, <2>1, <2>3
<1>9. ASSUME NEW d \in Devices, complete_upload(d) \/ await_completion(d) \/ abort_upload(d) PROVE Goal
  BY <1>3, <1>4, <1>9 DEF complete_upload, await_completion, abort_upload
<1>10. ASSUME NEW d \in Devices, stat_object(d) PROVE Goal
  <2>1. CASE EndPub(d)
    BY <1>3, <2>1
  <2>2. CASE ~EndPub(d)
    <3>1. PICK p \in Pubs : p = [pub[d] EXCEPT !.pc = "record"]
      BY <1>0 DEF Pubs
    <3>2. p.pc = "record" /\ p.a = pub[d].a /\ p.path = pub[d].path
      BY <1>0, <3>1 DEF Pubs
    <3>3. /\ p.a \in Artifacts /\ Recorded(d, p.a) /\ (p.path = "outbox" => p.a.builder = d)
          /\ pub' = [pub EXCEPT ![d].pc = "record"] /\ ready' = [ready EXCEPT ![d] = @ \cup {p.a}]
      BY <1>0, <1>10, <2>2, <3>2 DEF stat_object, PubStep, Publishing, InPublication
    <3>4. p.a \in ready'[d] /\ rows'[d][p.a].status # "none"
      <4>1. ready \in [Devices -> SUBSET Artifacts]
        BY DEF IInv, DeviceTypes
      <4> QED
        BY <3>3, <4>1, Grows DEF Recorded
    <3>5. InPublication(d, p)'
      BY <3>2, <3>3, <3>4 DEF InPublication, Recorded
    <3> QED
      BY <1>2, <3>1, <3>3, <3>5
  <2> QED
    BY <2>1, <2>2
<1>11. ASSUME NEW d \in Devices, record_published(d) PROVE Goal
  <2>0. PICK a \in Artifacts : a = pub[d].a
    BY <1>0, <1>11 DEF record_published, Publishing, InPublication
  <2>1. PICK p \in Pubs : p = [pub[d] EXCEPT !.pc = "report"]
    BY <1>0 DEF Pubs
  <2>2. p.pc = "report" /\ p.a = a /\ p.path = pub[d].path
    BY <1>0, <2>0, <2>1 DEF Pubs
  <2>3. (p.path = "outbox" => a.builder = d) /\ pub[d].path \in Places
    BY <1>0, <1>11, <2>0, <2>2 DEF record_published, Publishing, InPublication, Pubs
  <2>4. rows' = [rows EXCEPT ![d][a] = upsert_manifest(rows[d][a], pub[d].path, "installed")]
        /\ pub' = [pub EXCEPT ![d].pc = "report"]
    BY <1>11, <2>0 DEF record_published, PubStep
  <2>5. rows[d][a] \in RowRecords
    BY <1>0 DEF Manifests
  <2>6. PICK row \in RowRecords : row = upsert_manifest(rows[d][a], pub[d].path, "installed") /\ row.status = "installed"
    BY <2>3, <2>5, Upserted
  <2>7. rows'[d][a].status = "installed"
    <3>1. WithRow(d, a, row)
      BY <2>4, <2>6 DEF WithRow
    <3> QED
      BY <1>0, <2>6, <3>1, RowWritten
  <2>8. InPublication(d, p)'
    BY <2>2, <2>3, <2>7 DEF InPublication, Recorded
  <2> QED
    BY <1>2, <2>1, <2>4, <2>8
<1>12. ASSUME NEW d \in Devices, report_installed_object(d) PROVE Goal
  BY <1>3, <1>12 DEF report_installed_object
<1> HIDE DEF Goal
<1>13. ASSUME Gateway PROVE Goal
  BY <1>1, <1>13 DEF Gateway, deviceVars
<1>14. ASSUME NEW d \in Devices, Publication(d) PROVE Goal
  BY <1>5, <1>6, <1>7, <1>8, <1>9, <1>10, <1>11, <1>12, <1>14 DEF Publication
<1>15. ASSUME NEW d \in Devices, Replication(d) PROVE UNCHANGED pub
  BY <1>15 DEF Replication, list_object_changes, replicate_change, replication_fails, download_artifact,
     install_artifact, import_artifact, record_installed, record_replica, report_state, advance_object_cursor, repSame
<1>16. ASSUME NEW d \in Devices, Cleanup(d) \/ import_version(d) \/ entity_arrives(d) PROVE UNCHANGED pub
  BY <1>16 DEF Cleanup, list_candidates, remove_candidate, reconcile_record, finish_gc, cleanSame,
     import_version, entity_arrives
<1>17. Goal
  BY <1>0, <1>1, <1>3, <1>13, <1>14, <1>15, <1>16, Steps DEF DeviceRest
<1> QED
  BY <1>17 DEF Goal

(* The cursor moves at the end of a page; a change is skipped in its turn. *)
LEMMA CursorStep ==
  ASSUME scenario \in Scenarios, ObjectsNext
  PROVE  /\ UNCHANGED objectCursor \/ \E d \in Devices : advance_object_cursor(d)
         /\ \/ UNCHANGED skipped
            \/ \E d \in Devices : replicate_change(d) /\ skipped' = [skipped EXCEPT ![d] = @ \cup {rep[d].next}]
<1>1. CASE Gateway
  BY <1>1 DEF Gateway, deviceVars
<1>2. ASSUME NEW d \in Devices, Publication(d) PROVE UNCHANGED <<objectCursor, skipped>>
  BY <1>2 DEF Publication, prepare_publication, record_built, begin_upload, upload_chunk, complete_upload,
     await_completion, abort_upload, stat_object, record_published, report_installed_object, pubSame
<1>3. ASSUME NEW d \in Devices, Replication(d)
      PROVE  /\ UNCHANGED objectCursor \/ advance_object_cursor(d)
             /\ \/ UNCHANGED skipped
                \/ replicate_change(d) /\ skipped' = [skipped EXCEPT ![d] = @ \cup {rep[d].next}]
  <2>1. CASE replicate_change(d)
    BY <2>1 DEF replicate_change
  <2> QED
    BY <1>3, <2>1 DEF Replication, list_object_changes, replication_fails, download_artifact,
       install_artifact, import_artifact, record_installed, record_replica, report_state, advance_object_cursor
<1>4. ASSUME NEW d \in Devices, Cleanup(d) \/ DeviceRest(d) PROVE UNCHANGED <<objectCursor, skipped>>
  BY <1>4 DEF Cleanup, list_candidates, remove_candidate, reconcile_record, finish_gc, cleanSame,
     DeviceRest, import_version, entity_arrives, crash
<1> QED
  BY <1>1, <1>2, <1>3, <1>4, Steps

(* The log grows at its end, and what was skipped stays skipped.           *)
LEMMA ChangeFacts ==
  ASSUME IInv, ObjectsNext
  PROVE  /\ Len(changes) \in Nat /\ Len(changes') \in Nat /\ Len(changes) <= Len(changes')
         /\ \A i \in 1 .. Len(changes) : changes'[i] = changes[i] /\ changes[i].version \in Nat
         /\ skipped' \in [Devices -> SUBSET Nat]
         /\ \A d \in Devices : skipped[d] \subseteq skipped'[d]
<1>0. /\ changes \in Seq([artifact : Artifacts, version : 1 .. MaxVersion]) /\ MaxVersion \in Nat
      /\ skipped \in [Devices -> SUBSET Nat] /\ rep \in [Devices -> Reps]
      /\ scenario \in Scenarios
  BY ScenariosAssumption DEF IInv, StoreTypes, DeviceTypes
<1>1. Len(changes) \in Nat
      /\ \A i \in 1 .. Len(changes) : changes[i] \in [artifact : Artifacts, version : 1 .. MaxVersion]
  BY <1>0, LenProperties, ElementOfSeq
<1>2. \A i \in 1 .. Len(changes) : changes[i].version \in Nat
  BY <1>0, <1>1
<1>3. Len(changes') \in Nat /\ Kept
  <2>1. Kept /\ StoreTypes'
    BY StoreStep DEF StoreInv
  <2> QED
    BY <2>1, LenProperties DEF StoreTypes
<1>4. skipped' \in [Devices -> SUBSET Nat] /\ \A d \in Devices : skipped[d] \subseteq skipped'[d]
  <2>1. CASE UNCHANGED skipped
    BY <1>0, <2>1
  <2>2. ASSUME NEW d \in Devices, skipped' = [skipped EXCEPT ![d] = @ \cup {rep[d].next}]
        PROVE  skipped' \in [Devices -> SUBSET Nat] /\ \A e \in Devices : skipped[e] \subseteq skipped'[e]
    <3>1. rep[d].next \in Nat
      BY <1>0 DEF Reps
    <3> QED
      BY <1>0, <2>2, <3>1
  <2> QED
    BY <1>0, <2>1, <2>2, CursorStep
<1> QED
  BY <1>1, <1>2, <1>3, <1>4 DEF Kept

(* A change that is covered stays covered.                                 *)
LEMMA CoveredKept ==
  ASSUME IInv, ObjectsNext, NEW d \in Devices, NEW i \in 1 .. Len(changes), Covered(d, i)
  PROVE  Covered(d, i)'
<1>1. changes'[i] = changes[i] /\ skipped[d] \subseteq skipped'[d]
  BY ChangeFacts
<1>2. CASE i \in skipped[d]
  BY <1>1, <1>2 DEF Covered
<1>3. ASSUME NEW a \in Artifacts, a.src.version >= changes[i].version, rows[d][a].status = "installed"
      PROVE  Covered(d, i)'
  <2>1. rows'[d][a].status = "installed"
    BY <1>3, Grows
  <2> QED
    BY <1>1, <1>3, <2>1 DEF Covered
<1> QED
  BY <1>2, <1>3 DEF Covered

(* What is known of a replication stays true while its cursor stays.       *)
LEMMA ReplicationKept ==
  ASSUME IInv, ObjectsNext, NEW d \in Devices, NEW r \in Reps, InReplication(d, r),
         objectCursor'[d] = objectCursor[d]
  PROVE  InReplication(d, r)'
<1>0. r.next \in Nat /\ r.end \in Nat /\ objectCursor[d] \in Nat
  BY DEF Reps, IInv, DeviceTypes
<1>1. /\ Len(changes) \in Nat /\ Len(changes') \in Nat /\ Len(changes) <= Len(changes')
      /\ \A i \in 1 .. Len(changes) : changes'[i] = changes[i]
  BY ChangeFacts
<1>2. ASSUME r.pc # "idle"
      PROVE  /\ objectCursor'[d] < r.next /\ r.next <= r.end + 1 /\ r.end <= Len(changes')
             /\ \A i \in 1 .. r.end : i < r.next => Covered(d, i)'
  <2>1. /\ objectCursor[d] < r.next /\ r.next <= r.end + 1 /\ r.end <= Len(changes)
        /\ \A i \in 1 .. r.end : i < r.next => Covered(d, i)
    BY <1>2 DEF InReplication
  <2>2. ASSUME NEW i \in 1 .. r.end, i < r.next PROVE Covered(d, i)'
    <3>1. i \in 1 .. Len(changes) /\ Covered(d, i)
      BY <1>0, <1>1, <2>1, <2>2
    <3> QED
      BY <3>1, CoveredKept
  <2> QED
    BY <1>0, <1>1, <2>1, <2>2
<1>3. ASSUME r.pc \in Fetching
      PROVE  /\ r.a \in Artifacts /\ r.next <= r.end
             /\ r.a.src.version >= changes'[r.next].version
             /\ r.pc # "report" => replicas'[r.a].status # "none"
             /\ r.pc \in {"replica", "report"} => rows'[d][r.a].status = "installed"
  <2>1. /\ r.a \in Artifacts /\ r.next <= r.end /\ r.a.src.version >= changes[r.next].version
        /\ r.pc # "report" => replicas[r.a].status # "none"
        /\ r.pc \in {"replica", "report"} => rows[d][r.a].status = "installed"
        /\ objectCursor[d] < r.next /\ r.end <= Len(changes)
    BY <1>3 DEF InReplication, Fetching
  <2>2. r.next \in 1 .. Len(changes)
    BY <1>0, <1>1, <2>1
  <2> QED
    BY <1>1, <2>1, <2>2, Grows
<1> QED
  BY <1>2, <1>3 DEF InReplication

(* What is known of the replications in progress and of the cursors.       *)
LEMMA ReplicatingStep ==
  ASSUME IInv, ObjectsNext
  PROVE  rep' \in [Devices -> Reps] /\ objectCursor' \in [Devices -> Nat] /\ Replicating'
<1> DEFINE Goal == rep' \in [Devices -> Reps] /\ \A d \in Devices : InReplication(d, rep[d])'
<1>0. /\ scenario \in Scenarios /\ rep \in [Devices -> Reps] /\ objectCursor \in [Devices -> Nat] /\ Replicating
      /\ rows \in Manifests /\ StoreTypes /\ ManifestCurrent /\ OBJECT_PAGE_LIMIT \in Nat
  BY ScenariosAssumption DEF IInv, DeviceTypes, Manifests
<1>a. /\ Len(changes) \in Nat /\ Len(changes') \in Nat /\ Len(changes) <= Len(changes')
      /\ \A i \in 1 .. Len(changes) : changes'[i] = changes[i] /\ changes[i].version \in Nat
  BY ChangeFacts
<1>1. ASSUME UNCHANGED <<rep, objectCursor>> PROVE Goal
  <2>1. ASSUME NEW d \in Devices PROVE InReplication(d, rep[d])'
    <3>1. PICK r \in Reps : r = rep[d]
      BY <1>0
    <3>2. InReplication(d, r)'
      BY <1>0, <1>1, <3>1, ReplicationKept DEF Replicating
    <3> QED
      BY <1>1, <3>1, <3>2 DEF InReplication
  <2> QED
    BY <1>0, <1>1, <2>1
<1>2. ASSUME NEW d \in Devices, NEW r \in Reps, rep' = [rep EXCEPT ![d] = r], InReplication(d, r)',
             \A e \in Devices : e # d => objectCursor'[e] = objectCursor[e]
      PROVE  Goal
  <2>1. rep' \in [Devices -> Reps] /\ rep'[d] = r /\ \A e \in Devices : e # d => rep'[e] = rep[e]
    BY <1>0, <1>2
  <2>2. ASSUME NEW e \in Devices PROVE InReplication(e, rep[e])'
    <3>1. CASE e = d
      BY <1>2, <2>1, <3>1 DEF InReplication
    <3>2. CASE e # d
      <4>1. PICK q \in Reps : q = rep[e]
        BY <1>0
      <4>2. InReplication(e, q)'
        BY <1>0, <1>2, <3>2, <4>1, ReplicationKept DEF Replicating
      <4> QED
        BY <2>1, <3>2, <4>1, <4>2 DEF InReplication
    <3> QED
      BY <3>1, <3>2
  <2> QED
    BY <2>1, <2>2
<1>3. ASSUME NEW d \in Devices, rep' = [rep EXCEPT ![d] = IdleRep],
             \A e \in Devices : e # d => objectCursor'[e] = objectCursor[e]
      PROVE  Goal
  <2>1. IdleRep \in Reps /\ IdleRep.pc = "idle"
    BY DEF IdleRep, Reps
  <2>2. PICK r \in Reps : r = IdleRep
    BY <2>1
  <2>3. InReplication(d, r)'
    BY <2>1, <2>2 DEF InReplication, Fetching
  <2> QED
    BY <1>2, <1>3, <2>2, <2>3
\* the next step with the same artifact
<1>4. ASSUME NEW d \in Devices, UNCHANGED objectCursor, NEW pc \in {"install", "import", "report"},
             rep[d].pc \in {"download", "install", "import", "replica"},
             rep[d].pc = "replica" <=> pc = "report", RepStep(d, pc)
      PROVE  Goal
  <2>1. PICK r \in Reps : r = [rep[d] EXCEPT !.pc = pc]
    BY <1>0 DEF Reps, Fetching
  <2>2. r.pc = pc /\ r.a = rep[d].a /\ r.next = rep[d].next /\ r.end = rep[d].end
    BY <1>0, <2>1 DEF Reps
  <2>3. InReplication(d, rep[d])
    BY <1>0 DEF Replicating
  <2>4. InReplication(d, r)
    BY <1>4, <2>2, <2>3 DEF InReplication, Fetching
  <2> QED
    BY <1>2, <1>4, <2>1, <2>4, ReplicationKept DEF RepStep
\* the next change of the page
<1>5. ASSUME NEW d \in Devices, UNCHANGED objectCursor, NEW r \in Reps, rep' = [rep EXCEPT ![d] = r],
             rep[d].pc # "idle", rep[d].next <= rep[d].end,
             r.pc = "item", r.next = rep[d].next + 1, r.end = rep[d].end,
             NEW n \in Nat, n = rep[d].next, Covered(d, n)'
      PROVE  Goal
  <2> DEFINE old == rep[d]
  <2>1. /\ old.next \in Nat /\ old.end \in Nat /\ objectCursor[d] \in Nat
        /\ objectCursor[d] < old.next /\ old.end <= Len(changes)
        /\ \A i \in 1 .. old.end : i < old.next => Covered(d, i)
    BY <1>0, <1>5 DEF Reps, Replicating, InReplication
  <2>2. ASSUME NEW i \in 1 .. r.end, i < r.next PROVE Covered(d, i)'
    <3>1. CASE i = n
      BY <1>5, <3>1
    <3>2. CASE i # n
      <4>1. i \in 1 .. old.end /\ i < old.next /\ i \in 1 .. Len(changes)
        BY <1>5, <1>a, <2>1, <2>2, <3>2
      <4> QED
        BY <2>1, <4>1, CoveredKept
    <3> QED
      BY <3>1, <3>2
  <2>3. objectCursor'[d] < r.next /\ r.next <= r.end + 1 /\ r.end <= Len(changes')
    BY <1>5, <1>a, <2>1
  <2>4. InReplication(d, r)'
    BY <1>5, <2>2, <2>3 DEF InReplication, Fetching
  <2> QED
    BY <1>2, <1>5, <2>4
<1>6. ASSUME NEW d \in Devices, list_object_changes(d) PROVE Goal
  <2> DEFINE cur == objectCursor[d]
             end == Min({Len(changes), cur + OBJECT_PAGE_LIMIT})
  <2>1. cur \in Nat /\ cur < Len(changes) /\ UNCHANGED objectCursor
        /\ \A i \in 1 .. cur : Covered(d, i)
    BY <1>0, <1>6 DEF list_object_changes, Replicating, CursorBounds
  <2>2. end \in Nat /\ cur <= end /\ end <= Len(changes)
    <3>1. cur + OBJECT_PAGE_LIMIT \in Nat /\ cur <= cur + OBJECT_PAGE_LIMIT
      BY <1>0, <2>1
    <3>2. PICK x \in Nat : x = Len(changes)
      BY <1>a
    <3>3. PICK y \in Nat : y = cur + OBJECT_PAGE_LIMIT
      BY <3>1
    <3>4. Min({x, y}) \in {x, y} /\ Min({x, y}) <= x /\ Min({x, y}) <= y
      <4>1. \E m \in {x, y} : \A z \in {x, y} : m <= z
        BY SMT
      <4> QED
        BY <4>1 DEF Min
    <3>5. end = Min({x, y})
      BY <3>2, <3>3
    <3> HIDE DEF end
    <3> QED
      BY <2>1, <3>1, <3>2, <3>3, <3>4, <3>5
  <2>3. PICK keyed \in BOOLEAN : rep' = [rep EXCEPT ![d] = [pc |-> "item", a |-> None, next |-> cur + 1,
                                                            end |-> end, keyed |-> keyed]]
    BY <1>6 DEF list_object_changes
  <2> HIDE DEF end
  <2>a. [pc |-> "item", a |-> None, next |-> cur + 1, end |-> end, keyed |-> keyed] \in Reps
    <3>1. cur + 1 \in Nat
      BY <2>1
    <3> QED
      BY <2>2, <3>1 DEF Reps
  <2>4. PICK r \in Reps : r = [pc |-> "item", a |-> None, next |-> cur + 1, end |-> end, keyed |-> keyed]
    BY <2>a
  <2>5. ASSUME NEW i \in 1 .. r.end, i < r.next PROVE Covered(d, i)
    BY <2>1, <2>2, <2>4, <2>5
  <2>6. InReplication(d, r)
    BY <2>1, <2>2, <2>4, <2>5, <1>a DEF InReplication, Fetching
  <2> QED
    BY <1>2, <2>1, <2>3, <2>4, <2>6, ReplicationKept
<1>7. ASSUME NEW d \in Devices, replicate_change(d) PROVE Goal
  <2> DEFINE a == manifest.artifact
             old == rep[d]
  <2>1. UNCHANGED objectCursor /\ old.pc = "item" /\ old.next <= old.end
    BY <1>7 DEF replicate_change
  <2>2. /\ old \in Reps /\ old.next \in Nat /\ old.end \in Nat /\ objectCursor[d] \in Nat
        /\ objectCursor[d] < old.next /\ old.end <= Len(changes)
        /\ \A i \in 1 .. old.end : i < old.next => Covered(d, i)
    BY <1>0, <2>1 DEF Reps, Replicating, InReplication
  <2>3. old.next \in 1 .. Len(changes)
    BY <1>a, <2>1, <2>2
  <2>4. CASE EndRep(d)
    BY <1>3, <2>1, <2>4 DEF EndRep
  <2>5. ASSUME MatchesChange(changes[old.next])
        PROVE  a \in Artifacts /\ a.src.version = manifest.version /\ manifest.version >= changes[old.next].version
    <3>1. manifest.version \in Nat /\ changes[old.next].version \in 1 .. MaxVersion
      <4>1. changes[old.next] \in [artifact : Artifacts, version : 1 .. MaxVersion]
        BY <1>0, <2>3, ElementOfSeq DEF StoreTypes
      <4> QED
        BY <1>0, <4>1 DEF StoreTypes
    <3>2. manifest.version > 0 /\ manifest.version >= changes[old.next].version
      BY <2>5, <3>1 DEF MatchesChange
    <3> QED
      BY <1>0, <3>2 DEF ManifestCurrent
  <2>6. ASSUME MatchesChange(changes[old.next]), NEW pc \in {"report", "download"},
               pc = "report" => rows[d][a].status = "installed", pc = "download" => Ready(a),
               rep' = [rep EXCEPT ![d].pc = pc, ![d].a = a]
        PROVE  Goal
    <3>1. PICK r \in Reps : r = [old EXCEPT !.pc = pc, !.a = a]
      BY <2>2, <2>5, <2>6 DEF Reps, Fetching
    <3>2. r.pc = pc /\ r.a = a /\ r.next = old.next /\ r.end = old.end
      BY <2>2, <3>1 DEF Reps
    <3>3. old.next <= old.end + 1
      BY <2>1, <2>2
    <3>4. pc # "report" => replicas[a].status # "none"
      BY <2>6 DEF Ready
    <3>5. a \in Artifacts /\ a.src.version >= changes[old.next].version
      BY <2>5, <2>6
    <3> HIDE DEF a
    <3>6. InReplication(d, r)
      <4>1. pc \in {"report", "download"} /\ (pc = "report" => rows[d][a].status = "installed")
        BY <2>6
      <4>2. objectCursor[d] < r.next /\ r.next <= r.end + 1 /\ r.end <= Len(changes) /\ r.next <= r.end
            /\ r.a.src.version >= changes[r.next].version
        BY <2>1, <2>2, <3>2, <3>3, <3>5
      <4>3. \A i \in 1 .. r.end : i < r.next => Covered(d, i)
        BY <2>2, <3>2
      <4> QED
        BY <3>2, <3>4, <3>5, <4>1, <4>2, <4>3 DEF InReplication
    <3>7. InReplication(d, r)'
      BY <2>1, <3>6, ReplicationKept
    <3>8. rep' = [rep EXCEPT ![d] = r]
      BY <2>6, <3>1
    <3> QED
      BY <1>2, <2>1, <3>7, <3>8
  <2>7. ASSUME rep' = [rep EXCEPT ![d].next = @ + 1], skipped' = [skipped EXCEPT ![d] = @ \cup {rep[d].next}]
        PROVE  Goal
    <3>0. old.next + 1 \in Nat
      BY <2>2
    <3>1. PICK r \in Reps : r = [old EXCEPT !.next = old.next + 1]
      BY <2>2, <3>0 DEF Reps
    <3>2. r.pc = "item" /\ r.next = old.next + 1 /\ r.end = old.end
      BY <2>1, <2>2, <3>1 DEF Reps
    <3>3. PICK n \in Nat : n = old.next
      BY <2>2
    <3>4. n \in skipped'[d]
      <4>1. skipped \in [Devices -> SUBSET Nat]
        BY DEF IInv, DeviceTypes
      <4> QED
        BY <2>7, <3>3, <4>1
    <3>5. Covered(d, n)'
      BY <3>4 DEF Covered
    <3>6. rep[d].pc # "idle"
      BY <2>1
    <3>7. rep' = [rep EXCEPT ![d] = r]
      BY <2>7, <3>1
    <3> QED
      BY <1>5, <2>1, <3>2, <3>3, <3>5, <3>6, <3>7
  <2> HIDE DEF Goal
  <2> QED
    BY <1>7, <2>4, <2>6, <2>7 DEF replicate_change
<1>8. ASSUME NEW d \in Devices, replication_fails(d) PROVE Goal
  BY <1>3, <1>8 DEF replication_fails, EndRep
<1>9. ASSUME NEW d \in Devices, download_artifact(d) \/ install_artifact(d) PROVE Goal
  BY <1>4, <1>9 DEF download_artifact, install_artifact
<1>10. ASSUME NEW d \in Devices, import_artifact(d) PROVE Goal
  <2>1. PICK r \in Reps : r = [rep[d] EXCEPT !.pc = "record"]
    BY <1>0 DEF Reps, Fetching
  <2>2. r.pc = "record" /\ r.a = rep[d].a /\ r.next = rep[d].next /\ r.end = rep[d].end
    BY <1>0, <2>1 DEF Reps
  <2>3. InReplication(d, r)
    BY <1>0, <1>10, <2>2 DEF import_artifact, Replicating, InReplication, Fetching
  <2> QED
    BY <1>2, <1>10, <2>1, <2>3, ReplicationKept DEF import_artifact, RepStep
<1>11. ASSUME NEW d \in Devices, record_installed(d) PROVE Goal
  <2>1. PICK a \in Artifacts : a = rep[d].a
    BY <1>0, <1>11 DEF record_installed, Replicating, InReplication, Fetching
  <2>2. PICK old \in Reps : old = rep[d] /\ InReplication(d, old)
    BY <1>0 DEF Replicating
  <2>3. PICK r \in Reps : r = [old EXCEPT !.pc = "replica"]
    BY DEF Reps, Fetching
  <2>4. r.pc = "replica" /\ r.a = a /\ r.next = old.next /\ r.end = old.end /\ old.pc = "record" /\ old.a = a
    BY <1>11, <2>1, <2>2, <2>3 DEF Reps, record_installed
  <2>5. rows' = [rows EXCEPT ![d][a] = upsert_manifest(rows[d][a], "install", "installed")] /\ UNCHANGED objectCursor
        /\ rep' = [rep EXCEPT ![d] = r]
    BY <1>11, <2>1, <2>2, <2>3 DEF record_installed, RepStep
  <2>6. rows[d][a] \in RowRecords
    BY <1>0 DEF Manifests
  <2>7. PICK row \in RowRecords : row = upsert_manifest(rows[d][a], "install", "installed") /\ row.status = "installed"
    BY <2>6, Upserted DEF Places
  <2>8. rows'[d][a].status = "installed"
    <3>1. WithRow(d, a, row)
      BY <2>5, <2>7 DEF WithRow
    <3> QED
      BY <1>0, <2>7, <3>1, RowWritten
  <2>9. InReplication(d, old)'
    BY <2>2, <2>5, ReplicationKept
  <2>10. InReplication(d, r)'
    BY <2>4, <2>8, <2>9 DEF InReplication, Fetching
  <2> QED
    BY <1>2, <2>5, <2>10
<1>12. ASSUME NEW d \in Devices, record_replica(d) PROVE Goal
  BY <1>4, <1>12 DEF record_replica
<1>13. ASSUME NEW d \in Devices, report_state(d) PROVE Goal
  <2>1. UNCHANGED objectCursor /\ rep[d].pc = "report"
    BY <1>13 DEF report_state
  <2>2. CASE EndRep(d)
    BY <1>3, <2>1, <2>2 DEF EndRep
  <2>3. CASE ~EndRep(d)
    <3>1. PICK old \in Reps : old = rep[d]
      BY <1>0
    <3>0. old.next \in Nat /\ old.next + 1 \in Nat
      BY DEF Reps
    <3>2. PICK r \in Reps : r = [old EXCEPT !.pc = "item", !.a = None, !.next = old.next + 1]
      BY <3>0 DEF Reps
    <3>3. r.pc = "item" /\ r.next = old.next + 1 /\ r.end = old.end /\ old.next \in Nat
      BY <3>2 DEF Reps
    <3>4. /\ old.a \in Artifacts /\ old.next <= old.end /\ old.a.src.version >= changes[old.next].version
          /\ rows[d][old.a].status = "installed" /\ objectCursor[d] < old.next /\ old.end <= Len(changes)
      BY <1>0, <2>1, <3>1 DEF Replicating, InReplication, Fetching
    <3>5. old.next \in 1 .. Len(changes) /\ Covered(d, old.next)
      <4>1. objectCursor[d] \in Nat /\ old.end \in Nat
        BY <1>0 DEF Reps
      <4>2. old.next \in 1 .. Len(changes)
        BY <1>a, <3>3, <3>4, <4>1
      <4> QED
        BY <3>4, <4>2 DEF Covered
    <3>6. PICK n \in 1 .. Len(changes) : n = old.next
      BY <3>5
    <3>7. Covered(d, n)'
      BY <3>5, <3>6, CoveredKept
    <3>8. rep' = [rep EXCEPT ![d] = r]
      BY <1>13, <2>3, <3>1, <3>2 DEF report_state
    <3> QED
      BY <1>5, <2>1, <3>1, <3>3, <3>4, <3>6, <3>7, <3>8
  <2> QED
    BY <2>2, <2>3
<1>14. ASSUME NEW d \in Devices, advance_object_cursor(d) PROVE Goal
  <2>1. \A e \in Devices : e # d => objectCursor'[e] = objectCursor[e]
    BY <1>0, <1>14 DEF advance_object_cursor
  <2> QED
    BY <1>3, <1>14, <2>1 DEF advance_object_cursor, EndRep
<1>15. ASSUME NEW d \in Devices, crash(d) PROVE Goal
  BY <1>3, <1>15 DEF crash
<1> HIDE DEF Goal
<1>16. ASSUME Gateway PROVE Goal
  BY <1>1, <1>16 DEF Gateway, deviceVars
<1>17. ASSUME NEW d \in Devices, Replication(d) PROVE Goal
  BY <1>6, <1>7, <1>8, <1>9, <1>10, <1>11, <1>12, <1>13, <1>14, <1>17 DEF Replication
<1>18. ASSUME NEW d \in Devices, Publication(d) PROVE UNCHANGED <<rep, objectCursor>>
  BY <1>18 DEF Publication, prepare_publication, record_built, begin_upload, upload_chunk, complete_upload,
     await_completion, abort_upload, stat_object, record_published, report_installed_object, pubSame
<1>19. ASSUME NEW d \in Devices, Cleanup(d) \/ import_version(d) \/ entity_arrives(d)
       PROVE  UNCHANGED <<rep, objectCursor>>
  BY <1>19 DEF Cleanup, list_candidates, remove_candidate, reconcile_record, finish_gc, cleanSame,
     import_version, entity_arrives
<1>20. Goal
  BY <1>0, <1>1, <1>15, <1>16, <1>17, <1>18, <1>19, Steps DEF DeviceRest
<1>21. objectCursor' \in [Devices -> Nat] /\ CursorBounds'
  <2>1. ASSUME UNCHANGED objectCursor PROVE objectCursor' \in [Devices -> Nat] /\ CursorBounds'
    <3>1. ASSUME NEW d \in Devices
          PROVE  objectCursor[d] <= Len(changes') /\ \A i \in 1 .. objectCursor[d] : Covered(d, i)'
      <4>1. objectCursor[d] \in Nat /\ objectCursor[d] <= Len(changes)
            /\ \A i \in 1 .. objectCursor[d] : Covered(d, i)
        BY <1>0 DEF Replicating, CursorBounds
      <4>2. ASSUME NEW i \in 1 .. objectCursor[d] PROVE Covered(d, i)'
        <5>1. i \in 1 .. Len(changes) /\ Covered(d, i)
          BY <1>a, <4>1
        <5> QED
          BY <5>1, CoveredKept
      <4> QED
        BY <1>a, <4>1, <4>2
    <3> QED
      BY <1>0, <2>1, <3>1 DEF CursorBounds
  <2>2. ASSUME NEW d \in Devices, advance_object_cursor(d)
        PROVE  objectCursor' \in [Devices -> Nat] /\ CursorBounds'
    <3>1. /\ rep[d].end \in Nat /\ rep[d].next \in Nat /\ rep[d].next > rep[d].end /\ rep[d].end <= Len(changes)
          /\ \A i \in 1 .. rep[d].end : i < rep[d].next => Covered(d, i)
      BY <1>0, <2>2 DEF Reps, Replicating, InReplication, advance_object_cursor
    <3>2. objectCursor' = [objectCursor EXCEPT ![d] = rep[d].end]
      BY <2>2 DEF advance_object_cursor
    <3>3. objectCursor' \in [Devices -> Nat] /\ objectCursor'[d] = rep[d].end
          /\ \A e \in Devices : e # d => objectCursor'[e] = objectCursor[e]
      BY <1>0, <3>1, <3>2
    <3>4. ASSUME NEW e \in Devices
          PROVE  objectCursor'[e] <= Len(changes') /\ \A i \in 1 .. objectCursor'[e] : Covered(e, i)'
      <4>1. objectCursor'[e] \in Nat /\ objectCursor'[e] <= Len(changes)
            /\ \A i \in 1 .. objectCursor'[e] : Covered(e, i)
        BY <1>0, <3>1, <3>3 DEF Replicating, CursorBounds
      <4>2. ASSUME NEW i \in 1 .. objectCursor'[e] PROVE Covered(e, i)'
        <5>1. i \in 1 .. Len(changes) /\ Covered(e, i)
          BY <1>a, <4>1
        <5> QED
          BY <5>1, CoveredKept
      <4> QED
        BY <1>a, <4>1, <4>2
    <3> QED
      BY <3>3, <3>4 DEF CursorBounds
  <2> QED
    BY <1>0, <2>1, <2>2, CursorStep
<1> QED
  BY <1>20, <1>21 DEF Goal, Replicating

(* What is known of the cleanups in progress.                              *)
LEMMA CleaningStep ==
  ASSUME IInv, ObjectsNext
  PROVE  clean' \in [Devices -> Cleans] /\ Cleaning'
<1> DEFINE Goal == clean' \in [Devices -> Cleans] /\ Cleaning'
<1>0. /\ scenario \in Scenarios /\ clean \in [Devices -> Cleans] /\ Cleaning /\ rows \in Manifests
      /\ \A d \in Devices : ready[d] \subseteq ready'[d]
  <2>1. ready \in [Devices -> SUBSET Artifacts]
    BY DEF IInv, DeviceTypes
  <2>2. \A d \in Devices : ready[d] \subseteq ready'[d]
    BY <2>1, Grows
  <2> QED
    BY <2>2 DEF IInv, DeviceTypes, Manifests
<1>1. ASSUME UNCHANGED clean PROVE Goal
  BY <1>0, <1>1 DEF Cleaning, InCleanup
<1>2. ASSUME NEW d \in Devices, NEW c \in Cleans, clean' = [clean EXCEPT ![d] = c], InCleanup(d, c) PROVE Goal
  <2>1. clean' \in [Devices -> Cleans] /\ clean'[d] = c /\ \A e \in Devices : e # d => clean'[e] = clean[e]
    BY <1>0, <1>2
  <2>2. \A e \in Devices : InCleanup(e, clean'[e])
    BY <1>0, <1>2, <2>1 DEF Cleaning
  <2> QED
    BY <1>0, <2>1, <2>2 DEF Cleaning, InCleanup
<1>3. ASSUME NEW d \in Devices, finish_gc(d) \/ crash(d) PROVE Goal
  <2>1. IdleClean \in Cleans /\ InCleanup(d, IdleClean)
    BY DEF IdleClean, Cleans, InCleanup
  <2>2. clean' = [clean EXCEPT ![d] = IdleClean]
    BY <1>3 DEF finish_gc, crash
  <2> QED
    BY <1>2, <2>1, <2>2
<1>4. ASSUME NEW d \in Devices, list_candidates(d) PROVE Goal
  <2> DEFINE found == {[a |-> a, path |-> rows[d][a].path] : a \in {b \in Artifacts : Reclaimable(d, b)}}
             c == [pc |-> "remove", todo |-> found, at |-> None]
  <2>1. ASSUME NEW x \in found PROVE x \in Candidates /\ x.a \in ready[d]
    <3>1. PICK a \in Artifacts : Reclaimable(d, a) /\ x = [a |-> a, path |-> rows[d][a].path]
      BY <2>1
    <3>2. rows[d][a].path \in {"outbox", "install"} /\ a \in ready[d]
      BY <1>0, <3>1 DEF Reclaimable, Manifests, RowRecords, Places
    <3> QED
      BY <3>1, <3>2 DEF Candidates
  <2>2. clean' = [clean EXCEPT ![d] = c]
    BY <1>4 DEF list_candidates
  <2> HIDE DEF found
  <2>3. c \in Cleans /\ InCleanup(d, c)
    BY <2>1 DEF Cleans, InCleanup
  <2> HIDE DEF c
  <2> QED
    BY <1>2, <2>2, <2>3
<1>5. ASSUME NEW d \in Devices, remove_candidate(d) PROVE Goal
  <2>1. PICK x \in clean[d].todo :
           \/ clean' = [clean EXCEPT ![d].pc = "clear", ![d].at = x, ![d].todo = @ \ {x}]
           \/ clean' = [clean EXCEPT ![d].todo = @ \ {x}]
    BY <1>5 DEF remove_candidate
  <2>2. clean[d] \in Cleans /\ x \in Candidates /\ x.a \in ready[d] /\ clean[d].pc = "remove"
        /\ \A candidate \in clean[d].todo : candidate.a \in ready[d]
    BY <1>0, <1>5 DEF Cleans, Cleaning, InCleanup, remove_candidate
  <2>3. CASE clean' = [clean EXCEPT ![d].todo = @ \ {x}]
    <3> DEFINE c == [clean[d] EXCEPT !.todo = @ \ {x}]
    <3>1. c \in Cleans /\ InCleanup(d, c)
      BY <2>2 DEF Cleans, InCleanup
    <3>2. clean' = [clean EXCEPT ![d] = c]
      BY <2>3
    <3> HIDE DEF c
    <3> QED
      BY <1>2, <3>1, <3>2
  <2>4. CASE clean' = [clean EXCEPT ![d].pc = "clear", ![d].at = x, ![d].todo = @ \ {x}]
    <3> DEFINE c == [clean[d] EXCEPT !.pc = "clear", !.at = x, !.todo = @ \ {x}]
    <3>1. c \in Cleans /\ InCleanup(d, c)
      BY <2>2 DEF Cleans, InCleanup
    <3>2. clean' = [clean EXCEPT ![d] = c]
      BY <2>4
    <3> HIDE DEF c
    <3> QED
      BY <1>2, <3>1, <3>2
  <2> QED
    BY <2>1, <2>3, <2>4
<1>6. ASSUME NEW d \in Devices, reconcile_record(d) PROVE Goal
  <2> DEFINE c == [clean[d] EXCEPT !.pc = "remove", !.at = None]
  <2>1. c \in Cleans /\ InCleanup(d, c)
    BY <1>0 DEF Cleans, Cleaning, InCleanup
  <2>2. clean' = [clean EXCEPT ![d] = c]
    BY <1>6 DEF reconcile_record
  <2> HIDE DEF c
  <2> QED
    BY <1>2, <2>1, <2>2
<1> HIDE DEF Goal
<1>7. ASSUME Gateway PROVE Goal
  BY <1>1, <1>7 DEF Gateway, deviceVars
<1>8. ASSUME NEW d \in Devices, Publication(d) PROVE UNCHANGED clean
  BY <1>8 DEF Publication, prepare_publication, record_built, begin_upload, upload_chunk, complete_upload,
     await_completion, abort_upload, stat_object, record_published, report_installed_object, pubSame
<1>9. ASSUME NEW d \in Devices, Replication(d) PROVE UNCHANGED clean
  BY <1>9 DEF Replication, list_object_changes, replicate_change, replication_fails, download_artifact,
     install_artifact, import_artifact, record_installed, record_replica, report_state, advance_object_cursor, repSame
<1>10. ASSUME NEW d \in Devices, import_version(d) \/ entity_arrives(d) PROVE UNCHANGED clean
  BY <1>10 DEF import_version, entity_arrives
<1>11. Goal
  BY <1>0, <1>1, <1>3, <1>4, <1>5, <1>6, <1>7, <1>8, <1>9, <1>10, Steps DEF Cleanup, DeviceRest
<1> QED
  BY <1>11 DEF Goal

-----------------------------------------------------------------------------
(***************************************************************************)
(* The invariant holds at first and is kept.                               *)
(***************************************************************************)

(* The invariant holds where one device has a document no other knows.     *)
LEMMA FreshInit ==
  ASSUME scenario \in Scenarios, FreshStart(scenario.maker),
         pub = [d \in Devices |-> IdlePub], rep = [d \in Devices |-> IdleRep],
         clean = [d \in Devices |-> IdleClean], skipped = [d \in Devices |-> {}]
  PROVE  IInv
<1> DEFINE maker == scenario.maker
           first == IF kind = "reading_epub" THEN Book ELSE [by |-> maker, version |-> 1]
<1>0. maker \in Devices /\ MaxVersion \in Nat \ {0} /\ 0 \in 0 .. MaxVersion
  BY ScenariosAssumption
<1>1. first \in Sources /\ first.version = 1
  BY <1>0 DEF Book, Sources
<1>2. /\ manifest = [version |-> 0, artifact |-> None] /\ changes = <<>> /\ gc = None
      /\ replicas = [a \in Artifacts |-> NoReplica] /\ uploads = [a \in Artifacts |-> NoUpload]
      /\ states = [d \in Devices |-> [observed |-> 0, status |-> "none", artifact |-> None]]
  BY DEF FreshStart, StoreInit
<1>3. /\ entity = [d \in Devices |-> d = maker] /\ epub \in [Devices -> BOOLEAN]
      /\ doc = [d \in Devices |-> IF d = maker THEN first ELSE NoSource]
      /\ rows = [d \in Devices |-> [a \in Artifacts |-> NoRow]] /\ ready = [d \in Devices |-> {}]
      /\ files = [d \in Devices |-> {}] /\ pointer = [d \in Devices |-> None] /\ objectCursor = [d \in Devices |-> 0]
  BY DEF FreshStart
<1> HIDE DEF first, maker
<1>4. StoreTypes
  <2>1. NoReplica \in Replicas
    BY DEF NoReplica, Replicas
  <2>2. NoUpload \in Uploads
    BY <1>0 DEF NoUpload, Uploads
  <2> QED
    BY <1>0, <1>2, <2>1, <2>2 DEF StoreTypes
<1>5. StateTypes /\ ReportsAreTrue
  BY <1>2 DEF StateTypes, ReportsAreTrue
<1>6. DeviceTypes
  <2>1. NoRow \in RowRecords
    BY DEF NoRow, RowRecords, Places
  <2>2. IdlePub \in Pubs /\ IdleRep \in Reps /\ IdleClean \in Cleans
    BY DEF IdlePub, Pubs, IdleRep, Reps, IdleClean, Cleans, Places
  <2>3. entity \in [Devices -> BOOLEAN] /\ doc \in [Devices -> Sources \cup {NoSource}]
    BY <1>1, <1>3
  <2> QED
    BY <1>3, <2>1, <2>2, <2>3 DEF DeviceTypes
<1>7. ManifestCurrent /\ Logged /\ Superseded
  BY <1>2 DEF ManifestCurrent, Logged, Superseded, NoReplica
<1>8. Keyed
  BY <1>2 DEF Keyed, NoReplica, NoUpload, Open
<1>9. Rowed /\ PublicationRetryable /\ ReplicasAreReal
  BY <1>2, <1>3 DEF Rowed, Recorded, NoRow, NoUpload, PublicationRetryable, ReplicasAreReal
<1>10. Publishing /\ Cleaning
  BY DEF Publishing, InPublication, IdlePub, Cleaning, InCleanup, IdleClean
<1>11. Replicating
  BY <1>2, <1>3 DEF Replicating, CursorBounds, InReplication, IdleRep, Fetching
<1>12. BooksOnce
  BY <1>1, <1>3 DEF BooksOnce, NoSource
<1> QED
  BY <1>4, <1>5, <1>6, <1>7, <1>8, <1>9, <1>10, <1>11, <1>12 DEF IInv

(* The invariant holds where the first version is installed everywhere.    *)
LEMMA SharedInit ==
  ASSUME scenario \in Scenarios, SharedStart(scenario.maker),
         pub = [d \in Devices |-> IdlePub], rep = [d \in Devices |-> IdleRep],
         clean = [d \in Devices |-> IdleClean], skipped = [d \in Devices |-> {}]
  PROVE  IInv
<1> DEFINE maker == scenario.maker
           first == [by |-> maker, version |-> 1]
           a1 == [src |-> first, builder |-> maker, n |-> 1]
           place(d) == IF d = maker THEN "outbox" ELSE "install"
           entry == [artifact |-> a1, version |-> 1]
           stored == [NoReplica EXCEPT !.status = "ready", !.key = 1]
           sent == [NoUpload EXCEPT !.status = "completed", !.key = 1]
<1>0. maker \in Devices /\ MaxVersion \in Nat \ {0} /\ MaxBuilds \in Nat \ {0} /\ 0 \in 0 .. MaxVersion
  BY ScenariosAssumption
<1>1. first \in Sources /\ first.version = 1
  BY <1>0 DEF Sources
<1>2. a1 \in Artifacts /\ a1.src = first /\ a1.builder = maker /\ a1.src.version = 1
  BY <1>0, <1>1 DEF Artifacts
<1>3. /\ manifest = [version |-> 1, artifact |-> a1] /\ changes = <<entry>> /\ gc = None /\ blobs = {<<a1, 1>>}
      /\ replicas = [a \in Artifacts |-> IF a = a1 THEN stored ELSE NoReplica]
      /\ uploads = [a \in Artifacts |-> IF a = a1 THEN sent ELSE NoUpload]
      /\ states = [d \in Devices |-> [observed |-> 1, status |-> "installed", artifact |-> a1]]
  BY DEF SharedStart
<1>4. /\ entity = [d \in Devices |-> TRUE] /\ epub = [d \in Devices |-> TRUE] /\ doc = [d \in Devices |-> first]
      /\ rows = [d \in Devices |-> [a \in Artifacts |-> IF a = a1 THEN PublishedRow(place(d)) ELSE NoRow]]
      /\ ready = [d \in Devices |-> {a1}] /\ files = [d \in Devices |-> {<<place(d), a1>>}]
      /\ pointer = [d \in Devices |-> IF d = maker THEN None ELSE a1] /\ objectCursor = [d \in Devices |-> 1]
  BY DEF SharedStart
<1>5. /\ stored \in Replicas /\ stored.status = "ready" /\ stored.key = 1 /\ ~stored.orphaned
      /\ sent.status = "completed" /\ sent.key = 1
  BY DEF NoReplica, NoUpload, Replicas
<1>6. sent \in Uploads /\ NoReplica \in Replicas /\ NoUpload \in Uploads
  BY <1>0 DEF NoReplica, NoUpload, Replicas, Uploads
<1>7. entry \in [artifact : Artifacts, version : 1 .. MaxVersion] /\ entry.version = 1 /\ entry.artifact = a1
  BY <1>0, <1>2
<1> HIDE DEF maker, first, a1, stored, sent, entry
<1>8. Len(changes) = 1 /\ changes[1] = entry /\ changes \in Seq([artifact : Artifacts, version : 1 .. MaxVersion])
  BY <1>3, <1>7
<1>9. StoreTypes
  <2>1. manifest \in [version : 0 .. MaxVersion, artifact : Artifacts \cup {None}]
    BY <1>0, <1>2, <1>3
  <2> QED
    BY <1>3, <1>5, <1>6, <1>8, <2>1 DEF StoreTypes
<1>10. /\ \A d \in Devices : rows[d][a1].status = "installed" /\ rows[d][a1].path = place(d)
       /\ \A d \in Devices, a \in Artifacts : a # a1 => rows[d][a] = NoRow
  BY <1>2, <1>4 DEF PublishedRow
<1>11. StateTypes /\ ReportsAreTrue
  BY <1>2, <1>3, <1>10 DEF StateTypes, ReportsAreTrue
<1>12. DeviceTypes
  <2>1. NoRow \in RowRecords /\ \A d \in Devices : PublishedRow(place(d)) \in RowRecords
    BY DEF NoRow, PublishedRow, RowRecords, Places
  <2>2. IdlePub \in Pubs /\ IdleRep \in Reps /\ IdleClean \in Cleans
    BY DEF IdlePub, Pubs, IdleRep, Reps, IdleClean, Cleans, Places
  <2>3. rows \in [Devices -> [Artifacts -> RowRecords]]
    BY <1>4, <2>1
  <2>4. files \in [Devices -> SUBSET ({"outbox", "install"} \X Artifacts)]
    BY <1>2, <1>4
  <2>5. /\ doc \in [Devices -> Sources \cup {NoSource}] /\ ready \in [Devices -> SUBSET Artifacts]
        /\ pointer \in [Devices -> Artifacts \cup {None}] /\ objectCursor \in [Devices -> Nat]
    BY <1>1, <1>2, <1>4
  <2> QED
    BY <1>4, <2>2, <2>3, <2>4, <2>5 DEF DeviceTypes
<1>13. ManifestCurrent /\ Logged
  BY <1>2, <1>3, <1>5, <1>7, <1>8 DEF ManifestCurrent, Logged, Available, Ready
<1>14. Keyed
  BY <1>3, <1>5, <1>2 DEF Keyed, NoReplica, NoUpload, Open
<1>15. Superseded
  BY <1>3, <1>5 DEF Superseded, NoReplica
<1>16. Rowed
  BY <1>0, <1>2, <1>3, <1>4, <1>10 DEF Rowed, Recorded, NoRow, NoUpload
<1>17. PublicationRetryable /\ ReplicasAreReal
  BY <1>2, <1>3, <1>4, <1>5, <1>10 DEF PublicationRetryable, ReplicasAreReal, NoRow
<1>18. Publishing /\ Cleaning
  BY DEF Publishing, InPublication, IdlePub, Cleaning, InCleanup, IdleClean
<1>19. Replicating
  <2>1. \A d \in Devices : Covered(d, 1)
    BY <1>2, <1>7, <1>8, <1>10 DEF Covered
  <2> QED
    BY <1>4, <1>8, <2>1 DEF Replicating, CursorBounds, InReplication, IdleRep, Fetching
<1>20. BooksOnce
  BY <1>1, <1>4 DEF BooksOnce
<1> QED
  BY <1>9, <1>11, <1>12, <1>13, <1>14, <1>15, <1>16, <1>17, <1>18, <1>19, <1>20 DEF IInv

(* The invariant holds at first.                                           *)
LEMMA InitIInv ==
  ASSUME ObjectsInit
  PROVE  IInv
BY FreshInit, SharedInit DEF ObjectsInit

(* Every step keeps the invariant and moves versions and documents on.     *)
LEMMA NextIInv ==
  ASSUME IInv, ObjectsNext
  PROVE  IInv' /\ VersionStays /\ DocumentsForward
<1>1. StoreInv' /\ VersionStays
  BY StoreStep DEF Kept
<1>2. DeviceTypes'
  <2>1. scenario \in Scenarios
    BY DEF IInv, DeviceTypes
  <2> QED
    BY <2>1, RestStep, FilesStep, Grows, ChangeFacts, PublishingStep, ReplicatingStep, CleaningStep
       DEF DeviceTypes, Manifests
<1>3. Rowed' /\ PublicationRetryable'
  BY RowedStep
<1>4. StateTypes' /\ ReplicasAreReal' /\ ReportsAreTrue'
  BY ReportsStep
<1>5. Publishing' /\ Replicating' /\ Cleaning' /\ BooksOnce' /\ DocumentsForward
  BY PublishingStep, ReplicatingStep, CleaningStep, RestStep
<1> QED
  BY <1>1, <1>2, <1>3, <1>4, <1>5 DEF IInv, StoreInv

(* A step that changes nothing keeps the invariant.                        *)
LEMMA StutterIInv ==
  ASSUME IInv, UNCHANGED objectVars
  PROVE  IInv'
<1>1. UNCHANGED <<scenario, entity, doc, epub, rows, ready, files, pointer, pub, rep, clean, objectCursor, skipped,
                  manifest, replicas, uploads, blobs, changes, states, gc>>
  BY DEF objectVars, deviceVars, storeVars
<1>2. StoreTypes' /\ StateTypes' /\ DeviceTypes'
  BY <1>1 DEF IInv, StoreTypes, StateTypes, DeviceTypes
<1>3. ManifestCurrent' /\ Logged' /\ Keyed' /\ Superseded'
  BY <1>1 DEF IInv, ManifestCurrent, Logged, Keyed, Superseded, Available, Ready
<1>4. Rowed' /\ PublicationRetryable' /\ ReplicasAreReal' /\ ReportsAreTrue' /\ BooksOnce'
  BY <1>1 DEF IInv, Rowed, Recorded, PublicationRetryable, ReplicasAreReal, ReportsAreTrue, BooksOnce, kind
<1>5. Publishing' /\ Cleaning'
  BY <1>1 DEF IInv, Publishing, InPublication, Recorded, Cleaning, InCleanup
<1>6. Replicating'
  BY <1>1 DEF IInv, Replicating, CursorBounds, InReplication, Covered
<1> QED
  BY <1>2, <1>3, <1>4, <1>5, <1>6 DEF IInv

(***************************************************************************)
(* The theorems.                                                           *)
(***************************************************************************)

(* The invariant implies the safety properties of the runs.                *)
LEMMA IInvSafe ==
  ASSUME IInv
  PROVE  ObjectsSafe
<1>1. ObjectsTypes
  <2>1. manifest.version \in 0 .. MaxVersion /\ manifest.artifact \in Artifacts \cup {None}
    BY DEF IInv, StoreTypes
  <2>2. ASSUME NEW d \in Devices
        PROVE  /\ doc[d] \in Sources \cup {NoSource}
               /\ \A a \in Artifacts : rows[d][a].path \in {"none", "outbox", "install"}
               /\ ready[d] \subseteq {a \in Artifacts : rows[d][a].status # "none"}
               /\ files[d] \subseteq {"outbox", "install"} \X Artifacts
               /\ objectCursor[d] \in 0 .. Len(changes) /\ pointer[d] \in Artifacts \cup {None}
    <3>1. Len(changes) \in Nat
      BY LenProperties DEF IInv, StoreTypes
    <3>2. objectCursor[d] \in 0 .. Len(changes)
      BY <3>1 DEF IInv, DeviceTypes, Replicating, CursorBounds
    <3>3. \A a \in Artifacts : rows[d][a].path \in {"none", "outbox", "install"}
      BY DEF IInv, DeviceTypes, RowRecords, Places
    <3>4. ready[d] \subseteq {a \in Artifacts : rows[d][a].status # "none"}
      BY DEF IInv, DeviceTypes, Rowed, Recorded
    <3> QED
      BY <3>2, <3>3, <3>4 DEF IInv, DeviceTypes
  <2> QED
    BY <2>1, <2>2 DEF ObjectsTypes
<1>2. CurrentAvailable /\ PublicationRetryable /\ ReplicasAreReal /\ ReportsAreTrue
  BY DEF IInv, ManifestCurrent, CurrentAvailable
<1>3. OneArtifactPerSource
  BY DEF IInv, Rowed, OneArtifactPerSource
<1>4. CursorCovers
  BY DEF IInv, Replicating, CursorBounds, Covered, CursorCovers
<1> QED
  BY <1>1, <1>2, <1>3, <1>4 DEF ObjectsSafe

\* The inductive invariant holds in every behaviour.
THEOREM ObjectsInvariant == ObjectsSpec => []IInv
<1>1. ObjectsInit => IInv
  BY InitIInv
<1>2. IInv /\ [ObjectsNext]_objectVars => IInv'
  BY NextIInv, StutterIInv
<1> QED
  BY <1>1, <1>2, PTL DEF ObjectsSpec

\* Whatever completions, collections, cleanups, failures and crashes overlap,
\* the current artifact can be downloaded, a publication can be tried again,
\* and no cursor passes an artifact that is neither installed nor reported.
THEOREM ObjectsCorrect == ObjectsSpec => []ObjectsSafe
<1>1. IInv => ObjectsSafe
  BY IInvSafe
<1> QED
  BY <1>1, ObjectsInvariant, PTL

\* No step replaces a published version by another artifact or takes a
\* manifest or a document back to an older version.
THEOREM ForwardCorrect == ObjectsSpec => ObjectsForward
<1>1. IInv /\ [ObjectsNext]_objectVars => [VersionStays /\ DocumentsForward]_objectVars
  BY NextIInv
<1> QED
  BY <1>1, ObjectsInvariant, PTL DEF ObjectsSpec, ObjectsForward

(***************************************************************************)
(* Numbers.                                                                *)
(***************************************************************************)
(* Numbers: a set of them that is not empty has a least one, and a greatest *)
(* one if it is bounded.                                                    *)
LEMMA LeastOf ==
  ASSUME NEW S \in SUBSET Nat, S # {}
  PROVE  \E m \in S : \A n \in S : m <= n
<1> DEFINE less == {p \in Nat \X Nat : p[1] < p[2]}
<1>1. IsWellFoundedOn(less, Nat)
  BY NatLessThanWellFounded DEF OpToRel
<1>2. PICK m \in S : \A n \in S : <<n, m>> \notin less
  <2> HIDE DEF less
  <2> QED
    BY <1>1, WFMin
<1>3. ASSUME NEW n \in S, n < m PROVE FALSE
  <2>1. <<n, m>> \in less
    BY <1>3
  <2> QED
    BY <1>2, <2>1
<1> QED
  BY <1>3

(* The greatest one lies b minus the least of their distances from b.       *)
LEMMA GreatestOf ==
  ASSUME NEW b \in Nat, NEW S \in SUBSET (0 .. b), S # {}
  PROVE  \E m \in S : \A n \in S : n <= m
<1> DEFINE mirrored == {b - n : n \in S}
<1>1. mirrored \in SUBSET Nat /\ mirrored # {}
  OBVIOUS
<1>2. PICK k \in mirrored : \A n \in mirrored : k <= n
  BY <1>1, LeastOf
<1>3. PICK m \in S : k = b - m
  BY <1>2
<1>4. ASSUME NEW n \in S PROVE n <= m
  <2>1. b - m <= b - n
    BY <1>2, <1>3
  <2>2. n \in Nat /\ m \in Nat
    OBVIOUS
  <2> QED
    BY <2>1, <2>2
<1> QED
  BY <1>4

(***************************************************************************)
(* Chunks of a text: the inductive invariant.                              *)
(***************************************************************************)
\* Characters, those of the text that have been cut off, and where two of them are.
Chars == Nat \X Nat
ChunkRows == [text : Seq(Chars), section : Nat]
Added ==
    {c \in Chars : /\ c[1] \in DOMAIN paragraphs /\ c[2] \in 1 .. paragraphs[c[1]].length
                   /\ c[1] < cutting.paragraph \/ (c[1] = cutting.paragraph /\ c[2] <= cutting.cut)}
Together(x, y) ==
    {x, y} \subseteq ToSet(filling) \/ \E j \in DOMAIN textChunks : {x, y} \subseteq ToSet(textChunks[j].text)

\* A character of s that the last chunk has not.
NewIn(s) ==
    \E c \in ToSet(s) : c # Separator /\ (textChunks # <<>> => c \notin ToSet(textChunks[Len(textChunks)].text))

CuttingTypes ==
    /\ paragraphs \in Seq(Paragraphs)
    /\ cutting \in [paragraph : 1 .. Len(paragraphs) + 1, cut : Nat]
    /\ IF AllCut THEN cutting.cut = 0 ELSE cutting.cut < paragraphs[cutting.paragraph].length
    /\ filling \in Seq(Chars) /\ Len(filling) <= Size
    /\ textChunks \in Seq(ChunkRows)

\* Nothing but what was cut off is in a chunk, and all of that is, with what came
\* just before it.
NothingElse ==
    /\ ToSet(filling) \subseteq Added \cup {Separator}
    /\ \A j \in DOMAIN textChunks : ToSet(textChunks[j].text) \subseteq Added \cup {Separator}
AllHeld == \A x, y \in Added : x[1] = y[1] /\ y[2] \in {x[2], x[2] + 1} => Together(x, y)
CutIsLast ==
    cutting.cut > 0 => filling # <<>> /\ filling[Len(filling)] = <<cutting.paragraph, cutting.cut>>

\* Each chunk has something new, and so has what is emitted next.
ChunksNew ==
    \A j \in DOMAIN textChunks : j > 1 =>
        ToSet(textChunks[j].text) \ (ToSet(textChunks[j - 1].text) \cup {Separator}) # {}
FillingNew == NewIn(filling) \/ (Len(filling) <= Overlap + 1 /\ (AllCut => filling = <<>>))

CuttingInv ==
    CuttingTypes /\ ChunksBounded /\ NothingElse /\ AllHeld /\ CutIsLast /\ ChunksNew /\ FillingNew

LEMMA SetOfSeq ==
  ASSUME NEW s \in Seq(Chars)
  PROVE  /\ \A i \in 1 .. Len(s) : s[i] \in ToSet(s) /\ s[i] \in Chars
         /\ \A c \in ToSet(s) : \E i \in 1 .. Len(s) : s[i] = c
         /\ ToSet(s) \subseteq Chars /\ Len(s) \in Nat /\ (s = <<>> <=> Len(s) = 0)
<1>1. DOMAIN s = 1 .. Len(s) /\ Len(s) \in Nat /\ (s = <<>> <=> Len(s) = 0)
  BY EmptySeq
<1> QED BY <1>1, ElementOfSeq DEF ToSet

\* trailing_chars keeps the end.
LEMMA TrailingChars ==
  ASSUME NEW s \in Seq(Chars)
  PROVE  LET t == trailing_chars(s) IN
         /\ t \in Seq(Chars) /\ Len(t) <= Len(s) /\ Len(t) <= Overlap + 1
         /\ ToSet(t) \subseteq ToSet(s)
         /\ s # <<>> => t # <<>> /\ t[Len(t)] = s[Len(s)]
<1>0. Overlap \in Nat /\ Len(s) \in Nat
  BY ChunkingAssumption
<1>1. CASE Len(s) <= Overlap
  <2>1. trailing_chars(s) = s
    BY <1>0, <1>1 DEF trailing_chars
  <2> QED BY <1>0, <1>1, <2>1
<1>2. CASE Len(s) > Overlap
  <2>1. PICK t : t = SubSeq(s, Len(s) - Overlap, Len(s))
    OBVIOUS
  <2>2. \A i \in Len(s) - Overlap .. Len(s) : i \in 1 .. Len(s) /\ s[i] \in Chars
    BY <1>0, <1>2, SetOfSeq
  <2>3. /\ t \in Seq(Chars) /\ Len(t) = Overlap + 1
        /\ \A i \in 1 .. Overlap + 1 : t[i] = s[Len(s) - Overlap + i - 1]
    <3>1. PICK m \in Int : m = Len(s) - Overlap
      BY <1>0
    <3>2. PICK n \in Int : n = Len(s)
      BY <1>0
    <3>3. /\ SubSeq(s, m, n) \in Seq(Chars)
          /\ Len(SubSeq(s, m, n)) = IF m <= n THEN n - m + 1 ELSE 0
          /\ \A i \in 1 .. n - m + 1 : SubSeq(s, m, n)[i] = s[m + i - 1]
      BY <2>2, <3>1, <3>2, SubSeqProperties
    <3>4. m <= n /\ n - m + 1 = Overlap + 1
      BY <1>0, <3>1, <3>2
    <3> QED BY <2>1, <3>1, <3>2, <3>3, <3>4
  <2>4. ToSet(t) \subseteq ToSet(s)
    <3>1. ASSUME NEW c \in ToSet(t) PROVE c \in ToSet(s)
      <4>1. PICK i \in 1 .. Len(t) : t[i] = c
        BY <2>3, SetOfSeq
      <4>2. Len(s) - Overlap + i - 1 \in 1 .. Len(s)
        BY <1>0, <1>2, <2>3
      <4> QED BY <2>3, <4>1, <4>2, SetOfSeq
    <3> QED BY <3>1
  <2>5. t # <<>> /\ t[Len(t)] = s[Len(s)]
    <3>1. Overlap + 1 \in 1 .. Overlap + 1 /\ Len(s) - Overlap + (Overlap + 1) - 1 = Len(s)
      BY <1>0
    <3> QED BY <1>0, <2>3, <3>1
  <2>6. trailing_chars(s) = t
    BY <1>0, <1>2, <2>1 DEF trailing_chars
  <2> QED BY <1>0, <1>2, <2>3, <2>4, <2>5, <2>6
<1> QED BY <1>0, <1>1, <1>2

\* Trimming takes no letter away.
LEMMA TrimmedLetters ==
  ASSUME NEW s \in Seq(Chars), NEW letter \in ToSet(s), letter # Separator
  PROVE  LET t == Trimmed(s) IN
         /\ t \in Seq(Chars) /\ t # <<>> /\ Len(t) <= Len(s)
         /\ ToSet(t) \subseteq ToSet(s) /\ \A c \in ToSet(s) : c # Separator => c \in ToSet(t)
<1>0. Len(s) \in Nat /\ DOMAIN s = 1 .. Len(s)
  OBVIOUS
<1>1. PICK L : L = {j \in DOMAIN s : s[j] # Separator}
  OBVIOUS
<1>2. L \subseteq 0 .. Len(s) /\ L \subseteq 1 .. Len(s) /\ L # {} /\ L \subseteq Nat
  BY <1>0, <1>1, SetOfSeq
<1>3. PICK a \in L : \A n \in L : a <= n
  BY <1>2, LeastOf
<1>4. PICK b \in L : \A n \in L : n <= b
  BY <1>0, <1>2, GreatestOf
<1>5. Min(L) = a /\ Max(L) = b
  <2>1. \A x \in L : (\A y \in L : x <= y) => x = a
    BY <1>2, <1>3
  <2>2. \A x \in L : (\A y \in L : x >= y) => x = b
    BY <1>2, <1>4
  <2>3. \A y \in L : b >= y
    BY <1>2, <1>4
  <2> QED BY <1>3, <2>1, <2>2, <2>3 DEF Min, Max
<1>6. PICK t : t = SubSeq(s, a, b)
  OBVIOUS
<1>7. Trimmed(s) = t
  BY <1>1, <1>2, <1>5, <1>6 DEF Trimmed
<1>8. a \in Int /\ b \in Int /\ 1 <= a /\ a <= b /\ b <= Len(s)
  BY <1>0, <1>2, <1>3, <1>4
<1>9. \A i \in a .. b : i \in 1 .. Len(s) /\ s[i] \in Chars
  BY <1>0, <1>8, SetOfSeq
<1>10. /\ t \in Seq(Chars) /\ Len(t) = b - a + 1
       /\ \A i \in 1 .. b - a + 1 : t[i] = s[a + i - 1]
  BY <1>6, <1>8, <1>9, SubSeqProperties
<1>11. ToSet(t) \subseteq ToSet(s)
  <2>1. ASSUME NEW c \in ToSet(t) PROVE c \in ToSet(s)
    <3>1. PICK i \in 1 .. Len(t) : t[i] = c
      BY <1>10, SetOfSeq
    <3>2. a + i - 1 \in 1 .. Len(s)
      BY <1>0, <1>8, <1>10
    <3> QED BY <1>10, <3>1, <3>2, SetOfSeq
  <2> QED BY <2>1
<1>12. ASSUME NEW c \in ToSet(s), c # Separator PROVE c \in ToSet(t)
  <2>1. PICK j \in L : s[j] = c
    BY <1>0, <1>1, <1>12, SetOfSeq
  <2>2. a <= j /\ j <= b /\ j \in Int
    BY <1>2, <1>3, <1>4
  <2>3. j - a + 1 \in 1 .. b - a + 1 /\ a + (j - a + 1) - 1 = j
    BY <1>8, <2>2
  <2>4. t[j - a + 1] = c
    BY <1>10, <2>1, <2>3
  <2> QED BY <1>10, <2>3, <2>4, SetOfSeq
<1>13. t # <<>> /\ Len(t) <= Len(s)
  BY <1>0, <1>8, <1>10
<1> QED BY <1>7, <1>10, <1>11, <1>12, <1>13

LEMMA SectionTyped == ASSUME CuttingTypes, NEW p \in Nat PROVE Section(p) \in Nat
<1> DEFINE S == {0} \cup {h \in 1 .. p : h <= Len(paragraphs) /\ paragraphs[h].heading}
<1>1. S \in SUBSET (0 .. p) /\ S # {}
  OBVIOUS
<1>2. PICK m \in S : \A n \in S : n <= m
  BY <1>1, GreatestOf
<1>3. \A n \in S : m >= n
  BY <1>1, <1>2
<1>4. Max(S) \in S
  BY <1>3 DEF Max
<1> QED BY <1>1, <1>4 DEF Section

\* A chunk with something new is emitted whole.
LEMMA Emitted ==
  ASSUME CuttingInv, NEW s \in Seq(Chars), Len(s) <= Size, NEW p \in Nat, NewIn(s),
         textChunks' = push_text_chunk(s, Section(p)),
         NEW A, Added \subseteq A, ToSet(s) \subseteq A \cup {Separator},
         filling' \in Seq(Chars), ToSet(filling') \subseteq ToSet(s)
  PROVE  /\ textChunks' \in Seq(ChunkRows) /\ ChunksBounded' /\ ChunksNew'
         /\ \A j \in DOMAIN textChunks' : ToSet(textChunks'[j].text) \subseteq A \cup {Separator}
         /\ ToSet(filling') \subseteq A \cup {Separator}
         /\ \A x, y \in Chars \ {Separator} :
               Together(x, y) /\ {x, y} \cap ToSet(filling) \subseteq ToSet(s) => Together(x, y)'
         /\ \A x, y \in Chars \ {Separator} : {x, y} \subseteq ToSet(s) => Together(x, y)'
<1>0. textChunks \in Seq(ChunkRows) /\ CuttingTypes /\ ChunksBounded /\ ChunksNew /\ NothingElse
  BY DEF CuttingInv, CuttingTypes
<1>1. PICK letter \in ToSet(s) : /\ letter # Separator
                                 /\ textChunks # <<>> => letter \notin ToSet(textChunks[Len(textChunks)].text)
  BY DEF NewIn
<1>a. letter # Separator
  BY <1>1
<1>2. PICK t : t = Trimmed(s)
  OBVIOUS
<1>3. /\ t \in Seq(Chars) /\ t # <<>> /\ Len(t) <= Len(s)
      /\ ToSet(t) \subseteq ToSet(s) /\ \A c \in ToSet(s) : c # Separator => c \in ToSet(t)
  <2>1. /\ Trimmed(s) \in Seq(Chars) /\ Trimmed(s) # <<>> /\ Len(Trimmed(s)) <= Len(s)
        /\ ToSet(Trimmed(s)) \subseteq ToSet(s)
        /\ \A c \in ToSet(s) : c # Separator => c \in ToSet(Trimmed(s))
    BY <1>a, TrimmedLetters
  <2> QED BY <1>2, <2>1
<1>4. PICK row \in ChunkRows : row = [text |-> t, section |-> Section(p)]
  BY <1>0, <1>3, SectionTyped DEF ChunkRows
<1>5. row.text = t
  BY <1>4
<1>6. textChunks' = Append(textChunks, row)
  BY <1>2, <1>3, <1>4 DEF push_text_chunk
<1>7. PICK n \in Nat : n = Len(textChunks)
  BY <1>0
<1>8. /\ textChunks' \in Seq(ChunkRows) /\ Len(textChunks') = n + 1
      /\ DOMAIN textChunks = 1 .. n /\ DOMAIN textChunks' = 1 .. n + 1
      /\ \A j \in 1 .. n : textChunks'[j] = textChunks[j]
      /\ textChunks'[n + 1] = row
  <2>1. DOMAIN textChunks = 1 .. n
    BY <1>0, <1>7
  <2>2. /\ textChunks' \in Seq(ChunkRows) /\ Len(textChunks') = n + 1
        /\ \A j \in 1 .. n : textChunks'[j] = textChunks[j]
        /\ textChunks'[n + 1] = row
    BY <1>0, <1>6, <1>7, AppendProperties
  <2>3. DOMAIN textChunks' = 1 .. n + 1
    BY <2>2
  <2> QED BY <2>1, <2>2, <2>3
<1>9. ChunksBounded'
  <2>1. ASSUME NEW j \in 1 .. n + 1 PROVE Len(textChunks'[j].text) <= Size
    <3>1. CASE j = n + 1
      <4>1. Len(t) \in Nat /\ Len(s) \in Nat /\ Size \in Nat
        BY <1>3, ChunkingAssumption
      <4>2. textChunks'[j].text = t
        BY <1>5, <1>8, <3>1
      <4>3. Len(t) <= Size
        BY <1>3, <4>1
      <4> QED BY <4>2, <4>3
    <3>2. CASE j # n + 1
      <4>1. j \in DOMAIN textChunks /\ textChunks'[j] = textChunks[j]
        BY <1>8, <3>2
      <4> QED BY <1>0, <4>1 DEF ChunksBounded
    <3> QED BY <3>1, <3>2
  <2> QED BY <1>8, <2>1 DEF ChunksBounded
<1>10. ChunksNew'
  <2> SUFFICES ASSUME NEW j \in 1 .. n + 1, j > 1
               PROVE  ToSet(textChunks'[j].text) \ (ToSet(textChunks'[j - 1].text) \cup {Separator}) # {}
    BY <1>8 DEF ChunksNew
  <2>1. CASE j = n + 1
    <3>1. textChunks'[j] = row /\ textChunks'[j - 1] = textChunks[n] /\ textChunks # <<>>
      <4>1. j - 1 = n /\ n \in 1 .. n /\ n # 0
        BY <2>1
      <4>2. textChunks # <<>>
        BY <1>7, <4>1
      <4> QED BY <1>8, <2>1, <4>1, <4>2
    <3>2. letter \in ToSet(t)
      BY <1>3, <1>a
    <3>3. letter \notin ToSet(textChunks[n].text)
      <4>1. textChunks # <<>> => letter \notin ToSet(textChunks[n].text)
        BY <1>1, <1>7
      <4> QED BY <3>1, <4>1
    <3>4. letter \in ToSet(textChunks'[j].text) /\ letter \notin ToSet(textChunks'[j - 1].text)
      BY <1>5, <3>1, <3>2, <3>3
    <3> QED BY <1>a, <3>4
  <2>2. CASE j # n + 1
    <3>1. j \in 1 .. n /\ j - 1 \in 1 .. n
      BY <2>2
    <3> QED BY <1>0, <1>8, <3>1 DEF ChunksNew
  <2> QED BY <2>1, <2>2
<1>11. ASSUME NEW j \in DOMAIN textChunks' PROVE ToSet(textChunks'[j].text) \subseteq A \cup {Separator}
  <2>1. CASE j = n + 1
    BY <1>3, <1>5, <1>8, <2>1
  <2>2. CASE j # n + 1
    <3>1. j \in DOMAIN textChunks /\ textChunks'[j] = textChunks[j]
      BY <1>8, <2>2
    <3> QED BY <1>0, <3>1 DEF NothingElse
  <2> QED BY <2>1, <2>2
<1>12. ASSUME NEW x \in Chars \ {Separator}, NEW y \in Chars \ {Separator}, {x, y} \subseteq ToSet(s) PROVE Together(x, y)'
  <2>1. {x, y} \subseteq ToSet(textChunks'[n + 1].text) /\ n + 1 \in DOMAIN textChunks'
    BY <1>3, <1>5, <1>8, <1>12
  <2> QED BY <2>1 DEF Together
<1>13. ASSUME NEW x \in Chars \ {Separator}, NEW y \in Chars \ {Separator}, Together(x, y),
              {x, y} \cap ToSet(filling) \subseteq ToSet(s)
       PROVE  Together(x, y)'
  <2>1. CASE {x, y} \subseteq ToSet(filling)
    BY <1>12, <1>13, <2>1
  <2>2. ASSUME NEW j \in DOMAIN textChunks, {x, y} \subseteq ToSet(textChunks[j].text) PROVE Together(x, y)'
    <3>1. j \in DOMAIN textChunks' /\ textChunks'[j] = textChunks[j]
      BY <1>8
    <3> QED BY <2>2, <3>1 DEF Together
  <2> QED BY <1>13, <2>1, <2>2 DEF Together
<1> QED BY <1>8, <1>9, <1>10, <1>11, <1>12, <1>13
\* Characters that are cut off now.
CutNow(n) == {<<cutting.paragraph, cutting.cut + j>> : j \in 1 .. n}

\* What fill makes of the chunk.
FilledWith(f, n) ==
    /\ n \in Nat \ {0} /\ cutting.cut + n <= paragraphs[cutting.paragraph].length
    /\ f \in Seq(Chars) /\ f # <<>> /\ Len(f) <= Size
    /\ ToSet(filling) \subseteq ToSet(f) /\ ToSet(f) \subseteq ToSet(filling) \cup {Separator} \cup CutNow(n)
    /\ CutNow(n) \subseteq ToSet(f)
    /\ f[Len(f)] = <<cutting.paragraph, cutting.cut + n>>

LEMMA CuttingAt ==
  ASSUME CuttingTypes, ~AllCut
  PROVE  /\ cutting.paragraph \in 1 .. Len(paragraphs) /\ Len(paragraphs) \in Nat
         /\ paragraphs[cutting.paragraph].length \in Nat
         /\ cutting.cut \in Nat /\ cutting.cut < paragraphs[cutting.paragraph].length
<1>1. cutting.paragraph \in 1 .. Len(paragraphs) /\ Len(paragraphs) \in Nat
  BY DEF CuttingTypes, AllCut
<1>2. paragraphs[cutting.paragraph] \in Paragraphs
  BY <1>1 DEF CuttingTypes
<1> QED BY <1>1, <1>2, ChunkingAssumption DEF CuttingTypes, Paragraphs

\* fill adds a part of the paragraph that is not empty and fits.
LEMMA FillAdds ==
  ASSUME CuttingTypes, ~AllCut, Room > 0, fill
  PROVE  \E f \in Seq(Chars), n \in Nat :
            /\ FilledWith(f, n) /\ UNCHANGED paragraphs
            /\ \/ /\ cutting.cut + n < paragraphs[cutting.paragraph].length
                  /\ Emit(f, Section(cutting.paragraph))
                  /\ cutting' = [cutting EXCEPT !.cut = @ + n]
               \/ /\ cutting.cut + n = paragraphs[cutting.paragraph].length
                  /\ filling' = f /\ UNCHANGED textChunks
                  /\ cutting' = [paragraph |-> cutting.paragraph + 1, cut |-> 0]
<1>1. PICK p \in Nat, k \in Nat, L \in Nat :
         p = cutting.paragraph /\ k = cutting.cut /\ L = paragraphs[p].length /\ k < L
  BY CuttingAt
<1>2. PICK rest : rest = Rest(p, k)
  OBVIOUS
<1>3. /\ rest \in Seq(Chars) /\ Len(rest) = L - k
      /\ \A j \in 1 .. L - k : rest[j] = <<p, k + j>>
  <2>1. rest = [j \in 1 .. L - k |-> <<p, k + j>>]
    BY <1>1, <1>2 DEF Rest
  <2>2. \A j \in 1 .. L - k : <<p, k + j>> \in Chars
    BY <1>1 DEF Chars
  <2>3. L - k \in Nat
    BY <1>1
  <2>4. rest \in [1 .. L - k -> Chars]
    BY <2>1, <2>2
  <2>5. rest \in Seq(Chars) /\ Len(rest) = L - k
    BY <2>3, <2>4
  <2> QED BY <2>1, <2>5
<1>4. PICK used \in Nat : used = Len(filling) + (IF filling = <<>> THEN 0 ELSE 1)
  BY DEF CuttingTypes
<1>5. PICK av \in Nat : av = Room /\ used + av = Size
  <2>1. Room = IF used > Size THEN 0 ELSE Size - used
    BY <1>4 DEF Room
  <2>2. used \in Nat /\ Size \in Nat /\ Room > 0
    BY ChunkingAssumption
  <2>3. Room \in Nat /\ used + Room = Size
    BY <2>1, <2>2
  <2> QED BY <2>3
<1>6. PICK n \in Nat : n = Min({Room, Len(rest)}) /\ n > 0 /\ n <= av /\ n <= L - k
  <2>1. av \in Nat /\ L - k \in Nat
    BY <1>1
  <2>2. PICK m \in {av, L - k} : \A y \in {av, L - k} : m <= y
    BY <2>1
  <2>3. \A x \in {av, L - k} : (\A y \in {av, L - k} : x <= y) => x = m
    BY <2>1, <2>2
  <2>4. Min({av, L - k}) = m
    BY <2>2, <2>3 DEF Min
  <2> QED BY <1>1, <1>3, <1>5, <2>1, <2>2, <2>4
<1>7. PICK head : head = SubSeq(rest, 1, n)
  OBVIOUS
<1>8. /\ head \in Seq(Chars) /\ Len(head) = n
      /\ \A j \in 1 .. n : head[j] = <<p, k + j>>
  <2>1. \A j \in 1 .. n : j \in 1 .. L - k /\ rest[j] \in Chars
    <3>1. \A j \in 1 .. n : j \in 1 .. L - k
      BY <1>1, <1>6
    <3>2. \A j \in 1 .. L - k : rest[j] \in Chars
      BY <1>1, <1>3 DEF Chars
    <3> QED BY <3>1, <3>2
  <2>2. 1 \in Int /\ n \in Int
    OBVIOUS
  <2>3. /\ SubSeq(rest, 1, n) \in Seq(Chars)
        /\ Len(SubSeq(rest, 1, n)) = IF 1 <= n THEN n - 1 + 1 ELSE 0
        /\ \A i \in 1 .. n - 1 + 1 : SubSeq(rest, 1, n)[i] = rest[1 + i - 1]
    BY <2>1, <2>2, SubSeqProperties
  <2>4. 1 <= n /\ n - 1 + 1 = n /\ \A i \in 1 .. n : 1 + i - 1 = i
    BY <1>6
  <2> QED BY <1>3, <1>7, <2>1, <2>3, <2>4
<1>9. PICK f : f = IF filling = <<>> THEN head ELSE filling \o <<Separator>> \o head
  OBVIOUS
<1>10. FilledWith(f, n)
  <2>1. n \in Nat \ {0} /\ k + n <= L
    BY <1>1, <1>6
  <2>2. CutNow(n) = {<<p, k + j>> : j \in 1 .. n}
    BY <1>1 DEF CutNow
  <2>3. CASE filling = <<>>
    <3>1. f = head /\ Len(f) = n /\ f \in Seq(Chars)
      BY <1>8, <1>9, <2>3
    <3>2. n <= Size
      BY <1>5, <1>6, ChunkingAssumption
    <3>3. \A j \in 1 .. n : f[j] = <<p, k + j>>
      BY <1>8, <3>1
    <3>4. \A i \in 1 .. n : f[i] \in ToSet(f)
      BY <3>1, SetOfSeq
    <3>5. CutNow(n) \subseteq ToSet(f)
      BY <2>2, <3>3, <3>4
    <3>6. ToSet(f) \subseteq CutNow(n)
      <4>1. \A c \in ToSet(f) : \E i \in 1 .. n : f[i] = c
        BY <3>1, SetOfSeq
      <4> QED BY <2>2, <3>3, <4>1
    <3>7. ToSet(filling) = {}
      BY <2>3 DEF ToSet
    <3>8. f # <<>> /\ f[Len(f)] = <<p, k + n>>
      BY <2>1, <3>1, <3>3
    <3> QED BY <1>1, <2>1, <3>1, <3>2, <3>5, <3>6, <3>7, <3>8 DEF FilledWith
  <2>4. CASE filling # <<>>
    <3>0. Separator \in Chars
      BY DEF Separator, Chars
    <3>a. filling \in Seq(Chars) /\ Len(filling) \in Nat
      BY DEF CuttingTypes
    <3>1. PICK m \in Nat : m = Len(filling) /\ filling \in Seq(Chars) /\ used = m + 1
      BY <1>4, <2>4, <3>a
    <3>2. PICK g : g = filling \o <<Separator>>
      OBVIOUS
    <3>3. /\ g \in Seq(Chars) /\ Len(g) = m + 1
          /\ \A i \in 1 .. m : g[i] = filling[i]
          /\ g[m + 1] = Separator
      <4>1. <<Separator>> \in Seq(Chars) /\ Len(<<Separator>>) = 1 /\ <<Separator>>[1] = Separator
        BY <3>0
      <4>2. /\ g \in Seq(Chars) /\ Len(g) = m + 1
            /\ \A i \in 1 .. m + 1 : g[i] = IF i <= m THEN filling[i] ELSE <<Separator>>[i - m]
        BY <3>1, <3>2, <4>1, ConcatProperties
      <4> QED BY <4>1, <4>2
    <3>4. /\ f \in Seq(Chars) /\ Len(f) = m + 1 + n
          /\ \A i \in 1 .. m + 1 + n : f[i] = IF i <= m + 1 THEN g[i] ELSE head[i - (m + 1)]
      <4>1. f = g \o head
        BY <1>9, <2>4, <3>2
      <4>2. g \in Seq(Chars) /\ head \in Seq(Chars) /\ Len(g) = m + 1 /\ Len(head) = n
        BY <1>8, <3>3
      <4>3. /\ g \o head \in Seq(Chars) /\ Len(g \o head) = Len(g) + Len(head)
            /\ \A i \in 1 .. Len(g) + Len(head) : (g \o head)[i] = IF i <= Len(g) THEN g[i] ELSE head[i - Len(g)]
        BY <4>2, ConcatProperties
      <4> QED BY <4>1, <4>2, <4>3
    <3>5. m + 1 + n <= Size
      BY <1>5, <1>6, <3>1, ChunkingAssumption
    <3>6. \A j \in 1 .. n : m + 1 + j \in 1 .. m + 1 + n /\ f[m + 1 + j] = <<p, k + j>>
      BY <1>8, <3>4
    <3>7. \A i \in 1 .. m : i \in 1 .. m + 1 + n /\ f[i] = filling[i]
      BY <3>3, <3>4
    <3>8. f[m + 1] = Separator
      BY <3>3, <3>4
    <3>9. CutNow(n) \subseteq ToSet(f)
      <4>1. \A i \in 1 .. m + 1 + n : f[i] \in ToSet(f)
        BY <3>4, SetOfSeq
      <4> QED BY <2>2, <3>6, <4>1
    <3>10. ToSet(filling) \subseteq ToSet(f)
      <4>1. ASSUME NEW c \in ToSet(filling) PROVE c \in ToSet(f)
        <5>1. PICK i \in 1 .. m : filling[i] = c
          BY <3>1, SetOfSeq
        <5> QED BY <3>4, <3>7, <5>1, SetOfSeq
      <4> QED BY <4>1
    <3>11. ToSet(f) \subseteq ToSet(filling) \cup {Separator} \cup CutNow(n)
      <4>1. ASSUME NEW c \in ToSet(f) PROVE c \in ToSet(filling) \cup {Separator} \cup CutNow(n)
        <5>1. PICK i \in 1 .. m + 1 + n : f[i] = c
          BY <3>4, <4>1, SetOfSeq
        <5>2. CASE i <= m
          <6>1. i \in 1 .. m
            BY <5>2
          <6> QED BY <3>1, <3>7, <5>1, <6>1, SetOfSeq
        <5>3. CASE i = m + 1
          BY <3>8, <5>1, <5>3
        <5>4. CASE i > m + 1
          <6>1. PICK j \in 1 .. n : i = m + 1 + j
            <7>1. i - (m + 1) \in 1 .. n /\ i = m + 1 + (i - (m + 1))
              BY <5>4
            <7> QED BY <7>1
          <6> QED BY <2>2, <3>6, <5>1, <6>1
        <5> QED BY <5>2, <5>3, <5>4
      <4> QED BY <4>1
    <3>12. f # <<>> /\ f[Len(f)] = <<p, k + n>>
      <4>1. n \in 1 .. n /\ m + 1 + n # 0
        BY <2>1
      <4> QED BY <3>4, <3>6, <4>1
    <3> QED BY <1>1, <2>1, <3>4, <3>5, <3>9, <3>10, <3>11, <3>12 DEF FilledWith
  <2> QED BY <2>3, <2>4
<1>11. /\ UNCHANGED paragraphs
       /\ IF Len(head) < Len(rest)
          THEN Emit(f, Section(p)) /\ cutting' = [cutting EXCEPT !.cut = @ + Len(head)]
          ELSE /\ filling' = f /\ UNCHANGED textChunks
               /\ cutting' = [paragraph |-> p + 1, cut |-> 0]
  BY <1>1, <1>2, <1>6, <1>7, <1>9 DEF fill
<1>12. f \in Seq(Chars)
  BY <1>10 DEF FilledWith
<1>13. Len(head) < Len(rest) <=> k + n < L
  BY <1>1, <1>3, <1>6, <1>8
<1>14. ~(k + n < L) => k + n = L
  BY <1>1, <1>6
<1> QED BY <1>1, <1>8, <1>10, <1>11, <1>12, <1>13, <1>14
\* What is cut off after fill.
LEMMA AddedGrows ==
  ASSUME CuttingTypes, ~AllCut, NEW n \in Nat \ {0},
         cutting.cut + n <= paragraphs[cutting.paragraph].length, UNCHANGED paragraphs,
         \/ cutting.cut + n < paragraphs[cutting.paragraph].length /\ cutting' = [cutting EXCEPT !.cut = @ + n]
         \/ /\ cutting.cut + n = paragraphs[cutting.paragraph].length
            /\ cutting' = [paragraph |-> cutting.paragraph + 1, cut |-> 0]
  PROVE  /\ Added' = Added \cup CutNow(n)
         /\ Added \cap CutNow(n) = {}
         /\ cutting' \in [paragraph : 1 .. Len(paragraphs) + 1, cut : Nat]
         /\ IF AllCut' THEN cutting'.cut = 0 ELSE cutting'.cut < paragraphs[cutting'.paragraph].length
<1>1. PICK p \in Nat, k \in Nat, L \in Nat :
         p = cutting.paragraph /\ k = cutting.cut /\ L = paragraphs[p].length /\ k < L /\ p \in 1 .. Len(paragraphs)
  BY CuttingAt
<1>2. cutting \in [paragraph : 1 .. Len(paragraphs) + 1, cut : Nat] /\ paragraphs \in Seq(Paragraphs)
      /\ DOMAIN paragraphs = 1 .. Len(paragraphs) /\ Len(paragraphs) \in Nat
  BY DEF CuttingTypes
<1>3. \A q \in DOMAIN paragraphs : paragraphs[q].length \in Nat
  <2>1. \A q \in DOMAIN paragraphs : paragraphs[q] \in Paragraphs
    BY <1>2
  <2> QED BY <2>1, ChunkingAssumption DEF Paragraphs
<1>4. Added = {c \in Chars : c[1] \in DOMAIN paragraphs /\ c[2] \in 1 .. paragraphs[c[1]].length
                             /\ (c[1] < p \/ (c[1] = p /\ c[2] <= k))}
  BY <1>1 DEF Added
<1>5. CutNow(n) = {<<p, k + j>> : j \in 1 .. n}
  BY <1>1 DEF CutNow
<1>6. Added \cap CutNow(n) = {}
  <2>1. ASSUME NEW c \in Added, c \in CutNow(n) PROVE FALSE
    <3>1. PICK j \in 1 .. n : c = <<p, k + j>>
      BY <1>5, <2>1
    <3>2. c[1] = p /\ c[2] = k + j
      BY <3>1
    <3>3. c[1] < p \/ c[2] <= k
      BY <1>4, <2>1
    <3> QED BY <3>2, <3>3
  <2> QED BY <2>1
<1>7. CASE k + n < L /\ cutting' = [cutting EXCEPT !.cut = @ + n]
  <2>1. cutting'.paragraph = p /\ cutting'.cut = k + n
    BY <1>1, <1>2, <1>7
  <2>2. Added' = {c \in Chars : c[1] \in DOMAIN paragraphs /\ c[2] \in 1 .. paragraphs[c[1]].length
                                /\ (c[1] < p \/ (c[1] = p /\ c[2] <= k + n))}
    BY <2>1 DEF Added
  <2>3. ASSUME NEW c \in Chars PROVE c \in Added' <=> c \in Added \cup CutNow(n)
    <3>1. PICK a \in Nat, b \in Nat : c = <<a, b>>
      BY DEF Chars
    <3>2. c \in CutNow(n) <=> a = p /\ b \in k + 1 .. k + n
      <4>1. ASSUME c \in CutNow(n) PROVE a = p /\ b \in k + 1 .. k + n
        <5>1. PICK j \in 1 .. n : c = <<p, k + j>>
          BY <1>5, <4>1
        <5> QED BY <3>1, <5>1
      <4>2. ASSUME a = p, b \in k + 1 .. k + n PROVE c \in CutNow(n)
        <5>1. b - k \in 1 .. n /\ k + (b - k) = b
          BY <4>2
        <5> QED BY <1>5, <3>1, <4>2, <5>1
      <4> QED BY <4>1, <4>2
    <3>3. c \in Added <=> a \in DOMAIN paragraphs /\ b \in 1 .. paragraphs[a].length /\ (a < p \/ (a = p /\ b <= k))
      BY <1>4, <3>1
    <3>4. c \in Added' <=> a \in DOMAIN paragraphs /\ b \in 1 .. paragraphs[a].length /\ (a < p \/ (a = p /\ b <= k + n))
      BY <2>2, <3>1
    <3>5. CASE a = p
      <4>1. a \in DOMAIN paragraphs /\ paragraphs[a].length = L
        BY <1>1, <1>2, <3>5
      <4> QED BY <1>7, <3>2, <3>3, <3>4, <3>5, <4>1
    <3>6. CASE a # p
      BY <3>2, <3>3, <3>4, <3>6
    <3> QED BY <3>5, <3>6
  <2>4. Added' \subseteq Chars /\ Added \subseteq Chars
    BY <1>4, <2>2
  <2>5. CutNow(n) \subseteq Chars
    BY <1>5 DEF Chars
  <2>6. Added' = Added \cup CutNow(n)
    BY <2>3, <2>4, <2>5
  <2>7. cutting' \in [paragraph : 1 .. Len(paragraphs) + 1, cut : Nat] /\ ~AllCut'
    BY <1>1, <1>2, <1>7, <2>1 DEF AllCut
  <2>8. cutting'.cut < paragraphs[cutting'.paragraph].length
    BY <1>1, <1>7, <2>1
  <2> QED BY <1>6, <2>6, <2>7, <2>8
<1>8. CASE k + n = L /\ cutting' = [paragraph |-> p + 1, cut |-> 0]
  <2>1. cutting'.paragraph = p + 1 /\ cutting'.cut = 0
    BY <1>8
  <2>2. Added' = {c \in Chars : c[1] \in DOMAIN paragraphs /\ c[2] \in 1 .. paragraphs[c[1]].length
                                /\ (c[1] < p + 1 \/ (c[1] = p + 1 /\ c[2] <= 0))}
    BY <2>1 DEF Added
  <2>3. ASSUME NEW c \in Chars PROVE c \in Added' <=> c \in Added \cup CutNow(n)
    <3>1. PICK a \in Nat, b \in Nat : c = <<a, b>>
      BY DEF Chars
    <3>2. c \in CutNow(n) <=> a = p /\ b \in k + 1 .. k + n
      <4>1. ASSUME c \in CutNow(n) PROVE a = p /\ b \in k + 1 .. k + n
        <5>1. PICK j \in 1 .. n : c = <<p, k + j>>
          BY <1>5, <4>1
        <5> QED BY <3>1, <5>1
      <4>2. ASSUME a = p, b \in k + 1 .. k + n PROVE c \in CutNow(n)
        <5>1. b - k \in 1 .. n /\ k + (b - k) = b
          BY <4>2
        <5> QED BY <1>5, <3>1, <4>2, <5>1
      <4> QED BY <4>1, <4>2
    <3>3. c \in Added <=> a \in DOMAIN paragraphs /\ b \in 1 .. paragraphs[a].length /\ (a < p \/ (a = p /\ b <= k))
      BY <1>4, <3>1
    <3>4. c \in Added' <=> a \in DOMAIN paragraphs /\ b \in 1 .. paragraphs[a].length /\ (a < p + 1 \/ (a = p + 1 /\ b <= 0))
      BY <2>2, <3>1
    <3>5. CASE a = p
      <4>1. a \in DOMAIN paragraphs /\ paragraphs[a].length = L
        BY <1>1, <1>2, <3>5
      <4> QED BY <1>8, <3>2, <3>3, <3>4, <3>5, <4>1
    <3>6. CASE a # p
      <4>1. b \in 1 .. paragraphs[a].length => ~(b <= 0)
        OBVIOUS
      <4>2. a < p + 1 <=> a < p
        BY <3>6
      <4> QED BY <3>2, <3>3, <3>4, <3>6, <4>1, <4>2
    <3> QED BY <3>5, <3>6
  <2>4. Added' \subseteq Chars /\ Added \subseteq Chars
    BY <1>4, <2>2
  <2>5. CutNow(n) \subseteq Chars
    BY <1>5 DEF Chars
  <2>6. Added' = Added \cup CutNow(n)
    BY <2>3, <2>4, <2>5
  <2>7. cutting' \in [paragraph : 1 .. Len(paragraphs) + 1, cut : Nat]
    BY <1>1, <1>2, <1>8
  <2>8. ~AllCut' => cutting'.cut < paragraphs[cutting'.paragraph].length
    <3>1. SUFFICES ASSUME ~AllCut' PROVE 0 < paragraphs[p + 1].length
      BY <2>1
    <3>2. p + 1 \in DOMAIN paragraphs
      BY <1>1, <1>2, <2>1, <3>1 DEF AllCut
    <3>3. paragraphs[p + 1] \in Paragraphs
      BY <1>2, <3>2
    <3> QED BY <3>3, ChunkingAssumption DEF Paragraphs
  <2> QED BY <1>6, <2>1, <2>6, <2>7, <2>8
<1>9. \/ k + n < L /\ cutting' = [cutting EXCEPT !.cut = @ + n]
      \/ k + n = L /\ cutting' = [paragraph |-> p + 1, cut |-> 0]
  BY <1>1
<1> QED BY <1>7, <1>8, <1>9

\* Neighbours of which one is cut off now are in the chunk.
LEMMA NeighboursCut ==
  ASSUME CuttingInv, ~AllCut, NEW n \in Nat, NEW f, FilledWith(f, n),
         NEW x \in Added \cup CutNow(n), NEW y \in Added \cup CutNow(n), x[1] = y[1], y[2] \in {x[2], x[2] + 1}
  PROVE  Together(x, y) \/ {x, y} \subseteq ToSet(f)
<1>1. PICK p \in Nat, k \in Nat : p = cutting.paragraph /\ k = cutting.cut
  BY CuttingAt DEF CuttingInv
<1>2. CutNow(n) \subseteq ToSet(f) /\ ToSet(filling) \subseteq ToSet(f) /\ CutNow(n) = {<<p, k + j>> : j \in 1 .. n}
  BY <1>1 DEF FilledWith, CutNow
<1>3. CASE x \in Added /\ y \in Added
  BY <1>3 DEF CuttingInv, AllHeld
<1>4. CASE x \in CutNow(n) /\ y \in CutNow(n)
  BY <1>2, <1>4
<1>5. CASE x \in Added /\ y \in CutNow(n)
  <2>1. PICK j \in 1 .. n : y = <<p, k + j>>
    BY <1>2, <1>5
  <2>2. PICK a \in Nat, b \in Nat : x = <<a, b>> /\ (a < p \/ b <= k) /\ 1 <= b
    <3>1. x \in Nat \X Nat /\ (x[1] < p \/ x[2] <= k) /\ 1 <= x[2]
      BY <1>1, <1>5 DEF Added, Chars
    <3> QED BY <3>1
  <2>3. a = p /\ b = k /\ k > 0
    BY <2>1, <2>2
  <2>4. x \in ToSet(filling)
    <3>1. filling \in Seq(Chars) /\ filling # <<>> /\ filling[Len(filling)] = <<p, k>>
      BY <1>1, <2>3 DEF CuttingInv, CuttingTypes, CutIsLast
    <3>2. Len(filling) \in 1 .. Len(filling)
      BY <3>1
    <3>3. filling[Len(filling)] \in ToSet(filling)
      BY <3>1, <3>2, SetOfSeq
    <3> QED BY <2>2, <2>3, <3>1, <3>3
  <2> QED BY <1>2, <1>5, <2>4
<1>6. CASE x \in CutNow(n) /\ y \in Added
  <2>1. PICK j \in 1 .. n : x = <<p, k + j>>
    BY <1>2, <1>6
  <2>2. PICK a \in Nat, b \in Nat : y = <<a, b>> /\ (a < p \/ b <= k)
    <3>1. y \in Nat \X Nat /\ (y[1] < p \/ y[2] <= k)
      BY <1>1, <1>6 DEF Added, Chars
    <3> QED BY <3>1
  <2> QED BY <2>1, <2>2
<1> QED BY <1>3, <1>4, <1>5, <1>6

\* Characters that are cut off are no separators.
LEMMA NoSeparator == ASSUME CuttingTypes PROVE \A c \in Added : c \in Chars \ {Separator}
<1> SUFFICES ASSUME NEW c \in Added PROVE c # Separator
  BY DEF Added
<1>1. c[1] \in 1 .. Len(paragraphs)
  BY DEF Added, CuttingTypes
<1>2. Separator[1] = 0
  BY DEF Separator
<1> QED BY <1>1, <1>2

LEMMA fillCuts == ASSUME CuttingInv, fill PROVE CuttingInv'
<1>1. CuttingTypes /\ ~AllCut /\ Room > 0
  BY DEF CuttingInv, fill
<1>2. PICK f \in Seq(Chars), n \in Nat :
         /\ FilledWith(f, n) /\ UNCHANGED paragraphs
         /\ \/ /\ cutting.cut + n < paragraphs[cutting.paragraph].length
               /\ Emit(f, Section(cutting.paragraph))
               /\ cutting' = [cutting EXCEPT !.cut = @ + n]
            \/ /\ cutting.cut + n = paragraphs[cutting.paragraph].length
               /\ filling' = f /\ UNCHANGED textChunks
               /\ cutting' = [paragraph |-> cutting.paragraph + 1, cut |-> 0]
  BY <1>1, FillAdds
<1>3. /\ n \in Nat \ {0} /\ f # <<>> /\ Len(f) <= Size
      /\ ToSet(filling) \subseteq ToSet(f) /\ ToSet(f) \subseteq ToSet(filling) \cup {Separator} \cup CutNow(n)
      /\ CutNow(n) \subseteq ToSet(f)
      /\ f[Len(f)] = <<cutting.paragraph, cutting.cut + n>>
      /\ cutting.cut + n <= paragraphs[cutting.paragraph].length
  BY <1>2 DEF FilledWith
<1>4. /\ Added' = Added \cup CutNow(n) /\ Added \cap CutNow(n) = {}
      /\ cutting' \in [paragraph : 1 .. Len(paragraphs) + 1, cut : Nat]
      /\ IF AllCut' THEN cutting'.cut = 0 ELSE cutting'.cut < paragraphs[cutting'.paragraph].length
  BY <1>1, <1>2, <1>3, AddedGrows
<1>5. PICK A : A = Added \cup CutNow(n)
  OBVIOUS
<1>6. A \subseteq Chars \ {Separator}
  <2>1. cutting.paragraph \in Nat \ {0} /\ cutting.cut \in Nat
    BY <1>1, CuttingAt
  <2>2. CutNow(n) \subseteq Chars
    BY <2>1 DEF CutNow, Chars
  <2>3. Separator \notin CutNow(n)
    BY <2>1 DEF CutNow, Separator
  <2> QED BY <1>1, <1>5, <2>2, <2>3, NoSeparator
<1>7. ToSet(f) \subseteq A \cup {Separator}
  BY <1>3, <1>5 DEF CuttingInv, NothingElse
<1>8. NewIn(f)
  <2>1. PICK c : c = <<cutting.paragraph, cutting.cut + 1>>
    OBVIOUS
  <2>2. 1 \in 1 .. n
    BY <1>3
  <2>3. c \in CutNow(n)
    BY <2>1, <2>2 DEF CutNow
  <2>4. c \in ToSet(f) /\ c # Separator /\ c \notin Added
    BY <1>3, <1>4, <1>5, <1>6, <2>3
  <2>5. textChunks # <<>> => Len(textChunks) \in DOMAIN textChunks
    BY <1>1 DEF CuttingTypes
  <2>6. textChunks # <<>> => ToSet(textChunks[Len(textChunks)].text) \subseteq Added \cup {Separator}
    BY <2>5 DEF CuttingInv, NothingElse
  <2> QED BY <2>4, <2>6 DEF NewIn
<1>9. \A x, y \in A : x[1] = y[1] /\ y[2] \in {x[2], x[2] + 1} => Together(x, y) \/ {x, y} \subseteq ToSet(f)
  BY <1>1, <1>2, <1>5, NeighboursCut
<1>10. CASE /\ cutting.cut + n < paragraphs[cutting.paragraph].length
            /\ Emit(f, Section(cutting.paragraph))
            /\ cutting' = [cutting EXCEPT !.cut = @ + n]
  <2>1. /\ filling' = trailing_chars(f) /\ textChunks' = push_text_chunk(f, Section(cutting.paragraph))
        /\ cutting.paragraph \in Nat
    BY <1>1, <1>10, CuttingAt DEF Emit
  <2>2. /\ trailing_chars(f) \in Seq(Chars) /\ Len(trailing_chars(f)) <= Len(f) /\ Len(trailing_chars(f)) <= Overlap + 1
        /\ ToSet(trailing_chars(f)) \subseteq ToSet(f)
        /\ trailing_chars(f) # <<>> /\ trailing_chars(f)[Len(trailing_chars(f))] = f[Len(f)]
    BY <1>3, TrailingChars
  <2>3. /\ textChunks' \in Seq(ChunkRows) /\ ChunksBounded' /\ ChunksNew'
        /\ \A j \in DOMAIN textChunks' : ToSet(textChunks'[j].text) \subseteq A \cup {Separator}
        /\ ToSet(filling') \subseteq A \cup {Separator}
        /\ \A x, y \in Chars \ {Separator} :
              Together(x, y) /\ {x, y} \cap ToSet(filling) \subseteq ToSet(f) => Together(x, y)'
        /\ \A x, y \in Chars \ {Separator} : {x, y} \subseteq ToSet(f) => Together(x, y)'
    <3>1. Added \subseteq A /\ filling' \in Seq(Chars) /\ ToSet(filling') \subseteq ToSet(f)
      BY <1>5, <2>1, <2>2
    <3> QED BY <1>3, <1>7, <1>8, <2>1, <3>1, Emitted
  <2>4. Len(filling') <= Size /\ Len(filling') <= Overlap + 1
    <3>1. Len(f) \in Nat /\ Len(trailing_chars(f)) \in Nat /\ Size \in Nat
      BY <2>2, ChunkingAssumption
    <3> QED BY <1>3, <2>1, <2>2, <3>1
  <2>5. ~AllCut' /\ cutting'.paragraph = cutting.paragraph /\ cutting'.cut = cutting.cut + n
    <3>1. cutting'.paragraph = cutting.paragraph /\ cutting'.cut = cutting.cut + n
      BY <1>1, <1>10 DEF CuttingTypes
    <3> QED BY <1>1, <1>2, <3>1 DEF AllCut
  <2>6. CuttingTypes'
    BY <1>1, <1>2, <1>4, <2>1, <2>2, <2>3, <2>4 DEF CuttingTypes
  <2>7. NothingElse'
    BY <1>4, <1>5, <2>3 DEF NothingElse
  <2>8. AllHeld'
    <3> SUFFICES ASSUME NEW x \in A, NEW y \in A, x[1] = y[1], y[2] \in {x[2], x[2] + 1} PROVE Together(x, y)'
      BY <1>4, <1>5 DEF AllHeld
    <3>1. x \in Chars \ {Separator} /\ y \in Chars \ {Separator}
      BY <1>6
    <3>2. {x, y} \cap ToSet(filling) \subseteq ToSet(f)
      BY <1>3
    <3> QED BY <1>9, <2>3, <3>1, <3>2
  <2>9. CutIsLast'
    BY <1>3, <2>1, <2>2, <2>5 DEF CutIsLast
  <2>10. FillingNew'
    BY <2>4, <2>5 DEF FillingNew
  <2> QED BY <2>3, <2>6, <2>7, <2>8, <2>9, <2>10 DEF CuttingInv
<1>11. CASE /\ cutting.cut + n = paragraphs[cutting.paragraph].length
            /\ filling' = f /\ UNCHANGED textChunks
            /\ cutting' = [paragraph |-> cutting.paragraph + 1, cut |-> 0]
  <2>1. CuttingTypes'
    BY <1>1, <1>2, <1>3, <1>4, <1>11 DEF CuttingTypes
  <2>2. ChunksBounded' /\ ChunksNew'
    BY <1>11 DEF CuttingInv, ChunksBounded, ChunksNew
  <2>3. NothingElse'
    BY <1>4, <1>5, <1>7, <1>11 DEF CuttingInv, NothingElse
  <2>4. AllHeld'
    <3> SUFFICES ASSUME NEW x \in A, NEW y \in A, x[1] = y[1], y[2] \in {x[2], x[2] + 1} PROVE Together(x, y)'
      BY <1>4, <1>5 DEF AllHeld
    <3>1. CASE Together(x, y)
      BY <1>3, <1>11, <3>1 DEF Together
    <3>2. CASE {x, y} \subseteq ToSet(f)
      BY <1>11, <3>2 DEF Together
    <3> QED BY <1>9, <3>1, <3>2
  <2>5. CutIsLast'
    BY <1>11 DEF CutIsLast
  <2>6. FillingNew'
    BY <1>8, <1>11 DEF FillingNew, NewIn
  <2> QED BY <2>1, <2>2, <2>3, <2>4, <2>5, <2>6 DEF CuttingInv
<1> QED BY <1>2, <1>10, <1>11

LEMMA emit_fullCuts == ASSUME CuttingInv, emit_full PROVE CuttingInv'
<1>1. CuttingTypes /\ ~AllCut /\ Room = 0 /\ UNCHANGED <<paragraphs, cutting>>
  BY DEF CuttingInv, emit_full
<1>2. /\ filling' = trailing_chars(filling) /\ textChunks' = push_text_chunk(filling, Section(cutting.paragraph))
      /\ cutting.paragraph \in Nat
  BY <1>1, CuttingAt DEF emit_full, Emit
<1>3. filling \in Seq(Chars) /\ Len(filling) \in Nat /\ Len(filling) <= Size
  BY <1>1 DEF CuttingTypes
<1>4. filling # <<>> /\ Len(filling) > Overlap + 1
  <2>1. PICK used \in Nat : used = Len(filling) + (IF filling = <<>> THEN 0 ELSE 1)
    BY <1>3
  <2>2. Room = IF used > Size THEN 0 ELSE Size - used
    BY <2>1 DEF Room
  <2>3. used >= Size /\ Size \in Nat /\ Overlap \in Nat /\ Overlap + 2 < Size
    BY <1>1, <2>2, ChunkingAssumption
  <2>4. filling = <<>> => Len(filling) = 0
    OBVIOUS
  <2> QED BY <1>3, <2>1, <2>3, <2>4
<1>5. NewIn(filling)
  <2>1. ~(Len(filling) <= Overlap + 1)
    BY <1>3, <1>4, ChunkingAssumption
  <2> QED BY <2>1 DEF CuttingInv, FillingNew
<1>6. /\ trailing_chars(filling) \in Seq(Chars) /\ Len(trailing_chars(filling)) <= Len(filling)
      /\ Len(trailing_chars(filling)) <= Overlap + 1
      /\ ToSet(trailing_chars(filling)) \subseteq ToSet(filling)
      /\ trailing_chars(filling) # <<>> /\ trailing_chars(filling)[Len(trailing_chars(filling))] = filling[Len(filling)]
  BY <1>3, <1>4, TrailingChars
<1>7. Added' = Added
  BY <1>1 DEF Added
<1>8. PICK A : A = Added
  OBVIOUS
<1>9. /\ textChunks' \in Seq(ChunkRows) /\ ChunksBounded' /\ ChunksNew'
      /\ \A j \in DOMAIN textChunks' : ToSet(textChunks'[j].text) \subseteq A \cup {Separator}
      /\ ToSet(filling') \subseteq A \cup {Separator}
      /\ \A x, y \in Chars \ {Separator} :
            Together(x, y) /\ {x, y} \cap ToSet(filling) \subseteq ToSet(filling) => Together(x, y)'
  <2>1. Added \subseteq A /\ filling' \in Seq(Chars) /\ ToSet(filling') \subseteq ToSet(filling)
    BY <1>2, <1>6, <1>8
  <2>2. ToSet(filling) \subseteq A \cup {Separator}
    BY <1>8 DEF CuttingInv, NothingElse
  <2> QED BY <1>2, <1>3, <1>5, <2>1, <2>2, Emitted
<1>10. Len(filling') <= Size /\ Len(filling') <= Overlap + 1
  <2>1. Len(trailing_chars(filling)) \in Nat /\ Size \in Nat
    BY <1>6, ChunkingAssumption
  <2> QED BY <1>2, <1>3, <1>6, <2>1
<1>11. CuttingTypes'
  BY <1>1, <1>2, <1>6, <1>9, <1>10 DEF CuttingTypes, AllCut
<1>12. NothingElse'
  BY <1>7, <1>8, <1>9 DEF NothingElse
<1>13. AllHeld'
  <2> SUFFICES ASSUME NEW x \in Added, NEW y \in Added, x[1] = y[1], y[2] \in {x[2], x[2] + 1} PROVE Together(x, y)'
    BY <1>7 DEF AllHeld
  <2>1. x \in Chars \ {Separator} /\ y \in Chars \ {Separator}
    BY <1>1, NoSeparator
  <2>2. Together(x, y)
    BY DEF CuttingInv, AllHeld
  <2> QED BY <1>9, <2>1, <2>2
<1>14. CutIsLast'
  <2>1. cutting.cut > 0 => filling[Len(filling)] = <<cutting.paragraph, cutting.cut>>
    BY DEF CuttingInv, CutIsLast
  <2> QED BY <1>1, <1>2, <1>6, <2>1 DEF CutIsLast
<1>15. FillingNew'
  BY <1>1, <1>10 DEF FillingNew, AllCut
<1> QED BY <1>9, <1>11, <1>12, <1>13, <1>14, <1>15 DEF CuttingInv

LEMMA emit_lastCuts == ASSUME CuttingInv, emit_last PROVE CuttingInv'
<1>1. CuttingTypes /\ AllCut /\ filling # <<>> /\ UNCHANGED <<paragraphs, cutting>> /\ filling' = <<>>
  BY DEF CuttingInv, emit_last
<1>2. textChunks' = push_text_chunk(filling, Section(Len(paragraphs))) /\ Len(paragraphs) \in Nat
  BY <1>1 DEF emit_last, CuttingTypes
<1>3. filling \in Seq(Chars) /\ Len(filling) <= Size
  BY <1>1 DEF CuttingTypes
<1>4. NewIn(filling)
  BY <1>1 DEF CuttingInv, FillingNew
<1>5. ToSet(filling') = {} /\ filling' \in Seq(Chars) /\ Len(filling') = 0
  BY <1>1 DEF ToSet
<1>6. Added' = Added
  BY <1>1 DEF Added
<1>7. PICK A : A = Added
  OBVIOUS
<1>8. /\ textChunks' \in Seq(ChunkRows) /\ ChunksBounded' /\ ChunksNew'
      /\ \A j \in DOMAIN textChunks' : ToSet(textChunks'[j].text) \subseteq A \cup {Separator}
      /\ ToSet(filling') \subseteq A \cup {Separator}
      /\ \A x, y \in Chars \ {Separator} :
            Together(x, y) /\ {x, y} \cap ToSet(filling) \subseteq ToSet(filling) => Together(x, y)'
  <2>1. Added \subseteq A /\ ToSet(filling') \subseteq ToSet(filling) /\ ToSet(filling) \subseteq A \cup {Separator}
    BY <1>5, <1>7 DEF CuttingInv, NothingElse
  <2> QED BY <1>2, <1>3, <1>4, <1>5, <2>1, Emitted
<1>9. CuttingTypes'
  <2>1. Len(filling') <= Size
    BY <1>5, ChunkingAssumption
  <2> QED BY <1>1, <1>5, <1>8, <2>1 DEF CuttingTypes, AllCut
<1>10. NothingElse'
  BY <1>6, <1>7, <1>8 DEF NothingElse
<1>11. AllHeld'
  <2> SUFFICES ASSUME NEW x \in Added, NEW y \in Added, x[1] = y[1], y[2] \in {x[2], x[2] + 1} PROVE Together(x, y)'
    BY <1>6 DEF AllHeld
  <2>1. x \in Chars \ {Separator} /\ y \in Chars \ {Separator}
    BY <1>1, NoSeparator
  <2>2. Together(x, y)
    BY DEF CuttingInv, AllHeld
  <2> QED BY <1>8, <2>1, <2>2
<1>12. CutIsLast'
  <2>1. cutting.cut = 0
    BY <1>1 DEF CuttingTypes
  <2> QED BY <1>1, <2>1 DEF CutIsLast
<1>13. FillingNew'
  BY <1>1, <1>5, ChunkingAssumption DEF FillingNew
<1> QED BY <1>8, <1>9, <1>10, <1>11, <1>12, <1>13 DEF CuttingInv

LEMMA ChunkingStart == ChunkingInit => CuttingInv
<1> SUFFICES ASSUME ChunkingInit PROVE CuttingInv
  OBVIOUS
<1>1. PICK n \in 1 .. MaxParagraphs : paragraphs \in [1 .. n -> Paragraphs]
  BY DEF ChunkingInit
<1>2. n \in Nat /\ n >= 1 /\ paragraphs \in Seq(Paragraphs) /\ Len(paragraphs) = n /\ paragraphs[1] \in Paragraphs
  BY <1>1, ChunkingAssumption
<1>3. cutting = [paragraph |-> 1, cut |-> 0] /\ filling = <<>> /\ textChunks = <<>>
  BY DEF ChunkingInit
<1>4. ~AllCut /\ cutting.paragraph = 1 /\ cutting.cut = 0
  BY <1>2, <1>3 DEF AllCut
<1>5. filling \in Seq(Chars) /\ Len(filling) = 0 /\ textChunks \in Seq(ChunkRows)
      /\ DOMAIN textChunks = {} /\ ToSet(filling) = {}
  BY <1>3 DEF ToSet
<1>6. CuttingTypes
  <2>1. 0 < paragraphs[1].length
    BY <1>2, ChunkingAssumption DEF Paragraphs
  <2>2. cutting \in [paragraph : 1 .. Len(paragraphs) + 1, cut : Nat]
    BY <1>2, <1>3
  <2>3. Len(filling) <= Size
    BY <1>5, ChunkingAssumption
  <2> QED BY <1>2, <1>4, <1>5, <2>1, <2>2, <2>3 DEF CuttingTypes
<1>7. Added = {}
  <2> SUFFICES ASSUME NEW c \in Added PROVE FALSE
    OBVIOUS
  <2>1. /\ c[1] \in 1 .. n /\ c[2] \in 1 .. paragraphs[c[1]].length
        /\ c[1] < 1 \/ (c[1] = 1 /\ c[2] <= 0)
    BY <1>2, <1>4 DEF Added
  <2> QED BY <2>1
<1>8. ChunksBounded /\ ChunksNew /\ NothingElse /\ AllHeld
  BY <1>5, <1>7 DEF ChunksBounded, ChunksNew, NothingElse, AllHeld
<1>9. CutIsLast
  BY <1>4 DEF CutIsLast
<1>10. FillingNew
  BY <1>4, <1>5, ChunkingAssumption DEF FillingNew
<1> QED BY <1>6, <1>8, <1>9, <1>10 DEF CuttingInv

LEMMA ChunkingStep == CuttingInv /\ [ChunkingNext]_chunkingVars => CuttingInv'
<1> SUFFICES ASSUME CuttingInv, [ChunkingNext]_chunkingVars PROVE CuttingInv'
  OBVIOUS
<1>1. CASE UNCHANGED chunkingVars
  <2>1. UNCHANGED <<paragraphs, cutting, filling, textChunks>>
    BY <1>1 DEF chunkingVars
  <2>2. CuttingTypes' /\ ChunksBounded' /\ ChunksNew'
    BY <2>1 DEF CuttingInv, CuttingTypes, AllCut, ChunksBounded, ChunksNew
  <2>3. Added' = Added
    BY <2>1 DEF Added
  <2>4. NothingElse' /\ AllHeld' /\ CutIsLast' /\ FillingNew'
    BY <2>1, <2>3 DEF CuttingInv, NothingElse, AllHeld, CutIsLast, FillingNew, NewIn, AllCut, Together
  <2> QED BY <2>2, <2>4 DEF CuttingInv
<1> QED BY <1>1, fillCuts, emit_fullCuts, emit_lastCuts DEF ChunkingNext

\* When all is cut off and emitted, all characters are in chunks.
LEMMA ChunkingHolds == CuttingInv => ChunksSafe
<1> SUFFICES ASSUME CuttingInv PROVE ChunksSafe
  OBVIOUS
<1>1. CuttingTypes /\ Len(paragraphs) \in Nat /\ cutting.paragraph \in Nat /\ DOMAIN paragraphs = 1 .. Len(paragraphs)
  BY DEF CuttingInv, CuttingTypes
<1>2. ASSUME AllCut, filling = <<>>, NEW p \in DOMAIN paragraphs, NEW k \in Nat \ {0}, k <= paragraphs[p].length
      PROVE  <<p, k>> \in Added
  <2>1. paragraphs[p].length \in Nat
    <3>1. paragraphs[p] \in Paragraphs
      BY <1>1 DEF CuttingTypes
    <3> QED BY <3>1, ChunkingAssumption DEF Paragraphs
  <2>2. <<p, k>> \in Chars /\ p \in Nat /\ p < cutting.paragraph
    BY <1>1, <1>2 DEF Chars, AllCut
  <2>3. k \in 1 .. paragraphs[p].length
    BY <1>2, <2>1
  <2> QED BY <2>2, <2>3 DEF Added
<1>3. ASSUME AllCut, filling = <<>>, NEW x, NEW y, Together(x, y)
      PROVE  \E j \in DOMAIN textChunks : {x, y} \subseteq ToSet(textChunks[j].text)
  <2>1. ToSet(filling) = {}
    BY <1>3 DEF ToSet
  <2> QED BY <1>3, <2>1 DEF Together
<1>4. NothingLost
  <2> SUFFICES ASSUME AllCut, filling = <<>>
               PROVE  \A p \in DOMAIN paragraphs, k \in 1 .. MaxLength :
                         k <= paragraphs[p].length => \E j \in DOMAIN textChunks : <<p, k>> \in ToSet(textChunks[j].text)
    BY DEF CuttingInv, ChunksNew, NothingLost
  <2> SUFFICES ASSUME NEW p \in DOMAIN paragraphs, NEW k \in 1 .. MaxLength, k <= paragraphs[p].length
               PROVE  \E j \in DOMAIN textChunks : <<p, k>> \in ToSet(textChunks[j].text)
    OBVIOUS
  <2>1. k \in Nat \ {0}
    BY ChunkingAssumption
  <2>2. PICK x : x = <<p, k>>
    OBVIOUS
  <2>3. x \in Added
    BY <1>2, <2>1, <2>2
  <2>4. Together(x, x)
    BY <2>3 DEF CuttingInv, AllHeld
  <2>5. PICK j \in DOMAIN textChunks : {x, x} \subseteq ToSet(textChunks[j].text)
    BY <1>3, <2>4
  <2> QED BY <2>2, <2>5
<1>5. NeighboursTogether
  <2> SUFFICES ASSUME AllCut, filling = <<>>, NEW p \in DOMAIN paragraphs, NEW k \in 2 .. MaxLength,
                      k <= paragraphs[p].length
               PROVE  \E j \in DOMAIN textChunks : {<<p, k - 1>>, <<p, k>>} \subseteq ToSet(textChunks[j].text)
    BY DEF NeighboursTogether
  <2>1. k \in Nat \ {0} /\ k - 1 \in Nat \ {0} /\ k - 1 <= paragraphs[p].length
    <3>1. paragraphs[p] \in Paragraphs
      BY <1>1 DEF CuttingTypes
    <3> QED BY <3>1, ChunkingAssumption DEF Paragraphs
  <2>2. PICK x : x = <<p, k - 1>>
    OBVIOUS
  <2>3. PICK y : y = <<p, k>>
    OBVIOUS
  <2>4. x \in Added /\ y \in Added
    BY <1>2, <2>1, <2>2, <2>3
  <2>5. x[1] = y[1] /\ y[2] = x[2] + 1
    BY <2>1, <2>2, <2>3
  <2>6. Together(x, y)
    BY <2>4, <2>5 DEF CuttingInv, AllHeld
  <2> QED BY <1>3, <2>2, <2>3, <2>6
<1> QED BY <1>4, <1>5 DEF CuttingInv, ChunksSafe

(***************************************************************************)
(* Versions, vectors and packages: the inductive invariant.                *)
(***************************************************************************)
\* Every variable has its type.
ChunkVectorRows == [model : Models, of : Contents] \cup {NoChunkVector}
IndexTypes ==
    /\ currentVersion \in [Docs -> VersionNumbers \cup {0}]
    /\ versions \in [Docs -> [VersionNumbers -> Contents \cup {NoText}]]
    /\ chunkVectors \in [Docs -> [VersionNumbers -> [Chunks -> ChunkVectorRows]]]
    /\ packages \subseteq [doc : Docs, number : VersionNumbers, content : Contents, vectors : [Chunks -> ChunkVectorRows]]
    /\ indexJob \in [pc : {"idle", "listing", "storing"}, model : Models \cup {"none"}, batch : SUBSET ChunkIds]
    /\ indexJob.pc # "idle" => indexJob.model \in Models

\* The current version is stored, and a chunk's vector is that of its version.
CurrentIsKnown == \A d \in Docs : currentVersion[d] # 0 => versions[d][currentVersion[d]] # NoText
VectorsOfVersion ==
    \A d \in Docs, n \in VersionNumbers, c \in Chunks :
        chunkVectors[d][n][c] # NoChunkVector => chunkVectors[d][n][c].of = versions[d][n]

IndexInv == IndexTypes /\ CurrentIsKnown /\ VectorsOfVersion /\ NewestIsCurrent /\ PackagesWhole

\* The number of a new version is beyond those of the versions that are known.
LEMMA NewVersion ==
  ASSUME NEW d \in Docs
  PROVE  LET next == Max(Known(d) \cup {0}) + 1 IN
         next \in Nat \ {0} /\ \A n \in Known(d) : n < next
<1> DEFINE S == Known(d) \cup {0}
<1>1. S \subseteq 0 .. MaxVersions /\ S # {}
  BY IndexAssumption DEF Known, VersionNumbers
<1>2. \E x \in S : \A y \in S : x >= y
  <2>1. PICK x \in S : \A y \in S : y <= x
    BY <1>1, GreatestOf, IndexAssumption
  <2> QED BY <1>1, <2>1
<1>3. Max(S) \in S /\ \A y \in S : Max(S) >= y
  BY <1>2 DEF Max
<1>4. S \subseteq Nat /\ 0 \in S
  BY <1>1, IndexAssumption
<1>5. Max(S) \in Nat /\ \A n \in Known(d) : n \in Nat /\ n <= Max(S)
  BY <1>3, <1>4
<1> HIDE DEF S
<1>6. Max(S) + 1 \in Nat \ {0} /\ \A n \in Known(d) : n < Max(S) + 1
  BY <1>5
<1> QED BY <1>6 DEF S

LEMMA IndexStart == IndexInit => IndexInv
<1> SUFFICES ASSUME IndexInit PROVE IndexInv
  OBVIOUS
<1> USE DEF IndexInit
<1>1. IndexTypes
  BY DEF IndexTypes, NoVectors, ChunkVectorRows, NotIndexing, ChunkIds
<1>2. CurrentIsKnown /\ NewestIsCurrent /\ PackagesWhole
  BY DEF CurrentIsKnown, NewestIsCurrent, PackagesWhole, Known
<1>3. VectorsOfVersion
  BY DEF VectorsOfVersion, NoVectors
<1> QED BY <1>1, <1>2, <1>3 DEF IndexInv

\* Version n of document d is stored with its content and vectors, and becomes the
\* current one unless a later one is.
LEMMA VersionStored ==
  ASSUME IndexInv, NEW d \in Docs, NEW n \in VersionNumbers, NEW content \in Contents,
         NEW vs \in [Chunks -> ChunkVectorRows],
         versions' = [versions EXCEPT ![d][n] = content],
         chunkVectors' = [chunkVectors EXCEPT ![d][n] = vs],
         currentVersion' = [currentVersion EXCEPT ![d] = IF currentVersion[d] <= n THEN n ELSE @],
         \A c \in Chunks : vs[c] # NoChunkVector => vs[c].of = content,
         UNCHANGED <<packages, indexJob>>
  PROVE  IndexInv'
<1> USE IndexAssumption DEF IndexInv, IndexTypes
<1>1. currentVersion' \in [Docs -> VersionNumbers \cup {0}]
  OBVIOUS
<1>2. /\ versions' \in [Docs -> [VersionNumbers -> Contents \cup {NoText}]]
      /\ \A e \in Docs, k \in VersionNumbers : versions'[e][k] = IF e = d /\ k = n THEN content ELSE versions[e][k]
  OBVIOUS
<1>3. /\ chunkVectors' \in [Docs -> [VersionNumbers -> [Chunks -> ChunkVectorRows]]]
      /\ \A e \in Docs, k \in VersionNumbers : chunkVectors'[e][k] = IF e = d /\ k = n THEN vs ELSE chunkVectors[e][k]
  OBVIOUS
<1>4. content # NoText
  BY DEF NoText
<1>5. CurrentIsKnown' /\ NewestIsCurrent'
  BY <1>1, <1>2, <1>4 DEF CurrentIsKnown, NewestIsCurrent, Known, VersionNumbers
<1>6. VectorsOfVersion'
  BY <1>2, <1>3 DEF VectorsOfVersion
<1>7. PackagesWhole'
  BY DEF PackagesWhole
<1> QED BY <1>1, <1>2, <1>3, <1>5, <1>6, <1>7

\* What is stored stays, and the command moves on.
LEMMA NothingIndexed ==
  ASSUME IndexInv, UNCHANGED <<currentVersion, versions, chunkVectors, packages>>,
         indexJob' \in [pc : {"idle", "listing", "storing"}, model : Models \cup {"none"}, batch : SUBSET ChunkIds],
         indexJob'.pc # "idle" => indexJob'.model \in Models
  PROVE  IndexInv'
<1>1. IndexTypes'
  BY DEF IndexInv, IndexTypes
<1>2. CurrentIsKnown' /\ VectorsOfVersion' /\ NewestIsCurrent' /\ PackagesWhole'
  BY DEF IndexInv, CurrentIsKnown, VectorsOfVersion, NewestIsCurrent, PackagesWhole, Known
<1> QED BY <1>1, <1>2 DEF IndexInv

LEMMA ImportStored ==
  ASSUME IndexInv, NEW d \in Docs, NEW content \in Contents, import_local_document(d, content)
  PROVE  IndexInv'
<1>1. CASE UNCHANGED <<currentVersion, versions, chunkVectors>>
  BY <1>1, NothingIndexed DEF import_local_document, IndexInv, IndexTypes
<1>2. CASE ~UNCHANGED <<currentVersion, versions, chunkVectors>>
  <2>1. PICK n : n = Max(Known(d) \cup {0}) + 1
    OBVIOUS
  <2>2. /\ n \in VersionNumbers /\ UNCHANGED <<packages, indexJob>>
        /\ versions' = [versions EXCEPT ![d][n] = content]
        /\ chunkVectors' = [chunkVectors EXCEPT ![d][n] = NoVectors]
        /\ currentVersion' = [currentVersion EXCEPT ![d] = n]
    BY <1>2, <2>1 DEF import_local_document
  <2>3. currentVersion[d] <= n
    <3>1. CASE currentVersion[d] = 0
      BY <2>2, <3>1 DEF VersionNumbers
    <3>2. CASE currentVersion[d] # 0
      <4>1. currentVersion[d] \in Known(d)
        BY <3>2 DEF IndexInv, IndexTypes, CurrentIsKnown, Known
      <4>2. currentVersion[d] < n
        BY <2>1, <4>1, NewVersion
      <4>3. currentVersion[d] \in Nat /\ n \in Nat
        BY <2>2, <4>1, IndexAssumption DEF Known, VersionNumbers
      <4> QED BY <4>2, <4>3
    <3> QED BY <3>1, <3>2
  <2>4. /\ NoVectors \in [Chunks -> ChunkVectorRows]
        /\ \A c \in Chunks : NoVectors[c] # NoChunkVector => NoVectors[c].of = content
    BY DEF NoVectors, ChunkVectorRows
  <2> QED BY <2>2, <2>3, <2>4, VersionStored
<1> QED BY <1>1, <1>2

LEMMA PackageStored ==
  ASSUME IndexInv, NEW p \in packages, import_artifact_snapshot(p)
  PROVE  IndexInv'
<1>1. p.doc \in Docs /\ p.number \in VersionNumbers /\ p.content \in Contents /\ p.vectors \in [Chunks -> ChunkVectorRows]
  BY DEF IndexInv, IndexTypes
<1>2. \A c \in Chunks : p.vectors[c].of = p.content
  <2>1. PICK model \in Models : \A c \in Chunks : p.vectors[c] = [model |-> model, of |-> p.content]
    BY DEF IndexInv, PackagesWhole
  <2> QED BY <2>1
<1> QED BY <1>1, <1>2, VersionStored DEF import_artifact_snapshot, Supersedes

\* A package is added.
LEMMA PackageAdded ==
  ASSUME IndexInv, NEW p \in [doc : Docs, number : VersionNumbers, content : Contents, vectors : [Chunks -> ChunkVectorRows]],
         NEW model \in Models, \A c \in Chunks : p.vectors[c] = [model |-> model, of |-> p.content],
         packages' = packages \cup {p},
         UNCHANGED <<currentVersion, versions, chunkVectors, indexJob>>
  PROVE  IndexInv'
<1>1. IndexTypes'
  BY DEF IndexInv, IndexTypes
<1>2. CurrentIsKnown' /\ VectorsOfVersion' /\ NewestIsCurrent'
  BY DEF IndexInv, CurrentIsKnown, VectorsOfVersion, NewestIsCurrent, Known
<1>3. PackagesWhole'
  BY DEF IndexInv, PackagesWhole
<1> QED BY <1>1, <1>2, <1>3 DEF IndexInv

LEMMA PublishedPackage ==
  ASSUME IndexInv, NEW d \in Docs, currentVersion[d] # 0, publish_knowledge_artifact(d)
  PROVE  IndexInv'
<1>1. PICK n \in VersionNumbers : n = currentVersion[d]
  BY DEF IndexInv, IndexTypes
<1>2. PICK content \in Contents : content = versions[d][n]
  BY <1>1 DEF IndexInv, IndexTypes, CurrentIsKnown
<1>3. PICK vs \in [Chunks -> ChunkVectorRows] : vs = chunkVectors[d][n]
  BY DEF IndexInv, IndexTypes
<1>4. PICK model \in Models : \A c \in Chunks : vs[c].model = model
  BY <1>1, <1>3 DEF publish_knowledge_artifact, Exportable
<1>5. \A c \in Chunks : vs[c] = [model |-> model, of |-> content]
  <2> SUFFICES ASSUME NEW c \in Chunks PROVE vs[c] = [model |-> model, of |-> content]
    OBVIOUS
  <2>1. vs[c] \in ChunkVectorRows /\ vs[c] # NoChunkVector
    BY <1>4, IndexAssumption DEF NoChunkVector
  <2>2. vs[c].of = content
    BY <1>2, <1>3, <2>1 DEF IndexInv, VectorsOfVersion
  <2> QED BY <1>4, <2>1, <2>2 DEF ChunkVectorRows
<1>6. PICK p : p = PackageOf(d, n, content, vs)
  OBVIOUS
<1>7. /\ p \in [doc : Docs, number : VersionNumbers, content : Contents, vectors : [Chunks -> ChunkVectorRows]]
      /\ p.vectors = vs /\ p.content = content
  BY <1>6 DEF PackageOf
<1>8. packages' = packages \cup {p} /\ UNCHANGED <<currentVersion, versions, chunkVectors, indexJob>>
  BY <1>1, <1>2, <1>3, <1>6 DEF publish_knowledge_artifact
<1> QED BY <1>5, <1>7, <1>8, PackageAdded

LEMMA PublishedElsewhere ==
  ASSUME IndexInv, NEW d \in Foreign, NEW n \in VersionNumbers, NEW content \in Contents, NEW model \in Models,
         publish_elsewhere(d, n, content, model)
  PROVE  IndexInv'
<1>1. PICK vs : vs = [c \in Chunks |-> [model |-> model, of |-> content]]
  OBVIOUS
<1>2. PICK p : p = PackageOf(d, n, content, vs)
  OBVIOUS
<1>3. vs \in [Chunks -> ChunkVectorRows]
  BY <1>1 DEF ChunkVectorRows
<1>4. /\ p \in [doc : Docs, number : VersionNumbers, content : Contents, vectors : [Chunks -> ChunkVectorRows]]
      /\ p.vectors = vs /\ p.content = content
  BY <1>2, <1>3 DEF PackageOf, Docs
<1>5. packages' = packages \cup {p} /\ UNCHANGED <<currentVersion, versions, chunkVectors, indexJob>>
  BY <1>1, <1>2 DEF publish_elsewhere
<1> QED BY <1>1, <1>4, <1>5, PackageAdded

LEMMA VectorStored ==
  ASSUME IndexInv, store_chunk_vector
  PROVE  IndexInv'
<1>1. PICK chunk \in indexJob.batch :
         /\ upsert_chunk_embedding(chunk, indexJob.model)
         /\ indexJob' = [indexJob EXCEPT !.batch = @ \ {chunk}]
  BY DEF store_chunk_vector
<1>2. PICK d \in Docs, n \in VersionNumbers, c \in Chunks : chunk = <<d, n, c>>
  BY DEF IndexInv, IndexTypes, ChunkIds
<1>3. UNCHANGED <<currentVersion, versions, packages>> /\ indexJob.model \in Models
  BY DEF store_chunk_vector, IndexInv, IndexTypes
<1>4. \/ UNCHANGED chunkVectors
      \/ IsCurrent(d, n) /\ chunkVectors' = [chunkVectors EXCEPT ![d][n][c] = [model |-> indexJob.model, of |-> versions[d][n]]]
  BY <1>1, <1>2 DEF upsert_chunk_embedding, IsServed, UpToDate
<1>5. IsCurrent(d, n) => versions[d][n] \in Contents
  BY DEF IndexInv, IndexTypes, IsCurrent, CurrentIsKnown
<1>6. /\ chunkVectors' \in [Docs -> [VersionNumbers -> [Chunks -> ChunkVectorRows]]]
      /\ \A e \in Docs, k \in VersionNumbers, b \in Chunks :
            \/ chunkVectors'[e][k][b] = chunkVectors[e][k][b]
            \/ chunkVectors'[e][k][b].of = versions[e][k]
  <2>1. CASE UNCHANGED chunkVectors
    BY <2>1 DEF IndexInv, IndexTypes
  <2>2. CASE IsCurrent(d, n) /\ chunkVectors' = [chunkVectors EXCEPT ![d][n][c] = [model |-> indexJob.model, of |-> versions[d][n]]]
    <3>1. PICK v \in ChunkVectorRows : v = [model |-> indexJob.model, of |-> versions[d][n]]
      BY <1>3, <1>5, <2>2 DEF ChunkVectorRows
    <3>2. chunkVectors \in [Docs -> [VersionNumbers -> [Chunks -> ChunkVectorRows]]] /\ v.of = versions[d][n]
      BY <3>1 DEF IndexInv, IndexTypes
    <3>3. chunkVectors' = [chunkVectors EXCEPT ![d][n][c] = v]
      BY <2>2, <3>1
    <3> QED BY <3>2, <3>3
  <2> QED BY <1>4, <2>1, <2>2
<1>7. /\ indexJob' \in [pc : {"idle", "listing", "storing"}, model : Models \cup {"none"}, batch : SUBSET ChunkIds]
      /\ indexJob'.model = indexJob.model
  BY <1>1 DEF IndexInv, IndexTypes
<1>8. IndexTypes'
  BY <1>3, <1>6, <1>7 DEF IndexInv, IndexTypes
<1>9. CurrentIsKnown' /\ NewestIsCurrent' /\ PackagesWhole'
  BY <1>3 DEF IndexInv, CurrentIsKnown, NewestIsCurrent, PackagesWhole, Known
<1>10. VectorsOfVersion'
  BY <1>3, <1>6 DEF IndexInv, VectorsOfVersion, NoChunkVector
<1> QED BY <1>8, <1>9, <1>10 DEF IndexInv

LEMMA IndexStep == IndexInv /\ [IndexNext]_indexVars => IndexInv'
<1> SUFFICES ASSUME IndexInv, [IndexNext]_indexVars PROVE IndexInv'
  OBVIOUS
<1>1. ASSUME NEW d \in Local, NEW content \in Contents, import_local_document(d, content) PROVE IndexInv'
  BY <1>1, ImportStored DEF Docs
<1>2. ASSUME NEW d \in Docs, currentVersion[d] # 0, publish_knowledge_artifact(d) PROVE IndexInv'
  BY <1>2, PublishedPackage
<1>3. ASSUME NEW model \in Models, begin_vectorize_knowledge(model) PROVE IndexInv'
  BY <1>3, NothingIndexed DEF begin_vectorize_knowledge, NotIndexing
<1>4. CASE list_missing
  <2>1. chunks_needing_embeddings(indexJob.model) \in SUBSET ChunkIds
    BY DEF chunks_needing_embeddings, ChunkIds
  <2>2. PICK missing \in SUBSET ChunkIds : missing = chunks_needing_embeddings(indexJob.model)
    BY <2>1
  <2>3. indexJob' = NotIndexing \/ indexJob' = [indexJob EXCEPT !.pc = "storing", !.batch = missing]
    BY <1>4, <2>2 DEF list_missing
  <2>4. /\ indexJob' \in [pc : {"idle", "listing", "storing"}, model : Models \cup {"none"}, batch : SUBSET ChunkIds]
        /\ indexJob'.pc # "idle" => indexJob'.model \in Models
    <3>1. indexJob.model \in Models /\ indexJob \in [pc : {"idle", "listing", "storing"}, model : Models \cup {"none"}, batch : SUBSET ChunkIds]
      BY <1>4 DEF list_missing, IndexInv, IndexTypes
    <3>2. CASE indexJob' = NotIndexing
      BY <3>2 DEF NotIndexing
    <3>3. CASE indexJob' = [indexJob EXCEPT !.pc = "storing", !.batch = missing]
      BY <3>1, <3>3
    <3> QED BY <2>3, <3>2, <3>3
  <2> QED BY <1>4, <2>4, NothingIndexed DEF list_missing
<1>5. CASE next_index_round
  <2>1. /\ indexJob' \in [pc : {"idle", "listing", "storing"}, model : Models \cup {"none"}, batch : SUBSET ChunkIds]
        /\ indexJob'.pc # "idle" => indexJob'.model \in Models
    BY <1>5 DEF next_index_round, IndexInv, IndexTypes
  <2> QED BY <1>5, <2>1, NothingIndexed DEF next_index_round
<1>6. CASE UNCHANGED indexVars
  BY <1>6, NothingIndexed DEF indexVars, IndexInv, IndexTypes
<1> QED BY <1>1, <1>2, <1>3, <1>4, <1>5, <1>6, PackageStored, PublishedElsewhere, VectorStored DEF IndexNext

LEMMA VectorsForgotten == IndexInv /\ forget_chunk_vectors => IndexInv'
<1> SUFFICES ASSUME IndexInv, forget_chunk_vectors PROVE IndexInv'
  OBVIOUS
<1>1. /\ chunkVectors' = [d \in Docs |-> [n \in VersionNumbers |-> NoVectors]]
      /\ UNCHANGED <<currentVersion, versions, packages, indexJob, indexed>>
  BY DEF forget_chunk_vectors
<1>2. IndexTypes'
  BY <1>1 DEF IndexInv, IndexTypes, NoVectors, ChunkVectorRows
<1>3. CurrentIsKnown' /\ NewestIsCurrent' /\ PackagesWhole'
  BY <1>1 DEF IndexInv, CurrentIsKnown, NewestIsCurrent, PackagesWhole, Known
<1>4. VectorsOfVersion'
  BY <1>1 DEF VectorsOfVersion, NoVectors
<1> QED BY <1>2, <1>3, <1>4 DEF IndexInv

LEMMA IndexHolds == IndexInv => IndexSafe
<1> SUFFICES ASSUME IndexInv PROVE IndexTypeOK /\ SearchIsCurrent
  BY DEF IndexInv, IndexSafe
<1>1. IndexTypeOK
  BY DEF IndexInv, IndexTypes, CurrentIsKnown, IndexTypeOK, Known
<1>2. SearchIsCurrent
  <2>1. ASSUME NEW model \in Models, NEW hit \in retrieve_knowledge_hybrid(model) PROVE \A n \in Known(hit[1]) : n <= hit[2]
    <3>1. PICK d \in Docs, m \in VersionNumbers, c \in Chunks : hit = <<d, m, c>> /\ IsCurrent(d, m)
      BY <2>1 DEF retrieve_knowledge_hybrid, search, search_chunk_vector, ChunkIds, IsServed
    <3> QED BY <3>1 DEF IsCurrent, IndexInv, NewestIsCurrent
  <2>2. ASSUME NEW model \in Models, NEW d \in Docs, NEW c \in Chunks, currentVersion[d] # 0
        PROVE  <<d, currentVersion[d], c>> \in retrieve_knowledge_hybrid(model)
    BY <2>2 DEF retrieve_knowledge_hybrid, search, ChunkIds, IsServed, IsCurrent, Known, IndexInv, IndexTypes, CurrentIsKnown
  <2> QED BY <2>1, <2>2 DEF SearchIsCurrent
<1> QED BY <1>1, <1>2

(***************************************************************************)
(* Imports: the inductive invariant.                                       *)
(***************************************************************************)
\* What an import knows.
ImportPC == {"idle", "reading", "spawning", "parsing", "read", "storing", "installing", "installed", "unsettled"}
Texts0 == Contents \cup {NoText}
ImportStates == [pc : ImportPC, kind : ImportKinds \cup {"none"}, job : JobIds \cup {"none"},
                 hash : Texts0, text : Texts0, backup : Texts0]
ImportTypes ==
    /\ source \in {"disk", "drive"} /\ file \in Contents
    /\ jobs \in [JobIds -> {"free", "live", "cancelled"}]
    /\ imports \in [Imports -> ImportStates]
    /\ children \in [Imports -> Texts0 \cup {"started"}]
    /\ target \in Texts0
    /\ document \in [hash : Texts0, text : Texts0]
    /\ met \subseteq {"overlap", "crash"}

\* Imports of one kind at a time: those of local files have a job of their own.
ImportKindsApart ==
    \A i \in Imports :
        /\ imports[i].pc = "idle" <=> imports[i].kind = "none"
        /\ imports[i].kind = "drive" => source = "drive" /\ imports[i].pc \in {"read", "installing", "installed", "unsettled"}
        /\ imports[i].kind \in {"text", "structured"} =>
              source = "disk" /\ imports[i].pc \in {"reading", "spawning", "parsing", "read", "storing"}
        /\ imports[i].kind \in {"text", "structured"} <=> imports[i].job # "none"

JobsOwned ==
    /\ \A job \in JobIds : jobs[job] # "free" => \E i \in Imports : imports[i].job = job
    /\ \A i \in Imports : imports[i].job # "none" => jobs[imports[i].job] # "free"
    /\ \A i, other \in Imports : imports[i].job # "none" /\ imports[i].job = imports[other].job => i = other

\* What an import will store is the text of the bytes that it has hashed.
ReadTogether ==
    /\ document.text = document.hash
    /\ \A i \in Imports : imports[i].pc \in {"read", "storing", "installing", "installed", "unsettled"} =>
          imports[i].text = imports[i].hash /\ imports[i].text \in Contents

\* While one import is at the managed copy, the copy is aside or the import's own,
\* and the copy that is aside is the one of the document.
CopyInHand ==
    source = "drive" /\ met = {} =>
        /\ \A i, other \in InTarget : i = other
        /\ \A i \in InTarget :
              /\ imports[i].backup = document.text
              /\ target = IF imports[i].pc = "installing" THEN NoText ELSE imports[i].text
        /\ InTarget = {} => target = document.text

ImportInv == ImportTypes /\ ImportKindsApart /\ JobsOwned /\ ReadTogether /\ NoParserLeft /\ CopyInHand

LEMMA ImportStart == ImportInit => ImportInv
<1> SUFFICES ASSUME ImportInit PROVE ImportInv
  OBVIOUS
<1>1. /\ source \in {"disk", "drive"} /\ file \in Contents /\ jobs = [job \in JobIds |-> "free"]
      /\ imports = [i \in Imports |-> NotImporting] /\ children = [i \in Imports |-> NoText]
      /\ target = NoText /\ document = NothingStored /\ met = {}
  BY DEF ImportInit
<1>2. NotImporting \in ImportStates /\ NotImporting.pc = "idle" /\ NotImporting.kind = "none" /\ NotImporting.job = "none"
  BY DEF NotImporting, ImportStates, ImportPC, ImportKinds, Texts0
<1>3. ImportTypes
  BY <1>1, <1>2 DEF ImportTypes, Texts0, NothingStored
<1>4. ImportKindsApart /\ JobsOwned /\ ReadTogether /\ NoParserLeft
  BY <1>1, <1>2 DEF ImportKindsApart, JobsOwned, ReadTogether, NoParserLeft, NothingStored, ImportKinds
<1>5. CopyInHand
  BY <1>1, <1>2 DEF CopyInHand, InTarget, NothingStored
<1> QED BY <1>3, <1>4, <1>5 DEF ImportInv

\* Nothing but a counter changes.
LEMMA ImportStutters ==
  ASSUME ImportInv, UNCHANGED <<source, file, jobs, imports, children, target, document, met>>
  PROVE  ImportInv'
<1>1. ImportTypes' /\ ImportKindsApart' /\ JobsOwned'
  BY DEF ImportInv, ImportTypes, ImportKindsApart, JobsOwned
<1>2. ReadTogether' /\ NoParserLeft' /\ CopyInHand'
  BY DEF ImportInv, ReadTogether, NoParserLeft, ImportAt, CopyInHand, InTarget
<1> QED BY <1>1, <1>2 DEF ImportInv

\* An import of a local file goes on with the job it has.
LEMMA LocalGoesOn ==
  ASSUME ImportInv, source = "disk", NEW i \in Imports, NEW st \in ImportStates,
         imports' = [imports EXCEPT ![i] = st],
         st.job = imports[i].job, st.kind = imports[i].kind, st.kind \in {"text", "structured"},
         st.pc \in {"spawning", "parsing", "read", "storing"},
         st.pc \in {"read", "storing"} => st.text = st.hash /\ st.text \in Contents,
         children' \in [Imports -> Texts0 \cup {"started"}],
         \A other \in Imports \ {i} : children'[other] = children[other],
         children'[i] # NoText => st.pc = "parsing",
         UNCHANGED <<source, file, jobs, target, document, met>>
  PROVE  ImportInv'
<1> USE DEF ImportInv, ImportTypes
<1>1. /\ imports' \in [Imports -> ImportStates]
      /\ \A k \in Imports : imports'[k] = IF k = i THEN st ELSE imports[k]
  OBVIOUS
<1>2. ImportTypes'
  BY <1>1
<1>3. ImportKindsApart'
  BY <1>1 DEF ImportKindsApart
<1>4. JobsOwned'
  BY <1>1 DEF JobsOwned
<1>5. ReadTogether'
  BY <1>1 DEF ReadTogether
<1>6. NoParserLeft'
  BY <1>1 DEF NoParserLeft, ImportAt
<1>7. CopyInHand'
  BY DEF CopyInHand
<1> QED BY <1>2, <1>3, <1>4, <1>5, <1>6, <1>7

\* An import of a local file ends, and what it stores is the text of its hash.
LEMMA LocalEnds ==
  ASSUME ImportInv, source = "disk", NEW i \in Imports, Ends(i),
         children' \in [Imports -> Texts0 \cup {"started"}],
         \A other \in Imports \ {i} : children'[other] = children[other],
         children'[i] = NoText,
         document' \in [hash : Texts0, text : Texts0], document'.text = document'.hash,
         UNCHANGED <<source, file, target, met>>
  PROVE  ImportInv'
<1> USE DEF ImportInv, ImportTypes
<1>1. NotImporting \in ImportStates /\ NotImporting.pc = "idle" /\ NotImporting.kind = "none" /\ NotImporting.job = "none"
  BY DEF NotImporting, ImportStates, ImportPC, ImportKinds, Texts0
<1>2. /\ imports' \in [Imports -> ImportStates]
      /\ \A k \in Imports : imports'[k] = IF k = i THEN NotImporting ELSE imports[k]
  BY <1>1 DEF Ends, SetImport
<1>3. /\ jobs' \in [JobIds -> {"free", "live", "cancelled"}]
      /\ \A job \in JobIds : jobs'[job] = IF job = imports[i].job THEN "free" ELSE jobs[job]
  BY DEF Ends, finish
<1>4. ImportTypes'
  BY <1>2, <1>3
<1>5. ImportKindsApart'
  BY <1>1, <1>2 DEF ImportKindsApart, ImportKinds
<1>6. JobsOwned'
  <2>1. ASSUME NEW job \in JobIds, jobs'[job] # "free" PROVE \E k \in Imports : imports'[k].job = job
    <3>1. job # imports[i].job /\ jobs[job] # "free"
      BY <1>3, <2>1
    <3>2. PICK k \in Imports : imports[k].job = job
      BY <3>1 DEF JobsOwned
    <3> QED BY <1>2, <3>1, <3>2
  <2>2. ASSUME NEW k \in Imports, imports'[k].job # "none" PROVE jobs'[imports'[k].job] # "free"
    <3>1. k # i /\ imports'[k] = imports[k]
      BY <1>1, <1>2, <2>2
    <3>2. imports[k].job \in JobIds /\ imports[k].job # imports[i].job /\ jobs[imports[k].job] # "free"
      BY <2>2, <3>1 DEF JobsOwned, ImportStates
    <3> QED BY <1>3, <3>1, <3>2
  <2>3. \A k, other \in Imports : imports'[k].job # "none" /\ imports'[k].job = imports'[other].job => k = other
    BY <1>1, <1>2 DEF JobsOwned
  <2> QED BY <2>1, <2>2, <2>3 DEF JobsOwned
<1>7. ReadTogether'
  BY <1>1, <1>2 DEF ReadTogether
<1>8. NoParserLeft'
  BY <1>2 DEF NoParserLeft, ImportAt
<1>9. CopyInHand'
  BY DEF CopyInHand
<1> QED BY <1>4, <1>5, <1>6, <1>7, <1>8, <1>9

LEMMA LocalBegins ==
  ASSUME ImportInv, source = "disk", NEW i \in Imports, NEW job \in JobIds, NEW purpose \in ImportKinds,
         import_local_knowledge_document(i, job, purpose), source' = source
  PROVE  ImportInv'
<1> USE DEF ImportInv, ImportTypes
<1>1. PICK st : st = [NotImporting EXCEPT !.pc = "reading", !.kind = purpose, !.job = job]
  OBVIOUS
<1>2. /\ st \in ImportStates /\ st.pc = "reading" /\ st.kind = purpose /\ st.job = job /\ job # "none"
      /\ purpose \in {"text", "structured"}
  BY <1>1, ImportAssumption DEF NotImporting, ImportStates, ImportPC, ImportKinds, Texts0, import_local_knowledge_document
<1>3. /\ imports' \in [Imports -> ImportStates]
      /\ \A k \in Imports : imports'[k] = IF k = i THEN st ELSE imports[k]
  BY <1>1, <1>2 DEF import_local_knowledge_document, SetImport
<1>4. /\ jobs[job] = "free" /\ jobs' \in [JobIds -> {"free", "live", "cancelled"}]
      /\ \A other \in JobIds : jobs'[other] = IF other = job THEN "live" ELSE jobs[other]
  BY DEF import_local_knowledge_document, register
<1>5. UNCHANGED <<file, children, target, document, met>> /\ imports[i].pc = "idle"
  BY DEF import_local_knowledge_document, ImportAt
<1>6. ImportTypes'
  BY <1>3, <1>4, <1>5
<1>7. ImportKindsApart'
  BY <1>2, <1>3 DEF ImportKindsApart
<1>8. imports[i].job = "none"
  BY <1>5 DEF ImportKindsApart, ImportStates
<1>9. \A k \in Imports : imports[k].job # job
  BY <1>2, <1>4 DEF JobsOwned
<1>10. JobsOwned'
  <2>1. ASSUME NEW other \in JobIds, jobs'[other] # "free" PROVE \E k \in Imports : imports'[k].job = other
    <3>1. CASE other = job
      BY <1>2, <1>3, <3>1
    <3>2. CASE other # job
      <4>1. PICK k \in Imports : imports[k].job = other
        BY <1>4, <2>1, <3>2 DEF JobsOwned
      <4>2. k # i
        BY <1>8, <4>1, ImportAssumption
      <4> QED BY <1>3, <4>1, <4>2
    <3> QED BY <3>1, <3>2
  <2>2. ASSUME NEW k \in Imports, imports'[k].job # "none" PROVE jobs'[imports'[k].job] # "free"
    <3>1. CASE k = i
      BY <1>2, <1>3, <1>4, <3>1
    <3>2. CASE k # i
      <4>1. imports'[k] = imports[k] /\ imports[k].job \in JobIds /\ jobs[imports[k].job] # "free"
        BY <1>3, <2>2, <3>2 DEF JobsOwned, ImportStates
      <4> QED BY <1>4, <4>1
    <3> QED BY <3>1, <3>2
  <2>3. \A k, other \in Imports : imports'[k].job # "none" /\ imports'[k].job = imports'[other].job => k = other
    BY <1>2, <1>3, <1>9 DEF JobsOwned
  <2> QED BY <2>1, <2>2, <2>3 DEF JobsOwned
<1>11. ReadTogether' /\ NoParserLeft'
  BY <1>2, <1>3, <1>5 DEF ReadTogether, NoParserLeft, ImportAt
<1>12. CopyInHand'
  BY DEF CopyInHand
<1> QED BY <1>6, <1>7, <1>10, <1>11, <1>12

\* One step of an import of a local file.
LEMMA DiskStep ==
  ASSUME ImportInv, source = "disk", source' = source, NEW i \in Imports, FromDisk(i)
  PROVE  ImportInv'
<1> USE DEF ImportInv, ImportTypes
<1>0. /\ imports[i] \in ImportStates /\ children \in [Imports -> Texts0 \cup {"started"}]
      /\ document.text = document.hash
  BY DEF ReadTogether
<1>1. ASSUME NEW job \in JobIds, import_rejected(i, job) PROVE ImportInv'
  <2>1. UNCHANGED <<source, file, jobs, imports, children, target, document, met>>
    BY <1>1 DEF import_rejected
  <2> QED BY <2>1, ImportStutters
<1>2. ASSUME NEW job \in JobIds, NEW purpose \in ImportKinds, import_local_knowledge_document(i, job, purpose) PROVE ImportInv'
  BY <1>2, LocalBegins
<1>3. CASE read_text(i)
  <2>1. /\ UNCHANGED <<source, file, children, target, document, met>>
        /\ imports[i].pc = "reading" /\ imports[i].kind = "text" /\ children[i] = NoText
    BY <1>3 DEF read_text, ImportAt, NoParserLeft
  <2>2. CASE Ends(i)
    BY <1>0, <2>1, <2>2, LocalEnds
  <2>3. CASE SetImport(i, [imports[i] EXCEPT !.pc = "read", !.hash = file, !.text = file]) /\ UNCHANGED jobs
    <3>1. PICK st : st = [imports[i] EXCEPT !.pc = "read", !.hash = file, !.text = file]
      OBVIOUS
    <3>2. /\ st \in ImportStates /\ st.pc = "read" /\ st.text = file /\ st.hash = file /\ st.job = imports[i].job
          /\ st.kind = "text"
      BY <1>0, <2>1, <3>1 DEF ImportStates, ImportPC, Texts0
    <3> QED BY <1>0, <2>1, <2>3, <3>1, <3>2, LocalGoesOn DEF SetImport
  <2> QED BY <1>3, <2>2, <2>3 DEF read_text
<1>4. CASE read_hash(i)
  <2>1. /\ UNCHANGED <<source, file, children, target, document, met>>
        /\ imports[i].pc = "reading" /\ imports[i].kind = "structured" /\ children[i] = NoText
    BY <1>4 DEF read_hash, ImportAt, NoParserLeft
  <2>2. CASE Ends(i)
    BY <1>0, <2>1, <2>2, LocalEnds
  <2>3. CASE SetImport(i, [imports[i] EXCEPT !.pc = "spawning", !.hash = file]) /\ UNCHANGED jobs
    <3>1. PICK st : st = [imports[i] EXCEPT !.pc = "spawning", !.hash = file]
      OBVIOUS
    <3>2. st \in ImportStates /\ st.pc = "spawning" /\ st.job = imports[i].job /\ st.kind = "structured"
      BY <1>0, <2>1, <3>1 DEF ImportStates, ImportPC, Texts0
    <3> QED BY <1>0, <2>1, <2>3, <3>1, <3>2, LocalGoesOn DEF SetImport
  <2> QED BY <1>4, <2>2, <2>3 DEF read_hash
<1>5. CASE run_parser(i)
  <2>1. /\ UNCHANGED <<source, file, target, document, met>> /\ imports[i].pc = "spawning" /\ children[i] = NoText
        /\ imports[i].kind \in {"text", "structured"}
    BY <1>5 DEF run_parser, ImportAt, NoParserLeft, ImportKindsApart, ImportStates, ImportKinds
  <2>2. CASE Ends(i) /\ UNCHANGED children
    BY <1>0, <2>1, <2>2, LocalEnds
  <2>3. CASE ImportGoes(i, "parsing") /\ UNCHANGED jobs /\ children' = [children EXCEPT ![i] = "started"]
    <3>1. PICK st : st = [imports[i] EXCEPT !.pc = "parsing"]
      OBVIOUS
    <3>2. st \in ImportStates /\ st.pc = "parsing" /\ st.job = imports[i].job /\ st.kind = imports[i].kind
      BY <1>0, <3>1 DEF ImportStates, ImportPC
    <3> QED BY <1>0, <2>1, <2>3, <3>1, <3>2, LocalGoesOn DEF SetImport, ImportGoes
  <2> QED BY <1>5, <2>2, <2>3 DEF run_parser
<1>6. CASE child_reads(i)
  <2>1. /\ UNCHANGED <<source, file, jobs, imports, target, document, met>>
        /\ children[i] = "started" /\ children' = [children EXCEPT ![i] = file]
    BY <1>6 DEF child_reads
  <2>2. children' \in [Imports -> Texts0 \cup {"started"}]
    BY <1>0, <2>1 DEF Texts0
  <2>3. children[i] # NoText
    BY <2>1 DEF NoText
  <2>4. NoParserLeft'
    BY <1>0, <2>1, <2>3 DEF NoParserLeft, ImportAt
  <2>5. ImportKindsApart' /\ JobsOwned' /\ ReadTogether' /\ CopyInHand'
    BY <2>1 DEF ImportKindsApart, JobsOwned, ReadTogether, CopyInHand, InTarget
  <2> QED BY <2>1, <2>2, <2>4, <2>5
<1>7. CASE child_exits(i)
  <2>1. /\ UNCHANGED <<source, file, target, document, met>> /\ imports[i].pc = "parsing"
        /\ imports[i].kind \in {"text", "structured"} /\ children[i] \in Contents
        /\ children' = [children EXCEPT ![i] = NoText]
    BY <1>7 DEF child_exits, ImportAt, Answered, ImportKindsApart, ImportStates, ImportKinds
  <2>2. /\ children' \in [Imports -> Texts0 \cup {"started"}] /\ children'[i] = NoText
        /\ \A other \in Imports \ {i} : children'[other] = children[other]
    BY <1>0, <2>1 DEF Texts0
  <2>3. CASE Ends(i)
    BY <1>0, <2>1, <2>2, <2>3, LocalEnds
  <2>4. CASE Accepted(i) /\ SetImport(i, [imports[i] EXCEPT !.pc = "read", !.text = children[i]]) /\ UNCHANGED jobs
    <3>1. PICK st : st = [imports[i] EXCEPT !.pc = "read", !.text = children[i]]
      OBVIOUS
    <3>2. /\ st \in ImportStates /\ st.pc = "read" /\ st.text = children[i] /\ st.hash = children[i]
          /\ st.job = imports[i].job /\ st.kind = imports[i].kind
      BY <1>0, <2>1, <2>4, <3>1 DEF ImportStates, ImportPC, Texts0, Accepted
    <3>3. imports' = [imports EXCEPT ![i] = st] /\ UNCHANGED <<source, file, jobs, target, document, met>>
      BY <2>1, <2>4, <3>1 DEF SetImport
    <3>4. /\ st.kind \in {"text", "structured"} /\ st.pc \in {"spawning", "parsing", "read", "storing"}
          /\ st.pc \in {"read", "storing"} => st.text = st.hash /\ st.text \in Contents
          /\ children'[i] # NoText => st.pc = "parsing"
      BY <2>1, <3>2
    <3> HIDE DEF ImportInv, ImportTypes
    <3> QED BY <2>2, <3>2, <3>3, <3>4, LocalGoesOn
  <2> QED BY <1>7, <2>3, <2>4 DEF child_exits
<1>8. CASE parsing_stops(i)
  <2>1. UNCHANGED <<source, file, target, document, met>> /\ children' = [children EXCEPT ![i] = NoText]
    BY <1>8 DEF parsing_stops
  <2>2. /\ children' \in [Imports -> Texts0 \cup {"started"}] /\ children'[i] = NoText
        /\ \A other \in Imports \ {i} : children'[other] = children[other]
    BY <1>0, <2>1 DEF Texts0
  <2> QED BY <1>0, <1>8, <2>1, <2>2, LocalEnds DEF parsing_stops
<1>9. CASE last_check(i)
  <2>1. /\ UNCHANGED <<source, file, children, target, document, met>> /\ imports[i].pc = "read" /\ children[i] = NoText
        /\ imports[i].kind \in {"text", "structured"} /\ imports[i].text = imports[i].hash /\ imports[i].text \in Contents
    BY <1>9 DEF last_check, ImportAt, NoParserLeft, ImportKindsApart, ImportStates, ImportKinds, ReadTogether
  <2>2. CASE Ends(i)
    BY <1>0, <2>1, <2>2, LocalEnds
  <2>3. CASE ImportGoes(i, "storing") /\ UNCHANGED jobs
    <3>1. PICK st : st = [imports[i] EXCEPT !.pc = "storing"]
      OBVIOUS
    <3>2. /\ st \in ImportStates /\ st.pc = "storing" /\ st.job = imports[i].job /\ st.kind = imports[i].kind
          /\ st.text = imports[i].text /\ st.hash = imports[i].hash
      BY <1>0, <3>1 DEF ImportStates, ImportPC
    <3> QED BY <1>0, <2>1, <2>3, <3>1, <3>2, LocalGoesOn DEF SetImport, ImportGoes
  <2> QED BY <1>9, <2>2, <2>3 DEF last_check
<1>10. CASE store(i)
  <2>1. /\ UNCHANGED <<source, file, children, target, met>> /\ imports[i].pc = "storing" /\ children[i] = NoText /\ Ends(i)
        /\ imports[i].text = imports[i].hash /\ imports[i].text \in Contents
    BY <1>10 DEF store, ImportAt, NoParserLeft, ReadTogether
  <2>2. document' \in [hash : Texts0, text : Texts0] /\ document'.text = document'.hash
    BY <1>0, <1>10, <2>1 DEF store, Stored, ImportStates
  <2> QED BY <1>0, <2>1, <2>2, LocalEnds
<1> QED BY <1>1, <1>2, <1>3, <1>4, <1>5, <1>6, <1>7, <1>8, <1>9, <1>10 DEF FromDisk

\* An import from a drive takes a step: the copy that is put aside for it is the one of the document.
LEMMA DriveGoesOn ==
  ASSUME ImportInv, source = "drive", NEW i \in Imports, NEW st \in ImportStates,
         imports' = [imports EXCEPT ![i] = st],
         st.job = "none",
         st.pc = "idle" <=> st.kind = "none",
         st.kind \in {"drive", "none"},
         st.pc \in {"idle", "read", "installing", "installed", "unsettled"},
         st.pc # "idle" => st.text = st.hash /\ st.text \in Contents,
         target' \in Texts0, document' \in [hash : Texts0, text : Texts0], document'.text = document'.hash,
         met' \subseteq {"overlap", "crash"},
         CopyInHand',
         UNCHANGED <<source, file, jobs, children>>
  PROVE  ImportInv'
<1> USE DEF ImportInv, ImportTypes
<1>1. /\ imports' \in [Imports -> ImportStates]
      /\ \A k \in Imports : imports'[k] = IF k = i THEN st ELSE imports[k]
  OBVIOUS
<1>2. ImportTypes'
  BY <1>1
<1>3. ImportKindsApart'
  BY <1>1 DEF ImportKindsApart
<1>4. imports[i].job = "none"
  BY DEF ImportKindsApart, ImportStates, ImportKinds
<1>5. JobsOwned'
  <2>1. \A job \in JobIds : jobs'[job] = "free"
    BY ImportAssumption DEF JobsOwned, ImportKindsApart, ImportStates, ImportKinds
  <2>2. \A k \in Imports : imports'[k].job = "none"
    BY <1>1 DEF ImportKindsApart, ImportStates, ImportKinds
  <2> QED BY <2>1, <2>2 DEF JobsOwned
<1>6. ReadTogether'
  BY <1>1 DEF ReadTogether
<1>7. NoParserLeft'
  <2>1. \A k \in Imports : children[k] = NoText
    BY DEF NoParserLeft, ImportAt, ImportKindsApart, ImportStates, ImportKinds
  <2> QED BY <2>1 DEF NoParserLeft
<1> QED BY <1>2, <1>3, <1>5, <1>6, <1>7

\* One step of an import from a drive.
LEMMA DriveStep ==
  ASSUME ImportInv, source = "drive", source' = source, NEW i \in Imports, Drive(i)
  PROVE  ImportInv'
<1> USE DEF ImportInv, ImportTypes
<1>0. /\ imports[i] \in ImportStates /\ imports \in [Imports -> ImportStates] /\ document.text = document.hash
      /\ document \in [hash : Texts0, text : Texts0]
      /\ UNCHANGED <<file, jobs, children>> /\ target \in Texts0 /\ met \subseteq {"overlap", "crash"}
      /\ imports[i].kind \in {"drive", "none"} /\ imports[i].job = "none"
  BY DEF ReadTogether, Drive, import_storage_knowledge_document, set_aside, install, store_installed,
         rollback_managed_file, ImportKindsApart, ImportStates, ImportKinds
<1>a. NotImporting \in ImportStates /\ NotImporting.pc = "idle" /\ NotImporting.kind = "none" /\ NotImporting.job = "none"
  BY DEF NotImporting, ImportStates, ImportPC, ImportKinds, Texts0
<1>1. CASE import_storage_knowledge_document(i)
  <2>1. PICK st : st = [NotImporting EXCEPT !.pc = "read", !.kind = "drive", !.hash = file, !.text = file]
    OBVIOUS
  <2>2. /\ st \in ImportStates /\ st.pc = "read" /\ st.kind = "drive" /\ st.job = "none" /\ st.hash = file /\ st.text = file
    BY <2>1 DEF NotImporting, ImportStates, ImportPC, ImportKinds, Texts0
  <2>3. imports' = [imports EXCEPT ![i] = st] /\ imports[i].pc = "idle" /\ UNCHANGED <<target, document, met>>
    BY <1>1, <2>1 DEF import_storage_knowledge_document, SetImport, ImportAt
  <2>4. \A k \in Imports : imports'[k] = IF k = i THEN st ELSE imports[k]
    BY <2>3
  <2>5. InTarget' = InTarget /\ \A k \in InTarget : imports'[k] = imports[k]
    BY <2>2, <2>3, <2>4 DEF InTarget
  <2>6. CopyInHand'
    BY <2>3, <2>5 DEF CopyInHand
  <2> QED BY <1>0, <2>2, <2>3, <2>6, DriveGoesOn
<1>2. CASE set_aside(i)
  <2>1. PICK st : st = [imports[i] EXCEPT !.pc = "installing", !.backup = target]
    OBVIOUS
  <2>2. /\ imports[i].pc = "read" /\ imports[i].kind = "drive"
        /\ imports[i].text = imports[i].hash /\ imports[i].text \in Contents
    BY <1>2 DEF set_aside, ImportAt, ReadTogether
  <2>3. /\ st \in ImportStates /\ st.pc = "installing" /\ st.kind = "drive" /\ st.job = "none"
        /\ st.backup = target /\ st.text = imports[i].text /\ st.hash = imports[i].hash
    BY <1>0, <2>1, <2>2 DEF ImportStates, ImportPC, ImportKinds
  <2>4. /\ imports' = [imports EXCEPT ![i] = st] /\ UNCHANGED document /\ target' = NoText
        /\ met' = IF InTarget # {} THEN met \cup {"overlap"} ELSE met
    BY <1>2, <2>1 DEF set_aside, SetImport
  <2>5. \A k \in Imports : imports'[k] = IF k = i THEN st ELSE imports[k]
    BY <1>0, <2>4
  <2>6. CopyInHand'
    <3>1. SUFFICES ASSUME met' = {} PROVE CopyInHand'
      BY DEF CopyInHand
    <3>2. InTarget = {} /\ met = {} /\ target = document.text
      BY <2>4, <3>1 DEF CopyInHand
    <3>3. InTarget' = {i}
      BY <2>3, <2>5, <3>2 DEF InTarget
    <3> QED BY <2>3, <2>4, <2>5, <3>2, <3>3 DEF CopyInHand
  <2>7. target' \in Texts0 /\ met' \subseteq {"overlap", "crash"}
    BY <1>0, <2>4 DEF Texts0
  <2> QED BY <1>0, <2>2, <2>3, <2>4, <2>6, <2>7, DriveGoesOn
<1>3. ASSUME imports[i].pc \in {"installing", "installed", "unsettled"}, imports' = [imports EXCEPT ![i] = NotImporting],
             target' \in Texts0, document' \in [hash : Texts0, text : Texts0], document'.text = document'.hash,
             UNCHANGED met,
             met = {} => target' = document'.text
      PROVE  ImportInv'
  <2>1. \A k \in Imports : imports'[k] = IF k = i THEN NotImporting ELSE imports[k]
    BY <1>0, <1>3
  <2>2. CopyInHand'
    <3>1. SUFFICES ASSUME met = {} PROVE CopyInHand'
      BY <1>3 DEF CopyInHand
    <3>2. InTarget = {i}
      BY <1>3, <3>1 DEF CopyInHand, InTarget
    <3>3. InTarget' = {}
      BY <1>a, <2>1, <3>2 DEF InTarget
    <3> QED BY <1>3, <3>1, <3>3 DEF CopyInHand
  <2> HIDE DEF ImportInv, ImportTypes
  <2> QED BY <1>0, <1>a, <1>3, <2>2, DriveGoesOn
<1>4. ASSUME imports[i].pc \in {"installing", "installed", "unsettled"}, met = {}
      PROVE  InTarget = {i} /\ imports[i].backup = document.text
             /\ target = IF imports[i].pc = "installing" THEN NoText ELSE imports[i].text
  BY <1>4 DEF CopyInHand, InTarget
<1>5. ASSUME NEW pc \in {"installed", "unsettled"}, imports[i].pc \in {"installing", "installed"},
             ImportGoes(i, pc), target' = imports[i].text \/ (target' = target /\ imports[i].pc = "installed"),
             UNCHANGED <<document, met>>
      PROVE  ImportInv'
  <2>1. PICK st : st = [imports[i] EXCEPT !.pc = pc]
    OBVIOUS
  <2>2. imports[i].kind = "drive" /\ imports[i].text = imports[i].hash /\ imports[i].text \in Contents
    BY <1>0, <1>5 DEF ImportKindsApart, ReadTogether
  <2>3. /\ st \in ImportStates /\ st.pc = pc /\ st.kind = "drive" /\ st.job = "none"
        /\ st.backup = imports[i].backup /\ st.text = imports[i].text /\ st.hash = imports[i].hash
    BY <1>0, <2>1, <2>2 DEF ImportStates, ImportPC, ImportKinds
  <2>4. imports' = [imports EXCEPT ![i] = st]
    BY <1>5, <2>1 DEF ImportGoes, SetImport
  <2>5. \A k \in Imports : imports'[k] = IF k = i THEN st ELSE imports[k]
    BY <1>0, <2>4
  <2>6. CopyInHand'
    <3>1. SUFFICES ASSUME met = {} PROVE CopyInHand'
      BY <1>5 DEF CopyInHand
    <3>2. /\ InTarget = {i} /\ imports[i].backup = document.text
          /\ target = IF imports[i].pc = "installing" THEN NoText ELSE imports[i].text
      BY <1>4, <1>5, <3>1
    <3>3. InTarget' = {i}
      BY <2>3, <2>5, <3>2 DEF InTarget
    <3> QED BY <1>5, <2>3, <2>5, <3>1, <3>2, <3>3 DEF CopyInHand
  <2>7. target' \in Texts0
    BY <1>0, <1>5 DEF ImportStates
  <2> HIDE DEF ImportInv, ImportTypes
  <2>8. UNCHANGED <<source, file, jobs, children, document, met>>
    BY <1>0, <1>5
  <2> QED BY <1>0, <2>2, <2>3, <2>4, <2>6, <2>7, <2>8, DriveGoesOn
<1>6. CASE install(i)
  <2>1. imports[i].pc = "installing" /\ UNCHANGED <<document, met>>
    BY <1>6 DEF install, ImportAt
  <2>2. CASE target' = imports[i].text /\ ImportGoes(i, "installed")
    BY <1>5, <2>1, <2>2
  <2>3. CASE /\ target' = IF imports[i].backup = NoText THEN target ELSE imports[i].backup
             /\ SetImport(i, NotImporting)
    <3>1. target' \in Texts0
      BY <1>0, <2>3 DEF ImportStates
    <3>2. met = {} => target' = document'.text
      BY <1>4, <2>1, <2>3
    <3> QED BY <1>0, <1>3, <2>1, <2>3, <3>1, <3>2 DEF SetImport
  <2> QED BY <1>6, <2>2, <2>3 DEF install
<1>7. CASE store_installed(i)
  <2>1. imports[i].pc = "installed" /\ UNCHANGED <<target, met>>
        /\ imports[i].text = imports[i].hash
    BY <1>7 DEF store_installed, ImportAt, ReadTogether
  <2>2. CASE Stored(i) /\ SetImport(i, NotImporting)
    <3>1. document' \in [hash : Texts0, text : Texts0] /\ document'.text = imports[i].text /\ document'.hash = imports[i].hash
      BY <1>0, <2>2 DEF Stored, ImportStates
    <3>2. met = {} => target' = document'.text
      BY <1>4, <2>1, <3>1
    <3> QED BY <1>0, <1>3, <2>1, <2>2, <3>1, <3>2 DEF SetImport
  <2>3. CASE UNCHANGED document /\ ImportGoes(i, "unsettled")
    BY <1>5, <2>1, <2>3
  <2> QED BY <1>7, <2>2, <2>3 DEF store_installed
<1>8. CASE rollback_managed_file(i)
  <2>1. /\ imports[i].pc = "unsettled" /\ UNCHANGED <<document, met>> /\ target' = imports[i].backup
        /\ SetImport(i, NotImporting)
    BY <1>8 DEF rollback_managed_file, ImportAt, Restored
  <2>2. target' \in Texts0 /\ (met = {} => target' = document'.text)
    BY <1>0, <1>4, <2>1 DEF ImportStates
  <2> QED BY <1>0, <1>3, <2>1, <2>2 DEF SetImport
<1> QED BY <1>1, <1>2, <1>6, <1>7, <1>8 DEF Drive

\* Every step keeps what imports know.
LEMMA ImportStep == ImportInv /\ [ImportNext]_importVars => ImportInv'
<1> SUFFICES ASSUME ImportInv, [ImportNext]_importVars PROVE ImportInv'
  OBVIOUS
<1>1. CASE UNCHANGED importVars
  <2>1. UNCHANGED <<source, file, jobs, imports, children, target, document, met>>
    BY <1>1 DEF importVars
  <2> QED BY <2>1, ImportStutters
<1>2. ASSUME NEW job \in JobIds, cancel(job), source' = source PROVE ImportInv'
  <2> USE DEF ImportInv, ImportTypes
  <2>1. /\ UNCHANGED <<source, file, imports, children, target, document, met>>
        /\ jobs' \in [JobIds -> {"free", "live", "cancelled"}]
        /\ \A other \in JobIds : jobs'[other] = "free" <=> jobs[other] = "free"
    BY <1>2 DEF cancel
  <2>2. JobsOwned'
    <3>1. \A k \in Imports : imports[k].job \in JobIds \cup {"none"}
      BY DEF ImportStates
    <3> QED BY <2>1, <3>1 DEF JobsOwned
  <2>3. ImportKindsApart' /\ ReadTogether' /\ NoParserLeft' /\ CopyInHand'
    BY <2>1 DEF ImportKindsApart, ReadTogether, NoParserLeft, ImportAt, CopyInHand, InTarget
  <2> QED BY <2>1, <2>2, <2>3
<1>3. ASSUME NEW content \in Contents, change_file(content), source' = source PROVE ImportInv'
  <2> USE DEF ImportInv, ImportTypes
  <2>1. UNCHANGED <<source, jobs, imports, children, target, document, met>> /\ file' \in Contents
    BY <1>3 DEF change_file
  <2>2. JobsOwned' /\ ImportKindsApart' /\ ReadTogether' /\ NoParserLeft' /\ CopyInHand'
    BY <2>1 DEF ImportKindsApart, ReadTogether, NoParserLeft, ImportAt, CopyInHand, InTarget, JobsOwned
  <2> QED BY <2>1, <2>2
<1>4. ASSUME source = "drive", restart, source' = source PROVE ImportInv'
  <2> USE DEF ImportInv, ImportTypes
  <2>1. NotImporting \in ImportStates /\ NotImporting.pc = "idle" /\ NotImporting.kind = "none" /\ NotImporting.job = "none"
    BY DEF NotImporting, ImportStates, ImportPC, ImportKinds, Texts0
  <2>2. /\ imports' = [k \in Imports |-> NotImporting] /\ UNCHANGED <<source, file, jobs, children, target, document>>
        /\ met' = IF InTarget # {} THEN met \cup {"crash"} ELSE met
    BY <1>4 DEF restart
  <2>3. \A k \in Imports : imports'[k] = NotImporting
    BY <2>2
  <2>4. ImportTypes'
    BY <2>1, <2>2
  <2>5. ImportKindsApart'
    BY <2>1, <2>3 DEF ImportKindsApart, ImportKinds
  <2>6. JobsOwned'
    <3>1. \A job \in JobIds : jobs'[job] = "free"
      BY <1>4, <2>2, ImportAssumption DEF JobsOwned, ImportKindsApart, ImportStates, ImportKinds
    <3> QED BY <2>1, <2>3, <3>1 DEF JobsOwned
  <2>7. ReadTogether'
    BY <2>1, <2>2, <2>3 DEF ReadTogether
  <2>8. NoParserLeft'
    BY <1>4, <2>2 DEF NoParserLeft, ImportAt, ImportKindsApart, ImportStates, ImportKinds
  <2>9. CopyInHand'
    BY <2>1, <2>2, <2>3 DEF CopyInHand, InTarget
  <2> QED BY <2>4, <2>5, <2>6, <2>7, <2>8, <2>9
<1>5. CASE ImportNext
  BY <1>2, <1>3, <1>4, <1>5, DiskStep, DriveStep DEF ImportNext, Shared
<1> QED BY <1>1, <1>5

\* What imports know makes them safe.
LEMMA ImportHolds == ImportInv => ImportSafe
<1> SUFFICES ASSUME ImportInv PROVE ImportSafe
  OBVIOUS
<1> USE DEF ImportInv, ImportTypes
<1>1. ImportTypeOK
  BY DEF ImportTypeOK, ImportStates, ImportPC
<1>2. JobsReachTheirImport
  <2> SUFFICES ASSUME NEW job \in JobIds
               PROVE  (jobs[job] # "free") <=> Cardinality({i \in Imports : imports[i].job = job}) = 1
    BY DEF JobsReachTheirImport
  <2>0. job # "none"
    BY ImportAssumption
  <2>1. CASE jobs[job] # "free"
    <3>1. PICK i \in Imports : imports[i].job = job
      BY <2>1 DEF JobsOwned
    <3>2. {k \in Imports : imports[k].job = job} = {i}
      BY <2>0, <3>1 DEF JobsOwned
    <3> QED BY <2>1, <3>2, FS_Singleton
  <2>2. CASE jobs[job] = "free"
    <3>1. {k \in Imports : imports[k].job = job} = {}
      BY <2>0, <2>2 DEF JobsOwned
    <3>2. Cardinality({k \in Imports : imports[k].job = job}) = 0
      BY <3>1, FS_EmptySet
    <3>3. Cardinality({k \in Imports : imports[k].job = job}) # 1
      BY <3>2
    <3> QED BY <2>2, <3>3
  <2> QED BY <2>1, <2>2
<1>3. TextMatchesHash /\ NoParserLeft
  BY DEF ReadTogether, TextMatchesHash
<1>4. CopyMatchesDocument
  BY DEF CopyInHand, CopyMatchesDocument
<1> QED BY <1>1, <1>2, <1>3, <1>4 DEF ImportSafe

(***************************************************************************)
(* The package of the parser: the inductive invariant.                     *)
(***************************************************************************)
\* What an installation knows: its archive is verified, and what is in place is
\* damaged, or nowhere, by a removal or a kill only.
InstallStates == [pc : {"idle", "staged", "moving"}, archive : Valid \cup {NoPackage},
                  backup : Valid \cup {NoPackage, Damaged}]
PackageTypes ==
    /\ destination \in Valid \cup {NoPackage, Damaged}
    /\ installers \in [Installers -> InstallStates]
    /\ spoiled \subseteq {"removed", "killed"} /\ once \in BOOLEAN
ArchivesVerified == \A i \in Installers : installers[i].pc # "idle" => installers[i].archive \in Valid
NothingDamaged ==
    spoiled = {} => destination # Damaged /\ \A i \in Installers : installers[i].backup # Damaged
PackageSomewhere ==
    once /\ spoiled = {} =>
        destination \in Valid \/ \E i \in Installers : installers[i].pc = "moving" /\ installers[i].backup \in Valid
PackageInv == PackageTypes /\ ArchivesVerified /\ NothingDamaged /\ PackageSomewhere

LEMMA NoInstallTyped == NoInstall \in InstallStates /\ NoInstall.pc = "idle" /\ NoInstall.backup # Damaged
BY DEF NoInstall, InstallStates, NoPackage, Damaged

\* No package and a damaged one are no archives.
LEMMA NotPackages == NoPackage \notin Valid /\ Damaged \notin Archives /\ NoPackage # Damaged /\ Valid \subseteq Archives
BY ImportAssumption DEF NoPackage, Damaged

LEMMA PackageStart == PackageInit => PackageInv
<1> SUFFICES ASSUME PackageInit PROVE PackageInv
  OBVIOUS
<1>1. PackageTypes
  BY NoInstallTyped DEF PackageInit, PackageTypes
<1>2. ArchivesVerified /\ NothingDamaged /\ PackageSomewhere
  BY NoInstallTyped, NotPackages DEF PackageInit, ArchivesVerified, NothingDamaged, PackageSomewhere
<1> QED BY <1>1, <1>2 DEF PackageInv

LEMMA ArchiveStaged ==
  ASSUME PackageInv, NEW i \in Installers, NEW archive \in Archives, install_archive(i, archive)
  PROVE  PackageInv'
<1> USE DEF PackageInv, PackageTypes
<1>1. UNCHANGED <<destination, spoiled, once>> /\ installers[i].pc = "idle"
  BY DEF install_archive
<1>2. CASE ~Verified(archive)
  BY <1>1, <1>2 DEF install_archive, ArchivesVerified, NothingDamaged, PackageSomewhere
<1>3. CASE Verified(archive)
  <2>1. PICK st : st = [NoInstall EXCEPT !.pc = "staged", !.archive = archive]
    OBVIOUS
  <2>2. st \in InstallStates /\ st.pc = "staged" /\ st.archive \in Valid /\ st.backup # Damaged
    BY <1>3, <2>1 DEF NoInstall, InstallStates, Verified, NoPackage, Damaged
  <2>3. installers' = [installers EXCEPT ![i] = st]
    BY <1>3, <2>1 DEF install_archive
  <2>4. /\ installers' \in [Installers -> InstallStates]
        /\ \A k \in Installers : installers'[k] = IF k = i THEN st ELSE installers[k]
    BY <2>2, <2>3
  <2>5. ArchivesVerified' /\ NothingDamaged'
    BY <1>1, <2>2, <2>4 DEF ArchivesVerified, NothingDamaged
  <2>6. PackageSomewhere'
    BY <1>1, <2>2, <2>4 DEF PackageSomewhere
  <2> QED BY <1>1, <2>4, <2>5, <2>6
<1> QED BY <1>2, <1>3

LEMMA PackageAside == ASSUME PackageInv, NEW i \in Installers, move_aside(i) PROVE PackageInv'
<1> USE DEF PackageInv, PackageTypes
<1>1. PICK st : st = [installers[i] EXCEPT !.pc = "moving", !.backup = destination]
  OBVIOUS
<1>2. installers[i] \in InstallStates /\ installers[i].pc = "staged" /\ installers[i].archive \in Valid
  BY DEF move_aside, ArchivesVerified
<1>3. st \in InstallStates /\ st.pc = "moving" /\ st.archive \in Valid /\ st.backup = destination
  BY <1>1, <1>2 DEF InstallStates
<1>4. installers' = [installers EXCEPT ![i] = st]
  <2>1. installers' = [installers EXCEPT ![i].pc = "moving", ![i].backup = destination]
    BY DEF move_aside
  <2> QED BY <1>1, <2>1
<1>5. /\ installers' \in [Installers -> InstallStates]
      /\ \A k \in Installers : installers'[k] = IF k = i THEN st ELSE installers[k]
  BY <1>3, <1>4
<1>6. destination' = NoPackage /\ UNCHANGED <<spoiled, once>>
  BY DEF move_aside
<1>7. ArchivesVerified' /\ NothingDamaged'
  BY <1>3, <1>5, <1>6, NotPackages DEF ArchivesVerified, NothingDamaged
<1>8. PackageSomewhere'
  <2> SUFFICES ASSUME once, spoiled = {}
               PROVE  \E k \in Installers : installers'[k].pc = "moving" /\ installers'[k].backup \in Valid
    BY <1>6 DEF PackageSomewhere
  <2>1. CASE destination \in Valid
    BY <1>3, <1>5, <2>1
  <2>2. CASE destination \notin Valid
    <3>1. PICK k \in Installers : installers[k].pc = "moving" /\ installers[k].backup \in Valid
      BY <2>2 DEF PackageSomewhere
    <3> QED BY <1>2, <1>5, <3>1
  <2> QED BY <2>1, <2>2
<1> QED BY <1>5, <1>6, <1>7, <1>8

LEMMA PackageIn == ASSUME PackageInv, NEW i \in Installers, move_in(i) PROVE PackageInv'
<1> USE DEF PackageInv, PackageTypes
<1>1. /\ installers[i] \in InstallStates /\ installers[i].pc = "moving" /\ installers[i].archive \in Valid
      /\ UNCHANGED spoiled
  BY DEF move_in, ArchivesVerified
<1>2. /\ installers' \in [Installers -> InstallStates]
      /\ \A k \in Installers : installers'[k] = IF k = i THEN NoInstall ELSE installers[k]
  BY NoInstallTyped DEF move_in
<1>3. ArchivesVerified'
  BY <1>2, NoInstallTyped DEF ArchivesVerified
<1>4. CASE destination' = installers[i].archive /\ once' = TRUE
  <2>1. NothingDamaged'
    BY <1>1, <1>2, <1>4, NoInstallTyped, NotPackages DEF NothingDamaged
  <2> QED BY <1>1, <1>2, <1>3, <1>4, <2>1 DEF PackageSomewhere
<1>5. CASE destination' = restored(i) /\ UNCHANGED once
  <2>1. destination' \in Valid \cup {NoPackage, Damaged}
    BY <1>1, <1>5 DEF restored, InstallStates
  <2>2. NothingDamaged'
    BY <1>1, <1>2, <1>5, NoInstallTyped DEF NothingDamaged, restored
  <2>3. PackageSomewhere'
    <3> SUFFICES ASSUME once, spoiled = {}, destination' \notin Valid
                 PROVE  \E k \in Installers : installers'[k].pc = "moving" /\ installers'[k].backup \in Valid
      BY <1>1, <1>5 DEF PackageSomewhere
    <3>1. destination = NoPackage /\ installers[i].backup \notin Valid
      BY <1>5 DEF restored, NothingDamaged
    <3>2. PICK k \in Installers : installers[k].pc = "moving" /\ installers[k].backup \in Valid
      BY <3>1, NotPackages DEF PackageSomewhere
    <3> QED BY <1>2, <3>1, <3>2
  <2> QED BY <1>1, <1>2, <1>3, <1>5, <2>1, <2>2, <2>3
<1> QED BY <1>4, <1>5 DEF move_in

LEMMA PackageStep == PackageInv /\ [PackageNext]_packageVars => PackageInv'
<1> SUFFICES ASSUME PackageInv, [PackageNext]_packageVars PROVE PackageInv'
  OBVIOUS
<1>1. ASSUME NEW i \in Installers, move_aside(i) \/ move_in(i) \/ \E archive \in Archives : install_archive(i, archive)
      PROVE  PackageInv'
  BY <1>1, PackageAside, PackageIn, ArchiveStaged
<1>2. CASE remove
  <2>1. /\ destination' \in {NoPackage, Damaged} /\ spoiled' = spoiled \cup {"removed"} /\ UNCHANGED <<installers, once>>
    BY <1>2 DEF remove
  <2> QED BY <2>1 DEF PackageInv, PackageTypes, ArchivesVerified, NothingDamaged, PackageSomewhere
<1>3. CASE killed_installing
  <2>1. /\ UNCHANGED <<destination, once>> /\ installers' = [k \in Installers |-> NoInstall]
        /\ spoiled' = IF \E i \in Installers : installers[i].pc = "moving" THEN spoiled \cup {"killed"} ELSE spoiled
    BY <1>3 DEF killed_installing
  <2>2. PackageTypes' /\ ArchivesVerified'
    BY <2>1, NoInstallTyped DEF PackageInv, PackageTypes, ArchivesVerified
  <2>3. NothingDamaged' /\ PackageSomewhere'
    BY <2>1, NoInstallTyped DEF PackageInv, NothingDamaged, PackageSomewhere
  <2> QED BY <2>2, <2>3 DEF PackageInv
<1>4. CASE UNCHANGED packageVars
  BY <1>4 DEF packageVars, PackageInv, PackageTypes, ArchivesVerified, NothingDamaged, PackageSomewhere
<1> QED BY <1>1, <1>2, <1>3, <1>4 DEF PackageNext

LEMMA PackageHolds == PackageInv => PackageSafe
<1> SUFFICES ASSUME PackageInv PROVE PackageSafe
  OBVIOUS
<1>1. PackageTypeOK
  BY NotPackages DEF PackageInv, PackageTypes, PackageTypeOK
<1>2. PackageKept
  <2>1. destination \notin Archives \ Valid
    BY ImportAssumption DEF PackageInv, PackageTypes, NoPackage, Damaged
  <2> QED BY <2>1 DEF PackageInv, PackageSomewhere, PackageKept
<1> QED BY <1>1, <1>2 DEF PackageSafe

\* Whatever is imported, vectorized, published and installed at the same time:
\* no text is lost between chunks, the newest version known is the current one
\* and what a search finds, a package is not a mixture, an import stores what it
\* has hashed with its file, and a parser's package is whole.
THEOREM KnowledgeCorrect == ChunkingSpec /\ IndexSpec /\ ImportSpec /\ PackageSpec => []KnowledgeSafe
<1>1. ChunkingInit => CuttingInv
  BY ChunkingStart
<1>2. CuttingInv /\ [ChunkingNext]_chunkingVars => CuttingInv'
  BY ChunkingStep
<1>3. IndexInit => IndexInv
  BY IndexStart
<1>4. IndexInv /\ [IF legacy' = legacy THEN IndexNext ELSE forget_chunk_vectors]_<<legacy, indexVars>> => IndexInv'
  BY IndexStep, VectorsForgotten DEF indexVars
<1>5. ImportInit => ImportInv
  BY ImportStart
<1>6. ImportInv /\ [ImportNext]_importVars => ImportInv'
  BY ImportStep
<1>7. PackageInit => PackageInv
  BY PackageStart
<1>8. PackageInv /\ [PackageNext]_packageVars => PackageInv'
  BY PackageStep
<1>9. CuttingInv /\ IndexInv /\ ImportInv /\ PackageInv => KnowledgeSafe
  BY ChunkingHolds, IndexHolds, ImportHolds, PackageHolds DEF KnowledgeSafe
<1> QED BY <1>1, <1>2, <1>3, <1>4, <1>5, <1>6, <1>7, <1>8, <1>9, PTL
        DEF ChunkingSpec, IndexSpec, ImportSpec, PackageSpec

(***************************************************************************)
(* Memories, their vectors and the documents: the inductive invariants.    *)
(***************************************************************************)
NoContent == "none"

\* Every variable has its type.
MemoryRows == [status : {"none", "active", "deleted"}, content : Contents \cup {NoContent},
               vector : VectorIds \cup {NoVectorId}]
VectorRows == [ref : Memories, model : Models, from : Contents, claims : Contents]
DataTypes ==
    /\ memories \in [Memories -> MemoryRows]
    /\ \A m \in Memories : Active(m) => memories[m].content \in Contents
    /\ vectors \in [VectorIds -> VectorRows \cup {NoVector}]
CommandTypes ==
    /\ asking.pc # "idle" => asking.model \in Models
    /\ asking \in [pc : {"idle", "listing", "asked", "storing", "done"}, model : Models \cup {NoContent}, batch : SUBSET [ref : Memories, content : Contents],
                   answered : BOOLEAN]
    /\ tool \in [pc : {"read", "written", "back"}, ref : Memories, content : Contents,
                 embedded : Contents \cup {NoContent}] \cup {NoTool}
    /\ overtaken \in BOOLEAN

\* A stored vector is that of an active memory, which points to it, and was asked
\* for what the memory says; it was computed from that unless a tool was overtaken.
VectorsOwned ==
    \A v \in StoredVectors :
        LET m == vectors[v].ref IN
        /\ Active(m) /\ memories[m].vector = v /\ vectors[v].claims = memories[m].content
        /\ ~overtaken => vectors[v].from = vectors[v].claims

\* What a tool's vector was computed from is what its memory says, unless the
\* memory was written meanwhile.
ToolAgrees ==
    /\ tool.pc = "read" => tool.embedded \in {tool.content, NoContent}
    /\ tool.pc = "written" /\ ~overtaken /\ tool.embedded # NoContent =>
          Active(tool.ref) /\ memories[tool.ref].content = tool.embedded
    /\ tool.pc = "back" /\ ~overtaken /\ tool.embedded # NoContent => tool.embedded = tool.content

RecallInv == DataTypes /\ CommandTypes /\ VectorsOwned /\ ToolAgrees

\* Documents are sets of lines; a process works on rows that exist.
Texts == [DocumentKinds -> SUBSET Lines]
DocumentRows == [DocumentKinds -> [state : {"none", "live", "deleted"}, text : SUBSET Lines]]
ExplicitStates == [pc : {"idle", "load", "load-save", "open", "reload", "reload-save", "save"},
                   text : Texts, seen : DocumentRows]
ExplicitTypes ==
    /\ documents \in DocumentRows
    /\ \A k \in DocumentKinds : documents[k].state = "deleted" => documents[k].text = {}
    /\ \A k \in DocumentKinds : views[k] \subseteq Lines \/ Template \in views[k]
    /\ places \in [Processes -> ExplicitStates]
    /\ stale \in BOOLEAN

\* Who has loaded has found or written a row of either kind.
RowsThere ==
    \A p \in Processes : places[p].pc \in {"open", "reload", "save"} => \A k \in DocumentKinds : documents[k].state # "none"
PromptSees ==
    places["prompt"].pc \in {"open", "save"} =>
        \A k \in DocumentKinds : places["prompt"].seen[k].state = "deleted" => places["prompt"].text[k] = {}
ExplicitSteps == ExplicitTypes /\ RowsThere /\ PromptSees

\* The vectors that are left are those of other memories, or the one that the
\* row keeps with its content.
Leaves(m, r) ==
    /\ vectors' \in [VectorIds -> VectorRows \cup {NoVector}]
    /\ \A v \in VectorIds : vectors'[v] # NoVector =>
          /\ vectors'[v] = vectors[v]
          /\ vectors[v].ref = m => r.status = "active" /\ r.vector = v /\ r.content = memories[m].content

\* The row of a memory is written.
LEMMA MemoryRowWritten ==
  ASSUME RecallInv, NEW m \in Memories, NEW r \in MemoryRows,
         r.status = "active" => r.content \in Contents,
         memories' = [memories EXCEPT ![m] = r],
         Leaves(m, r), overtaken => overtaken'
  PROVE  /\ DataTypes' /\ VectorsOwned'
         /\ \A x \in Memories : memories'[x] = IF x = m THEN r ELSE memories[x]
<1>1. \A x \in Memories : memories'[x] = IF x = m THEN r ELSE memories[x]
  BY DEF RecallInv, DataTypes
<1>2. DataTypes'
  BY <1>1 DEF RecallInv, DataTypes, Active, Leaves
<1>3. ASSUME NEW v \in VectorIds, vectors'[v] # NoVector
      PROVE  LET x == vectors'[v].ref IN
             /\ memories'[x].status = "active" /\ memories'[x].vector = v /\ vectors'[v].claims = memories'[x].content
             /\ ~overtaken' => vectors'[v].from = vectors'[v].claims
  <2>1. PICK x \in Memories : x = vectors[v].ref
    BY <1>3 DEF RecallInv, DataTypes, VectorRows, Leaves
  <2>2. /\ memories[x].status = "active" /\ memories[x].vector = v /\ vectors[v].claims = memories[x].content
        /\ ~overtaken => vectors[v].from = vectors[v].claims
        /\ vectors'[v] = vectors[v]
    BY <1>3, <2>1 DEF RecallInv, VectorsOwned, StoredVectors, Active, Leaves
  <2> QED BY <1>1, <1>3, <2>1, <2>2 DEF Leaves
<1>4. VectorsOwned'
  BY <1>3 DEF VectorsOwned, StoredVectors, Active
<1> QED BY <1>1, <1>2, <1>4

\* delete_embedding of a memory's vector leaves the memory no vector.
LEMMA VectorDeleted ==
  ASSUME RecallInv, NEW m \in Memories, NEW r \in MemoryRows, vectors' = delete_embedding(vectors, memories[m].vector)
  PROVE  Leaves(m, r)
BY DEF delete_embedding, RecallInv, DataTypes, VectorsOwned, StoredVectors, Leaves

\* insert, update: the memory says the content now.
LEMMA MemoryInserted ==
  ASSUME RecallInv, NEW m \in Memories, NEW c \in Contents, insert(m, c), overtaken => overtaken'
  PROVE  /\ DataTypes' /\ VectorsOwned' /\ Active(m)' /\ memories'[m].content = c
         /\ \A x \in Memories : x # m => memories'[x] = memories[x]
<1>1. PICK r : r = [status |-> "active", content |-> c, vector |-> NoVectorId]
  OBVIOUS
<1>2. r \in MemoryRows /\ r.status = "active" /\ r.content = c /\ memories' = [memories EXCEPT ![m] = r]
  BY <1>1 DEF insert, MemoryRows
<1>3. Leaves(m, r)
  BY DEF insert, RecallInv, DataTypes, VectorsOwned, StoredVectors, Active, NoMemory, Leaves
<1>4. /\ DataTypes' /\ VectorsOwned'
      /\ \A x \in Memories : memories'[x] = IF x = m THEN r ELSE memories[x]
  BY <1>2, <1>3, MemoryRowWritten
<1> QED BY <1>2, <1>4 DEF Active

LEMMA MemoryUpdated ==
  ASSUME RecallInv, NEW m \in Memories, NEW c \in Contents, update(m, c), overtaken => overtaken'
  PROVE  /\ DataTypes' /\ VectorsOwned' /\ Active(m)' /\ memories'[m].content = c
         /\ \A x \in Memories : x # m => memories'[x] = memories[x]
<1>1. CASE memories[m].content = c
  BY <1>1 DEF update, RecallInv, DataTypes, VectorsOwned, StoredVectors, Active
<1>2. CASE memories[m].content # c
  <2>1. PICK r : r = [memories[m] EXCEPT !.content = c, !.vector = NoVectorId]
    OBVIOUS
  <2>2. memories[m] \in MemoryRows /\ memories[m].status = "active"
    BY DEF update, Active, RecallInv, DataTypes
  <2>3. r \in MemoryRows /\ r.status = "active" /\ r.content = c
    BY <2>1, <2>2 DEF MemoryRows
  <2>4. memories' = [memories EXCEPT ![m] = r]
    BY <1>2, <2>1 DEF update
  <2>5. vectors' = delete_embedding(vectors, memories[m].vector)
    BY <1>2 DEF update
  <2>6. /\ DataTypes' /\ VectorsOwned'
        /\ \A x \in Memories : memories'[x] = IF x = m THEN r ELSE memories[x]
    BY <2>3, <2>4, <2>5, VectorDeleted, MemoryRowWritten
  <2> QED BY <2>3, <2>6 DEF Active
<1> QED BY <1>1, <1>2

\* A memory is written while a tool may have one in hand.
LEMMA OvertakenKept ==
  ASSUME RecallInv, NEW m \in Memories, DataTypes', VectorsOwned', Overtake(m),
         \A x \in Memories : x # m => memories'[x] = memories[x], UNCHANGED <<asking, tool>>
  PROVE  RecallInv'
<1>1. CommandTypes'
  BY DEF RecallInv, CommandTypes, Overtake
<1>2. ToolAgrees'
  <2>1. tool.pc = "written" => tool.ref \in Memories
    BY DEF RecallInv, CommandTypes, NoTool
  <2> QED BY <2>1 DEF RecallInv, ToolAgrees, Overtake, Active
<1> QED BY <1>1, <1>2 DEF RecallInv

LEMMA OvertakeGrows == ASSUME NEW m, Overtake(m) PROVE overtaken => overtaken'
BY DEF Overtake

LEMMA UserWrites ==
  ASSUME RecallInv, NEW m \in Memories, NEW c \in Contents, create_memory(m, c) \/ update_memory(m, c)
  PROVE  RecallInv'
<1>1. Overtake(m) /\ UNCHANGED <<asking, tool>> /\ (insert(m, c) \/ update(m, c))
  BY DEF create_memory, update_memory
<1>2. /\ DataTypes' /\ VectorsOwned'
      /\ \A x \in Memories : x # m => memories'[x] = memories[x]
  BY <1>1, OvertakeGrows, MemoryInserted, MemoryUpdated
<1> QED BY <1>1, <1>2, OvertakenKept

LEMMA apply_remote_memoryRecall ==
  ASSUME RecallInv, NEW m \in Memories, NEW c \in Contents, apply_remote_memory(m, c) PROVE RecallInv'
<1>1. Overtake(m) /\ UNCHANGED <<asking, tool>> /\ (overtaken => overtaken')
  BY OvertakeGrows DEF apply_remote_memory
<1>2. PICK r : r = [status |-> "active", content |-> c,
                    vector |-> IF memories[m].content = c THEN memories[m].vector ELSE NoVectorId]
  OBVIOUS
<1>3. memories[m] \in MemoryRows /\ memories \in [Memories -> MemoryRows]
  BY DEF RecallInv, DataTypes
<1>4. r \in MemoryRows /\ r.status = "active" /\ r.content = c
  BY <1>2, <1>3 DEF MemoryRows
<1>5. memories' = [memories EXCEPT ![m] = r]
  BY <1>2, <1>3 DEF apply_remote_memory
<1>6. CASE memories[m].content = c
  <2>1. r.vector = memories[m].vector /\ vectors' = vectors
    BY <1>2, <1>6 DEF apply_remote_memory
  <2>2. Leaves(m, r)
    BY <1>4, <1>6, <2>1 DEF RecallInv, DataTypes, VectorsOwned, StoredVectors, Leaves
  <2>3. /\ DataTypes' /\ VectorsOwned'
        /\ \A x \in Memories : memories'[x] = IF x = m THEN r ELSE memories[x]
    BY <1>1, <1>4, <1>5, <2>2, MemoryRowWritten
  <2> QED BY <1>1, <2>3, OvertakenKept
<1>7. CASE memories[m].content # c
  <2>1. vectors' = delete_embedding(vectors, memories[m].vector)
    BY <1>7 DEF apply_remote_memory
  <2>2. /\ DataTypes' /\ VectorsOwned'
        /\ \A x \in Memories : memories'[x] = IF x = m THEN r ELSE memories[x]
    BY <1>1, <1>4, <1>5, <2>1, VectorDeleted, MemoryRowWritten
  <2> QED BY <1>1, <2>2, OvertakenKept
<1> QED BY <1>6, <1>7

LEMMA Deleted ==
  ASSUME RecallInv, NEW m \in Memories, delete_memory(m) \/ apply_remote_delete(m) PROVE RecallInv'
<1>1. Overtake(m) /\ UNCHANGED <<asking, tool>> /\ (overtaken => overtaken')
  BY OvertakeGrows DEF delete_memory, apply_remote_delete
<1>2. PICK r : r = IF delete_memory(m) THEN [memories[m] EXCEPT !.status = "deleted"]
                   ELSE [memories[m] EXCEPT !.status = "deleted", !.vector = NoVectorId]
  OBVIOUS
<1>3. memories[m] \in MemoryRows
  BY DEF RecallInv, DataTypes
<1>4. r \in MemoryRows /\ r.status # "active"
  BY <1>2, <1>3 DEF MemoryRows
<1>5. /\ memories' = [memories EXCEPT ![m] = r]
      /\ vectors' = delete_embedding(vectors, memories[m].vector)
  BY <1>2 DEF delete_memory, apply_remote_delete
<1>6. /\ DataTypes' /\ VectorsOwned'
      /\ \A x \in Memories : memories'[x] = IF x = m THEN r ELSE memories[x]
  BY <1>1, <1>4, <1>5, VectorDeleted, MemoryRowWritten
<1> QED BY <1>1, <1>6, OvertakenKept

\* upsert_memory_embedding: what the memories say stays.
LEMMA VectorUpserted ==
  ASSUME RecallInv, NEW m \in Memories, NEW model \in Models, NEW content \in Contents, NEW from \in Contents,
         ~overtaken => from = content, upsert_memory_embedding(m, model, content, from), overtaken' = overtaken
  PROVE  /\ DataTypes' /\ VectorsOwned'
         /\ \A x \in Memories : memories'[x].status = memories[x].status /\ memories'[x].content = memories[x].content
<1>1. CASE ~Current(m, content)
  BY <1>1 DEF upsert_memory_embedding, RecallInv, DataTypes, VectorsOwned, StoredVectors, Active
<1>2. CASE Current(m, content)
  <2>1. PICK new \in Fresh :
          /\ vectors' = [VectorsKept(delete_embedding(vectors, memories[m].vector)) EXCEPT
                            ![new] = [ref |-> m, model |-> model, from |-> from, claims |-> content]]
          /\ memories' = [TableKept(memories) EXCEPT ![m].vector = new]
    BY <1>2 DEF upsert_memory_embedding
  <2>2. PICK kept : kept = TableKept(memories)
    OBVIOUS
  <2>3. /\ kept \in [Memories -> MemoryRows]
        /\ \A x \in Memories : /\ kept[x].status = memories[x].status /\ kept[x].content = memories[x].content
                               /\ kept[x].vector = IF legacy THEN NoVectorId ELSE memories[x].vector
    BY <2>2 DEF TableKept, RecallInv, DataTypes, MemoryRows
  <2>4. PICK left : left = VectorsKept(delete_embedding(vectors, memories[m].vector))
    OBVIOUS
  <2>5. /\ left \in [VectorIds -> VectorRows \cup {NoVector}]
        /\ \A v \in VectorIds : left[v] # NoVector => ~legacy /\ left[v] = vectors[v] /\ vectors[v].ref # m
    BY <2>4 DEF VectorsKept, delete_embedding, RecallInv, DataTypes, VectorsOwned, StoredVectors
  <2>6. new \in VectorIds /\ \A x \in Memories : memories[x].vector # new
    BY DEF Fresh
  <2>7. /\ memories' \in [Memories -> MemoryRows]
        /\ \A x \in Memories : /\ memories'[x].status = memories[x].status /\ memories'[x].content = memories[x].content
                               /\ memories'[x].vector = IF x = m THEN new ELSE kept[x].vector
    BY <2>1, <2>2, <2>3, <2>6 DEF MemoryRows
  <2>8. PICK made \in VectorRows : made = [ref |-> m, model |-> model, from |-> from, claims |-> content]
    BY DEF VectorRows
  <2>9. /\ vectors' \in [VectorIds -> VectorRows \cup {NoVector}]
        /\ \A v \in VectorIds : vectors'[v] = IF v = new THEN made ELSE left[v]
    BY <2>1, <2>4, <2>5, <2>6, <2>8
  <2>10. DataTypes'
    BY <2>7, <2>9 DEF RecallInv, DataTypes, Active
  <2>11. ASSUME NEW v \in VectorIds, vectors'[v] # NoVector
         PROVE  LET x == vectors'[v].ref IN
                /\ memories'[x].status = "active" /\ memories'[x].vector = v
                /\ vectors'[v].claims = memories'[x].content
                /\ ~overtaken' => vectors'[v].from = vectors'[v].claims
    <3>1. CASE v = new
      BY <1>2, <2>7, <2>8, <2>9, <3>1 DEF Current, Active
    <3>2. CASE v # new
      <4>1. vectors'[v] = vectors[v] /\ vectors[v].ref # m /\ ~legacy
        BY <2>5, <2>9, <2>11, <3>2
      <4>2. PICK x \in Memories : x = vectors[v].ref
        BY <2>11, <4>1 DEF RecallInv, DataTypes, VectorRows
      <4>3. /\ memories[x].status = "active" /\ memories[x].vector = v /\ vectors[v].claims = memories[x].content
            /\ ~overtaken => vectors[v].from = vectors[v].claims
        BY <2>11, <4>1, <4>2 DEF RecallInv, VectorsOwned, StoredVectors, Active
      <4> QED BY <2>3, <2>7, <4>1, <4>2, <4>3
    <3> QED BY <3>1, <3>2
  <2>12. VectorsOwned'
    BY <2>11 DEF VectorsOwned, StoredVectors, Active
  <2> QED BY <2>7, <2>10, <2>12
<1> QED BY <1>1, <1>2

\* The tool is where it was, and the memory it has written says what it said.
LEMMA ToolWaits ==
  ASSUME RecallInv, UNCHANGED <<tool, overtaken>>,
         \A x \in Memories : memories'[x].status = memories[x].status /\ memories'[x].content = memories[x].content
  PROVE  ToolAgrees'
<1>1. tool.pc = "written" => tool.ref \in Memories
  BY DEF RecallInv, CommandTypes, NoTool
<1> QED BY <1>1 DEF RecallInv, ToolAgrees, Active

\* vectorize_memories.
LEMMA AskingStep ==
  ASSUME RecallInv,
         (\E model \in Models : begin_vectorize(model)) \/ list_stale \/ request_embeddings \/ next_round \/ vectorize_ends
  PROVE  RecallInv'
<1>1. UNCHANGED <<memories, vectors, legacy, tool, overtaken>>
  BY DEF begin_vectorize, list_stale, request_embeddings, next_round, vectorize_ends
<1>2. DataTypes' /\ VectorsOwned' /\ ToolAgrees'
  BY <1>1 DEF RecallInv, DataTypes, VectorsOwned, StoredVectors, Active, ToolAgrees
<1>3. {[ref |-> m, content |-> memories[m].content] : m \in Stale(asking.model)} \in SUBSET [ref : Memories, content : Contents]
  BY DEF Stale, RecallInv, DataTypes
<1>4. CommandTypes'
  <2>1. CASE \E model \in Models : begin_vectorize(model)
    BY <1>1, <2>1 DEF begin_vectorize, NotAsking, RecallInv, CommandTypes
  <2>2. CASE list_stale
    BY <1>1, <1>3, <2>2 DEF list_stale, RecallInv, CommandTypes
  <2>3. CASE asking' = [asking EXCEPT !.pc = "storing"] \/ asking' = [asking EXCEPT !.pc = "listing"]
    <3>1. asking.pc # "idle" \/ list_stale \/ \E model \in Models : begin_vectorize(model)
      BY DEF request_embeddings, next_round, vectorize_ends
    <3> QED BY <1>1, <2>1, <2>2, <2>3, <3>1 DEF RecallInv, CommandTypes
  <2>4. CASE asking' = NotAsking
    BY <1>1, <2>4 DEF NotAsking, NoContent, RecallInv, CommandTypes
  <2> QED BY <2>1, <2>2, <2>3, <2>4 DEF request_embeddings, next_round, vectorize_ends
<1> QED BY <1>2, <1>4 DEF RecallInv

LEMMA store_vectorRecall == RecallInv /\ store_vector => RecallInv'
<1> SUFFICES ASSUME RecallInv, store_vector PROVE RecallInv'
  OBVIOUS
<1>1. PICK item \in asking.batch :
        /\ upsert_memory_embedding(item.ref, asking.model, item.content, item.content)
        /\ asking' = [asking EXCEPT !.batch = @ \ {item}]
  BY DEF store_vector
<1>2. /\ item.ref \in Memories /\ item.content \in Contents /\ asking.model \in Models
      /\ UNCHANGED <<tool, overtaken>>
  BY DEF store_vector, RecallInv, CommandTypes
<1>3. PICK m \in Memories, model \in Models, content \in Contents :
        m = item.ref /\ model = asking.model /\ content = item.content
  BY <1>2
<1>4. /\ DataTypes' /\ VectorsOwned'
      /\ \A x \in Memories : memories'[x].status = memories[x].status /\ memories'[x].content = memories[x].content
  BY <1>1, <1>2, <1>3, VectorUpserted
<1>5. CommandTypes'
  BY <1>1, <1>2 DEF RecallInv, CommandTypes
<1> QED BY <1>2, <1>4, <1>5, ToolWaits DEF RecallInv

LEMMA ToolBegins ==
  ASSUME RecallInv, NEW m \in Memories,
         \/ \E c \in Contents : memory_create(m, c) \/ memory_update(m, c)
         \/ memory_update_name(m)
  PROVE  RecallInv'
<1>1. CASE \E c \in Contents : memory_create(m, c)
  <2>1. PICK c \in Contents : memory_create(m, c)
    BY <1>1
  <2>2. DataTypes' /\ VectorsOwned' /\ Active(m)' /\ memories'[m].content = c
    BY <2>1, MemoryInserted DEF memory_create
  <2>3. CommandTypes'
    BY <2>1 DEF memory_create, RecallInv, CommandTypes
  <2>4. ToolAgrees'
    BY <2>1, <2>2 DEF memory_create, ToolAgrees
  <2> QED BY <2>2, <2>3, <2>4 DEF RecallInv
<1>2. CASE memory_update_name(m) \/ \E c \in Contents : memory_update(m, c)
  <2>1. UNCHANGED <<memories, vectors, overtaken, asking>>
    BY <1>2 DEF memory_update_name, memory_update
  <2>2. DataTypes' /\ VectorsOwned'
    BY <2>1 DEF RecallInv, DataTypes, VectorsOwned, StoredVectors, Active
  <2>3. CommandTypes'
    BY <1>2, <2>1 DEF memory_update_name, memory_update, RecallInv, CommandTypes, DataTypes, NoContent
  <2>4. ToolAgrees'
    BY <1>2 DEF memory_update_name, memory_update, ToolAgrees, NoContent
  <2> QED BY <2>2, <2>3, <2>4 DEF RecallInv
<1> QED BY <1>1, <1>2

LEMMA memory_update_writeRecall == RecallInv /\ memory_update_write => RecallInv'
<1> SUFFICES ASSUME RecallInv, memory_update_write PROVE RecallInv'
  OBVIOUS
<1>1. /\ tool.pc = "read" /\ tool.ref \in Memories /\ tool.content \in Contents
      /\ tool.embedded \in {tool.content, NoContent} /\ UNCHANGED <<asking, overtaken>>
  BY DEF memory_update_write, RecallInv, CommandTypes, ToolAgrees, NoTool
<1>2. CASE Active(tool.ref)
  <2>1. PICK m \in Memories, c \in Contents : m = tool.ref /\ c = tool.content
    BY <1>1
  <2>2. update(m, c) /\ tool' = [tool EXCEPT !.pc = "written"]
    BY <1>2, <2>1 DEF memory_update_write
  <2>3. DataTypes' /\ VectorsOwned' /\ Active(m)' /\ memories'[m].content = c
    BY <1>1, <2>2, MemoryUpdated
  <2>4. CommandTypes' /\ tool'.pc = "written" /\ tool'.ref = m /\ tool'.embedded = tool.embedded
    BY <1>1, <2>1, <2>2 DEF RecallInv, CommandTypes, NoTool
  <2>5. ToolAgrees'
    BY <1>1, <2>1, <2>3, <2>4 DEF ToolAgrees
  <2> QED BY <2>3, <2>4, <2>5 DEF RecallInv
<1>3. CASE ~Active(tool.ref)
  <2>1. UNCHANGED <<memories, vectors>> /\ tool' = NoTool
    BY <1>3 DEF memory_update_write
  <2>2. DataTypes' /\ VectorsOwned'
    BY <1>1, <2>1 DEF RecallInv, DataTypes, VectorsOwned, StoredVectors, Active
  <2>3. CommandTypes' /\ ToolAgrees'
    BY <1>1, <2>1 DEF RecallInv, CommandTypes, ToolAgrees, NoTool
  <2> QED BY <2>2, <2>3 DEF RecallInv
<1> QED BY <1>2, <1>3

LEMMA read_backRecall == RecallInv /\ read_back => RecallInv'
<1> SUFFICES ASSUME RecallInv, read_back PROVE RecallInv'
  OBVIOUS
<1>1. /\ tool.pc = "written" /\ tool.ref \in Memories /\ UNCHANGED <<memories, vectors, asking, overtaken>>
      /\ ~overtaken /\ tool.embedded # NoContent => memories[tool.ref].content = tool.embedded
  BY DEF read_back, RecallInv, CommandTypes, ToolAgrees, NoTool
<1>2. DataTypes' /\ VectorsOwned'
  BY <1>1 DEF RecallInv, DataTypes, VectorsOwned, StoredVectors, Active
<1>3. CASE Active(tool.ref)
  <2>1. tool' = [tool EXCEPT !.pc = "back", !.content = memories[tool.ref].content]
    BY <1>3 DEF read_back
  <2>2. memories[tool.ref].content \in Contents
    BY <1>1, <1>3 DEF RecallInv, DataTypes
  <2>3. tool \in [pc : {"read", "written", "back"}, ref : Memories, content : Contents,
                  embedded : Contents \cup {NoContent}]
    BY <1>1 DEF RecallInv, CommandTypes, NoTool
  <2>4. PICK c \in Contents : c = memories[tool.ref].content
    BY <2>2
  <2>5. /\ tool' \in [pc : {"read", "written", "back"}, ref : Memories, content : Contents,
                      embedded : Contents \cup {NoContent}]
        /\ tool'.pc = "back" /\ tool'.content = c /\ tool'.embedded = tool.embedded
    BY <2>1, <2>3, <2>4
  <2>6. CommandTypes' /\ ToolAgrees'
    BY <1>1, <2>4, <2>5 DEF RecallInv, CommandTypes, ToolAgrees
  <2> QED BY <1>2, <2>6 DEF RecallInv
<1>4. CASE ~Active(tool.ref)
  <2>1. tool' = NoTool
    BY <1>4 DEF read_back
  <2> QED BY <1>1, <1>2, <2>1 DEF RecallInv, CommandTypes, ToolAgrees, NoTool
<1> QED BY <1>3, <1>4

LEMMA persist_trusted_embeddingRecall == RecallInv /\ persist_trusted_embedding => RecallInv'
<1> SUFFICES ASSUME RecallInv, persist_trusted_embedding PROVE RecallInv'
  OBVIOUS
<1>1. /\ tool.pc = "back" /\ tool' = NoTool /\ UNCHANGED <<asking, overtaken>>
      /\ tool.ref \in Memories /\ tool.content \in Contents /\ tool.embedded \in Contents \cup {NoContent}
      /\ ~overtaken /\ tool.embedded # NoContent => tool.embedded = tool.content
  BY DEF persist_trusted_embedding, RecallInv, CommandTypes, ToolAgrees, NoTool
<1>2. CommandTypes' /\ ToolAgrees'
  BY <1>1 DEF RecallInv, CommandTypes, ToolAgrees, NoTool
<1>3. CASE UNCHANGED <<memories, vectors, legacy>>
  BY <1>1, <1>2, <1>3 DEF RecallInv, DataTypes, VectorsOwned, StoredVectors, Active
<1>4. CASE ~UNCHANGED <<memories, vectors, legacy>>
  <2>1. tool.embedded # NoContent /\ \E model \in Models : upsert_memory_embedding(tool.ref, model, tool.content, tool.embedded)
    BY <1>4 DEF persist_trusted_embedding, NoContent
  <2>2. PICK m \in Memories, model \in Models, content \in Contents, from \in Contents :
          /\ upsert_memory_embedding(m, model, content, from)
          /\ ~overtaken => from = content
    BY <1>1, <2>1
  <2>3. DataTypes' /\ VectorsOwned'
    BY <1>1, <2>2, VectorUpserted
  <2> QED BY <1>2, <2>3 DEF RecallInv
<1> QED BY <1>3, <1>4

LEMMA RecallStart == RecallInit => RecallInv
<1> SUFFICES ASSUME RecallInit PROVE RecallInv
  OBVIOUS
<1>1. CommandTypes /\ ToolAgrees
  BY DEF RecallInit, CommandTypes, ToolAgrees, NotAsking, NoTool, NoContent
<1>2. CASE memories = [m \in Memories |-> NoMemory] /\ vectors = [v \in VectorIds |-> NoVector]
  BY <1>1, <1>2 DEF RecallInv, DataTypes, MemoryRows, VectorsOwned, StoredVectors, Active, NoMemory, NoContent
<1>3. ASSUME NEW m \in Memories, NEW v \in VectorIds, NEW model \in Models, NEW c \in Contents,
             memories = [k \in Memories |-> IF k = m THEN [status |-> "active", content |-> c, vector |-> v] ELSE NoMemory],
             vectors = [u \in VectorIds |-> IF u = v THEN [ref |-> m, model |-> model, from |-> c, claims |-> c] ELSE NoVector]
      PROVE  RecallInv
  <2>1. [ref |-> m, model |-> model, from |-> c, claims |-> c] \in VectorRows
    BY DEF VectorRows
  <2>2. /\ [status |-> "active", content |-> c, vector |-> v] \in MemoryRows
        /\ NoMemory \in MemoryRows /\ NoMemory.status # "active"
    BY DEF MemoryRows, NoMemory, NoContent
  <2>3. DataTypes
    BY <1>3, <2>1, <2>2 DEF DataTypes, Active
  <2>4. VectorsOwned
    BY <1>3 DEF VectorsOwned, StoredVectors, Active
  <2> QED BY <1>1, <2>3, <2>4 DEF RecallInv
<1> QED BY <1>2, <1>3 DEF RecallInit

LEMMA RecallStep == RecallInv /\ [RecallNext]_recallVars => RecallInv'
<1> SUFFICES ASSUME RecallInv, [RecallNext]_recallVars PROVE RecallInv'
  OBVIOUS
<1>1. ASSUME NEW m \in Memories, NEW c \in Contents,
             \/ create_memory(m, c) \/ update_memory(m, c) \/ apply_remote_memory(m, c)
             \/ memory_create(m, c) \/ memory_update(m, c)
      PROVE  RecallInv'
  BY <1>1, UserWrites, apply_remote_memoryRecall, ToolBegins
<1>2. ASSUME NEW m \in Memories, delete_memory(m) \/ apply_remote_delete(m) \/ memory_update_name(m)
      PROVE  RecallInv'
  BY <1>2, Deleted, ToolBegins
<1>3. CASE (\E model \in Models : begin_vectorize(model)) \/ list_stale \/ request_embeddings \/ next_round \/ vectorize_ends
  BY <1>3, AskingStep
<1>4. CASE store_vector \/ memory_update_write \/ read_back \/ persist_trusted_embedding
  BY <1>4, store_vectorRecall, memory_update_writeRecall, read_backRecall, persist_trusted_embeddingRecall
<1>5. CASE UNCHANGED recallVars
  BY <1>5 DEF recallVars, RecallInv, DataTypes, CommandTypes, VectorsOwned, StoredVectors, Active, ToolAgrees
<1> QED BY <1>1, <1>2, <1>3, <1>4, <1>5 DEF RecallNext

\* What the invariant says of searches and of vectors.
LEMMA RecallSafe == RecallInv => RecallTypeOK /\ SearchIsTrue /\ NoOrphanVectors
<1> SUFFICES ASSUME RecallInv PROVE RecallTypeOK /\ SearchIsTrue /\ NoOrphanVectors
  OBVIOUS
<1>1. RecallTypeOK
  BY DEF RecallInv, DataTypes, MemoryRows, CommandTypes, NoTool, RecallTypeOK
<1>2. NoOrphanVectors
  BY DEF RecallInv, VectorsOwned, NoOrphanVectors
<1>3. \A u, v \in StoredVectors : vectors[u].ref = vectors[v].ref => u = v
  BY DEF RecallInv, VectorsOwned
<1>4. ASSUME ~overtaken, NEW model \in Models, NEW hit \in search_vector(model)
      PROVE  hit.from = memories[hit.ref].content /\ Active(hit.ref) /\ hit.model = model
  <2>1. PICK v \in StoredVectors : hit = vectors[v] /\ vectors[v].model = model
    BY DEF search_vector
  <2> QED BY <1>4, <2>1 DEF RecallInv, VectorsOwned
<1> QED BY <1>1, <1>2, <1>3, <1>4 DEF SearchIsTrue

\* What a load finds: texts, empty for a document that is deleted.
LEMMA LoadedTexts ==
  ASSUME ExplicitSteps
  PROVE  /\ Loaded.text \in Texts /\ Loaded.seen = documents
         /\ \A k \in DocumentKinds : documents[k].state = "deleted" => Loaded.text[k] = {}
<1>1. \A k \in DocumentKinds : TextOf(k) \subseteq Lines
  BY DEF TextOf, normalize_memory_text, ExplicitSteps, ExplicitTypes, DocumentRows
<1>2. \A k \in DocumentKinds : documents[k].state = "deleted" => TextOf(k) = {}
  BY DEF TextOf, normalize_memory_text, ExplicitSteps, ExplicitTypes
<1> QED BY <1>1, <1>2 DEF Loaded, Texts

\* A process moves and the rows stay.
LEMMA PlaceMoves ==
  ASSUME ExplicitSteps, NEW p \in Processes, NEW st \in ExplicitStates,
         places' = [places EXCEPT ![p] = st], UNCHANGED <<documents, stale>>,
         \A k \in DocumentKinds : views'[k] \subseteq Lines \/ Template \in views'[k],
         st.pc \in {"open", "reload", "save"} => \A k \in DocumentKinds : documents[k].state # "none",
         p = "prompt" /\ st.pc \in {"open", "save"} =>
           \A k \in DocumentKinds : st.seen[k].state = "deleted" => st.text[k] = {}
  PROVE  ExplicitSteps'
<1>1. \A q \in Processes : places'[q] = IF q = p THEN st ELSE places[q]
  BY DEF ExplicitSteps, ExplicitTypes
<1>2. ExplicitTypes'
  BY <1>1 DEF ExplicitSteps, ExplicitTypes
<1>3. RowsThere'
  BY <1>1 DEF ExplicitSteps, RowsThere
<1>4. PromptSees'
  BY <1>1 DEF ExplicitSteps, PromptSees, Processes
<1> QED BY <1>2, <1>3, <1>4 DEF ExplicitSteps

\* A process that has loaded saves both rows.
LEMMA PlaceSaves ==
  ASSUME ExplicitSteps, NEW p \in Processes, NEW text \in Texts, text = places[p].text, NEW st \in ExplicitStates,
         places' = [places EXCEPT ![p] = st], save_pair(text), views' = text, stale' \in BOOLEAN,
         p = "prompt" /\ st.pc \in {"open", "save"} => st.seen = documents'
  PROVE  ExplicitSteps'
<1>1. \A q \in Processes : places'[q] = IF q = p THEN st ELSE places[q]
  BY DEF ExplicitSteps, ExplicitTypes
<1>2. \A k \in DocumentKinds : documents'[k] = Document(text[k])
  BY DEF save_pair, upsert
<1>3. documents' = [k \in DocumentKinds |-> Document(text[k])]
  BY <1>2 DEF save_pair
<1>4. documents' \in DocumentRows /\ \A k \in DocumentKinds : documents'[k].state = "live"
  BY <1>2, <1>3 DEF Document, DocumentRows, Texts
<1>5. ExplicitTypes'
  BY <1>1, <1>4 DEF ExplicitSteps, ExplicitTypes, Texts
<1>6. RowsThere'
  BY <1>4 DEF RowsThere
<1>7. PromptSees'
  BY <1>1, <1>4 DEF ExplicitSteps, PromptSees, Processes
<1> QED BY <1>5, <1>6, <1>7 DEF ExplicitSteps

LEMMA PlaceTyped ==
  ASSUME ExplicitSteps, NEW p \in Processes
  PROVE  places[p] \in ExplicitStates /\ places[p].text \in Texts /\ places[p].seen \in DocumentRows
BY DEF ExplicitSteps, ExplicitTypes, ExplicitStates

LEMMA NoPlaceTyped == NoPlace \in ExplicitStates /\ NoPlace.pc = "idle"
BY DEF NoPlace, NoDocument, ExplicitStates, Texts, DocumentRows

LEMMA BeginExplicit == ASSUME ExplicitSteps, NEW p \in Processes, Begin(p) PROVE ExplicitSteps'
<1>1. PICK st : st = [places[p] EXCEPT !.pc = "load"]
  OBVIOUS
<1>2. st \in ExplicitStates /\ st.pc = "load"
  BY <1>1, PlaceTyped DEF ExplicitStates
<1>3. \A k \in DocumentKinds : views'[k] \subseteq Lines \/ Template \in views'[k]
  BY DEF Begin, ExplicitSteps, ExplicitTypes
<1> QED BY <1>1, <1>2, <1>3, PlaceMoves DEF Begin

LEMMA loadExplicit == ASSUME ExplicitSteps, NEW p \in Processes, load(p) PROVE ExplicitSteps'
<1>1. PICK st : st = [pc |-> IF AnyMissing THEN "load-save" ELSE "open", text |-> Loaded.text, seen |-> Loaded.seen]
  OBVIOUS
<1>2. st \in ExplicitStates
  BY <1>1, LoadedTexts DEF ExplicitStates, ExplicitSteps, ExplicitTypes
<1>3. places' = [places EXCEPT ![p] = st] /\ UNCHANGED <<documents, stale>>
  BY <1>1 DEF load
<1>4. \A k \in DocumentKinds : views'[k] \subseteq Lines \/ Template \in views'[k]
  BY LoadedTexts DEF load, Texts, ExplicitSteps, ExplicitTypes
<1>5. st.pc \in {"open", "reload", "save"} => \A k \in DocumentKinds : documents[k].state # "none"
  BY <1>1 DEF AnyMissing
<1>6. \A k \in DocumentKinds : st.seen[k].state = "deleted" => st.text[k] = {}
  BY <1>1, LoadedTexts
<1> QED BY <1>2, <1>3, <1>4, <1>5, <1>6, PlaceMoves

LEMMA load_savesExplicit ==
  ASSUME ExplicitSteps, NEW p \in Processes, NEW from, NEW next \in {"open", "save"}, load_saves(p, from, next)
  PROVE  ExplicitSteps'
<1>1. PICK text \in Texts : text = places[p].text
  BY PlaceTyped
<1>2. save_pair(text) /\ views' = text /\ stale' \in BOOLEAN
  BY <1>1 DEF load_saves, Saves, ExplicitSteps, ExplicitTypes
<1>3. PICK found : found = [k \in DocumentKinds |-> Document(text[k])]
  OBVIOUS
<1>4. documents' = found
  BY <1>2, <1>3 DEF save_pair, upsert
<1>5. found \in DocumentRows
  BY <1>3 DEF Document, DocumentRows, Texts
<1>6. PICK st : st = [places[p] EXCEPT !.pc = next, !.seen = found]
  OBVIOUS
<1>7. st \in ExplicitStates /\ st.seen = found
  BY <1>5, <1>6, PlaceTyped DEF ExplicitStates
<1>8. places' = [places EXCEPT ![p] = st]
  <2>1. places' = [places EXCEPT ![p].pc = next, ![p].seen = documents']
    BY DEF load_saves
  <2> QED BY <1>4, <1>6, <2>1 DEF ExplicitSteps, ExplicitTypes
<1> QED BY <1>1, <1>2, <1>4, <1>7, <1>8, PlaceSaves

LEMMA save_explicit_memoriesExplicit ==
  ASSUME ExplicitSteps, NEW p \in Processes, save_explicit_memories(p) PROVE ExplicitSteps'
<1>1. PICK text \in Texts : text = places[p].text
  BY PlaceTyped
<1>2. save_pair(text) /\ views' = text /\ stale' \in BOOLEAN /\ places' = [places EXCEPT ![p] = NoPlace]
  BY <1>1 DEF save_explicit_memories, Saves, ExplicitSteps, ExplicitTypes
<1>3. PICK st \in ExplicitStates : st = NoPlace /\ st.pc = "idle"
  BY NoPlaceTyped
<1> QED BY <1>1, <1>2, <1>3, PlaceSaves

LEMMA edit_documentsExplicit == ExplicitSteps /\ edit_documents => ExplicitSteps'
<1> SUFFICES ASSUME ExplicitSteps, edit_documents PROVE ExplicitSteps'
  OBVIOUS
<1>1. PICK p \in Processes : p = "editor"
  BY DEF Processes
<1>2. PICK k \in DocumentKinds, l \in Lines :
         places' = [places EXCEPT ![p].text[k] = IF l \in places[p].text[k] THEN places[p].text[k] \ {l}
                                                 ELSE places[p].text[k] \cup {l},
                                  ![p].pc = "save"]
  BY <1>1 DEF edit_documents
<1>3. PICK text : text = [places[p].text EXCEPT ![k] = IF l \in places[p].text[k] THEN places[p].text[k] \ {l}
                                                       ELSE places[p].text[k] \cup {l}]
  OBVIOUS
<1>4. text \in Texts
  BY <1>3, PlaceTyped DEF Texts
<1>5. PICK st : st = [places[p] EXCEPT !.text = text, !.pc = "save"]
  OBVIOUS
<1>6. st \in ExplicitStates /\ st.pc = "save"
  BY <1>4, <1>5, PlaceTyped DEF ExplicitStates
<1>7. places' = [places EXCEPT ![p] = st]
  BY <1>2, <1>3, <1>5 DEF ExplicitSteps, ExplicitTypes
<1>8. \A d \in DocumentKinds : documents[d].state # "none"
  BY <1>1 DEF edit_documents, ExplicitSteps, RowsThere
<1>9. /\ UNCHANGED <<documents, stale>>
      /\ \A d \in DocumentKinds : views'[d] \subseteq Lines \/ Template \in views'[d]
  BY DEF edit_documents, ExplicitSteps, ExplicitTypes
<1> QED BY <1>1, <1>6, <1>7, <1>8, <1>9, PlaceMoves

LEMMA apply_editExplicit == ExplicitSteps /\ apply_edit => ExplicitSteps'
<1> SUFFICES ASSUME ExplicitSteps, apply_edit PROVE ExplicitSteps'
  OBVIOUS
<1>1. PICK p \in Processes : p = "tool"
  BY DEF Processes
<1>2. PICK l \in Lines, gone \in SUBSET places[p].text["memory_md"] :
         places' = [places EXCEPT ![p].text["memory_md"] = (places[p].text["memory_md"] \ gone) \cup {l},
                                  ![p].pc = "reload"]
  BY <1>1 DEF apply_edit
<1>3. PICK text : text = [places[p].text EXCEPT !["memory_md"] = (places[p].text["memory_md"] \ gone) \cup {l}]
  OBVIOUS
<1>4. text \in Texts
  BY <1>3, PlaceTyped DEF Texts, DocumentKinds
<1>5. PICK st : st = [places[p] EXCEPT !.text = text, !.pc = "reload"]
  OBVIOUS
<1>6. st \in ExplicitStates /\ st.pc = "reload"
  BY <1>4, <1>5, PlaceTyped DEF ExplicitStates
<1>7. places' = [places EXCEPT ![p] = st]
  BY <1>2, <1>3, <1>5 DEF ExplicitSteps, ExplicitTypes
<1>8. \A d \in DocumentKinds : documents[d].state # "none"
  BY <1>1 DEF apply_edit, ExplicitSteps, RowsThere
<1>9. /\ UNCHANGED <<documents, stale>>
      /\ \A d \in DocumentKinds : views'[d] \subseteq Lines \/ Template \in views'[d]
  BY DEF apply_edit, ExplicitSteps, ExplicitTypes
<1> QED BY <1>1, <1>6, <1>7, <1>8, <1>9, PlaceMoves

LEMMA save_memory_mdExplicit == ExplicitSteps /\ save_memory_md => ExplicitSteps'
<1> SUFFICES ASSUME ExplicitSteps, save_memory_md PROVE ExplicitSteps'
  OBVIOUS
<1>1. PICK p \in Processes : p = "tool"
  BY DEF Processes
<1>2. PICK goal \in {"reload-save", "save"} : goal = IF AnyMissing THEN "reload-save" ELSE "save"
  OBVIOUS
<1>3. PICK text : text = [places[p].text EXCEPT !["user_md"] = Loaded.text["user_md"]]
  OBVIOUS
<1>4. PICK seen : seen = [places[p].seen EXCEPT !["user_md"] = documents["user_md"]]
  OBVIOUS
<1>5. text \in Texts
  BY <1>3, LoadedTexts, PlaceTyped DEF Texts, DocumentKinds
<1>6. seen \in DocumentRows
  BY <1>4, PlaceTyped DEF DocumentRows, DocumentKinds, ExplicitSteps, ExplicitTypes
<1>7. PICK st : st = [places[p] EXCEPT !.pc = goal, !.text = text, !.seen = seen]
  OBVIOUS
<1>8. st \in ExplicitStates /\ st.pc = goal
  BY <1>2, <1>5, <1>6, <1>7, PlaceTyped DEF ExplicitStates
<1>9. places' = [places EXCEPT ![p] = st]
  <2>1. places' = [places EXCEPT ![p].pc = goal, ![p].text["user_md"] = Loaded.text["user_md"],
                                 ![p].seen = [@ EXCEPT !["user_md"] = documents["user_md"]]]
    BY <1>1, <1>2 DEF save_memory_md, keep_edit
  <2> QED BY <1>3, <1>4, <1>7, <2>1, PlaceTyped DEF ExplicitSteps, ExplicitTypes, ExplicitStates
<1>10. st.pc = "save" => \A d \in DocumentKinds : documents[d].state # "none"
  BY <1>2, <1>8 DEF AnyMissing
<1>11. /\ UNCHANGED <<documents, stale>>
       /\ \A d \in DocumentKinds : views'[d] \subseteq Lines \/ Template \in views'[d]
  BY LoadedTexts DEF save_memory_md, Texts, ExplicitSteps, ExplicitTypes
<1> QED BY <1>1, <1>2, <1>8, <1>9, <1>10, <1>11, PlaceMoves

LEMMA prompt_endsExplicit == ExplicitSteps /\ prompt_ends => ExplicitSteps'
<1> SUFFICES ASSUME ExplicitSteps, prompt_ends PROVE ExplicitSteps'
  OBVIOUS
<1>1. PICK p \in Processes : p = "prompt"
  BY DEF Processes
<1>2. PICK st \in ExplicitStates : st = NoPlace /\ st.pc = "idle"
  BY NoPlaceTyped
<1>3. places' = [places EXCEPT ![p] = st] /\ UNCHANGED <<documents, stale>>
  BY <1>1, <1>2 DEF prompt_ends
<1>4. \A d \in DocumentKinds : views'[d] \subseteq Lines \/ Template \in views'[d]
  BY DEF prompt_ends, ExplicitSteps, ExplicitTypes
<1> QED BY <1>2, <1>3, <1>4, PlaceMoves

LEMMA apply_remoteExplicit == ASSUME ExplicitSteps, NEW k \in DocumentKinds, apply_remote(k) PROVE ExplicitSteps'
<1>1. PICK row \in {Document({l}) : l \in Lines} \cup {Tombstone} : documents' = [documents EXCEPT ![k] = row]
  BY DEF apply_remote
<1>2. /\ row \in [state : {"live", "deleted"}, text : SUBSET Lines]
      /\ row.state = "deleted" => row.text = {}
  BY <1>1 DEF Document, Tombstone
<1>3. /\ documents' \in DocumentRows
      /\ \A d \in DocumentKinds : documents'[d] = IF d = k THEN row ELSE documents[d]
  BY <1>1, <1>2 DEF ExplicitSteps, ExplicitTypes, DocumentRows
<1>4. UNCHANGED <<views, places, stale>>
  BY DEF apply_remote
<1>5. ExplicitTypes'
  BY <1>2, <1>3, <1>4 DEF ExplicitSteps, ExplicitTypes
<1>6. RowsThere' /\ PromptSees'
  BY <1>2, <1>3, <1>4 DEF ExplicitSteps, RowsThere, PromptSees
<1> QED BY <1>5, <1>6 DEF ExplicitSteps

LEMMA ExplicitStart == ExplicitInit => ExplicitSteps
<1> SUFFICES ASSUME ExplicitInit PROVE ExplicitSteps
  OBVIOUS
<1>1. \A k \in DocumentKinds : views[k] \subseteq Lines \/ Template \in views[k]
  BY DEF ExplicitInit
<1>2. documents \in DocumentRows /\ \A k \in DocumentKinds : documents[k].state = "none"
  BY DEF ExplicitInit, NoDocument, DocumentRows
<1>3. places \in [Processes -> ExplicitStates] /\ \A p \in Processes : places[p].pc = "idle"
  BY NoPlaceTyped DEF ExplicitInit
<1>4. ExplicitTypes /\ RowsThere /\ PromptSees
  BY <1>1, <1>2, <1>3 DEF ExplicitInit, ExplicitTypes, RowsThere, PromptSees, Processes
<1> QED BY <1>4 DEF ExplicitSteps

LEMMA ExplicitStep == ExplicitSteps /\ [ExplicitNext]_explicitVars => ExplicitSteps'
<1> SUFFICES ASSUME ExplicitSteps, [ExplicitNext]_explicitVars PROVE ExplicitSteps'
  OBVIOUS
<1>1. ASSUME NEW p \in Processes, Begin(p) \/ load(p) \/ load_saves(p, "load-save", "open") \/ save_explicit_memories(p)
      PROVE  ExplicitSteps'
  BY <1>1, BeginExplicit, loadExplicit, load_savesExplicit, save_explicit_memoriesExplicit
<1>2. CASE load_saves("tool", "reload-save", "save")
  BY <1>2, load_savesExplicit DEF Processes
<1>3. CASE edit_documents \/ apply_edit \/ save_memory_md \/ prompt_ends
  BY <1>3, edit_documentsExplicit, apply_editExplicit, save_memory_mdExplicit, prompt_endsExplicit
<1>4. CASE \E k \in DocumentKinds : apply_remote(k)
  BY <1>4, apply_remoteExplicit
<1>5. CASE UNCHANGED explicitVars
  BY <1>5 DEF explicitVars, ExplicitSteps, ExplicitTypes, RowsThere, PromptSees
<1> QED BY <1>1, <1>2, <1>3, <1>4, <1>5 DEF ExplicitNext

LEMMA ExplicitSafe == ExplicitSteps => ExplicitInv
<1> SUFFICES ASSUME ExplicitSteps PROVE ExplicitInv
  OBVIOUS
<1>1. ExplicitTypeOK
  BY DEF ExplicitSteps, ExplicitTypes, DocumentRows, ExplicitTypeOK
<1>2. RowsAreCanonical
  BY DEF ExplicitSteps, RowsThere, PromptSees, RowsAreCanonical, Processes
<1> QED BY <1>1, <1>2 DEF ExplicitInv

\* Whatever is written while vectors are computed, a search finds what active
\* memories say, each once, and no vector is left behind; and who works on the
\* two documents works on rows that exist.
THEOREM MemoriesCorrect == RecallSpec /\ ExplicitSpec => []MemoriesSafe
<1>1. RecallInit => RecallInv
  BY RecallStart
<1>2. RecallInv /\ [RecallNext]_recallVars => RecallInv'
  BY RecallStep
<1>3. ExplicitInit => ExplicitSteps
  BY ExplicitStart
<1>4. ExplicitSteps /\ [ExplicitNext]_explicitVars => ExplicitSteps'
  BY ExplicitStep
<1>5. RecallInv /\ ExplicitSteps => MemoriesSafe
  BY RecallSafe, ExplicitSafe DEF MemoriesSafe
<1> QED BY <1>1, <1>2, <1>3, <1>4, <1>5, PTL DEF RecallSpec, ExplicitSpec

(***************************************************************************)
(* Books and the conversations about them: the inductive invariant.        *)
(***************************************************************************)
\* What the proof knows of a command: where it is, and the book and file it
\* works on.
ReaderPC == {"idle", "save", "attach", "collect", "document", "bind", "index", "grant", "session"}
Indexing == {"document", "bind"}

ReaderStates == [pc : ReaderPC, kind : {"import", "talk", Nothing}, epub : Epubs \cup {Nothing},
                 agent : Agents \cup {Nothing}, book : Books \cup {Nothing}, collection : CollectionIds \cup {0}]

\* Every variable has its type.
ReadingTypes ==
    /\ books \in [Books -> [epub : Epubs \cup {Nothing}, collection : CollectionIds \cup {0},
                            bound : BOOLEAN, knows : BOOLEAN, allowed : BOOLEAN]]
    /\ epubFiles \subseteq Books
    /\ collections \in Seq(Epubs \cup {Nothing}) /\ Len(collections) <= MaxCollections
    /\ members \subseteq CollectionIds \X Agents
    /\ sessions \in [SessionIds -> [book : Books \cup {Nothing}, agent : Agents \cup {Nothing}]]
    /\ chosen \in [Books -> [Agents -> SessionIds \cup {NoCurrent}]]
    /\ readers \in [Readers -> ReaderStates]

\* A book that is here has a file of its own and, if bound to one, the collection
\* with that file's text.
BooksOfFiles ==
    /\ \A b \in Books : HasBook(b) => books[b].epub \in Epubs
    /\ \A b, other \in Books : HasBook(b) /\ books[b].epub = books[other].epub => b = other
    /\ \A b \in Books : books[b].collection # 0 =>
          books[b].collection <= Len(collections) /\ collections[books[b].collection] = books[b].epub

\* A command works for an agent on a file and its book, which is here unless the
\* command is to make it; then no other command works on it.
ReadersOfBooks ==
    /\ \A k \in Readers : readers[k].pc # "idle" =>
          /\ readers[k].book \in Books /\ readers[k].epub \in Epubs /\ readers[k].agent \in Agents
          /\ HasBook(readers[k].book) => books[readers[k].book].epub = readers[k].epub
          /\ readers[k].pc \in {"attach", "index", "grant", "session"} => HasBook(readers[k].book)
    /\ \A k, other \in Readers :
          readers[k].pc # "idle" /\ ~HasBook(readers[k].book) /\ readers[other].book = readers[k].book => k = other

\* A collection that is being filled belongs to one command, and to no book.
CollectionsOwned ==
    \A k \in Readers : readers[k].pc \in Indexing =>
        /\ readers[k].collection \in 1 .. Len(collections)
        /\ readers[k].pc = "bind" => collections[readers[k].collection] = readers[k].epub
        /\ \A other \in Readers : readers[other].pc \in Indexing /\ readers[other].collection = readers[k].collection => k = other
        /\ \A b \in Books : books[b].collection # readers[k].collection

\* A session, and a command that makes one, is about a book with its collection.
SessionsOfBooks ==
    /\ \A s \in SessionIds : LiveSession(s) => sessions[s].book \in Books /\ sessions[s].agent \in Agents
    /\ \A k \in Readers : readers[k].pc = "session" => books[readers[k].book].collection # 0

ReadingInv ==
    /\ ReadingTypes /\ BooksOfFiles /\ ReadersOfBooks /\ CollectionsOwned /\ SessionsOfBooks
    /\ IndexKept /\ CurrentIsListed

\* A book is here if its row has a file.
LEMMA BookHere ==
  ASSUME ReadingInv, NEW b \in Books
  PROVE  HasBook(b) <=> books[b].epub # Nothing
BY ReadingAssumption DEF ReadingInv, BooksOfFiles, HasBook, NoBook, Nothing

\* A command goes to a state that its book, its file and the other commands allow.
LEMMA ReaderMoves ==
  ASSUME ReadingInv, NEW k \in Readers, NEW r \in ReaderStates,
         readers' = [readers EXCEPT ![k] = r], UNCHANGED <<books, collections, talks>>,
         epubFiles' \subseteq Books, members' \subseteq CollectionIds \X Agents,
         r.pc # "idle" =>
           /\ r.book \in Books /\ r.epub \in Epubs /\ r.agent \in Agents
           /\ HasBook(r.book) => books[r.book].epub = r.epub
           /\ r.pc \in {"attach", "index", "grant", "session"} => HasBook(r.book),
         \A other \in Readers \ {k} :
           /\ r.pc # "idle" /\ ~HasBook(r.book) => readers[other].book # r.book
           /\ readers[other].pc # "idle" /\ ~HasBook(readers[other].book) => r.book # readers[other].book,
         r.pc \in Indexing =>
           /\ readers[k].pc \in Indexing /\ r.collection = readers[k].collection
           /\ r.pc = "bind" => collections[r.collection] = r.epub,
         r.pc = "session" => books[r.book].collection # 0
  PROVE  ReadingInv'
<1>1. /\ \A other \in Readers : readers'[other] = IF other = k THEN r ELSE readers[other]
      /\ readers' \in [Readers -> ReaderStates]
  BY DEF ReadingInv, ReadingTypes
<1>2. /\ \A b : HasBook(b)' <=> HasBook(b)
      /\ \A s : LiveSession(s)' <=> LiveSession(s)
  BY DEF HasBook, LiveSession, talks
<1>3. ReadingTypes'
  BY <1>1 DEF ReadingInv, ReadingTypes, talks
<1>4. BooksOfFiles'
  BY <1>2 DEF ReadingInv, BooksOfFiles
<1>5. ReadersOfBooks'
  BY <1>1, <1>2 DEF ReadingInv, ReadersOfBooks
<1>6. CollectionsOwned'
  BY <1>1 DEF ReadingInv, CollectionsOwned
<1>7. SessionsOfBooks'
  BY <1>1, <1>2 DEF ReadingInv, SessionsOfBooks, talks
<1>8. IndexKept' /\ CurrentIsListed'
  BY <1>2 DEF ReadingInv, IndexKept, CurrentIsListed, talks
<1> QED BY <1>3, <1>4, <1>5, <1>6, <1>7, <1>8 DEF ReadingInv

\* A command ends.
LEMMA ReaderStops ==
  ASSUME ReadingInv, NEW k \in Readers, ReaderEnds(k), UNCHANGED <<books, collections, talks>>,
         epubFiles' \subseteq Books, members' \subseteq CollectionIds \X Agents
  PROVE  ReadingInv'
<1>1. NotReading \in ReaderStates /\ NotReading.pc = "idle" /\ NotReading.book \notin Books
  BY ReadingAssumption DEF NotReading, ReaderStates, ReaderPC, Nothing
<1>2. readers' = [readers EXCEPT ![k] = NotReading]
  BY DEF ReaderEnds, SetReader
<1>3. \A other \in Readers : readers[other].pc # "idle" => readers[other].book \in Books
  BY DEF ReadingInv, ReadersOfBooks
<1> QED BY <1>1, <1>2, <1>3, ReaderMoves DEF Indexing

\* A command goes on with the same book.
LEMMA ReaderContinues ==
  ASSUME ReadingInv, NEW k \in Readers, NEW aim \in {"collect", "index", "grant", "session"},
         ReaderGoes(k, aim), readers[k].pc # "idle", UNCHANGED <<books, collections, talks>>,
         epubFiles' \subseteq Books, members' \subseteq CollectionIds \X Agents,
         aim # "collect" => HasBook(readers[k].book),
         aim = "session" => books[readers[k].book].collection # 0
  PROVE  ReadingInv'
<1>1. PICK r : r = [readers[k] EXCEPT !.pc = aim]
  OBVIOUS
<1>2. readers[k] \in ReaderStates
  BY DEF ReadingInv, ReadingTypes
<1>3. /\ r \in ReaderStates /\ r.pc = aim
      /\ r.book = readers[k].book /\ r.epub = readers[k].epub /\ r.agent = readers[k].agent
  BY <1>1, <1>2 DEF ReaderStates, ReaderPC
<1>4. readers' = [readers EXCEPT ![k] = r]
  BY <1>1 DEF ReaderGoes, SetReader
<1>5. /\ r.book \in Books /\ r.epub \in Epubs /\ r.agent \in Agents
      /\ HasBook(r.book) => books[r.book].epub = r.epub
      /\ r.pc \in {"attach", "index", "grant", "session"} => HasBook(r.book)
      /\ r.pc = "session" => books[r.book].collection # 0
  BY <1>3 DEF ReadingInv, ReadersOfBooks
<1>6. \A other \in Readers \ {k} :
        /\ ~HasBook(r.book) => readers[other].book # r.book
        /\ readers[other].pc # "idle" /\ ~HasBook(readers[other].book) => r.book # readers[other].book
  BY <1>3 DEF ReadingInv, ReadersOfBooks
<1>7. r.pc \notin Indexing
  BY <1>3 DEF Indexing
<1> QED BY <1>3, <1>4, <1>5, <1>6, <1>7, ReaderMoves

\* A command begins, with a book that is here or that no other command has.
LEMMA ReaderBegins ==
  ASSUME ReadingInv, NEW k \in Readers, NEW aim \in {"save", "attach", "index", "grant"},
         NEW purpose \in {"import", "talk"}, NEW e \in Epubs, NEW agent \in Agents, NEW b \in Books,
         SetReader(k, [NotReading EXCEPT !.pc = aim, !.kind = purpose, !.epub = e, !.agent = agent, !.book = b]),
         UNCHANGED <<library, indexes, talks>>,
         IF aim = "save" THEN ~HasBook(b) /\ \A other \in Readers : readers[other].book # b
                        ELSE HasBook(b) /\ books[b].epub = e
  PROVE  ReadingInv'
<1>1. PICK r : r = [NotReading EXCEPT !.pc = aim, !.kind = purpose, !.epub = e, !.agent = agent, !.book = b]
  OBVIOUS
<1>2. /\ r \in ReaderStates /\ r.pc = aim /\ r.pc \notin Indexing /\ r.pc # "session"
      /\ r.book = b /\ r.epub = e /\ r.agent = agent
  BY <1>1 DEF NotReading, ReaderStates, ReaderPC, Indexing
<1>3. readers' = [readers EXCEPT ![k] = r]
  BY <1>1 DEF SetReader
<1>4. epubFiles' \subseteq Books /\ members' \subseteq CollectionIds \X Agents
  BY DEF ReadingInv, ReadingTypes, library, indexes
<1>5. \A other \in Readers \ {k} :
        /\ ~HasBook(r.book) => readers[other].book # r.book
        /\ readers[other].pc # "idle" /\ ~HasBook(readers[other].book) => r.book # readers[other].book
  BY <1>2
<1> QED BY <1>2, <1>3, <1>4, <1>5, ReaderMoves DEF library, indexes

LEMMA import_reading_bookInv ==
  ASSUME ReadingInv, NEW k \in Readers, NEW agent \in Agents, NEW e \in Epubs, import_reading_book(k, agent, e)
  PROVE  ReadingInv'
<1>1. CASE \E b \in find_by_source_hash(e) : Opened(b) /\ SetReader(k, NotReading)
  BY <1>1, ReaderStops DEF import_reading_book, ReaderEnds, ReadingInv, ReadingTypes, library, indexes
<1>2. ASSUME NEW b \in find_by_source_hash(e),
             SetReader(k, [NotReading EXCEPT !.pc = "attach", !.kind = "import", !.epub = e, !.agent = agent, !.book = b])
      PROVE  ReadingInv'
  <2>1. b \in Books /\ books[b].epub = e
    BY DEF find_by_source_hash
  <2>2. HasBook(b)
    BY <2>1, ReadingAssumption DEF HasBook, NoBook, Nothing
  <2> QED BY <1>2, <2>1, <2>2, ReaderBegins DEF import_reading_book
<1>3. ASSUME NEW b \in Books, ~HasBook(b), \A other \in Readers : readers[other].book # b,
             SetReader(k, [NotReading EXCEPT !.pc = "save", !.kind = "import", !.epub = e, !.agent = agent, !.book = b])
      PROVE  ReadingInv'
  BY <1>3, ReaderBegins DEF import_reading_book
<1> QED BY <1>1, <1>2, <1>3 DEF import_reading_book

LEMMA save_fileInv == ASSUME ReadingInv, NEW k \in Readers, save_file(k) PROVE ReadingInv'
<1>1. readers[k].pc # "idle" /\ ReaderGoes(k, "collect")
  BY DEF save_file, ReaderAt
<1>2. epubFiles' \subseteq Books /\ members' \subseteq CollectionIds \X Agents
  BY <1>1 DEF save_file, ReadingInv, ReadingTypes, ReadersOfBooks, indexes
<1> QED BY <1>1, <1>2, ReaderContinues DEF save_file, indexes

LEMMA ensure_local_reading_indexInv ==
  ASSUME ReadingInv, NEW k \in Readers, ensure_local_reading_index(k) PROVE ReadingInv'
<1>1. readers[k].pc # "idle" /\ HasBook(readers[k].book) /\ UNCHANGED <<books, collections, talks>>
  BY DEF ensure_local_reading_index, ReaderAt, ReadingInv, ReadersOfBooks, library, indexes
<1>2. epubFiles' \subseteq Books /\ members' \subseteq CollectionIds \X Agents
  BY DEF ensure_local_reading_index, ReadingInv, ReadingTypes, library, indexes
<1>3. ReaderEnds(k) \/ ReaderGoes(k, "grant") \/ ReaderGoes(k, "collect")
  BY DEF ensure_local_reading_index
<1> QED BY <1>1, <1>2, <1>3, ReaderStops, ReaderContinues

LEMMA indexing_failsInv == ASSUME ReadingInv, NEW k \in Readers, indexing_fails(k) PROVE ReadingInv'
<1>1. epubFiles' \subseteq Books /\ members' \subseteq CollectionIds \X Agents
  BY DEF indexing_fails, ReadingInv, ReadingTypes, indexes
<1> QED BY <1>1, ReaderStops DEF indexing_fails, indexes

LEMMA TalkBegins ==
  ASSUME ReadingInv, NEW k \in Readers, NEW b \in Books, NEW agent \in Agents,
         open_conversation(k, b, agent) \/ new_conversation(k, b, agent)
  PROVE  ReadingInv'
<1>1. HasBook(b) /\ books[b].epub \in Epubs
  BY DEF open_conversation, new_conversation, ReadingInv, BooksOfFiles
<1>2. PICK e \in Epubs : e = books[b].epub
  BY <1>1
<1>3. PICK aim \in {"grant", "index"} :
         SetReader(k, [NotReading EXCEPT !.pc = aim, !.kind = "talk", !.epub = e, !.agent = agent, !.book = b])
  BY <1>2 DEF open_conversation, new_conversation
<1> QED BY <1>1, <1>2, <1>3, ReaderBegins DEF open_conversation, new_conversation

LEMMA grant_book_agent_accessInv ==
  ASSUME ReadingInv, NEW k \in Readers, grant_book_agent_access(k) PROVE ReadingInv'
<1>1. /\ readers[k].pc # "idle" /\ HasBook(readers[k].book) /\ UNCHANGED <<books, collections, talks>>
      /\ readers[k].book \in Books /\ readers[k].agent \in Agents
      /\ books[readers[k].book].collection \in CollectionIds \cup {0}
  BY DEF grant_book_agent_access, ReaderAt, ReadingInv, ReadingTypes, ReadersOfBooks, library
<1>2. epubFiles' \subseteq Books /\ members' \subseteq CollectionIds \X Agents
  BY <1>1 DEF grant_book_agent_access, ReadingInv, ReadingTypes, library
<1>3. ReaderEnds(k) \/ (books[readers[k].book].collection # 0 /\ ReaderGoes(k, "session"))
  BY DEF grant_book_agent_access
<1> QED BY <1>1, <1>2, <1>3, ReaderStops, ReaderContinues

\* A book's row changes and a command that worked on it goes on or ends: no
\* collection that is being filled is touched.
LEMMA BookRowChanges ==
  ASSUME ReadingInv, NEW b \in Books,
         NEW row \in [epub : Epubs, collection : CollectionIds \cup {0},
                      bound : BOOLEAN, knows : BOOLEAN, allowed : BOOLEAN],
         books' = [books EXCEPT ![b] = row],
         HasBook(b) => row.epub = books[b].epub,
         ~HasBook(b) => \A other \in Books : books[other].epub # row.epub,
         row.collection # books[b].collection =>
           row.collection \in 1 .. Len(collections) /\ collections[row.collection] = row.epub,
         books[b].collection # 0 => row.collection # 0,
         readers' \in [Readers -> ReaderStates],
         \A k \in Readers : readers'[k] # readers[k] =>
           /\ readers'[k].pc \in {"idle", "index", "grant"}
           /\ readers'[k].pc = "idle" => readers'[k].book \notin Books
           /\ readers'[k].pc # "idle" =>
                /\ readers[k].pc # "idle" /\ readers[k].book = b /\ HasBook(b)
                /\ readers'[k].book = readers[k].book
                /\ readers'[k].epub = readers[k].epub /\ readers'[k].agent = readers[k].agent,
         \A k \in Readers : readers'[k] = readers[k] =>
           /\ ~HasBook(b) /\ readers[k].pc # "idle" => readers[k].book # b
           /\ readers[k].pc \in Indexing => readers[k].collection # row.collection,
         UNCHANGED <<collections, talks, members>>, epubFiles' \subseteq Books
  PROVE  ReadingInv'
<1>1. \A c \in Books : books'[c] = IF c = b THEN row ELSE books[c]
  BY DEF ReadingInv, ReadingTypes
<1>2. \A c \in Books : (HasBook(c) <=> books[c].epub # Nothing) /\ (HasBook(c)' <=> books'[c].epub # Nothing)
  BY <1>1, BookHere, ReadingAssumption DEF HasBook, NoBook, Nothing
<1>3. row.epub # Nothing /\ row.epub \in Epubs
  BY ReadingAssumption DEF Nothing
<1>4. \A s : LiveSession(s)' <=> LiveSession(s)
  BY DEF LiveSession, talks
<1>5. ReadingTypes'
  <2>1. books' \in [Books -> [epub : Epubs \cup {Nothing}, collection : CollectionIds \cup {0},
                              bound : BOOLEAN, knows : BOOLEAN, allowed : BOOLEAN]]
    BY DEF ReadingInv, ReadingTypes
  <2> QED BY <2>1 DEF ReadingInv, ReadingTypes, talks
<1>6. BooksOfFiles'
  <2>1. \A c \in Books : HasBook(c)' => books'[c].epub \in Epubs
    BY <1>1, <1>2, <1>3 DEF ReadingInv, BooksOfFiles
  <2>2. \A c, other \in Books : HasBook(c)' /\ books'[c].epub = books'[other].epub => c = other
    BY <1>1, <1>2, <1>3 DEF ReadingInv, BooksOfFiles
  <2>3. \A c \in Books : books'[c].collection # 0 =>
          books'[c].collection <= Len(collections) /\ collections[books'[c].collection] = books'[c].epub
    <3>1. HasBook(b) \/ books[b].collection = 0
      BY DEF HasBook, NoBook
    <3>2. row.collection # 0 => row.collection <= Len(collections) /\ collections[row.collection] = row.epub
      BY <3>1 DEF ReadingInv, BooksOfFiles
    <3> QED BY <1>1, <3>2 DEF ReadingInv, BooksOfFiles
  <2> QED BY <2>1, <2>2, <2>3 DEF BooksOfFiles
<1>7. ReadersOfBooks'
  <2>1. ASSUME NEW k \in Readers, readers'[k].pc # "idle"
        PROVE  /\ readers'[k].book \in Books /\ readers'[k].epub \in Epubs /\ readers'[k].agent \in Agents
               /\ HasBook(readers[k].book)' => books'[readers'[k].book].epub = readers'[k].epub
               /\ readers'[k].pc \in {"attach", "index", "grant", "session"} => HasBook(readers[k].book)'
    <3>1. readers[k].pc # "idle" /\ readers'[k].book = readers[k].book /\ readers'[k].epub = readers[k].epub
          /\ readers'[k].agent = readers[k].agent
      BY <2>1
    <3>2. /\ readers[k].book \in Books /\ readers[k].epub \in Epubs /\ readers[k].agent \in Agents
          /\ HasBook(readers[k].book) => books[readers[k].book].epub = readers[k].epub
      BY <3>1 DEF ReadingInv, ReadersOfBooks
    <3>3. HasBook(readers[k].book)' <=> books'[readers[k].book].epub # Nothing
      BY <1>2, <3>1, <3>2
    <3>4. HasBook(readers[k].book)' => books'[readers[k].book].epub = readers[k].epub
      <4>1. CASE readers'[k] = readers[k]
        BY <1>1, <1>2, <3>2, <3>3, <4>1, <3>1
      <4>2. CASE readers'[k] # readers[k]
        BY <1>1, <3>1, <3>2, <2>1, <4>2
      <4> QED BY <4>1, <4>2
    <3>5. readers'[k].pc \in {"attach", "index", "grant", "session"} => HasBook(readers[k].book)'
      BY <1>1, <1>2, <1>3, <3>1, <3>2, <3>3, <2>1 DEF ReadingInv, ReadersOfBooks
    <3> QED BY <3>1, <3>2, <3>4, <3>5
  <2>2. ASSUME NEW k \in Readers, NEW other \in Readers, readers'[k].pc # "idle",
               ~HasBook(readers[k].book)', readers'[other].book = readers'[k].book
        PROVE  k = other
    <3>1. readers'[k].book \in Books /\ readers'[k].book # b
      BY <2>1, <2>2, <1>1, <1>2, <1>3
    <3>2. readers'[k] = readers[k] /\ ~HasBook(readers[k].book)
      BY <3>1, <2>2, <1>1, <1>2
    <3>3. readers[other].book = readers[k].book
      BY <2>2, <3>1, <3>2 DEF ReadingInv, ReadersOfBooks
    <3> QED BY <2>2, <3>1, <3>2, <3>3 DEF ReadingInv, ReadersOfBooks
  <2> QED BY <2>1, <2>2 DEF ReadersOfBooks
<1>8. CollectionsOwned'
  <2>1. \A k \in Readers : readers'[k].pc \in Indexing => readers'[k] = readers[k]
    BY DEF Indexing
  <2> QED BY <1>1, <2>1 DEF ReadingInv, CollectionsOwned
<1>9. SessionsOfBooks'
  <2>1. \A k \in Readers : readers'[k].pc = "session" => readers'[k] = readers[k] /\ readers[k].book \in Books
    BY DEF ReadingInv, ReadersOfBooks
  <2>2. \A c \in Books : books[c].collection # 0 => books'[c].collection # 0
    BY <1>1
  <2> QED BY <1>4, <2>1, <2>2 DEF ReadingInv, SessionsOfBooks, talks
<1>10. IndexKept' /\ CurrentIsListed'
  <2>1. \A s \in SessionIds : LiveSession(s) => sessions[s].book \in Books
    BY DEF ReadingInv, SessionsOfBooks
  <2> QED BY <1>1, <1>4, <2>1 DEF ReadingInv, IndexKept, CurrentIsListed, talks
<1> QED BY <1>5, <1>6, <1>7, <1>8, <1>9, <1>10 DEF ReadingInv

\* A row changes and no command moves.
LEMMA BookRowChangesAlone ==
  ASSUME ReadingInv, NEW b \in Books, NEW e \in Epubs, NEW row,
         books' = [books EXCEPT ![b] = row],
         NEW knows \in BOOLEAN, NEW allowed \in BOOLEAN,
         row = [books[b] EXCEPT !.epub = e, !.knows = knows, !.allowed = allowed],
         HasBook(b) => e = books[b].epub,
         ~HasBook(b) => /\ \A other \in Books : books[other].epub # e
                        /\ b \notin {readers[k].book : k \in Readers},
         UNCHANGED <<epubFiles, indexes, talks, readers>>
  PROVE  ReadingInv'
<1>1. books[b] \in [epub : Epubs \cup {Nothing}, collection : CollectionIds \cup {0},
                    bound : BOOLEAN, knows : BOOLEAN, allowed : BOOLEAN]
  BY DEF ReadingInv, ReadingTypes
<1>2. /\ row \in [epub : Epubs, collection : CollectionIds \cup {0},
                  bound : BOOLEAN, knows : BOOLEAN, allowed : BOOLEAN]
      /\ row.epub = e /\ row.collection = books[b].collection
  BY <1>1
<1>3. /\ readers' \in [Readers -> ReaderStates] /\ readers' = readers
      /\ epubFiles' \subseteq Books /\ UNCHANGED <<collections, members>>
  BY DEF ReadingInv, ReadingTypes, indexes
<1>4. \A k \in Readers : readers[k].pc \in Indexing => readers[k].collection # row.collection
  BY <1>2 DEF ReadingInv, CollectionsOwned
<1>6. \A k \in Readers : ~HasBook(b) => readers[k].book # b
  OBVIOUS
<1>7. /\ HasBook(b) => row.epub = books[b].epub
      /\ ~HasBook(b) => \A other \in Books : books[other].epub # row.epub
      /\ row.collection # books[b].collection =>
           row.collection \in 1 .. Len(collections) /\ collections[row.collection] = row.epub
      /\ books[b].collection # 0 => row.collection # 0
  BY <1>2
<1>8. /\ \A k \in Readers : readers'[k] # readers[k] =>
           /\ readers'[k].pc \in {"idle", "index", "grant"}
           /\ readers'[k].pc = "idle" => readers'[k].book \notin Books
           /\ readers'[k].pc # "idle" =>
                /\ readers[k].pc # "idle" /\ readers[k].book = b /\ HasBook(b)
                /\ readers'[k].book = readers[k].book
                /\ readers'[k].epub = readers[k].epub /\ readers'[k].agent = readers[k].agent
      /\ \A k \in Readers : readers'[k] = readers[k] =>
           /\ ~HasBook(b) /\ readers[k].pc # "idle" => readers[k].book # b
           /\ readers[k].pc \in Indexing => readers[k].collection # row.collection
  BY <1>3, <1>4, <1>6
<1> QED BY <1>2, <1>3, <1>7, <1>8, BookRowChanges

LEMMA update_book_modeInv ==
  ASSUME ReadingInv, NEW b \in Books, NEW x \in BOOLEAN, update_book_mode(b, x) \/ set_content_context_allowed(b, x)
  PROVE  ReadingInv'
<1>1. HasBook(b) /\ books[b].epub \in Epubs /\ UNCHANGED <<epubFiles, indexes, talks, readers>>
  BY DEF update_book_mode, set_content_context_allowed, ReadingInv, BooksOfFiles
<1>2. books[b] \in [epub : Epubs \cup {Nothing}, collection : CollectionIds \cup {0},
                    bound : BOOLEAN, knows : BOOLEAN, allowed : BOOLEAN]
  BY DEF ReadingInv, ReadingTypes
<1>3. PICK e \in Epubs : e = books[b].epub
  BY <1>1
<1>4. CASE update_book_mode(b, x)
  <2>1. PICK allowed \in BOOLEAN : allowed = books[b].allowed
    BY <1>2
  <2>2. PICK row : row = [books[b] EXCEPT !.epub = e, !.knows = x, !.allowed = allowed]
    OBVIOUS
  <2>3. row = [books[b] EXCEPT !.knows = x]
    BY <1>2, <1>3, <2>1, <2>2
  <2>4. books' = [books EXCEPT ![b] = row]
    BY <1>4, <2>3 DEF update_book_mode
  <2> QED BY <1>1, <1>3, <2>2, <2>4, BookRowChangesAlone
<1>5. CASE set_content_context_allowed(b, x)
  <2>1. PICK knows \in BOOLEAN : knows = books[b].knows
    BY <1>2
  <2>2. PICK row : row = [books[b] EXCEPT !.epub = e, !.knows = knows, !.allowed = x]
    OBVIOUS
  <2>3. row = [books[b] EXCEPT !.allowed = x]
    BY <1>2, <1>3, <2>1, <2>2
  <2>4. books' = [books EXCEPT ![b] = row]
    BY <1>5, <2>3 DEF set_content_context_allowed
  <2> QED BY <1>1, <1>3, <2>2, <2>4, BookRowChangesAlone
<1> QED BY <1>4, <1>5

LEMMA apply_remote_reading_bookInv ==
  ASSUME ReadingInv, NEW b \in Books, NEW e \in Epubs, NEW knows \in BOOLEAN, NEW allowed \in BOOLEAN,
         apply_remote_reading_book(b, e, knows, allowed)
  PROVE  ReadingInv'
<1>1. PICK row : row = [books[b] EXCEPT !.epub = e, !.knows = knows, !.allowed = allowed]
  OBVIOUS
<1>2. books' = [books EXCEPT ![b] = row] /\ UNCHANGED <<epubFiles, indexes, talks, readers>>
  BY <1>1 DEF apply_remote_reading_book
<1>3. HasBook(b) => e = books[b].epub
  BY BookHere DEF apply_remote_reading_book
<1>4. ~HasBook(b) => /\ \A other \in Books : books[other].epub # e
                     /\ b \notin {readers[k].book : k \in Readers}
  BY BookHere, ReadingAssumption DEF apply_remote_reading_book, Nothing
<1> QED BY <1>1, <1>2, <1>3, <1>4, BookRowChangesAlone

\* What a command at work has: a book, a file and the book's row.
LEMMA AtWork ==
  ASSUME ReadingInv, NEW k \in Readers, readers[k].pc # "idle"
  PROVE  /\ readers[k].book \in Books /\ readers[k].epub \in Epubs
         /\ books[readers[k].book] \in [epub : Epubs \cup {Nothing}, collection : CollectionIds \cup {0},
                                        bound : BOOLEAN, knows : BOOLEAN, allowed : BOOLEAN]
         /\ HasBook(readers[k].book) => books[readers[k].book].epub = readers[k].epub
         /\ readers[k].collection \in CollectionIds \cup {0}
BY DEF ReadingInv, ReadingTypes, ReadersOfBooks, ReaderStates

\* A command that has its book's row written goes on or ends.
LEMMA CommandRow ==
  ASSUME ReadingInv, NEW k \in Readers, readers[k].pc # "idle", NEW b \in Books, b = readers[k].book,
         NEW row \in [epub : Epubs, collection : CollectionIds \cup {0},
                      bound : BOOLEAN, knows : BOOLEAN, allowed : BOOLEAN],
         books' = [books EXCEPT ![b] = row],
         row.epub = readers[k].epub,
         ~HasBook(b) => \A other \in Books : books[other].epub # row.epub,
         \/ row.collection = books[b].collection
         \/ readers[k].pc = "bind" /\ row.collection = readers[k].collection,
         NEW aim \in {"index", "grant"}, readers[k].pc # aim,
         ReaderEnds(k) \/ (HasBook(b) /\ ReaderGoes(k, aim)),
         UNCHANGED <<collections, talks, members>>, epubFiles' \subseteq Books
  PROVE  ReadingInv'
<1>1. HasBook(b) => row.epub = books[b].epub
  BY AtWork
<1>2. readers[k].pc = "bind" =>
        /\ readers[k].collection \in 1 .. Len(collections) /\ readers[k].collection # 0
        /\ collections[readers[k].collection] = readers[k].epub
  BY DEF ReadingInv, CollectionsOwned, Indexing
<1>3. /\ row.collection # books[b].collection =>
           row.collection \in 1 .. Len(collections) /\ collections[row.collection] = row.epub
      /\ books[b].collection # 0 => row.collection # 0
  BY <1>2
<1>4. PICK r : r = IF ReaderEnds(k) THEN NotReading ELSE [readers[k] EXCEPT !.pc = aim]
  OBVIOUS
<1>5. readers' = [readers EXCEPT ![k] = r]
  BY <1>4 DEF ReaderEnds, ReaderGoes, SetReader
<1>6. readers[k] \in ReaderStates /\ readers \in [Readers -> ReaderStates]
  BY DEF ReadingInv, ReadingTypes
<1>7. \/ r.pc = "idle" /\ r.book \notin Books
      \/ r.pc = aim /\ HasBook(b) /\ r.book = readers[k].book /\ r.epub = readers[k].epub /\ r.agent = readers[k].agent
  BY <1>4, <1>6, ReadingAssumption DEF NotReading, ReaderStates, Nothing, ReaderEnds
<1>8. r \in ReaderStates
  BY <1>4, <1>6 DEF NotReading, ReaderStates, ReaderPC, Nothing
<1>9. readers' \in [Readers -> ReaderStates] /\ readers'[k] = r /\ r # readers[k]
      /\ \A other \in Readers \ {k} : readers'[other] = readers[other]
  BY <1>5, <1>6, <1>7, <1>8
<1>10. ASSUME NEW other \in Readers, readers'[other] = readers[other]
       PROVE  /\ ~HasBook(b) /\ readers[other].pc # "idle" => readers[other].book # b
              /\ readers[other].pc \in Indexing => readers[other].collection # row.collection
  <2>1. other # k
    BY <1>9, <1>10
  <2>2. ~HasBook(b) => readers[other].book # b
    BY <2>1 DEF ReadingInv, ReadersOfBooks
  <2>3. readers[other].pc \in Indexing => readers[other].collection # row.collection
    BY <2>1 DEF ReadingInv, CollectionsOwned, Indexing
  <2> QED BY <2>2, <2>3
<1>12. /\ \A other \in Readers : readers'[other] # readers[other] =>
            /\ readers'[other].pc \in {"idle", "index", "grant"}
            /\ readers'[other].pc = "idle" => readers'[other].book \notin Books
            /\ readers'[other].pc # "idle" =>
                 /\ readers[other].pc # "idle" /\ readers[other].book = b /\ HasBook(b)
                 /\ readers'[other].book = readers[other].book
                 /\ readers'[other].epub = readers[other].epub /\ readers'[other].agent = readers[other].agent
       /\ \A other \in Readers : readers'[other] = readers[other] =>
            /\ ~HasBook(b) /\ readers[other].pc # "idle" => readers[other].book # b
            /\ readers[other].pc \in Indexing => readers[other].collection # row.collection
       /\ readers' \in [Readers -> ReaderStates]
  BY <1>7, <1>9, <1>10
<1> QED BY <1>1, <1>3, <1>12, BookRowChanges

LEMMA attach_fileInv == ASSUME ReadingInv, NEW k \in Readers, attach_file(k) PROVE ReadingInv'
<1>1. readers[k].pc = "attach" /\ HasBook(readers[k].book)
  BY DEF attach_file, ReaderAt, ReadingInv, ReadersOfBooks
<1>2. PICK b \in Books : b = readers[k].book
  BY <1>1, AtWork
<1>3. PICK row : row = [books[b] EXCEPT !.bound = TRUE]
  OBVIOUS
<1>4. /\ row \in [epub : Epubs, collection : CollectionIds \cup {0},
                  bound : BOOLEAN, knows : BOOLEAN, allowed : BOOLEAN]
      /\ row.epub = readers[k].epub /\ row.collection = books[b].collection
  BY <1>1, <1>2, <1>3, AtWork
<1>5. books' = [books EXCEPT ![b] = row] /\ ReaderGoes(k, "index")
  BY <1>2, <1>3 DEF attach_file
<1>6. epubFiles' \subseteq Books /\ UNCHANGED <<collections, talks, members>>
  BY <1>2 DEF attach_file, ReadingInv, ReadingTypes, indexes
<1> QED BY <1>1, <1>2, <1>4, <1>5, <1>6, CommandRow

LEMMA insert_bookInv == ASSUME ReadingInv, NEW k \in Readers, insert_book(k) PROVE ReadingInv'
<1>1. readers[k].pc = "bind" /\ ~HasBook(readers[k].book) /\ ReaderEnds(k)
  BY DEF insert_book, ReaderAt
<1>2. PICK b \in Books : b = readers[k].book
  BY <1>1, AtWork
<1>3. epubFiles' \subseteq Books /\ UNCHANGED <<collections, talks, members>>
  BY <1>2 DEF insert_book, ReadingInv, ReadingTypes, indexes
<1>4. CASE find_by_source_hash(readers[k].epub) = {}
  <2>1. PICK row : row = [NoBook EXCEPT !.epub = readers[k].epub, !.collection = readers[k].collection, !.bound = TRUE]
    OBVIOUS
  <2>2. /\ row \in [epub : Epubs, collection : CollectionIds \cup {0},
                    bound : BOOLEAN, knows : BOOLEAN, allowed : BOOLEAN]
        /\ row.epub = readers[k].epub /\ row.collection = readers[k].collection
    BY <1>1, <2>1, AtWork DEF NoBook
  <2>3. books' = [books EXCEPT ![b] = row]
    BY <1>2, <1>4, <2>1 DEF insert_book
  <2>4. \A other \in Books : books[other].epub # row.epub
    BY <1>4, <2>2 DEF find_by_source_hash
  <2> QED BY <1>1, <1>2, <1>3, <2>2, <2>3, <2>4, CommandRow
<1>5. CASE find_by_source_hash(readers[k].epub) # {}
  <2>1. books' = books /\ members' \subseteq CollectionIds \X Agents
    BY <1>3, <1>5 DEF insert_book, ReadingInv, ReadingTypes
  <2> QED BY <1>1, <1>3, <2>1, ReaderStops
<1> QED BY <1>4, <1>5

LEMMA bind_local_indexInv == ASSUME ReadingInv, NEW k \in Readers, bind_local_index(k) PROVE ReadingInv'
<1>1. readers[k].pc = "bind" /\ HasBook(readers[k].book) /\ (ReaderEnds(k) \/ ReaderGoes(k, "grant"))
  BY DEF bind_local_index, ReaderAt
<1>2. PICK b \in Books : b = readers[k].book
  BY <1>1, AtWork
<1>3. PICK row : row = [books[b] EXCEPT !.collection = readers[k].collection]
  OBVIOUS
<1>4. /\ row \in [epub : Epubs, collection : CollectionIds \cup {0},
                  bound : BOOLEAN, knows : BOOLEAN, allowed : BOOLEAN]
      /\ row.epub = readers[k].epub /\ row.collection = readers[k].collection
  BY <1>1, <1>2, <1>3, AtWork
<1>5. books' = [books EXCEPT ![b] = row]
  BY <1>2, <1>3 DEF bind_local_index
<1>6. epubFiles' \subseteq Books /\ UNCHANGED <<collections, talks, members>>
  BY DEF bind_local_index, ReadingInv, ReadingTypes, indexes
<1> QED BY <1>1, <1>2, <1>4, <1>5, <1>6, CommandRow

\* A collection is added or filled; a command goes on to its document or to
\* binding it.
LEMMA CollectionChanges ==
  ASSUME ReadingInv, NEW k \in Readers, readers[k].pc # "idle",
         NEW c \in CollectionIds, NEW aim \in Indexing,
         readers' = [readers EXCEPT ![k] = [readers[k] EXCEPT !.pc = aim, !.collection = c]],
         aim = "bind" => collections'[c] = readers[k].epub,
         collections' \in Seq(Epubs \cup {Nothing}), Len(collections') <= MaxCollections,
         Len(collections) <= Len(collections'), c \in 1 .. Len(collections'),
         \A x \in 1 .. Len(collections) : x # c => collections'[x] = collections[x],
         \A b \in Books : books[b].collection # c,
         \A other \in Readers \ {k} : readers[other].pc \in Indexing => readers[other].collection # c,
         UNCHANGED <<library, talks>>, members' \subseteq CollectionIds \X Agents
  PROVE  ReadingInv'
<1>1. readers[k] \in ReaderStates /\ readers \in [Readers -> ReaderStates]
  BY DEF ReadingInv, ReadingTypes
<1>2. PICK r : r = [readers[k] EXCEPT !.pc = aim, !.collection = c]
  OBVIOUS
<1>3. /\ r \in ReaderStates /\ r.pc = aim /\ r.collection = c
      /\ r.book = readers[k].book /\ r.epub = readers[k].epub /\ r.agent = readers[k].agent
  BY <1>1, <1>2 DEF ReaderStates, ReaderPC, Indexing
<1>4. /\ \A other \in Readers : readers'[other] = IF other = k THEN r ELSE readers[other]
      /\ readers' \in [Readers -> ReaderStates]
  BY <1>1, <1>2, <1>3
<1>5. /\ \A b : HasBook(b)' <=> HasBook(b)
      /\ \A s : LiveSession(s)' <=> LiveSession(s)
      /\ books' = books
  BY DEF HasBook, LiveSession, library, talks
<1>6. ReadingTypes'
  BY <1>4 DEF ReadingInv, ReadingTypes, library, talks
<1>7. BooksOfFiles'
  <2>1. \A b \in Books : books[b].collection # 0 => books[b].collection \in 1 .. Len(collections)
    BY DEF ReadingInv, ReadingTypes, BooksOfFiles, CollectionIds
  <2>2. \A b \in Books : books[b].collection # 0 =>
          books[b].collection <= Len(collections') /\ collections'[books[b].collection] = books[b].epub
    BY <2>1 DEF ReadingInv, ReadingTypes, BooksOfFiles
  <2> QED BY <1>5, <2>2 DEF ReadingInv, BooksOfFiles
<1>8. ReadersOfBooks'
  BY <1>3, <1>4, <1>5 DEF ReadingInv, ReadersOfBooks, Indexing
<1>9. CollectionsOwned'
  <2>1. ASSUME NEW j \in Readers, readers'[j].pc \in Indexing
        PROVE  /\ readers'[j].collection \in 1 .. Len(collections')
               /\ readers'[j].pc = "bind" => collections'[readers'[j].collection] = readers'[j].epub
               /\ \A b \in Books : books'[b].collection # readers'[j].collection
    <3>1. CASE j = k
      BY <1>3, <1>4, <1>5, <3>1
    <3>2. CASE j # k
      <4>1. /\ readers'[j] = readers[j] /\ readers[j].collection # c
            /\ readers[j].collection \in 1 .. Len(collections)
        BY <1>4, <2>1, <3>2 DEF ReadingInv, CollectionsOwned
      <4>2. collections'[readers[j].collection] = collections[readers[j].collection]
        BY <4>1
      <4> QED BY <1>5, <2>1, <4>1, <4>2 DEF ReadingInv, ReadingTypes, CollectionsOwned
    <3> QED BY <3>1, <3>2
  <2>2. ASSUME NEW j \in Readers, NEW other \in Readers, readers'[j].pc \in Indexing,
               readers'[other].pc \in Indexing, readers'[other].collection = readers'[j].collection
        PROVE  j = other
    BY <1>3, <1>4, <2>2 DEF ReadingInv, CollectionsOwned
  <2> QED BY <2>1, <2>2 DEF CollectionsOwned
<1>10. SessionsOfBooks'
  BY <1>3, <1>4, <1>5 DEF ReadingInv, SessionsOfBooks, talks, Indexing
<1>11. IndexKept' /\ CurrentIsListed'
  BY <1>5 DEF ReadingInv, IndexKept, CurrentIsListed, talks
<1> QED BY <1>6, <1>7, <1>8, <1>9, <1>10, <1>11 DEF ReadingInv

LEMMA create_collectionInv == ASSUME ReadingInv, NEW k \in Readers, create_collection(k) PROVE ReadingInv'
<1>1. readers[k].pc = "collect" /\ readers[k].agent \in Agents
  BY DEF create_collection, ReaderAt, ReadingInv, ReadersOfBooks
<1>2. PICK c \in CollectionIds : c = Len(collections) + 1
  BY DEF create_collection
<1>3. collections \in Seq(Epubs \cup {Nothing}) /\ Len(collections) \in Nat /\ c <= MaxCollections
  BY ReadingAssumption DEF ReadingInv, ReadingTypes, CollectionIds
<1>4. /\ collections' = Append(collections, Nothing)
      /\ readers' = [readers EXCEPT ![k] = [readers[k] EXCEPT !.pc = "document", !.collection = c]]
      /\ members' \subseteq CollectionIds \X Agents /\ UNCHANGED <<library, talks>>
  BY <1>1, <1>2 DEF create_collection, SetReader, ReadingInv, ReadingTypes
<1>5. /\ collections' \in Seq(Epubs \cup {Nothing}) /\ Len(collections') = c /\ collections'[c] = Nothing
      /\ \A x \in 1 .. Len(collections) : collections'[x] = collections[x]
  BY <1>2, <1>3, <1>4
<1>6. \A b \in Books : books[b].collection # c
  BY <1>2, <1>3 DEF ReadingInv, ReadingTypes, BooksOfFiles, CollectionIds
<1>7. \A other \in Readers : readers[other].pc \in Indexing => readers[other].collection # c
  BY <1>2, <1>3 DEF ReadingInv, CollectionsOwned
<1>8. "document" \in Indexing /\ c \in 1 .. Len(collections') /\ Len(collections) <= Len(collections')
  BY <1>2, <1>3, <1>5 DEF Indexing
<1>10. PICK aim \in Indexing : aim = "document"
  BY <1>8
<1>11. /\ aim = "bind" => collections'[c] = readers[k].epub
       /\ readers' = [readers EXCEPT ![k] = [readers[k] EXCEPT !.pc = aim, !.collection = c]]
       /\ Len(collections') <= MaxCollections
       /\ \A x \in 1 .. Len(collections) : x # c => collections'[x] = collections[x]
       /\ \A other \in Readers \ {k} : readers[other].pc \in Indexing => readers[other].collection # c
       /\ readers[k].pc # "idle"
       /\ members' \subseteq CollectionIds \X Agents /\ UNCHANGED <<library, talks>>
       /\ collections' \in Seq(Epubs \cup {Nothing})
  BY <1>1, <1>3, <1>4, <1>5, <1>7, <1>10
<1> QED BY <1>6, <1>8, <1>11, CollectionChanges

LEMMA import_documentInv == ASSUME ReadingInv, NEW k \in Readers, import_document(k) PROVE ReadingInv'
<1>1. readers[k].pc = "document" /\ readers[k].pc \in Indexing
  BY DEF import_document, ReaderAt, Indexing
<1>2. collections \in Seq(Epubs \cup {Nothing}) /\ Len(collections) \in Nat /\ Len(collections) <= MaxCollections
  BY DEF ReadingInv, ReadingTypes
<1>3. readers[k].collection \in 1 .. Len(collections)
  BY <1>1 DEF ReadingInv, CollectionsOwned
<1>4. PICK c \in CollectionIds : c = readers[k].collection
  BY <1>2, <1>3, ReadingAssumption DEF CollectionIds
<1>5. PICK text \in Epubs : text = readers[k].epub
  BY <1>1, AtWork
<1>6. /\ collections' = [collections EXCEPT ![c] = text]
      /\ UNCHANGED <<library, talks, members>>
  BY <1>4, <1>5 DEF import_document
<1>7. readers' = [readers EXCEPT ![k] = [readers[k] EXCEPT !.pc = "bind", !.collection = c]]
  <2>1. readers[k] \in ReaderStates
    BY DEF ReadingInv, ReadingTypes
  <2>2. [readers[k] EXCEPT !.pc = "bind"] = [readers[k] EXCEPT !.pc = "bind", !.collection = c]
    BY <1>4, <2>1 DEF ReaderStates
  <2> QED BY <2>2 DEF import_document, ReaderGoes, SetReader
<1>8. /\ collections' \in Seq(Epubs \cup {Nothing}) /\ Len(collections') = Len(collections) /\ collections'[c] = text
      /\ \A x \in 1 .. Len(collections) : x # c => collections'[x] = collections[x]
  BY <1>2, <1>3, <1>4, <1>6
<1>9. /\ \A b \in Books : books[b].collection # c
      /\ \A other \in Readers \ {k} : readers[other].pc \in Indexing => readers[other].collection # c
  BY <1>1, <1>4 DEF ReadingInv, CollectionsOwned
<1>10. "bind" \in Indexing /\ c \in 1 .. Len(collections') /\ Len(collections) <= Len(collections')
       /\ members' \subseteq CollectionIds \X Agents
  BY <1>2, <1>3, <1>4, <1>6, <1>8 DEF Indexing, ReadingInv, ReadingTypes
<1> QED BY <1>1, <1>2, <1>5, <1>6, <1>7, <1>8, <1>9, <1>10, CollectionChanges

\* Conversations change, and a command may end.
LEMMA TalksChange ==
  ASSUME ReadingInv, UNCHANGED <<library, indexes>>,
         readers' = readers \/ \E k \in Readers : ReaderEnds(k),
         sessions' \in [SessionIds -> [book : Books \cup {Nothing}, agent : Agents \cup {Nothing}]],
         chosen' \in [Books -> [Agents -> SessionIds \cup {NoCurrent}]],
         \A s \in SessionIds : sessions'[s] # NoSession =>
           /\ sessions'[s].book \in Books /\ sessions'[s].agent \in Agents
           /\ books[sessions'[s].book].collection # 0,
         CurrentIsListed'
  PROVE  ReadingInv'
<1>1. \A b : HasBook(b)' <=> HasBook(b)
  BY DEF HasBook, library
<1>2. NotReading \in ReaderStates /\ NotReading.pc = "idle" /\ NotReading.book \notin Books
  BY ReadingAssumption DEF NotReading, ReaderStates, ReaderPC, Nothing
<1>3. /\ readers' \in [Readers -> ReaderStates]
      /\ \A k \in Readers : readers'[k] = readers[k] \/ readers'[k] = NotReading
  BY <1>2 DEF ReadingInv, ReadingTypes, ReaderEnds, SetReader
<1>4. ReadingTypes'
  BY <1>3 DEF ReadingInv, ReadingTypes, library, indexes
<1>5. BooksOfFiles'
  BY <1>1 DEF ReadingInv, BooksOfFiles, library, indexes
<1>6. ReadersOfBooks'
  BY <1>1, <1>2, <1>3 DEF ReadingInv, ReadersOfBooks, library
<1>7. CollectionsOwned'
  BY <1>2, <1>3 DEF ReadingInv, CollectionsOwned, library, indexes, Indexing
<1>8. SessionsOfBooks' /\ IndexKept'
  BY <1>2, <1>3 DEF ReadingInv, SessionsOfBooks, IndexKept, LiveSession, library
<1> QED BY <1>4, <1>5, <1>6, <1>7, <1>8 DEF ReadingInv

LEMMA create_conversationInv == ASSUME ReadingInv, NEW k \in Readers, create_conversation(k) PROVE ReadingInv'
<1>1. readers[k].pc = "session" /\ readers[k].agent \in Agents /\ books[readers[k].book].collection # 0
  BY DEF create_conversation, ReaderAt, ReadingInv, ReadersOfBooks, SessionsOfBooks
<1>2. PICK b \in Books : b = readers[k].book
  BY <1>1, AtWork
<1>3. PICK agent \in Agents : agent = readers[k].agent
  BY <1>1
<1>4. PICK s \in SessionIds :
         /\ ~LiveSession(s)
         /\ sessions' = [sessions EXCEPT ![s] = [book |-> b, agent |-> agent]]
         /\ chosen' = [chosen EXCEPT ![b][agent] = s]
  BY <1>2, <1>3 DEF create_conversation
<1>5. /\ sessions \in [SessionIds -> [book : Books \cup {Nothing}, agent : Agents \cup {Nothing}]]
      /\ chosen \in [Books -> [Agents -> SessionIds \cup {NoCurrent}]]
  BY DEF ReadingInv, ReadingTypes
<1>6. /\ sessions' \in [SessionIds -> [book : Books \cup {Nothing}, agent : Agents \cup {Nothing}]]
      /\ \A t \in SessionIds : sessions'[t] = IF t = s THEN [book |-> b, agent |-> agent] ELSE sessions[t]
      /\ chosen' \in [Books -> [Agents -> SessionIds \cup {NoCurrent}]]
      /\ \A c \in Books, a \in Agents : chosen'[c][a] = IF c = b /\ a = agent THEN s ELSE chosen[c][a]
  BY <1>4, <1>5
<1>7. \A t \in SessionIds : sessions'[t] # NoSession =>
           /\ sessions'[t].book \in Books /\ sessions'[t].agent \in Agents
           /\ books[sessions'[t].book].collection # 0
  BY <1>1, <1>2, <1>6 DEF ReadingInv, SessionsOfBooks, IndexKept, LiveSession
<1>8. CurrentIsListed'
  <2>1. \A c \in Books, a \in Agents : chosen[c][a] # NoCurrent => chosen[c][a] # s
    <3>1. sessions[s] = NoSession
      BY <1>4 DEF LiveSession
    <3>2. \A c \in Books, a \in Agents : sessions[s] # [book |-> c, agent |-> a]
      BY <3>1, ReadingAssumption DEF NoSession, Nothing
    <3>3. ASSUME NEW c \in Books, NEW a \in Agents, chosen[c][a] # NoCurrent, chosen[c][a] = s
          PROVE  FALSE
      <4>1. sessions[chosen[c][a]] = [book |-> c, agent |-> a]
        BY <3>3 DEF ReadingInv, CurrentIsListed
      <4> QED BY <3>2, <3>3, <4>1
    <3> QED BY <3>3
  <2>2. ASSUME NEW c \in Books, NEW a \in Agents, chosen[c][a] # NoCurrent
        PROVE  sessions'[chosen[c][a]] = [book |-> c, agent |-> a]
    <3>1. chosen[c][a] \in SessionIds
      BY <1>5, <2>2
    <3> QED BY <1>6, <2>1, <2>2, <3>1 DEF ReadingInv, CurrentIsListed
  <2>3. sessions'[s] = [book |-> b, agent |-> agent]
    BY <1>6
  <2>4. ASSUME NEW c \in Books, NEW a \in Agents, chosen'[c][a] # NoCurrent
        PROVE  sessions'[chosen'[c][a]] = [book |-> c, agent |-> a]
    <3>1. CASE c = b /\ a = agent
      BY <1>6, <2>3, <3>1
    <3>2. CASE ~(c = b /\ a = agent)
      <4>1. chosen'[c][a] = chosen[c][a]
        BY <1>6, <3>2
      <4> QED BY <2>2, <2>4, <4>1
    <3> QED BY <3>1, <3>2
  <2> QED BY <2>4 DEF CurrentIsListed, NoCurrent
<1> QED BY <1>6, <1>7, <1>8, TalksChange DEF create_conversation

LEMMA select_conversationInv ==
  ASSUME ReadingInv, NEW b \in Books, NEW agent \in Agents, NEW s \in SessionIds, select_conversation(b, agent, s)
  PROVE  ReadingInv'
<1>1. /\ chosen \in [Books -> [Agents -> SessionIds \cup {NoCurrent}]]
      /\ sessions[s] = [book |-> b, agent |-> agent] /\ sessions' = sessions
      /\ chosen' = [chosen EXCEPT ![b][agent] = s]
  BY DEF select_conversation, ReadingInv, ReadingTypes
<1>2. chosen' \in [Books -> [Agents -> SessionIds \cup {NoCurrent}]]
  BY <1>1
<1>3. \A c \in Books, a \in Agents : chosen'[c][a] = IF c = b /\ a = agent THEN s ELSE chosen[c][a]
  BY <1>1
<1>4. CurrentIsListed'
  BY <1>1, <1>3 DEF ReadingInv, CurrentIsListed
<1>5. /\ sessions' \in [SessionIds -> [book : Books \cup {Nothing}, agent : Agents \cup {Nothing}]]
      /\ \A t \in SessionIds : sessions'[t] # NoSession =>
           /\ sessions'[t].book \in Books /\ sessions'[t].agent \in Agents
           /\ books[sessions'[t].book].collection # 0
  BY <1>1 DEF ReadingInv, ReadingTypes, SessionsOfBooks, IndexKept, LiveSession
<1> QED BY <1>2, <1>4, <1>5, TalksChange DEF select_conversation

LEMMA delete_sessionInv ==
  ASSUME ReadingInv, NEW s \in SessionIds, delete_session(s) PROVE ReadingInv'
<1>1. /\ chosen \in [Books -> [Agents -> SessionIds \cup {NoCurrent}]]
      /\ sessions \in [SessionIds -> [book : Books \cup {Nothing}, agent : Agents \cup {Nothing}]]
      /\ NoSession \in [book : Books \cup {Nothing}, agent : Agents \cup {Nothing}]
  BY DEF ReadingInv, ReadingTypes, NoSession
<1>2. /\ sessions' \in [SessionIds -> [book : Books \cup {Nothing}, agent : Agents \cup {Nothing}]]
      /\ \A t \in SessionIds : t # s => sessions'[t] = sessions[t]
      /\ sessions'[s] = NoSession
  BY <1>1 DEF delete_session
<1>3. \A c \in Books, a \in Agents : chosen'[c][a] = IF chosen[c][a] = s THEN NoCurrent ELSE chosen[c][a]
  BY DEF delete_session
<1>4. chosen' \in [Books -> [Agents -> SessionIds \cup {NoCurrent}]]
  BY <1>1 DEF delete_session, NoCurrent
<1>5. CurrentIsListed'
  BY <1>1, <1>2, <1>3 DEF ReadingInv, CurrentIsListed
<1>6. \A t \in SessionIds : sessions'[t] # NoSession =>
           /\ sessions'[t].book \in Books /\ sessions'[t].agent \in Agents
           /\ books[sessions'[t].book].collection # 0
  BY <1>2 DEF ReadingInv, SessionsOfBooks, IndexKept, LiveSession
<1> QED BY <1>2, <1>4, <1>5, <1>6, TalksChange DEF delete_session

LEMMA ReadingStart == ReadingInit => ReadingInv
<1> SUFFICES ASSUME ReadingInit PROVE ReadingInv
  OBVIOUS
<1>1. NoBook \in [epub : Epubs \cup {Nothing}, collection : CollectionIds \cup {0},
                  bound : BOOLEAN, knows : BOOLEAN, allowed : BOOLEAN]
  BY DEF NoBook
<1>2. NotReading \in ReaderStates /\ NotReading.pc = "idle" /\ NotReading.book \notin Books
  BY ReadingAssumption DEF NotReading, ReaderStates, ReaderPC, Nothing
<1>3. NoSession \in [book : Books \cup {Nothing}, agent : Agents \cup {Nothing}]
  BY DEF NoSession
<1>4. collections \in Seq(Epubs \cup {Nothing}) /\ Len(collections) = 0 /\ 0 <= MaxCollections
  BY ReadingAssumption DEF ReadingInit
<1>5. /\ books \in [Books -> [epub : Epubs \cup {Nothing}, collection : CollectionIds \cup {0},
                              bound : BOOLEAN, knows : BOOLEAN, allowed : BOOLEAN]]
      /\ readers \in [Readers -> ReaderStates]
      /\ sessions \in [SessionIds -> [book : Books \cup {Nothing}, agent : Agents \cup {Nothing}]]
      /\ chosen \in [Books -> [Agents -> SessionIds \cup {NoCurrent}]]
  BY <1>1, <1>2, <1>3 DEF ReadingInit, NoCurrent
<1>6. ReadingTypes
  BY <1>4, <1>5 DEF ReadingInit, ReadingTypes
<1>7. \A b \in Books : ~HasBook(b) /\ books[b].collection = 0
  BY DEF ReadingInit, HasBook, NoBook
<1>8. BooksOfFiles
  BY <1>7 DEF BooksOfFiles
<1>9. \A k \in Readers : readers[k].pc = "idle"
  BY <1>2 DEF ReadingInit
<1>10. ReadersOfBooks /\ CollectionsOwned
  BY <1>9 DEF ReadersOfBooks, CollectionsOwned, Indexing
<1>11. \A s \in SessionIds : ~LiveSession(s)
  BY DEF ReadingInit, LiveSession
<1>12. SessionsOfBooks /\ IndexKept
  BY <1>9, <1>11 DEF SessionsOfBooks, IndexKept
<1>13. CurrentIsListed
  BY DEF ReadingInit, CurrentIsListed
<1> QED BY <1>6, <1>8, <1>10, <1>12, <1>13 DEF ReadingInv

LEMMA ReadingStep == ReadingInv /\ [ReadingNext]_readingVars => ReadingInv'
<1> SUFFICES ASSUME ReadingInv, [ReadingNext]_readingVars PROVE ReadingInv'
  OBVIOUS
<1>1. ASSUME NEW k \in Readers, NEW agent \in Agents, NEW e \in Epubs, import_reading_book(k, agent, e)
      PROVE  ReadingInv'
  BY <1>1, import_reading_bookInv
<1>2. ASSUME NEW k \in Readers,
             \/ save_file(k) \/ attach_file(k) \/ create_collection(k) \/ import_document(k)
             \/ insert_book(k) \/ bind_local_index(k) \/ ensure_local_reading_index(k) \/ indexing_fails(k)
      PROVE  ReadingInv'
  BY <1>2, save_fileInv, attach_fileInv, create_collectionInv, import_documentInv, insert_bookInv,
     bind_local_indexInv, ensure_local_reading_indexInv, indexing_failsInv
<1>3. ASSUME NEW k \in Readers, NEW b \in Books, NEW agent \in Agents,
             open_conversation(k, b, agent) \/ new_conversation(k, b, agent)
      PROVE  ReadingInv'
  BY <1>3, TalkBegins
<1>4. ASSUME NEW k \in Readers, grant_book_agent_access(k) \/ create_conversation(k)
      PROVE  ReadingInv'
  BY <1>4, grant_book_agent_accessInv, create_conversationInv
<1>5. ASSUME NEW b \in Books, NEW agent \in Agents, NEW s \in SessionIds, select_conversation(b, agent, s)
      PROVE  ReadingInv'
  BY <1>5, select_conversationInv
<1>6. ASSUME NEW s \in SessionIds, delete_session(s)
      PROVE  ReadingInv'
  BY <1>6, delete_sessionInv
<1>7. ASSUME NEW b \in Books, NEW x \in BOOLEAN, update_book_mode(b, x) \/ set_content_context_allowed(b, x)
      PROVE  ReadingInv'
  BY <1>7, update_book_modeInv
<1>8. ASSUME NEW b \in Books, NEW e \in Epubs, NEW x \in BOOLEAN, NEW y \in BOOLEAN,
             apply_remote_reading_book(b, e, x, y)
      PROVE  ReadingInv'
  BY <1>8, apply_remote_reading_bookInv
<1>9. CASE UNCHANGED readingVars
  <2>1. UNCHANGED <<library, indexes, talks, readers>>
    BY <1>9 DEF readingVars, library, indexes, talks
  <2>2. /\ sessions' \in [SessionIds -> [book : Books \cup {Nothing}, agent : Agents \cup {Nothing}]]
        /\ chosen' \in [Books -> [Agents -> SessionIds \cup {NoCurrent}]] /\ CurrentIsListed'
        /\ \A s \in SessionIds : sessions'[s] # NoSession =>
             /\ sessions'[s].book \in Books /\ sessions'[s].agent \in Agents
             /\ books[sessions'[s].book].collection # 0
    BY <2>1 DEF ReadingInv, ReadingTypes, SessionsOfBooks, IndexKept, CurrentIsListed, LiveSession, talks
  <2> QED BY <2>1, <2>2, TalksChange
<1> QED BY <1>1, <1>2, <1>3, <1>4, <1>5, <1>6, <1>7, <1>8, <1>9 DEF ReadingNext

\* What the invariant says of the text that a prompt may use.
LEMMA ReadingInvSafe == ReadingInv => ReadingSafe
<1> SUFFICES ASSUME ReadingInv PROVE ReadingSafe
  OBVIOUS
<1>1. ReadingTypeOK
  BY DEF ReadingInv, ReadingTypes, ReadingTypeOK
<1>2. OneBookPerEpub
  BY DEF ReadingInv, BooksOfFiles, OneBookPerEpub
<1>3. TextByConsent
  <2>1. ASSUME NEW s \in SessionIds, LiveSession(s), NEW e \in retrieved(s, 0)
        PROVE  e = books[sessions[s].book].epub /\ books[sessions[s].book].allowed /\ ~books[sessions[s].book].knows
    <3>1. sessions[s].book \in Books
      BY <2>1 DEF ReadingInv, SessionsOfBooks
    <3>2. PICK c \in reading_collection(s) : e = collections[c]
      BY DEF retrieved
    <3>3. /\ books[sessions[s].book].allowed /\ ~books[sessions[s].book].knows
          /\ c = books[sessions[s].book].collection /\ c # 0
      BY <3>2 DEF reading_collection
    <3> QED BY <3>1, <3>2, <3>3 DEF ReadingInv, BooksOfFiles
  <2> QED BY <2>1 DEF TextByConsent
<1> QED BY <1>1, <1>2, <1>3 DEF ReadingInv, ReadingSafe

\* However imports, conversations and announcements of other devices meet: one
\* book for one file, with that file's index, which stays; its text in a prompt
\* only by consent; and the current conversation of an agent one of theirs.
THEOREM ReadingCorrect == ReadingSpec => []ReadingSafe
<1>1. ReadingInit => ReadingInv
  BY ReadingStart
<1>2. ReadingInv /\ [ReadingNext]_readingVars => ReadingInv'
  BY ReadingStep
<1>3. ReadingInv => ReadingSafe
  BY ReadingInvSafe
<1> QED BY <1>1, <1>2, <1>3, PTL DEF ReadingSpec

=============================================================================
