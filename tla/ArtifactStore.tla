--------------------------- MODULE ArtifactStore ---------------------------
(***************************************************************************)
(* The gateway's store of one encrypted object (routes/objects.ts): upload *)
(* sessions, the manifest with its replicas, the change log, and the       *)
(* collection of artifacts that are no longer current.  An artifact names  *)
(* the source version it was built from, the device that built it and the  *)
(* number of the build; its logical version is the version of its source.  *)
(* A handler that calls D1 and R2 several times is several steps.          *)
(***************************************************************************)
EXTENDS Naturals, Sequences, FiniteSets

CONSTANTS Devices,
          MaxVersion,   \* bound: logical versions of the object
          MaxBuilds,    \* bound: artifacts a device builds of one source
          MaxSessions   \* bound: upload sessions of one artifact

VARIABLES manifest,  \* object_manifests: logical version and artifact (0: no row)
          replicas,  \* object_replicas: status, R2 key and whether orphaned or claimed
          uploads,   \* object_uploads: the newest session of each artifact
          blobs,     \* keys of the objects in R2
          changes,   \* object_changes in server_seq order
          states,    \* device_object_states
          gc         \* the artifact the cron job is deleting

storeVars == <<manifest, replicas, uploads, blobs, changes, states>>

Sources == [by : Devices, version : 1 .. MaxVersion] \cup {[by |-> "book", version |-> 1]}
Artifacts == [src : Sources, builder : Devices, n : 1 .. MaxBuilds]
None == [none |-> TRUE]

PartNumbers == 1 .. 2
NoReplica == [status |-> "none", key |-> 0, orphaned |-> FALSE, claimed |-> FALSE]
NoUpload == [status |-> "none", key |-> 0, parts |-> {}, seen |-> 0]

StoreInit ==
    /\ manifest = [version |-> 0, artifact |-> None]
    /\ replicas = [a \in Artifacts |-> NoReplica]
    /\ uploads = [a \in Artifacts |-> NoUpload]
    /\ blobs = {}
    /\ changes = <<>>
    /\ gc = None
    /\ states = [d \in Devices |-> [observed |-> 0, status |-> "none", artifact |-> None]]

Ready(a) == replicas[a].status = "ready"

(* The object already has this version or a newer one with another artifact. *)
Conflicts(a, version, artifact) ==
    a.src.version < version \/ (a.src.version = version /\ a # artifact)

OpenSession(a) == uploads[a].status \in {"pending", "claimed", "read", "completing"}

(* createObjectUpload: refuse, answer "ready", reopen the session, or start one. *)
UploadRefused(a) == Conflicts(a, manifest.version, manifest.artifact)
UploadReady(a) == a = manifest.artifact /\ Ready(a)

createObjectUpload(a) ==
    /\ ~UploadRefused(a) /\ ~UploadReady(a)
    /\ \/ OpenSession(a) /\ UNCHANGED uploads
       \/ /\ ~OpenSession(a) /\ uploads[a].key < MaxSessions
          /\ uploads' = [uploads EXCEPT ![a] =
                 [status |-> "pending", key |-> @.key + 1, parts |-> {}, seen |-> 0]]
    /\ UNCHANGED <<manifest, replicas, blobs, changes, states>>

PartAccepted(a) == uploads[a].status = "pending"

uploadObjectPart(a, part) ==
    /\ PartAccepted(a)
    /\ uploads' = [uploads EXCEPT ![a].parts = @ \cup {part}]
    /\ UNCHANGED <<manifest, replicas, blobs, changes, states>>

(* completeObjectUpload, first part: all parts are there, the session is   *)
(* claimed and R2 assembles the object (or the session fails).             *)
completeObjectUpload(a) ==
    /\ uploads[a].status = "pending" /\ uploads[a].parts = PartNumbers
    /\ \/ /\ uploads' = [uploads EXCEPT ![a].status = "claimed"]
          /\ blobs' = blobs \cup {<<a, uploads[a].key>>}
       \/ /\ uploads' = [uploads EXCEPT ![a].status = "failed", ![a].parts = {}]
          /\ UNCHANGED blobs
    /\ UNCHANGED <<manifest, replicas, changes, states>>

(* ... second part: the current manifest is read and compared. *)
read_current(a) ==
    /\ uploads[a].status = "claimed"
    /\ IF Conflicts(a, manifest.version, manifest.artifact)
       THEN /\ blobs' = blobs \ {<<a, uploads[a].key>>}
            /\ uploads' = [uploads EXCEPT ![a].status = "failed", ![a].parts = {}]
       ELSE /\ uploads' = [uploads EXCEPT ![a].status = "read", ![a].seen = manifest.version]
            /\ UNCHANGED blobs
    /\ UNCHANGED <<manifest, replicas, changes, states>>

\* mutant
newer_manifest_Unguarded(a) == [version |-> a.src.version, artifact |-> a]

(* ... last part: one batch of statements, decided by what was read.  The  *)
(* manifest statement checks the version again, the others do not.         *)
newer_manifest(a) ==
    IF manifest.version < a.src.version
    THEN [version |-> a.src.version, artifact |-> a] ELSE manifest

orphan_others(rows, log, kept) ==
    [b \in Artifacts |->
        IF /\ rows[b].status = "ready" /\ b # kept
           /\ \E i \in DOMAIN log : log[i].artifact = b
        THEN [rows[b] EXCEPT !.orphaned = TRUE, !.claimed = FALSE] ELSE rows[b]]

publish_batch(a) ==
    LET changed == uploads[a].seen < a.src.version
        stored == [replicas EXCEPT ![a] = [status |-> "ready", key |-> uploads[a].key,
                                           orphaned |-> FALSE, claimed |-> FALSE]]
    IN  /\ uploads[a].status = "read"
        /\ uploads' = [uploads EXCEPT ![a].status = "completed", ![a].parts = {}, ![a].seen = 0]
        /\ manifest' = IF changed THEN newer_manifest(a) ELSE manifest
        /\ changes' = IF changed
                      THEN Append(changes, [artifact |-> a, version |-> a.src.version])
                      ELSE changes
        /\ replicas' = IF changed THEN orphan_others(stored, changes', manifest'.artifact) ELSE stored
        /\ UNCHANGED <<blobs, states>>

(* The worker that ran the completion ended before its batch. *)
completion_lost(a) ==
    /\ uploads[a].status \in {"claimed", "read"}
    /\ uploads' = [uploads EXCEPT ![a].status = "completing", ![a].seen = 0]
    /\ UNCHANGED <<manifest, replicas, blobs, changes, states>>

abortObjectUpload(a) ==
    /\ OpenSession(a)
    /\ uploads' = [uploads EXCEPT ![a].status = "aborted", ![a].parts = {}, ![a].seen = 0]
    /\ UNCHANGED <<manifest, replicas, blobs, changes, states>>

(* getUpload and the cron job: a session ends an hour after its creation,  *)
(* far beyond the running time of a completion.                            *)
expire_upload(a) ==
    /\ uploads[a].status \in {"pending", "completing"}
    /\ uploads' = [uploads EXCEPT ![a].status = "aborted", ![a].parts = {}, ![a].seen = 0]
    /\ UNCHANGED <<manifest, replicas, blobs, changes, states>>

\* mutant
Collectable_AnyReady(a) == Ready(a)

(* cleanupOrphanedObjects: claim the row, delete the object, close the row. *)
(* A claim is taken over when the run that made it has ended.               *)
Collectable(a) == Ready(a) /\ replicas[a].orphaned /\ manifest.artifact # a

claim_orphan(a) ==
    /\ gc = None /\ Collectable(a)
    /\ replicas' = [replicas EXCEPT ![a].claimed = TRUE]
    /\ gc' = [artifact |-> a, key |-> replicas[a].key, deleted |-> FALSE]
    /\ UNCHANGED <<manifest, uploads, blobs, changes, states>>

delete_orphan ==
    /\ gc # None /\ ~gc.deleted
    /\ blobs' = blobs \ {<<gc.artifact, gc.key>>}
    /\ gc' = [gc EXCEPT !.deleted = TRUE]
    /\ UNCHANGED <<manifest, replicas, uploads, changes, states>>

finish_orphan ==
    /\ gc # None /\ gc.deleted
    /\ LET a == gc.artifact IN
       replicas' = IF Collectable(a) /\ replicas[a].claimed /\ replicas[a].key = gc.key
                   THEN [replicas EXCEPT ![a].status = "deleted", ![a].claimed = FALSE]
                   ELSE replicas
    /\ gc' = None
    /\ UNCHANGED <<manifest, uploads, blobs, changes, states>>

collection_ends == gc # None /\ gc' = None /\ UNCHANGED storeVars

(* updateObjectState: an installed state must name the current manifest. *)
StateRefused(status, a) ==
    manifest.version = 0 \/ (status = "installed" /\ manifest.artifact # a)

updateObjectState(d, observed, status, a) ==
    /\ ~StateRefused(status, a)
    /\ states' = IF states[d].observed <= observed
                 THEN [states EXCEPT ![d] = [observed |-> observed, status |-> status, artifact |-> a]]
                 ELSE states
    /\ UNCHANGED <<manifest, replicas, uploads, blobs, changes>>

(* headObject and downloadObject answer for a ready replica in R2. *)
Available(a) == Ready(a) /\ <<a, replicas[a].key>> \in blobs

StoreNext ==
    \/ \E a \in {b \in Artifacts : uploads[b].status # "none"} :
          \/ (read_current(a) \/ publish_batch(a) \/ completion_lost(a) \/ expire_upload(a)) /\ UNCHANGED gc
          \/ claim_orphan(a)
    \/ delete_orphan \/ finish_orphan \/ collection_ends
=============================================================================
