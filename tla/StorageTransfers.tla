-------------------------- MODULE StorageTransfers --------------------------
(***************************************************************************)
(* One transfer between a drive and a local file: download_file,           *)
(* stage_file_import with finish_file_import, and upload_file of           *)
(* storage/service.rs, with the row of storage_transfer_jobs that the      *)
(* transfer list shows.  A download streams into a partial file, resumes   *)
(* after a network error, and replaces the destination through a backup;   *)
(* the remote file may change meanwhile, its declared size may be wrong,   *)
(* database and file system calls may fail and the application may end at  *)
(* any await.  Sizes are in chunks.                                        *)
(***************************************************************************)
EXTENDS Naturals, Sequences, FiniteSets

CONSTANTS Kinds,        \* which transfers are explored: subset of {"download", "import", "upload"}
          MaxSize,      \* bound: chunks of a file
          MaxVersion,   \* bound: versions of the remote file
          MaxAttempts,  \* can_resume_download: three
          MaxFaults,    \* bound: failing local calls
          MaxBytes      \* the size limit of an import, in chunks

BoundsAssumption ==
    /\ Kinds \subseteq {"download", "import", "upload"}
    /\ MaxSize \in Nat /\ MaxVersion \in Nat \ {0} /\ MaxAttempts \in Nat
    /\ MaxFaults \in Nat /\ MaxBytes \in Nat

NoSize == MaxSize + 1

VARIABLES file,      \* the transfer's input: kind, capabilities, declared size, expected revision
          remote,    \* the provider's side: current version, chunks uploaded, upload stored
          job,       \* the row of storage_transfer_jobs
          pc,        \* where the command is
          got,       \* the partial file: the version each chunk came from
          attempts,  \* resumes so far
          stream,    \* the answer being read: its version, where it starts, and
                     \* whether the file changed between revision check and request
          offset,    \* the upload offset the provider reported
          disk,      \* what destination, partial and backup path hold
          err,       \* the failure to report
          faults

vars == <<file, remote, job, pc, got, attempts, stream, offset, disk, err, faults>>

\* The length of each version of the remote file.
FileLengths == [1 .. MaxVersion -> 0 .. MaxSize]

\* The destination holds no file (0), the file that was there (2),
\* or the downloaded one.
OldFile == 2
NewFile == 1

Init ==
    /\ file \in [kind : Kinds, stable : BOOLEAN, range : BOOLEAN,
                 total : 0 .. NoSize, revision : {0, 1}, old : BOOLEAN, len : FileLengths]
    /\ file.old => file.kind = "download"
    /\ file.kind = "upload" => file.stable /\ file.range /\ file.revision = 0
                               /\ file.total = file.len[1]
    /\ file.stable /\ file.kind # "upload" => file.total = file.len[1]
    /\ remote = [version |-> 1, bytes |-> <<>>, stored |-> FALSE]
    /\ job = [status |-> "none", done |-> 0, total |-> NoSize]
    /\ pc = "start"
    /\ got = <<>>
    /\ attempts = 0
    /\ stream = [version |-> 0, base |-> 0, slipped |-> FALSE]
    /\ offset = 0
    /\ disk = [dest |-> IF file.old THEN OldFile ELSE 0, partial |-> FALSE, backup |-> 0]
    /\ err = "none"
    /\ faults = 0

Fault == faults < MaxFaults /\ faults' = faults + 1

done == Len(got)

valid_transfer_transition(current, next) ==
    \/ current = next
    \/ <<current, next>> \in ({"queued"} \X {"running", "paused", "failed", "cancelled"})
                        \cup ({"running"} \X {"paused", "completed", "failed", "cancelled"})
                        \cup ({"paused"} \X {"queued", "running", "failed", "cancelled"})

\* What update_transfer_job refuses.
Acceptable(status, n, total) ==
    (total # NoSize => n <= total) /\ valid_transfer_transition(job.status, status)

\* update_transfer_job, where the caller propagates an error.
update_transfer(status, n, total, ok, failed) ==
    \/ /\ Acceptable(status, n, total)
       /\ job' = [status |-> status, done |-> n, total |-> total]
       /\ ok /\ UNCHANGED faults
    \/ ~Acceptable(status, n, total) /\ failed /\ UNCHANGED <<job, faults>>
    \/ Fault /\ failed /\ UNCHANGED job

\* insert_transfer_job, then the update to running: an error ends the command,
\* the second one with the row left as queued.
insert_transfer_job ==
    /\ pc = "start"
    /\ \/ /\ job' = [status |-> "queued", done |-> 0, total |-> file.total]
          /\ pc' = "queued"
          /\ UNCHANGED faults
       \/ Fault /\ pc' = "end" /\ UNCHANGED job
    /\ UNCHANGED <<file, remote, got, attempts, stream, offset, disk, err>>

start_running ==
    /\ pc = "queued"
    /\ update_transfer("running", 0, file.total,
                       pc' = IF file.kind = "upload" THEN "begin" ELSE "create", pc' = "end")
    /\ UNCHANGED <<file, remote, got, attempts, stream, offset, disk, err>>

-----------------------------------------------------------------------------
(* stream_file_to_destination.                                              *)

\* The partial file is created under a new name.
create_partial ==
    /\ pc = "create"
    /\ \/ disk' = [disk EXCEPT !.partial = TRUE] /\ pc' = "check" /\ UNCHANGED <<err, faults>>
       \/ Fault /\ err' = "local" /\ pc' = "fail" /\ UNCHANGED disk
    /\ UNCHANGED <<file, remote, job, got, attempts, stream, offset>>

\* mutant: a resume of a provider without ranges
can_resume_download_NoRange(category) ==
    attempts < MaxAttempts /\ category \in {"network", "rate_limit", "remote_unavailable"}

can_resume_download(category) ==
    /\ attempts < MaxAttempts
    /\ done > 0 => file.range
    /\ category \in {"network", "rate_limit", "remote_unavailable"}

\* An error of the provider: resume, or give up.
Interrupted(category) ==
    IF can_resume_download(category)
    THEN attempts' = attempts + 1 /\ pc' = "check" /\ UNCHANGED err
    ELSE err' = "provider" /\ pc' = "fail" /\ UNCHANGED attempts

\* download_file of a session asks for the file first and compares its revision
\* with the expected one.
check_revision ==
    /\ pc = "check"
    /\ \/ /\ file.revision # 0 => remote.version = file.revision
          /\ stream' = [stream EXCEPT !.version = remote.version]
          /\ pc' = "get"
          /\ UNCHANGED <<attempts, err>>
       \/ /\ file.revision # 0 /\ remote.version # file.revision
          /\ Interrupted("conflict")
          /\ UNCHANGED stream
       \/ Interrupted("network") /\ UNCHANGED stream
    /\ UNCHANGED <<file, remote, job, got, offset, disk, faults>>

\* The data request: with a range when something was received before, which the
\* provider refuses when nothing lies behind it.
get_range ==
    /\ pc = "get"
    /\ \/ /\ done > 0 /\ file.range => done < file.len[remote.version]
          /\ stream' = [version |-> remote.version,
                        base    |-> IF file.range THEN 0 ELSE done,
                        slipped |-> stream.slipped \/ stream.version # remote.version]
          /\ pc' = "stream"
          /\ UNCHANGED <<attempts, err>>
       \/ /\ done > 0 /\ done >= file.len[remote.version]
          /\ Interrupted("invalid_request")
          /\ UNCHANGED stream
       \/ Interrupted("network") /\ UNCHANGED stream
    /\ UNCHANGED <<file, remote, job, got, offset, disk, faults>>

over_limit(n) == file.kind = "import" /\ n > MaxBytes

Received == done - stream.base

\* One chunk: refused above the import limit, written, and reported with the
\* total raised to what was received.
receive_chunk ==
    /\ pc = "stream"
    /\ Received < file.len[stream.version]
    /\ LET n == done + 1
           total == IF file.total # NoSize /\ n > file.total THEN n ELSE file.total
       IN \/ /\ over_limit(n)
             /\ err' = "local" /\ pc' = "fail"
             /\ UNCHANGED <<got, job, faults>>
          \/ /\ ~over_limit(n)
             /\ got' = Append(got, [version |-> stream.version, at |-> Received + 1])
             /\ update_transfer("running", n, total,
                                UNCHANGED <<pc, err>>, err' = "local" /\ pc' = "fail")
    /\ UNCHANGED <<file, remote, attempts, stream, offset, disk>>

stream_error ==
    /\ pc = "stream"
    /\ Interrupted("network")
    /\ UNCHANGED <<file, remote, job, got, stream, offset, disk, faults>>

\* The stream ended: with stable sizes the length must be the declared one.
check_size ==
    /\ pc = "stream"
    /\ Received >= file.len[stream.version]
    /\ IF file.stable /\ file.total # NoSize /\ done # file.total
       THEN err' = "provider" /\ pc' = "fail" /\ UNCHANGED faults
       ELSE \/ pc' = "install" /\ UNCHANGED <<err, faults>>
            \/ Fault /\ err' = "local" /\ pc' = "fail"    \* flush, sync_all
    /\ UNCHANGED <<file, remote, job, got, attempts, stream, offset, disk>>

\* mutant: the old file is deleted before the new one is in place
install_download_Delete ==
    /\ pc = "install"
    /\ IF disk.dest = 0
       THEN \/ disk' = [disk EXCEPT !.dest = NewFile, !.partial = FALSE] /\ pc' = "installed" /\ UNCHANGED <<err, faults>>
            \/ Fault /\ err' = "local" /\ pc' = "fail" /\ UNCHANGED disk
       ELSE /\ disk' = [disk EXCEPT !.dest = 0] /\ pc' = "swap" /\ UNCHANGED <<err, faults>>
    /\ UNCHANGED <<file, remote, job, got, attempts, stream, offset>>

\* install_download: a rename when the destination is free; otherwise the old
\* file is moved to a backup name first.
install_download ==
    /\ pc = "install"
    /\ IF disk.dest = 0
       THEN \/ disk' = [disk EXCEPT !.dest = NewFile, !.partial = FALSE] /\ pc' = "installed" /\ UNCHANGED <<err, faults>>
            \/ Fault /\ err' = "local" /\ pc' = "fail" /\ UNCHANGED disk
       ELSE \/ disk' = [disk EXCEPT !.backup = disk.dest, !.dest = 0] /\ pc' = "swap" /\ UNCHANGED <<err, faults>>
            \/ Fault /\ err' = "local" /\ pc' = "fail" /\ UNCHANGED disk
    /\ UNCHANGED <<file, remote, job, got, attempts, stream, offset>>

swap_partial ==
    /\ pc = "swap"
    /\ \/ disk' = [disk EXCEPT !.dest = NewFile, !.partial = FALSE] /\ pc' = "drop_backup" /\ UNCHANGED <<err, faults>>
       \/ Fault /\ err' = "local" /\ pc' = "swap_back" /\ UNCHANGED disk
    /\ UNCHANGED <<file, remote, job, got, attempts, stream, offset>>

\* The result of removing or restoring the backup is ignored.
drop_backup ==
    /\ pc \in {"drop_backup", "swap_back"}
    /\ \/ /\ disk' = [disk EXCEPT !.backup = 0, !.dest = IF pc = "swap_back" THEN disk.backup ELSE @]
          /\ UNCHANGED faults
       \/ Fault /\ UNCHANGED disk
    /\ pc' = IF pc = "swap_back" THEN "fail" ELSE "installed"
    /\ UNCHANGED <<file, remote, job, got, attempts, stream, offset, err>>

\* The total reported with the completion.
CompletedTotal == IF file.stable /\ file.total # NoSize THEN file.total ELSE done

\* download_file ends with the completed update; an import stays running until
\* finish_file_import, after the document was taken into its library.
complete_transfer ==
    /\ pc = "installed"
    /\ IF file.kind = "import" THEN pc' = "imported" /\ UNCHANGED <<job, faults>>
       ELSE update_transfer("completed", done, CompletedTotal, pc' = "end", pc' = "end")
    /\ UNCHANGED <<file, remote, got, attempts, stream, offset, disk, err>>

\* finish_file_import, with the error of the import or without.
finish_file_import ==
    /\ pc = "imported"
    /\ \E status \in {"completed", "failed"} :
        update_transfer(status, done, CompletedTotal, pc' = "end", pc' = "end")
    /\ UNCHANGED <<file, remote, got, attempts, stream, offset, disk, err>>

\* The partial file is removed and the job reported as failed; the result of
\* the update is ignored, and it is refused when more was received than declared.
fail_download ==
    /\ pc = "fail"
    /\ file.kind # "upload"
    /\ disk' = [disk EXCEPT !.partial = FALSE]
    /\ update_transfer("failed", done, file.total, pc' = "end", pc' = "end")
    /\ UNCHANGED <<file, remote, got, attempts, stream, offset, err>>

-----------------------------------------------------------------------------
(* upload_file.                                                             *)

\* begin_file_upload: an upload session at the provider.
begin_file_upload ==
    /\ pc = "begin"
    /\ \/ pc' = "chunk" /\ UNCHANGED err
       \/ err' = "provider" /\ pc' = "fail"
    /\ UNCHANGED <<file, remote, job, got, attempts, stream, offset, disk, faults>>

\* The provider takes the chunk, or none of it, and answers with the offset it
\* has reached; with all bytes there the file is stored.  An answer that is lost
\* is followed by the same chunk again, while attempts are left.
upload_file_chunk ==
    /\ pc = "chunk"
    /\ \E taken \in BOOLEAN :
        LET bytes == IF taken /\ file.len[1] > 0
                     THEN Append(SubSeq(remote.bytes, 1, offset), done + 1) ELSE remote.bytes
        IN remote' = [remote EXCEPT !.bytes = bytes, !.stored = @ \/ (taken /\ Len(bytes) >= file.len[1])]
    /\ \/ pc' = "acked" /\ UNCHANGED <<attempts, err>>
       \/ attempts < MaxAttempts /\ attempts' = attempts + 1 /\ UNCHANGED <<pc, err>>
       \/ err' = "provider" /\ pc' = "abort" /\ UNCHANGED attempts   \* also after a merge whose file is not found
    /\ UNCHANGED <<file, job, got, stream, offset, disk, faults>>

expected_offset == Len(remote.bytes) = IF file.len[1] = 0 THEN 0 ELSE offset + 1

\* All bytes are sent and the provider does not say complete.
Unconfirmed(n) == n >= file.len[1] /\ ~remote.stored

\* stream_file_to_provider compares the offset the provider reports with the
\* expected one, reports progress, and ends when the provider says complete;
\* the next chunk is read from where the source file stands.
chunk_accepted ==
    /\ pc = "acked"
    /\ IF expected_offset
       THEN /\ got' = IF file.len[1] = 0 THEN got ELSE Append(got, [version |-> 1, at |-> done + 1])
            /\ offset' = Len(remote.bytes)
            /\ IF Unconfirmed(offset')
               THEN err' = "provider" /\ pc' = "abort" /\ UNCHANGED <<job, faults>>
               ELSE update_transfer("running", offset', file.total,
                       pc' = (IF offset' >= file.len[1] THEN "uploaded" ELSE "chunk") /\ UNCHANGED err,
                       err' = "local" /\ pc' = "abort")
       ELSE err' = "provider" /\ pc' = "abort" /\ UNCHANGED <<got, offset, job, faults>>
    /\ UNCHANGED <<file, remote, attempts, stream, disk>>

complete_upload ==
    /\ pc = "uploaded"
    /\ update_transfer("completed", file.len[1], file.total, pc' = "end", pc' = "end")
    /\ UNCHANGED <<file, remote, got, attempts, stream, offset, disk, err>>

\* abort_file_upload, whose result is ignored, then finish_upload_failure.
finish_upload_failure ==
    /\ pc = "abort" \/ (pc = "fail" /\ file.kind = "upload")
    /\ update_transfer("failed", offset, file.total, pc' = "end", pc' = "end")
    /\ UNCHANGED <<file, remote, got, attempts, stream, offset, disk, err>>

-----------------------------------------------------------------------------
\* Somebody saves a new version of the remote file.
remote_changes ==
    /\ file.kind # "upload"
    /\ remote.version < MaxVersion
    /\ pc \notin {"end", "crashed"}
    /\ remote' = [remote EXCEPT !.version = @ + 1]
    /\ UNCHANGED <<file, job, pc, got, attempts, stream, offset, disk, err, faults>>

\* The application ends; nothing looks at the job again after a restart.
crash ==
    /\ pc \notin {"end", "crashed"}
    /\ pc' = "crashed"
    /\ UNCHANGED <<file, remote, job, got, attempts, stream, offset, disk, err, faults>>

Step ==
    \/ insert_transfer_job \/ start_running
    \/ create_partial \/ check_revision \/ get_range \/ receive_chunk \/ stream_error
    \/ check_size \/ install_download \/ swap_partial \/ drop_backup
    \/ complete_transfer \/ finish_file_import \/ fail_download
    \/ begin_file_upload \/ upload_file_chunk \/ chunk_accepted \/ complete_upload
    \/ finish_upload_failure

Next == Step \/ remote_changes \/ crash

Spec == Init /\ [][Next]_vars

-----------------------------------------------------------------------------
\* The type of the state of a transfer.
TypeOK ==
    /\ job.status \in {"none", "queued", "running", "completed", "failed"}
    /\ job.done \in 0 .. MaxSize /\ job.total \in 0 .. NoSize
    /\ job.total # NoSize => job.done <= job.total
    /\ disk.dest \in {0, NewFile, OldFile} /\ disk.backup \in {0, OldFile}
    /\ attempts \in 0 .. MaxAttempts
    /\ pc = "end" => ~disk.partial

\* What a download installs are the bytes of one version, in order: a resume
\* continues where the partial file ends, and asks for the expected revision.
\* Without an expected revision a new version of the remote file goes unnoticed,
\* and so does one saved between the check of the revision and the data request.
InstalledInOrder ==
    disk.dest = NewFile /\ (remote.version = 1 \/ (file.revision = 1 /\ ~stream.slipped))
        => \A i \in 1 .. done : got[i] = [version |-> 1, at |-> i]

\* A command that ended has reported its end: the row is completed or failed.
\* Left out are the three ways the code has of leaving it open: a database call
\* that failed, an end of the application, and a download that failed after
\* more was received than the declared size, whose report is refused.
EndReported ==
    pc = "end" /\ faults = 0 /\ (done > file.total => err = "none")
        => job.status \in {"completed", "failed"}

\* An upload reported as completed is stored at the provider with all its bytes.
UploadComplete ==
    file.kind = "upload" /\ job.status = "completed"
        => remote.stored /\ remote.bytes = [i \in 1 .. file.len[1] |-> i]

\* An import never takes in more than the limit, whatever size was declared.
ImportWithinLimit == file.kind = "import" => done <= MaxBytes

\* A resumed download is one version in order, a completed upload is stored whole,
\* an import respects its limit, and every end is reported.
TransfersSafe == TypeOK /\ InstalledInOrder /\ EndReported /\ UploadComplete /\ ImportWithinLimit

\* What the user can still get at: the new file, the old one (under its own
\* name or that of the backup a crash left behind), or nothing any more.
Content ==
    IF disk.dest = NewFile THEN "new"
    ELSE IF file.old => OldFile \in {disk.dest, disk.backup} THEN "old" ELSE "lost"

Contract == INSTANCE TransferContract WITH
    status  <- IF file.kind # "download" \/ job.status = "none" THEN "queued" ELSE job.status,
    content <- IF file.kind = "download" THEN Content ELSE "old"

\* A download keeps its contract through retries, failing calls and crashes: the
\* old content is there until the new one is, and the report is right and final.
DownloadKeepsContract == Contract!Spec
=============================================================================
