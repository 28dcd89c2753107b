--------------------------- MODULE ServicesProofs ---------------------------
(***************************************************************************)
(* Proofs about the storage service and the planner.                       *)
(* StorageTransfers: its invariants hold, and it implements                *)
(* TransferContract, for files and limits of any size.                     *)
(* StorageAccounts: the key ring, the account row and the refresh lock     *)
(* agree, for any number of concurrent commands and authorizations.        *)
(* FolderDownload: nothing is overwritten and nothing left out, whatever   *)
(* graph the remote folders form.  TaskSeries, Calendar, Reminders: their  *)
(* invariants, for any number of tasks, events and items.                  *)
(***************************************************************************)
EXTENDS TaskSeries, Calendar, Reminders, StorageTransfers, StorageAccounts, FolderDownload,
        FiniteSetTheorems, FunctionTheorems, SequenceTheorems, WellFoundedInduction, TLAPS

(***************************************************************************)
(* Transfers: the inductive invariant.                                     *)
(***************************************************************************)
DownPC == {"create", "check", "get", "stream", "install", "swap", "swap_back", "drop_backup",
           "installed", "imported"}
UpPC == {"begin", "chunk", "acked", "uploaded", "abort"}
Working == DownPC \cup UpPC \cup {"fail"}

\* Every variable has its type.
Types ==
  /\ file \in [kind : {"download", "import", "upload"}, stable : BOOLEAN, range : BOOLEAN,
               total : 0 .. NoSize, revision : {0, 1}, old : BOOLEAN, len : FileLengths]
  /\ remote \in [version : 1 .. MaxVersion, bytes : Seq(Nat), stored : BOOLEAN]
  /\ job \in [status : {"none", "queued", "running", "completed", "failed"},
              done : 0 .. MaxSize, total : 0 .. NoSize]
  /\ pc \in {"start", "queued", "end", "crashed"} \cup Working
  /\ got \in Seq([version : 1 .. MaxVersion, at : Nat])
  /\ attempts \in 0 .. MaxAttempts
  /\ stream \in [version : 0 .. MaxVersion, base : Nat, slipped : BOOLEAN]
  /\ offset \in Nat
  /\ disk \in [dest : {0, NewFile, OldFile}, partial : BOOLEAN, backup : {0, OldFile}]
  /\ faults \in Nat

\* The row follows the command, and the command its kind.
Phases ==
  /\ pc = "start" => job.status = "none"
  /\ pc = "queued" => job.status = "queued"
  /\ pc \in Working => job.status = "running"
  /\ pc \in DownPC => file.kind # "upload"
  /\ pc \in UpPC => file.kind = "upload"
  /\ pc = "imported" => file.kind = "import"
  /\ pc \in {"fail", "swap_back"} => err # "none"
  /\ pc \in {"start", "queued", "create"} => done = 0
  /\ job.total # NoSize => job.done <= job.total

\* Where the old and the new file are.
Kept == disk.dest = (IF file.old THEN OldFile ELSE 0) /\ disk.backup = 0
Disks ==
  /\ pc \in {"start", "queued", "create", "check", "get", "stream", "install"} \cup UpPC => Kept
  /\ pc \in {"swap", "swap_back"} => file.old /\ disk.dest = 0 /\ disk.backup = OldFile
  /\ pc \in {"drop_backup", "installed", "imported"} => disk.dest = NewFile /\ ~disk.partial
  /\ pc = "fail" => Content = "old"
  /\ file.old => file.kind = "download"
  /\ file.kind = "upload" => disk.dest # NewFile
  /\ pc \in {"start", "queued", "end"} \/ file.kind = "upload" => ~disk.partial

\* The partial file of a download or an import: one version in order, as long as
\* the file does not change unnoticed.
Unchanged == remote.version = 1 \/ (file.revision = 1 /\ ~stream.slipped)
Ordered == \A i \in 1 .. done : got[i] = [version |-> 1, at |-> i]
Down ==
  file.kind # "upload" =>
    /\ stream.base = 0 /\ done <= MaxSize
    /\ pc \in {"check", "get"} /\ done > 0 => file.range
    /\ pc \in {"get", "stream"} =>
         /\ stream.version \in 1 .. remote.version
         /\ file.revision = 1 /\ ~stream.slipped => stream.version = 1
    /\ Unchanged => Ordered
    /\ file.kind = "import" => done <= MaxBytes
    /\ pc \in {"install", "swap", "drop_backup", "installed", "imported"} /\ file.stable /\ file.total # NoSize
         => done = file.total

\* What the provider has of an upload: the chunks that were acknowledged, and at
\* most one more.
Up ==
  file.kind = "upload" =>
    /\ file.total = file.len[1] /\ offset = done /\ offset <= file.len[1]
    /\ \A i \in 1 .. Len(remote.bytes) : remote.bytes[i] = i
    /\ Len(remote.bytes) \in {offset, offset + 1} /\ Len(remote.bytes) <= file.len[1]
    /\ pc \in {"start", "queued", "begin", "chunk", "acked"} /\ file.len[1] > 0 => offset < file.len[1]
    /\ remote.stored => Len(remote.bytes) = file.len[1]
    /\ pc = "uploaded" => remote.stored /\ offset = file.len[1]
    /\ job.status = "completed" => remote.stored

IInv == Types /\ Phases /\ Disks /\ Down /\ Up /\ EndReported

-----------------------------------------------------------------------------
(* What the bounds and types say about sizes.                              *)
LEMMA Sizes ==
  ASSUME BoundsAssumption, Types
  PROVE  /\ NoSize = MaxSize + 1 /\ MaxSize \in Nat /\ NoSize \in Nat /\ MaxVersion \in Nat
         /\ file.total \in 0 .. NoSize /\ done \in Nat
         /\ \A v \in 1 .. MaxVersion : file.len[v] \in 0 .. MaxSize
         /\ 1 \in 1 .. MaxVersion /\ remote.version \in 1 .. MaxVersion
BY DEF BoundsAssumption, Types, NoSize, FileLengths, done

(* Which actions write which variable.                                     *)
LEMMA Frames ==
  ASSUME Next
  PROVE  /\ file' = file
         /\ got' = got \/ receive_chunk \/ chunk_accepted
         /\ stream' = stream \/ check_revision \/ get_range
         /\ disk' = disk \/ create_partial \/ install_download \/ swap_partial \/ drop_backup \/ fail_download
         /\ remote' = remote \/ upload_file_chunk \/ remote_changes
         /\ offset' = offset \/ chunk_accepted
         /\ faults' = faults \/ faults' = faults + 1
         /\ attempts' = attempts \/ (attempts < MaxAttempts /\ attempts' = attempts + 1)
<1>1. file' = file
  BY DEF Next, Step, insert_transfer_job, start_running, create_partial, check_revision,
       get_range, receive_chunk, stream_error, check_size, install_download, swap_partial, drop_backup,
       complete_transfer, finish_file_import, fail_download, begin_file_upload, upload_file_chunk,
       chunk_accepted, complete_upload, finish_upload_failure, remote_changes, crash
<1>2. got' = got \/ receive_chunk \/ chunk_accepted
  BY DEF Next, Step, insert_transfer_job, start_running, create_partial, check_revision,
       get_range, receive_chunk, stream_error, check_size, install_download, swap_partial, drop_backup,
       complete_transfer, finish_file_import, fail_download, begin_file_upload, upload_file_chunk,
       chunk_accepted, complete_upload, finish_upload_failure, remote_changes, crash
<1>3. stream' = stream \/ check_revision \/ get_range
  BY DEF Next, Step, insert_transfer_job, start_running, create_partial, check_revision,
       get_range, receive_chunk, stream_error, check_size, install_download, swap_partial, drop_backup,
       complete_transfer, finish_file_import, fail_download, begin_file_upload, upload_file_chunk,
       chunk_accepted, complete_upload, finish_upload_failure, remote_changes, crash
<1>4. disk' = disk \/ create_partial \/ install_download \/ swap_partial \/ drop_backup \/ fail_download
  BY DEF Next, Step, insert_transfer_job, start_running, create_partial, check_revision,
       get_range, receive_chunk, stream_error, check_size, install_download, swap_partial, drop_backup,
       complete_transfer, finish_file_import, fail_download, begin_file_upload, upload_file_chunk,
       chunk_accepted, complete_upload, finish_upload_failure, remote_changes, crash
<1>5. remote' = remote \/ upload_file_chunk \/ remote_changes
  BY DEF Next, Step, insert_transfer_job, start_running, create_partial, check_revision,
       get_range, receive_chunk, stream_error, check_size, install_download, swap_partial, drop_backup,
       complete_transfer, finish_file_import, fail_download, begin_file_upload, upload_file_chunk,
       chunk_accepted, complete_upload, finish_upload_failure, remote_changes, crash
<1>6. offset' = offset \/ chunk_accepted
  BY DEF Next, Step, insert_transfer_job, start_running, create_partial, check_revision,
       get_range, receive_chunk, stream_error, check_size, install_download, swap_partial, drop_backup,
       complete_transfer, finish_file_import, fail_download, begin_file_upload, upload_file_chunk,
       chunk_accepted, complete_upload, finish_upload_failure, remote_changes, crash
<1>7. faults' = faults \/ faults' = faults + 1
  BY DEF Next, Step, insert_transfer_job, start_running, create_partial, check_revision,
       get_range, receive_chunk, stream_error, check_size, install_download, swap_partial, drop_backup,
       complete_transfer, finish_file_import, fail_download, begin_file_upload, upload_file_chunk,
       chunk_accepted, complete_upload, finish_upload_failure, remote_changes, crash,
       update_transfer, Fault
<1>8. attempts' = attempts \/ (attempts < MaxAttempts /\ attempts' = attempts + 1)
  BY DEF Next, Step, insert_transfer_job, start_running, create_partial, check_revision,
       get_range, receive_chunk, stream_error, check_size, install_download, swap_partial, drop_backup,
       complete_transfer, finish_file_import, fail_download, begin_file_upload, upload_file_chunk,
       chunk_accepted, complete_upload, finish_upload_failure, remote_changes, crash,
       Interrupted, can_resume_download
<1> QED
  BY <1>1, <1>2, <1>3, <1>4, <1>5, <1>6, <1>7, <1>8

(* What a command may write into the row.                                  *)
Report ==
  \/ job' = job
  \/ /\ job' \in [status : {"none", "queued", "running", "completed", "failed"},
                  done : 0 .. MaxSize, total : 0 .. NoSize]
     /\ job'.total # NoSize => job'.done <= job'.total

(* A step reports to the contract only what the contract allows.           *)
LEMMA Reports ==
  ASSUME BoundsAssumption, IInv, Next
  PROVE  Report
<1>0. /\ BoundsAssumption /\ Types /\ Phases /\ Down /\ Up
      /\ pc \in DownPC => done <= MaxSize /\ stream.base = 0
  BY DEF IInv, Down, Phases
<1>f. /\ NoSize = MaxSize + 1 /\ MaxSize \in Nat /\ file.total \in 0 .. NoSize /\ done \in Nat
      /\ 0 \in 0 .. MaxSize
  BY <1>0, Sizes
<1>1. CASE insert_transfer_job
  <2>1. job' = job \/ job' = [status |-> "queued", done |-> 0, total |-> file.total]
    BY <1>1 DEF insert_transfer_job
  <2> QED
    BY <2>1, <1>f DEF Report
<1>2. CASE start_running
  <2>1. job' = job \/ job' = [status |-> "running", done |-> 0, total |-> file.total]
    BY <1>2 DEF start_running, update_transfer
  <2> QED
    BY <2>1, <1>f DEF Report
<1>3. CASE receive_chunk
  <2>1. stream.version \in 1 .. MaxVersion /\ done + 1 <= file.len[stream.version] /\ stream.base = 0
    <3>1. stream.version \in 1 .. remote.version /\ stream.base = 0 /\ done < file.len[stream.version]
      BY <1>0, <1>3, <1>f DEF receive_chunk, Received, Down, Phases, DownPC
    <3> QED
      BY <3>1, <1>0, <1>f, Sizes
  <2>2. done + 1 \in 0 .. MaxSize /\ done + 1 \in 0 .. NoSize
    BY <2>1, <1>0, <1>f, Sizes
  <2> DEFINE total == IF file.total # NoSize /\ done + 1 > file.total THEN done + 1 ELSE file.total
  <2>3. total \in 0 .. NoSize
    BY <2>2, <1>f
  <2>4. job' = job \/ (job' = [status |-> "running", done |-> done + 1, total |-> total]
                       /\ Acceptable("running", done + 1, total))
    BY <1>3 DEF receive_chunk, update_transfer
  <2>5. CASE job' = job
    BY <2>5 DEF Report
  <2>6. CASE job' = [status |-> "running", done |-> done + 1, total |-> total]
             /\ Acceptable("running", done + 1, total)
    <3> HIDE DEF total
    <3> QED
      BY <2>2, <2>3, <2>6 DEF Report, Acceptable
  <2> QED
    BY <2>4, <2>5, <2>6
<1>4. CASE complete_transfer \/ finish_file_import \/ fail_download
  <2>1. done \in 0 .. MaxSize
    BY <1>4, <1>0, <1>f DEF Down, Phases, DownPC, complete_transfer, finish_file_import, fail_download
  <2>2. CompletedTotal \in 0 .. NoSize
    BY <2>1, <1>f DEF CompletedTotal
  <2>3. job' = job \/ \E status \in {"completed", "failed"}, total \in {CompletedTotal, file.total} :
           job' = [status |-> status, done |-> done, total |-> total] /\ Acceptable(status, done, total)
    BY <1>4 DEF complete_transfer, finish_file_import, fail_download, update_transfer
  <2>4. CASE job' = job
    BY <2>4 DEF Report
  <2>5. ASSUME NEW status \in {"completed", "failed"}, NEW total \in {CompletedTotal, file.total},
               job' = [status |-> status, done |-> done, total |-> total], Acceptable(status, done, total)
        PROVE  Report
    BY <2>1, <2>2, <2>5, <1>f DEF Report, Acceptable
  <2> QED
    BY <2>3, <2>4, <2>5
<1>5. CASE chunk_accepted \/ complete_upload \/ finish_upload_failure
  <2>1. file.kind = "upload"
    BY <1>5, <1>0 DEF Phases, UpPC, chunk_accepted, complete_upload, finish_upload_failure
  <2>2. Len(remote.bytes) \in 0 .. MaxSize /\ offset \in 0 .. MaxSize /\ file.len[1] \in 0 .. MaxSize
    <3>1. remote.bytes \in Seq(Nat) /\ file.len[1] \in 0 .. MaxSize /\ offset \in Nat
      BY <1>0, Sizes DEF Types
    <3> QED
      BY <2>1, <3>1, <1>0, <1>f DEF Up
  <2>3. job' = job \/ \E status \in {"running", "completed", "failed"},
                        n \in {Len(remote.bytes), offset, file.len[1]} :
           job' = [status |-> status, done |-> n, total |-> file.total] /\ Acceptable(status, n, file.total)
    BY <1>5 DEF chunk_accepted, complete_upload, finish_upload_failure, update_transfer
  <2>4. CASE job' = job
    BY <2>4 DEF Report
  <2>5. ASSUME NEW status \in {"running", "completed", "failed"},
               NEW n \in {Len(remote.bytes), offset, file.len[1]},
               job' = [status |-> status, done |-> n, total |-> file.total], Acceptable(status, n, file.total)
        PROVE  Report
    BY <2>2, <2>5, <1>f DEF Report, Acceptable
  <2> QED
    BY <2>3, <2>4, <2>5
<1>6. ASSUME job' = job PROVE Report
  BY <1>6 DEF Report
<1> QED
  BY <1>1, <1>2, <1>3, <1>4, <1>5, <1>6
  DEF Next, Step, insert_transfer_job, start_running, create_partial, check_revision,
       get_range, receive_chunk, stream_error, check_size, install_download, swap_partial, drop_backup,
       complete_transfer, finish_file_import, fail_download, begin_file_upload, upload_file_chunk,
       chunk_accepted, complete_upload, finish_upload_failure, remote_changes, crash

-----------------------------------------------------------------------------
(* The types stay.                                                         *)
LEMMA TypesStep ==
  ASSUME BoundsAssumption, IInv, Next
  PROVE  Types'
<1>0. BoundsAssumption /\ Types /\ Phases /\ Disks /\ Down
  BY DEF IInv
<1>f. /\ NoSize = MaxSize + 1 /\ MaxSize \in Nat /\ done \in Nat
      /\ 1 \in 1 .. MaxVersion /\ remote.version \in 1 .. MaxVersion
      /\ MaxVersion \in Nat /\ MaxAttempts \in Nat
  BY <1>0, Sizes DEF BoundsAssumption
<1>1. (file \in [kind : {"download", "import", "upload"}, stable : BOOLEAN, range : BOOLEAN,
               total : 0 .. NoSize, revision : {0, 1}, old : BOOLEAN, len : FileLengths])'
  BY <1>0, Frames DEF Types, FileLengths, NoSize
<1>r. /\ remote \in [version : 1 .. MaxVersion, bytes : Seq(Nat), stored : BOOLEAN]
      /\ stream \in [version : 0 .. MaxVersion, base : Nat, slipped : BOOLEAN]
      /\ disk \in [dest : {0, NewFile, OldFile}, partial : BOOLEAN, backup : {0, OldFile}]
      /\ got \in Seq([version : 1 .. MaxVersion, at : Nat])
  BY <1>0 DEF Types
<1>2. (remote \in [version : 1 .. MaxVersion, bytes : Seq(Nat), stored : BOOLEAN])'
  <2>1. CASE upload_file_chunk
    <3>1. PICK taken \in BOOLEAN :
             LET bytes == IF taken /\ file.len[1] > 0
                          THEN Append(SubSeq(remote.bytes, 1, offset), done + 1) ELSE remote.bytes
             IN remote' = [remote EXCEPT !.bytes = bytes,
                                         !.stored = @ \/ (taken /\ Len(bytes) >= file.len[1])]
      BY <2>1 DEF upload_file_chunk
    <3> DEFINE bytes == IF taken /\ file.len[1] > 0
                        THEN Append(SubSeq(remote.bytes, 1, offset), done + 1) ELSE remote.bytes
    <3>2. remote.bytes \in Seq(Nat) /\ offset \in Nat
      BY <1>0 DEF Types
    <3>3. bytes \in Seq(Nat)
      <4>1. \A i \in 1 .. offset : remote.bytes[i] \in Nat
        <5>1. offset <= Len(remote.bytes)
          BY <2>1, <3>2, <1>0, LenProperties DEF upload_file_chunk, Phases, UpPC, Up, IInv
        <5> QED
          BY <5>1, <3>2, ElementOfSeq
      <4>2. SubSeq(remote.bytes, 1, offset) \in Seq(Nat)
        BY <4>1, <3>2, SubSeqProperties
      <4> QED
        BY <4>2, <3>2, <1>f, AppendProperties
    <3> HIDE DEF bytes
    <3>4. remote' = [remote EXCEPT !.bytes = bytes, !.stored = @ \/ (taken /\ Len(bytes) >= file.len[1])]
      BY <3>1 DEF bytes
    <3>5. (remote.stored \/ (taken /\ Len(bytes) >= file.len[1])) \in BOOLEAN
      OBVIOUS
    <3> QED
      BY <3>3, <3>4, <3>5, <1>r
  <2>2. CASE remote_changes
    <3>1. remote' = [remote EXCEPT !.version = @ + 1] /\ remote.version + 1 \in 1 .. MaxVersion
      BY <2>2, <1>f DEF remote_changes
    <3> QED
      BY <3>1, <1>r
  <2> QED
    BY <2>1, <2>2, <1>0, Frames DEF Types
<1>3. (job \in [status : {"none", "queued", "running", "completed", "failed"},
              done : 0 .. MaxSize, total : 0 .. NoSize])'
  BY <1>0, Reports DEF Report, Types, NoSize
<1>4. (pc \in {"start", "queued", "end", "crashed"} \cup Working)'
  <2>1. CASE insert_transfer_job \/ start_running \/ create_partial \/ install_download \/ swap_partial
             \/ drop_backup \/ complete_transfer \/ finish_file_import \/ fail_download
    BY <2>1 DEF Working, DownPC, UpPC, update_transfer, insert_transfer_job, start_running, create_partial,
       install_download, swap_partial, drop_backup, complete_transfer, finish_file_import, fail_download
  <2>2. CASE check_revision \/ get_range \/ stream_error \/ check_size
    BY <2>2 DEF Working, DownPC, UpPC, Interrupted, check_revision, get_range, stream_error, check_size
  <2>3. CASE receive_chunk
    BY <2>3 DEF Working, DownPC, UpPC, update_transfer, receive_chunk
  <2>4. CASE begin_file_upload \/ upload_file_chunk \/ chunk_accepted \/ complete_upload
             \/ finish_upload_failure
    BY <2>4 DEF Working, DownPC, UpPC, update_transfer, begin_file_upload, upload_file_chunk,
       chunk_accepted, complete_upload, finish_upload_failure
  <2>5. CASE remote_changes \/ crash
    BY <2>5, <1>0 DEF Types, remote_changes, crash
  <2> QED
    BY <2>1, <2>2, <2>3, <2>4, <2>5 DEF Next, Step
<1>5. (got \in Seq([version : 1 .. MaxVersion, at : Nat]))'
  <2> DEFINE Chunk == [version : 1 .. MaxVersion, at : Nat]
  <2>a. ASSUME NEW e \in Chunk, got' = got \/ got' = Append(got, e) PROVE got' \in Seq(Chunk)
    <3>1. got \in Seq(Chunk)
      BY <1>r
    <3> HIDE DEF Chunk
    <3> QED
      BY <2>a, <3>1, AppendProperties
  <2>1. CASE receive_chunk
    <3>1. got' = got \/ got' = Append(got, [version |-> stream.version, at |-> Received + 1])
      BY <2>1 DEF receive_chunk
    <3>2. stream.version \in 1 .. MaxVersion /\ Received + 1 \in Nat
      BY <2>1, <1>0, <1>f DEF Types, receive_chunk, Phases, DownPC, Down, Received
    <3>3. [version |-> stream.version, at |-> Received + 1] \in [version : 1 .. MaxVersion, at : Nat]
      BY <3>2
    <3> QED
      BY <3>1, <3>3, <2>a
  <2>2. CASE chunk_accepted
    <3>1. got' = got \/ got' = Append(got, [version |-> 1, at |-> done + 1])
      BY <2>2 DEF chunk_accepted
    <3>2. [version |-> 1, at |-> done + 1] \in [version : 1 .. MaxVersion, at : Nat]
      BY <1>f
    <3> QED
      BY <3>1, <3>2, <2>a
  <2> QED
    BY <2>1, <2>2, <1>0, Frames DEF Types
<1>6. (attempts \in 0 .. MaxAttempts)'
  <2>1. attempts' = attempts \/ (attempts < MaxAttempts /\ attempts' = attempts + 1)
    BY Frames
  <2>2. attempts \in 0 .. MaxAttempts
    BY <1>0 DEF Types
  <2> QED
    BY <2>1, <2>2, <1>f
<1>7. (stream \in [version : 0 .. MaxVersion, base : Nat, slipped : BOOLEAN])'
  <2>1. CASE check_revision
    <3>1. stream' = stream \/ stream' = [stream EXCEPT !.version = remote.version]
      BY <2>1 DEF check_revision
    <3>2. remote.version \in 0 .. MaxVersion /\ stream \in [version : 0 .. MaxVersion, base : Nat, slipped : BOOLEAN]
      BY <1>r, <1>f
    <3> QED
      BY <3>1, <3>2
  <2>2. CASE get_range
    <3> DEFINE base    == IF file.range THEN 0 ELSE done
               slipped == stream.slipped \/ stream.version # remote.version
    <3>1. remote.version \in 0 .. MaxVersion /\ base \in Nat /\ slipped \in BOOLEAN
      BY <1>f
    <3>2. stream' = stream \/ stream' = [version |-> remote.version, base |-> base, slipped |-> slipped]
      BY <2>2 DEF get_range
    <3> HIDE DEF base, slipped
    <3> QED
      BY <3>1, <3>2, <1>r
  <2> QED
    BY <2>1, <2>2, <1>0, Frames DEF Types
<1>8. (offset \in Nat)'
  BY <1>0, Frames, LenProperties DEF Types, chunk_accepted
<1>9. (disk \in [dest : {0, NewFile, OldFile}, partial : BOOLEAN, backup : {0, OldFile}])'
  <2>1. CASE install_download
    <3>1. disk.dest \in {0, OldFile}
      BY <2>1, <1>0 DEF install_download, Disks, Kept
    <3> QED
      BY <2>1, <3>1, <1>r DEF install_download, NewFile, OldFile
  <2>2. CASE create_partial \/ fail_download
    BY <2>2, <1>r DEF create_partial, fail_download
  <2>3. CASE swap_partial
    BY <2>3, <1>r DEF swap_partial
  <2>4. CASE drop_backup
    BY <2>4, <1>r DEF drop_backup
  <2> QED
    BY <2>1, <2>2, <2>3, <2>4, <1>r, Frames
<1>10. (faults \in Nat)'
  BY <1>0, Frames DEF Types
<1> QED
  BY <1>1, <1>2, <1>3, <1>4, <1>5, <1>6, <1>7, <1>8, <1>9, <1>10 DEF Types

(* The phases stay.                                                        *)
LEMMA PhasesStep ==
  ASSUME BoundsAssumption, IInv, Next
  PROVE  Phases'
<1>0. Types /\ Phases
  BY DEF IInv
<1>f. file' = file /\ pc \in {"start", "queued", "end", "crashed"} \cup Working
  BY <1>0, Frames DEF Types
<1>r. (job.total # NoSize => job.done <= job.total)'
  BY <1>0, Reports DEF Report, Phases, NoSize
<1>1. CASE insert_transfer_job
  BY <1>1, <1>0, <1>f, <1>r DEF insert_transfer_job, Phases, Working, DownPC, UpPC, done
<1>2. CASE start_running
  BY <1>2, <1>0, <1>f, <1>r DEF start_running, update_transfer, Phases, Working, DownPC, UpPC, done
<1>3. CASE create_partial
  BY <1>3, <1>0, <1>f, <1>r DEF create_partial, Phases, Working, DownPC, UpPC, done
<1>4. CASE check_revision
  BY <1>4, <1>0, <1>f, <1>r DEF check_revision, Interrupted, Phases, Working, DownPC, UpPC, done
<1>5. CASE get_range
  BY <1>5, <1>0, <1>f, <1>r DEF get_range, Interrupted, Phases, Working, DownPC, UpPC, done
<1>6. CASE receive_chunk
  <2>1. /\ pc = "stream" /\ file.kind # "upload" /\ job.status = "running"
    BY <1>6, <1>0 DEF receive_chunk, Phases, Working, DownPC
  <2>2. /\ job' = job \/ job'.status = "running"
        /\ (pc' = "stream" /\ UNCHANGED err) \/ (pc' = "fail" /\ err' # "none")
    BY <1>6, <2>1 DEF receive_chunk, update_transfer
  <2> QED
    BY <2>1, <2>2, <1>f, <1>r DEF Phases, Working, DownPC, UpPC
<1>7. CASE stream_error
  BY <1>7, <1>0, <1>f, <1>r DEF stream_error, Interrupted, Phases, Working, DownPC, UpPC, done
<1>8. CASE check_size
  BY <1>8, <1>0, <1>f, <1>r DEF check_size, Phases, Working, DownPC, UpPC, done
<1>9. CASE install_download
  BY <1>9, <1>0, <1>f, <1>r DEF install_download, Phases, Working, DownPC, UpPC, done
<1>10. CASE swap_partial
  BY <1>10, <1>0, <1>f, <1>r DEF swap_partial, Phases, Working, DownPC, UpPC, done
<1>11. CASE drop_backup
  BY <1>11, <1>0, <1>f, <1>r DEF drop_backup, Phases, Working, DownPC, UpPC, done
<1>12. CASE complete_transfer
  BY <1>12, <1>0, <1>f, <1>r DEF complete_transfer, update_transfer, Phases, Working, DownPC, UpPC, done
<1>13. CASE finish_file_import
  BY <1>13, <1>0, <1>f, <1>r DEF finish_file_import, update_transfer, Phases, Working, DownPC, UpPC, done
<1>14. CASE fail_download
  BY <1>14, <1>0, <1>f, <1>r DEF fail_download, update_transfer, Phases, Working, DownPC, UpPC, done
<1>15. CASE begin_file_upload
  BY <1>15, <1>0, <1>f, <1>r DEF begin_file_upload, Phases, Working, DownPC, UpPC, done
<1>16. CASE upload_file_chunk
  BY <1>16, <1>0, <1>f, <1>r DEF upload_file_chunk, Phases, Working, DownPC, UpPC, done
<1>17. CASE chunk_accepted
  <2>1. /\ pc = "acked" /\ file.kind = "upload" /\ job.status = "running"
    BY <1>17, <1>0 DEF chunk_accepted, Phases, Working, UpPC
  <2>2. /\ job' = job \/ job'.status = "running"
        /\ pc' \in {"chunk", "uploaded", "abort"}
    BY <1>17, <2>1 DEF chunk_accepted, update_transfer
  <2> QED
    BY <2>1, <2>2, <1>f, <1>r DEF Phases, Working, DownPC, UpPC
<1>18. CASE complete_upload
  BY <1>18, <1>0, <1>f, <1>r DEF complete_upload, update_transfer, Phases, Working, DownPC, UpPC, done
<1>19. CASE finish_upload_failure
  BY <1>19, <1>0, <1>f, <1>r DEF finish_upload_failure, update_transfer, Phases, Working, DownPC, UpPC, done
<1>20. CASE remote_changes
  BY <1>20, <1>0, <1>f, <1>r DEF remote_changes, Phases, Working, DownPC, UpPC, done
<1>21. CASE crash
  BY <1>21, <1>0, <1>f, <1>r DEF crash, Phases, Working, DownPC, UpPC, done
<1> QED
  BY <1>1, <1>2, <1>3, <1>4, <1>5, <1>6, <1>7, <1>8, <1>9, <1>10, <1>11, <1>12, <1>13, <1>14, <1>15, <1>16, <1>17, <1>18, <1>19, <1>20, <1>21 DEF Next, Step

(* The old or the new file stays where Disks says.                         *)
LEMMA DisksStep ==
  ASSUME BoundsAssumption, IInv, Next
  PROVE  Disks'
<1>0. Phases /\ Disks
  BY DEF IInv
<1>f. /\ file' = file /\ pc \in {"start", "queued", "end", "crashed"} \cup Working
      /\ disk \in [dest : {0, NewFile, OldFile}, partial : BOOLEAN, backup : {0, OldFile}]
  BY Frames DEF IInv, Types
<1>1. CASE insert_transfer_job
  BY <1>1, <1>0, <1>f DEF insert_transfer_job, Phases, Disks, Kept, Content, NewFile, OldFile, Working, DownPC, UpPC
<1>2. CASE start_running
  BY <1>2, <1>0, <1>f DEF start_running, update_transfer, Phases, Disks, Kept, Content, NewFile, OldFile, Working, DownPC, UpPC
<1>3. CASE create_partial
  BY <1>3, <1>0, <1>f DEF create_partial, Phases, Disks, Kept, Content, NewFile, OldFile, Working, DownPC, UpPC
<1>4. CASE check_revision
  BY <1>4, <1>0, <1>f DEF check_revision, Interrupted, Phases, Disks, Kept, Content, NewFile, OldFile, Working, DownPC, UpPC
<1>5. CASE get_range
  BY <1>5, <1>0, <1>f DEF get_range, Interrupted, Phases, Disks, Kept, Content, NewFile, OldFile, Working, DownPC, UpPC
<1>6. CASE receive_chunk
  BY <1>6, <1>0, <1>f DEF receive_chunk, update_transfer, Phases, Disks, Kept, Content, NewFile, OldFile, Working, DownPC, UpPC
<1>7. CASE stream_error
  BY <1>7, <1>0, <1>f DEF stream_error, Interrupted, Phases, Disks, Kept, Content, NewFile, OldFile, Working, DownPC, UpPC
<1>8. CASE check_size
  BY <1>8, <1>0, <1>f DEF check_size, Phases, Disks, Kept, Content, NewFile, OldFile, Working, DownPC, UpPC
<1>9. CASE install_download
  <2>1. \/ disk' = disk /\ pc' = "fail" /\ err' = "local"
        \/ disk' = [dest |-> NewFile, partial |-> FALSE, backup |-> 0] /\ pc' = "installed"
        \/ file.old /\ disk' = [dest |-> 0, partial |-> disk.partial, backup |-> OldFile] /\ pc' = "swap"
    BY <1>9, <1>0, <1>f DEF install_download, Disks, Kept, OldFile
  <2>2. Kept /\ file.kind # "upload" /\ (file.old => file.kind = "download")
    BY <1>9, <1>0 DEF install_download, Phases, Disks, DownPC
  <2> QED
    BY <2>1, <2>2, <1>f DEF Disks, Kept, Content, NewFile, OldFile, UpPC
<1>10. CASE swap_partial
  BY <1>10, <1>0, <1>f DEF swap_partial, Phases, Disks, Kept, Content, NewFile, OldFile, Working, DownPC, UpPC
<1>11. CASE drop_backup
  <2>1. file.kind # "upload" /\ (file.old => file.kind = "download")
    BY <1>11, <1>0 DEF drop_backup, Phases, Disks, DownPC
  <2>2. CASE pc = "drop_backup"
    <3>1. disk' = disk \/ disk' = [disk EXCEPT !.backup = 0]
      BY <2>2, <1>11, <1>f DEF drop_backup
    <3>2. disk'.dest = NewFile /\ ~disk'.partial
      BY <2>2, <3>1, <1>0, <1>f DEF Disks
    <3> QED
      BY <2>1, <2>2, <3>2, <1>11, <1>f DEF drop_backup, Disks, UpPC
  <2>3. CASE pc = "swap_back"
    <3>1. disk' = disk \/ disk' = [dest |-> disk.backup, partial |-> disk.partial, backup |-> 0]
      BY <2>3, <1>11, <1>f DEF drop_backup
    <3>2. file.old /\ disk'.dest # NewFile /\ OldFile \in {disk'.dest, disk'.backup}
      BY <2>3, <3>1, <1>0, <1>f DEF Disks, NewFile, OldFile
    <3> QED
      BY <2>1, <2>3, <3>2, <1>11, <1>f DEF drop_backup, Disks, Content, UpPC
  <2> QED
    BY <2>2, <2>3, <1>11 DEF drop_backup
<1>12. CASE complete_transfer
  BY <1>12, <1>0, <1>f DEF complete_transfer, update_transfer, Phases, Disks, Kept, Content, NewFile, OldFile, Working, DownPC, UpPC
<1>13. CASE finish_file_import
  BY <1>13, <1>0, <1>f DEF finish_file_import, update_transfer, Phases, Disks, Kept, Content, NewFile, OldFile, Working, DownPC, UpPC
<1>14. CASE fail_download
  BY <1>14, <1>0, <1>f DEF fail_download, update_transfer, Phases, Disks, Kept, Content, NewFile, OldFile, Working, DownPC, UpPC
<1>15. CASE begin_file_upload
  BY <1>15, <1>0, <1>f DEF begin_file_upload, Phases, Disks, Kept, Content, NewFile, OldFile, Working, DownPC, UpPC
<1>16. CASE upload_file_chunk
  BY <1>16, <1>0, <1>f DEF upload_file_chunk, Phases, Disks, Kept, Content, NewFile, OldFile, Working, DownPC, UpPC
<1>17. CASE chunk_accepted
  BY <1>17, <1>0, <1>f DEF chunk_accepted, update_transfer, Phases, Disks, Kept, Content, NewFile, OldFile, Working, DownPC, UpPC
<1>18. CASE complete_upload
  BY <1>18, <1>0, <1>f DEF complete_upload, update_transfer, Phases, Disks, Kept, Content, NewFile, OldFile, Working, DownPC, UpPC
<1>19. CASE finish_upload_failure
  BY <1>19, <1>0, <1>f DEF finish_upload_failure, update_transfer, Phases, Disks, Kept, Content, NewFile, OldFile, Working, DownPC, UpPC
<1>20. CASE remote_changes
  BY <1>20, <1>0, <1>f DEF remote_changes, Phases, Disks, Kept, Content, NewFile, OldFile, Working, DownPC, UpPC
<1>21. CASE crash
  BY <1>21, <1>0, <1>f DEF crash, Phases, Disks, Kept, Content, NewFile, OldFile, Working, DownPC, UpPC
<1> QED
  BY <1>1, <1>2, <1>3, <1>4, <1>5, <1>6, <1>7, <1>8, <1>9, <1>10, <1>11, <1>12, <1>13, <1>14, <1>15, <1>16, <1>17, <1>18, <1>19, <1>20, <1>21 DEF Next, Step

(* A partial file stays one version in order.                              *)
LEMMA DownStep ==
  ASSUME BoundsAssumption, IInv, Next
  PROVE  Down'
<1>0. Phases /\ Down
  BY DEF IInv
<1>f. /\ MaxSize \in Nat /\ MaxBytes \in Nat /\ MaxVersion \in Nat /\ done \in Nat /\ file' = file
      /\ remote.version \in 1 .. MaxVersion /\ \A v \in 1 .. MaxVersion : file.len[v] \in 0 .. MaxSize
  BY Sizes, Frames DEF IInv, BoundsAssumption
<1>t. /\ got \in Seq([version : 1 .. MaxVersion, at : Nat])
      /\ stream \in [version : 0 .. MaxVersion, base : Nat, slipped : BOOLEAN]
      /\ remote \in [version : 1 .. MaxVersion, bytes : Seq(Nat), stored : BOOLEAN]
      /\ file.revision \in {0, 1}
  BY DEF IInv, Types
<1>1. CASE insert_transfer_job
  BY <1>1, <1>0, <1>f DEF insert_transfer_job, Phases, Down, Unchanged, Ordered, done, DownPC, UpPC, can_resume_download
<1>2. CASE start_running
  BY <1>2, <1>0, <1>f DEF start_running, update_transfer, Phases, Down, Unchanged, Ordered, done, DownPC, UpPC, can_resume_download
<1>3. CASE create_partial
  BY <1>3, <1>0, <1>f DEF create_partial, Phases, Down, Unchanged, Ordered, done, DownPC, UpPC, can_resume_download
<1>4. CASE check_revision
  <2>1. UNCHANGED <<file, remote, got>> /\ pc = "check" /\ pc' \in {"check", "get", "fail"}
    BY <1>4 DEF check_revision, Interrupted
  <2>2. stream'.base = stream.base /\ stream'.slipped = stream.slipped
    BY <1>4, <1>t DEF check_revision
  <2>3. pc' = "get" => /\ stream'.version = remote.version
                       /\ file.revision # 0 => remote.version = file.revision
    BY <1>4, <1>t DEF check_revision, Interrupted
  <2>4. /\ remote.version \in 1 .. remote.version
        /\ pc' = "get" /\ file.revision = 1 => stream'.version = 1
    BY <2>3, <1>t, <1>f
  <2> QED
    BY <2>1, <2>2, <2>3, <2>4, <1>0 DEF Down, Unchanged, Ordered, done
<1>5. CASE get_range
  <2>1. /\ UNCHANGED <<file, remote, got>> /\ pc = "get" /\ pc' \in {"check", "stream", "fail"}
        /\ file.kind # "upload"
    BY <1>5, <1>0 DEF get_range, Interrupted, Phases, DownPC
  <2>2. CASE stream' = stream /\ (pc' = "check" => (done > 0 => file.range)) /\ pc' # "stream"
    BY <2>1, <2>2, <1>0 DEF Down, Unchanged, Ordered, done
  <2>3. CASE pc' = "stream" /\ stream' = [version |-> remote.version,
                        base    |-> IF file.range THEN 0 ELSE done,
                        slipped |-> stream.slipped \/ stream.version # remote.version]
    <3>1. stream'.base = 0 /\ stream'.version = remote.version
      BY <2>1, <2>3, <1>0, <1>f DEF Down
    <3>2. ~stream'.slipped => ~stream.slipped /\ stream.version = remote.version
      BY <2>3
    <3>3. remote.version \in 1 .. remote.version
      BY <1>t, <1>f
    <3> QED
      BY <2>1, <2>3, <3>1, <3>2, <3>3, <1>0 DEF Down, Unchanged, Ordered, done
  <2> QED
    BY <2>2, <2>3, <1>5 DEF get_range, Interrupted, can_resume_download
<1>6. CASE receive_chunk
  <2>1. /\ stream.base = 0 /\ done + 1 <= file.len[stream.version] /\ pc = "stream"
        /\ stream.version \in 1 .. MaxVersion /\ file.kind # "upload"
    BY <1>6, <1>0, <1>f, <1>t DEF receive_chunk, Received, Down, Phases, DownPC
  <2>2. done + 1 <= MaxSize
    BY <2>1, <1>f, <1>t
  <2>3. UNCHANGED <<file, remote, stream>> /\ pc' \in {"stream", "fail"}
    BY <1>6, <2>1 DEF receive_chunk, update_transfer
  <2>4. CASE got' = got
    BY <2>1, <2>3, <2>4, <1>0 DEF Down, Unchanged, Ordered, done
  <2>5. CASE got' = Append(got, [version |-> stream.version, at |-> done + 1]) /\ ~over_limit(done + 1)
    <3>1. /\ done' = done + 1 /\ got'[done + 1] = [version |-> stream.version, at |-> done + 1]
          /\ \A i \in 1 .. done : got'[i] = got[i]
      BY <2>5, <1>t, AppendProperties DEF done
    <3>2. Unchanged' => Unchanged /\ stream.version = 1
      BY <2>1, <2>3, <1>0, <1>t DEF Unchanged, Down
    <3>3. Unchanged' => Ordered'
      <4> SUFFICES ASSUME Unchanged', NEW i \in 1 .. done'
                   PROVE  got'[i] = [version |-> 1, at |-> i]
        BY DEF Ordered
      <4>1. Ordered /\ stream.version = 1
        BY <3>2, <2>1, <1>0 DEF Down
      <4>2. CASE i = done + 1
        BY <4>1, <4>2, <3>1
      <4>3. CASE i \in 1 .. done
        BY <4>1, <4>3, <3>1 DEF Ordered
      <4> QED
        BY <4>2, <4>3, <3>1, <1>f
    <3>4. file.kind = "import" => done + 1 <= MaxBytes
      BY <2>5, <1>f DEF over_limit
    <3> QED
      BY <3>1, <3>3, <3>4, <2>1, <2>2, <2>3, <1>0, <1>f DEF Down, Unchanged
  <2>6. got' = got \/ (got' = Append(got, [version |-> stream.version, at |-> done + 1]) /\ ~over_limit(done + 1))
    <3>1. Received = done
      BY <2>1, <1>f DEF Received
    <3> QED
      BY <3>1, <1>6 DEF receive_chunk
  <2> QED
    BY <2>4, <2>5, <2>6
<1>7. CASE stream_error
  BY <1>7, <1>0, <1>f DEF stream_error, Interrupted, Phases, Down, Unchanged, Ordered, done, DownPC, UpPC, can_resume_download
<1>8. CASE check_size
  BY <1>8, <1>0, <1>f DEF check_size, Phases, Down, Unchanged, Ordered, done, DownPC, UpPC, can_resume_download
<1>9. CASE install_download
  BY <1>9, <1>0, <1>f DEF install_download, Phases, Down, Unchanged, Ordered, done, DownPC, UpPC, can_resume_download
<1>10. CASE swap_partial
  BY <1>10, <1>0, <1>f DEF swap_partial, Phases, Down, Unchanged, Ordered, done, DownPC, UpPC, can_resume_download
<1>11. CASE drop_backup
  BY <1>11, <1>0, <1>f DEF drop_backup, Phases, Down, Unchanged, Ordered, done, DownPC, UpPC, can_resume_download
<1>12. CASE complete_transfer
  BY <1>12, <1>0, <1>f DEF complete_transfer, update_transfer, Phases, Down, Unchanged, Ordered, done, DownPC, UpPC, can_resume_download
<1>13. CASE finish_file_import
  BY <1>13, <1>0, <1>f DEF finish_file_import, update_transfer, Phases, Down, Unchanged, Ordered, done, DownPC, UpPC, can_resume_download
<1>14. CASE fail_download
  BY <1>14, <1>0, <1>f DEF fail_download, update_transfer, Phases, Down, Unchanged, Ordered, done, DownPC, UpPC, can_resume_download
<1>15. CASE begin_file_upload
  BY <1>15, <1>0, <1>f DEF begin_file_upload, Phases, Down, Unchanged, Ordered, done, DownPC, UpPC, can_resume_download
<1>16. CASE upload_file_chunk
  BY <1>16, <1>0, <1>f DEF upload_file_chunk, Phases, Down, Unchanged, Ordered, done, DownPC, UpPC, can_resume_download
<1>17. CASE chunk_accepted
  BY <1>17, <1>0, <1>f DEF chunk_accepted, update_transfer, Phases, Down, Unchanged, Ordered, done, DownPC, UpPC, can_resume_download
<1>18. CASE complete_upload
  BY <1>18, <1>0, <1>f DEF complete_upload, update_transfer, Phases, Down, Unchanged, Ordered, done, DownPC, UpPC, can_resume_download
<1>19. CASE finish_upload_failure
  BY <1>19, <1>0, <1>f DEF finish_upload_failure, update_transfer, Phases, Down, Unchanged, Ordered, done, DownPC, UpPC, can_resume_download
<1>20. CASE remote_changes
  <2>1. UNCHANGED <<file, pc, got, stream>> /\ remote'.version = remote.version + 1
    BY <1>20, <1>t DEF remote_changes
  <2>2. Unchanged' => Unchanged
    BY <2>1, <1>t, <1>f DEF Unchanged
  <2>3. \A v \in 1 .. remote.version : v \in 1 .. remote.version + 1
    BY <1>t, <1>f
  <2> QED
    BY <2>1, <2>2, <2>3, <1>0 DEF Down, Ordered, done
<1>21. CASE crash
  BY <1>21, <1>0, <1>f DEF crash, Phases, Down, Unchanged, Ordered, done, DownPC, UpPC, can_resume_download
<1> QED
  BY <1>1, <1>2, <1>3, <1>4, <1>5, <1>6, <1>7, <1>8, <1>9, <1>10, <1>11, <1>12, <1>13, <1>14, <1>15, <1>16, <1>17, <1>18, <1>19, <1>20, <1>21 DEF Next, Step

(* The provider keeps holding the chunks it acknowledged.                  *)
LEMMA UpStep ==
  ASSUME BoundsAssumption, IInv, Next
  PROVE  Up'
<1>0. Phases /\ Up
  BY DEF IInv
<1>f. /\ MaxSize \in Nat /\ done \in Nat /\ file' = file /\ file.len[1] \in 0 .. MaxSize
  BY Sizes, Frames DEF IInv
<1>t. /\ got \in Seq([version : 1 .. MaxVersion, at : Nat]) /\ offset \in Nat
      /\ remote \in [version : 1 .. MaxVersion, bytes : Seq(Nat), stored : BOOLEAN]
      /\ remote.bytes \in Seq(Nat) /\ Len(remote.bytes) \in Nat
      /\ 1 \in 1 .. MaxVersion
  BY Sizes DEF IInv, Types
<1>1. CASE insert_transfer_job
  BY <1>1, <1>0, <1>f DEF insert_transfer_job, Phases, Up, done, Working, DownPC, UpPC
<1>2. CASE start_running
  BY <1>2, <1>0, <1>f DEF start_running, update_transfer, Phases, Up, done, Working, DownPC, UpPC
<1>3. CASE create_partial
  BY <1>3, <1>0, <1>f DEF create_partial, Phases, Up, done, Working, DownPC, UpPC
<1>4. CASE check_revision
  BY <1>4, <1>0, <1>f DEF check_revision, Interrupted, Phases, Up, done, Working, DownPC, UpPC
<1>5. CASE get_range
  BY <1>5, <1>0, <1>f DEF get_range, Interrupted, Phases, Up, done, Working, DownPC, UpPC
<1>6. CASE receive_chunk
  BY <1>6, <1>0 DEF receive_chunk, Phases, DownPC, Up
<1>7. CASE stream_error
  BY <1>7, <1>0, <1>f DEF stream_error, Interrupted, Phases, Up, done, Working, DownPC, UpPC
<1>8. CASE check_size
  BY <1>8, <1>0, <1>f DEF check_size, Phases, Up, done, Working, DownPC, UpPC
<1>9. CASE install_download
  BY <1>9, <1>0, <1>f DEF install_download, Phases, Up, done, Working, DownPC, UpPC
<1>10. CASE swap_partial
  BY <1>10, <1>0, <1>f DEF swap_partial, Phases, Up, done, Working, DownPC, UpPC
<1>11. CASE drop_backup
  BY <1>11, <1>0, <1>f DEF drop_backup, Phases, Up, done, Working, DownPC, UpPC
<1>12. CASE complete_transfer
  BY <1>12, <1>0, <1>f DEF complete_transfer, update_transfer, Phases, Up, done, Working, DownPC, UpPC
<1>13. CASE finish_file_import
  BY <1>13, <1>0, <1>f DEF finish_file_import, update_transfer, Phases, Up, done, Working, DownPC, UpPC
<1>14. CASE fail_download
  BY <1>14, <1>0, <1>f DEF fail_download, update_transfer, Phases, Up, done, Working, DownPC, UpPC
<1>15. CASE begin_file_upload
  BY <1>15, <1>0, <1>f DEF begin_file_upload, Phases, Up, done, Working, DownPC, UpPC
<1>16. CASE upload_file_chunk
  <2>1. /\ UNCHANGED <<file, job, got, offset>> /\ pc = "chunk" /\ pc' \in {"chunk", "acked", "abort"}
        /\ file.kind = "upload"
    BY <1>16, <1>0 DEF upload_file_chunk, Phases, UpPC
  <2>2. PICK taken \in BOOLEAN :
           LET bytes == IF taken /\ file.len[1] > 0
                        THEN Append(SubSeq(remote.bytes, 1, offset), done + 1) ELSE remote.bytes
           IN remote' = [remote EXCEPT !.bytes = bytes,
                                       !.stored = @ \/ (taken /\ Len(bytes) >= file.len[1])]
    BY <1>16 DEF upload_file_chunk
  <2>3. CASE taken /\ file.len[1] > 0
    <3> DEFINE kept  == SubSeq(remote.bytes, 1, offset)
               bytes == Append(kept, done + 1)
    <3>1. offset < file.len[1] /\ offset <= Len(remote.bytes) /\ offset = done
      BY <2>1, <2>3, <1>0, <1>f, <1>t DEF Up
    <3>2. /\ \A i \in 1 .. offset : remote.bytes[i] = i /\ remote.bytes[i] \in Nat
          /\ offset \in Int
      BY <3>1, <2>1, <1>0, <1>f, <1>t DEF Up
    <3>3. /\ kept \in Seq(Nat) /\ Len(kept) = offset
          /\ \A i \in 1 .. offset : kept[i] = i
      <4>1. \A b \in Seq(Nat) : (\A i \in 1 .. offset : b[i] = i) /\ offset \in Nat /\ offset <= Len(b)
               => /\ SubSeq(b, 1, offset) \in Seq(Nat) /\ Len(SubSeq(b, 1, offset)) = offset
                  /\ \A i \in 1 .. offset : SubSeq(b, 1, offset)[i] = i
        BY SubSeqProperties
      <4>2. remote.bytes \in Seq(Nat) /\ offset \in Nat
        BY <1>t
      <4> QED
        BY <4>1, <4>2, <3>1, <3>2
    <3>4. /\ Len(bytes) = offset + 1 /\ \A i \in 1 .. offset : bytes[i] = kept[i]
          /\ bytes[offset + 1] = done + 1
      <4> HIDE DEF kept
      <4> QED
        BY <3>3, <1>f, AppendProperties
    <3> HIDE DEF bytes, kept
    <3>5. /\ remote'.bytes = bytes
          /\ remote'.stored => remote.stored \/ offset + 1 >= file.len[1]
      <4>1. remote' = [remote EXCEPT !.bytes = bytes,
                                     !.stored = @ \/ (taken /\ Len(bytes) >= file.len[1])]
        BY <2>2, <2>3 DEF bytes, kept
      <4> QED
        BY <4>1, <3>4, <1>t
    <3>6. remote'.stored => offset + 1 = file.len[1]
      BY <3>1, <3>5, <2>1, <1>0, <1>f, <1>t DEF Up
    <3>7. ASSUME NEW i \in 1 .. Len(bytes) PROVE bytes[i] = i
      <4>1. offset \in Nat /\ done = offset
        BY <3>1, <1>t
      <4>2. i \in 1 .. offset \/ i = offset + 1
        BY <4>1, <3>4
      <4> QED
        BY <4>1, <4>2, <3>3, <3>4
    <3>8. job.status # "completed"
      BY <2>1, <1>0 DEF Phases, Working, UpPC
    <3> QED
      <4>1. /\ file' = file /\ offset' = done' /\ offset' < file.len[1] /\ job'.status # "completed"
            /\ file.total = file.len[1]
        BY <3>1, <3>8, <2>1, <1>0, <1>f DEF Up, done
      <4>2. /\ Len(remote'.bytes) = offset' + 1 /\ Len(remote'.bytes) <= file.len[1]
            /\ \A i \in 1 .. Len(remote'.bytes) : remote'.bytes[i] = i
            /\ remote'.stored => Len(remote'.bytes) = file.len[1]
        BY <3>1, <3>4, <3>5, <3>6, <3>7, <2>1, <1>f, <1>t
      <4> QED
        BY <4>1, <4>2, <2>1, <1>f, <1>t DEF Up
  <2>4. CASE ~(taken /\ file.len[1] > 0)
    <3>1. remote'.bytes = remote.bytes /\ (remote'.stored => remote.stored \/ file.len[1] = 0)
      BY <2>2, <2>4, <1>t, <1>f
    <3>2. job.status # "completed"
      BY <2>1, <1>0 DEF Phases, Working, UpPC
    <3> QED
      BY <3>1, <3>2, <2>1, <1>0, <1>f, <1>t DEF Up, done
  <2> QED
    BY <2>3, <2>4
<1>17. CASE chunk_accepted
  <2>1. /\ UNCHANGED <<file, remote>> /\ pc = "acked" /\ pc' \in {"chunk", "uploaded", "abort"}
        /\ file.kind = "upload" /\ job.status # "completed" /\ job'.status # "completed"
    BY <1>17, <1>0 DEF chunk_accepted, update_transfer, Phases, UpPC, Working
  <2>2. \/ got' = got /\ offset' = offset /\ pc' = "abort"
        \/ /\ expected_offset /\ offset' = Len(remote.bytes)
           /\ got' = IF file.len[1] = 0 THEN got ELSE Append(got, [version |-> 1, at |-> done + 1])
           /\ pc' = "uploaded" => remote.stored /\ offset' >= file.len[1]
           /\ pc' = "chunk" => offset' < file.len[1]
    BY <1>17, <1>f, <1>t DEF chunk_accepted, update_transfer, Unconfirmed
  <2>3. expected_offset => Len(remote.bytes) = IF file.len[1] = 0 THEN done ELSE done + 1
    BY <2>1, <1>0, <1>f, <1>t DEF expected_offset, Up
  <2>4. Len(Append(got, [version |-> 1, at |-> done + 1])) = done + 1
    BY <1>t, <1>f, AppendProperties DEF done
  <2>5. offset' = done'
    BY <2>1, <2>2, <2>3, <2>4, <1>0 DEF Up, done
  <2> QED
    BY <2>1, <2>2, <2>5, <1>0, <1>f, <1>t DEF Up
<1>18. CASE complete_upload
  BY <1>18, <1>0, <1>f DEF complete_upload, update_transfer, Phases, Up, done, Working, DownPC, UpPC
<1>19. CASE finish_upload_failure
  BY <1>19, <1>0, <1>f DEF finish_upload_failure, update_transfer, Phases, Up, done, Working, DownPC, UpPC
<1>20. CASE remote_changes
  BY <1>20, <1>0 DEF remote_changes, Up
<1>21. CASE crash
  BY <1>21, <1>0, <1>f DEF crash, Phases, Up, done, Working, DownPC, UpPC
<1> QED
  BY <1>1, <1>2, <1>3, <1>4, <1>5, <1>6, <1>7, <1>8, <1>9, <1>10, <1>11, <1>12, <1>13, <1>14, <1>15, <1>16, <1>17, <1>18, <1>19, <1>20, <1>21 DEF Next, Step

(* Every end is reported.                                                  *)
LEMMA EndStep ==
  ASSUME BoundsAssumption, IInv, Next
  PROVE  EndReported'
<1>0. Phases /\ Down /\ Up
  BY DEF IInv
<1>f. /\ NoSize = MaxSize + 1 /\ MaxSize \in Nat /\ done \in Nat /\ file' = file
      /\ file.total \in 0 .. NoSize /\ faults \in Nat
  BY Sizes, Frames DEF IInv, Types
<1> SUFFICES ASSUME pc' = "end", faults' = 0, done' > file.total => err' = "none"
             PROVE  job'.status \in {"completed", "failed"}
  BY <1>f DEF EndReported
<1>1. faults' # faults + 1
  BY <1>f
<1>2. CASE complete_transfer \/ finish_file_import
  <2>1. pc \in {"installed", "imported"} /\ job.status = "running"
    BY <1>0, <1>2 DEF complete_transfer, finish_file_import, Phases, Working, DownPC
  <2>2. CompletedTotal = done \/ (CompletedTotal = file.total /\ done = file.total)
    BY <2>1, <1>0 DEF CompletedTotal, Down, Phases, DownPC
  <2>3. \A status \in {"completed", "failed"} : Acceptable(status, done, CompletedTotal)
    BY <2>1, <2>2, <1>f DEF Acceptable, valid_transfer_transition
  <2> QED
    BY <1>1, <1>2, <2>1, <2>3 DEF complete_transfer, finish_file_import, update_transfer, Fault
<1>3. CASE fail_download
  <2>1. job.status = "running" /\ err # "none" /\ err' = err /\ done' = done
    BY <1>0, <1>3 DEF fail_download, Phases, Working, done
  <2>2. Acceptable("failed", done, file.total)
    BY <2>1, <1>f DEF Acceptable, valid_transfer_transition
  <2> QED
    BY <1>1, <1>3, <2>2 DEF fail_download, update_transfer, Fault
<1>4. CASE complete_upload \/ finish_upload_failure
  <2>1. job.status = "running" /\ file.kind = "upload"
    BY <1>0, <1>4 DEF complete_upload, finish_upload_failure, Phases, Working, UpPC
  <2>2. Acceptable("completed", file.len[1], file.total) /\ Acceptable("failed", offset, file.total)
    BY <2>1, <1>0, <1>f DEF Acceptable, valid_transfer_transition, Up
  <2> QED
    BY <1>1, <1>4, <2>2 DEF complete_upload, finish_upload_failure, update_transfer, Fault
<1>5. CASE start_running
  <2>1. Acceptable("running", 0, file.total)
    BY <1>0, <1>5, <1>f DEF start_running, Phases, Acceptable, valid_transfer_transition
  <2> QED
    BY <1>1, <1>5, <2>1 DEF start_running, update_transfer, Fault
<1>6. CASE insert_transfer_job
  BY <1>1, <1>6 DEF insert_transfer_job, Fault
<1>7. CASE create_partial \/ check_revision \/ get_range \/ stream_error \/ check_size \/ install_download
           \/ swap_partial \/ drop_backup
  BY <1>7 DEF create_partial, check_revision, get_range, stream_error, check_size, install_download,
     swap_partial, drop_backup, Interrupted
<1>8. CASE receive_chunk
  BY <1>8 DEF receive_chunk, update_transfer
<1>9. CASE begin_file_upload \/ upload_file_chunk \/ chunk_accepted
  BY <1>9 DEF begin_file_upload, upload_file_chunk, chunk_accepted, update_transfer
<1>10. CASE remote_changes \/ crash
  BY <1>10 DEF remote_changes, crash
<1> QED
  BY <1>2, <1>3, <1>4, <1>5, <1>6, <1>7, <1>8, <1>9, <1>10 DEF Next, Step

-----------------------------------------------------------------------------
(* The inductive invariant holds of the initial states.                    *)
LEMMA InitIInv ==
  ASSUME BoundsAssumption, Init
  PROVE  IInv
<1>1. /\ file \in [kind : {"download", "import", "upload"}, stable : BOOLEAN, range : BOOLEAN,
                 total : 0 .. NoSize, revision : {0, 1}, old : BOOLEAN, len : FileLengths]
  BY DEF Init, BoundsAssumption
<1>2. Types
  BY <1>1 DEF Init, Types, BoundsAssumption, NoSize, NewFile, OldFile
<1>3. done = 0 /\ file.len[1] \in Nat
  BY <1>1 DEF Init, done, FileLengths, BoundsAssumption
<1>4. Phases
  BY <1>1, <1>3 DEF Init, Phases, Working, DownPC, UpPC, NoSize
<1>5. Disks
  BY <1>1 DEF Init, Disks, Kept, Working, DownPC, UpPC, Content, NewFile, OldFile
<1>6. Down
  BY <1>1, <1>3 DEF Init, Down, Ordered, BoundsAssumption
<1>7. Up
  BY <1>1, <1>3 DEF Init, Up
<1>8. EndReported
  BY DEF Init, EndReported
<1> QED
  BY <1>2, <1>4, <1>5, <1>6, <1>7, <1>8 DEF IInv

(* It is kept by every step, and by none.                                  *)
LEMMA Inductive ==
  ASSUME BoundsAssumption, IInv, [Next]_vars
  PROVE  IInv'
<1>1. CASE Next
  BY <1>1, TypesStep, PhasesStep, DisksStep, DownStep, UpStep, EndStep DEF IInv
<1>2. CASE vars' = vars
  <2>1. UNCHANGED <<file, remote, job, pc, got, attempts, stream, offset, disk, err, faults>>
    BY <1>2 DEF vars
  <2>2. Types' /\ Phases' /\ Up'
    BY <2>1 DEF IInv, Types, Phases, Up, done, NoSize
  <2>3. Disks' /\ Down' /\ EndReported'
    BY <2>1 DEF IInv, Disks, Kept, Content, Down, Unchanged, Ordered, EndReported, done, NoSize
  <2> QED
    BY <2>2, <2>3 DEF IInv
<1> QED
  BY <1>1, <1>2

(* It implies what the runs check.                                         *)
LEMMA IInvSafe ==
  ASSUME BoundsAssumption, IInv
  PROVE  TransfersSafe
<1>0. Types /\ Phases /\ Disks /\ Down /\ Up /\ EndReported
  BY DEF IInv
<1>1. TypeOK
  BY <1>0 DEF Types, Phases, Disks, TypeOK
<1>2. InstalledInOrder
  BY <1>0 DEF Disks, Down, Unchanged, Ordered, InstalledInOrder
<1>3. UploadComplete
  <2> SUFFICES ASSUME file.kind = "upload", job.status = "completed"
               PROVE  remote.stored /\ remote.bytes = [i \in 1 .. file.len[1] |-> i]
    BY DEF UploadComplete
  <2>1. remote.stored /\ Len(remote.bytes) = file.len[1] /\ \A i \in 1 .. Len(remote.bytes) : remote.bytes[i] = i
    BY <1>0 DEF Up
  <2>2. remote.bytes \in Seq(Nat)
    BY <1>0 DEF Types
  <2>3. remote.bytes = [i \in 1 .. Len(remote.bytes) |-> remote.bytes[i]]
    BY <2>2
  <2> QED
    BY <2>1, <2>3
<1>4. ImportWithinLimit
  BY <1>0 DEF Down, ImportWithinLimit
<1> QED
  BY <1>0, <1>1, <1>2, <1>3, <1>4 DEF TransfersSafe

(* A download that resumes after errors installs one version in order, an  *)
(* upload reported as completed is stored whole, an import respects its    *)
(* limit, and a command that ended has reported its end: service.rs.       *)
THEOREM TransfersCorrect ==
  ASSUME BoundsAssumption
  PROVE  Spec => []TransfersSafe
<1>1. Init => IInv
  BY InitIInv
<1>2. IInv /\ [Next]_vars => IInv'
  BY Inductive
<1>3. IInv => TransfersSafe
  BY IInvSafe
<1> QED
  BY <1>1, <1>2, <1>3, PTL DEF Spec

-----------------------------------------------------------------------------
(* The refinement: how the row of a download and what the destination      *)
(* holds may change in one step.                                           *)
LEMMA StepContract ==
  ASSUME BoundsAssumption, IInv, [Next]_vars
  PROVE  [Contract!Next]_(Contract!contract)
<1>0. /\ Phases /\ Disks
      /\ disk \in [dest : {0, NewFile, OldFile}, partial : BOOLEAN, backup : {0, OldFile}]
  BY DEF IInv, Types
<1>s. ASSUME file' = file, job' = job \/ job'.status = job.status, Content' = Content
      PROVE  UNCHANGED Contract!contract
  BY <1>s DEF Contract!contract
<1>c. ASSUME file' = file, disk' = disk PROVE Content' = Content
  BY <1>c DEF Content
<1>k. ASSUME file' = file, file.kind # "download" PROVE UNCHANGED Contract!contract
  BY <1>k DEF Contract!contract
<1>1. CASE vars' = vars
  BY <1>1, <1>s, <1>c DEF vars
<1>2. CASE insert_transfer_job
  <2>1. job.status = "none" /\ file' = file /\ disk' = disk
        /\ (job' = job \/ job'.status = "queued")
    BY <1>0, <1>2 DEF insert_transfer_job, Phases
  <2> QED
    BY <2>1, <1>c DEF Contract!contract
<1>3. CASE start_running
  <2>1. job.status = "queued" /\ file' = file /\ disk' = disk
        /\ (job' = job \/ job'.status = "running")
    BY <1>0, <1>3 DEF start_running, update_transfer, Phases
  <2> QED
    BY <2>1, <1>c DEF Contract!contract, Contract!Next, Contract!Start
<1>4. CASE check_revision \/ get_range \/ stream_error \/ check_size
  <2>1. UNCHANGED <<file, job, disk>>
    BY <1>4 DEF check_revision, get_range, stream_error, check_size
  <2> QED
    BY <2>1, <1>s, <1>c
<1>5. CASE receive_chunk
  <2>1. UNCHANGED <<file, disk>> /\ (job' = job \/ job'.status = job.status)
    BY <1>0, <1>5 DEF receive_chunk, update_transfer, Phases, Working, DownPC
  <2> QED
    BY <2>1, <1>s, <1>c
<1>6. CASE create_partial
  <2>1. UNCHANGED <<file, job>> /\ Content' = Content
    BY <1>0, <1>6 DEF create_partial, Content
  <2> QED
    BY <2>1, <1>s
<1>7. CASE install_download \/ swap_partial
  <2>1. UNCHANGED <<file, job>> /\ job.status = "running" /\ Content' \in {Content, "new"}
    <3>1. CASE install_download
      <4>1. UNCHANGED <<file, job>> /\ job.status = "running" /\ Kept
        BY <1>0, <3>1 DEF install_download, Phases, Disks, Working, DownPC
      <4>2. \/ disk' = disk
            \/ disk' = [dest |-> NewFile, partial |-> FALSE, backup |-> 0]
            \/ file.old /\ disk' = [dest |-> 0, partial |-> disk.partial, backup |-> OldFile]
        BY <1>0, <3>1, <4>1 DEF install_download, Kept, OldFile
      <4> QED
        BY <4>1, <4>2 DEF Kept, Content, NewFile, OldFile
    <3>2. CASE swap_partial
      BY <1>0, <3>2 DEF swap_partial, Phases, Working, DownPC, Content, NewFile
    <3> QED
      BY <1>7, <3>1, <3>2
  <2> QED
    BY <2>1 DEF Contract!contract, Contract!Next, Contract!Replace
<1>8. CASE drop_backup
  <2>1. UNCHANGED <<file, job>> /\ Content' = Content
    <3>1. CASE pc = "drop_backup"
      BY <1>0, <1>8, <3>1 DEF drop_backup, Disks, Content
    <3>2. CASE pc = "swap_back"
      <4>1. disk' = disk \/ disk' = [dest |-> disk.backup, partial |-> disk.partial, backup |-> 0]
        BY <1>0, <1>8, <3>2 DEF drop_backup
      <4> QED
        BY <1>0, <1>8, <3>2, <4>1 DEF drop_backup, Disks, Content, NewFile, OldFile
    <3> QED
      BY <1>8, <3>1, <3>2 DEF drop_backup
  <2> QED
    BY <2>1, <1>s
<1>9. CASE complete_transfer
  <2>1. UNCHANGED <<file, disk>> /\ job.status = "running" /\ Content = "new"
    BY <1>0, <1>9 DEF complete_transfer, Phases, Disks, Working, DownPC, Content
  <2>2. job' = job \/ job'.status = "completed"
    BY <1>9 DEF complete_transfer, update_transfer
  <2> QED
    BY <2>1, <2>2, <1>c DEF Contract!contract, Contract!Next, Contract!Complete
<1>10. CASE fail_download
  <2>1. file' = file /\ job.status = "running" /\ Content = "old" /\ Content' = "old"
    BY <1>0, <1>10 DEF fail_download, Phases, Disks, Working, Content
  <2>2. job' = job \/ job'.status = "failed"
    BY <1>10 DEF fail_download, update_transfer
  <2> QED
    BY <2>1, <2>2 DEF Contract!contract, Contract!Next, Contract!Fail
<1>11. CASE finish_file_import
  BY <1>0, <1>11, <1>k DEF finish_file_import, Phases
<1>12. CASE begin_file_upload \/ upload_file_chunk \/ chunk_accepted \/ complete_upload
            \/ finish_upload_failure
  <2>1. file' = file /\ file.kind = "upload"
    BY <1>0, <1>12 DEF begin_file_upload, upload_file_chunk, chunk_accepted, complete_upload,
       finish_upload_failure, Phases, UpPC
  <2> QED
    BY <2>1, <1>k
<1>13. CASE remote_changes \/ crash
  <2>1. UNCHANGED <<file, job, disk>>
    BY <1>13 DEF remote_changes, crash
  <2> QED
    BY <2>1, <1>s, <1>c
<1> QED
  BY <1>1, <1>2, <1>3, <1>4, <1>5, <1>6, <1>7, <1>8, <1>9, <1>10, <1>11, <1>12, <1>13 DEF Next, Step

(* A download keeps the contract with its user whatever fails: the old     *)
(* content is there until the new one replaces it, and the report in the   *)
(* transfer list is right and final: install_download, update_transfer_job.*)
THEOREM ContractKept ==
  ASSUME BoundsAssumption
  PROVE  Spec => DownloadKeepsContract
<1>1. Init => IInv
  BY InitIInv
<1>2. IInv /\ [Next]_vars => IInv'
  BY Inductive
<1>3. Init => Contract!Init
  BY DEF Init, Contract!Init, Content, NewFile, OldFile
<1>4. IInv /\ [Next]_vars => [Contract!Next]_(Contract!contract)
  BY StepContract
<1> QED
  BY <1>1, <1>2, <1>3, <1>4, PTL DEF Spec, DownloadKeepsContract, Contract!Spec

(***************************************************************************)
(* Accounts: the inductive invariant.                                      *)
(***************************************************************************)
\* The steps of a command that will store a new credential, those of one that
\* may have changed the key ring, and those of one that changes the account.
SaveSteps == {"save_load", "save_store", "save_verify", "save_upsert"}
WriteSteps == {"save_verify", "save_upsert", "restore", "remove_row"}
ChangeSteps == SaveSteps \cup WriteSteps \cup {"remove_load", "remove_delete"}

\* The row and the key ring entry of an authorization or removal in flight are
\* told by its step.
Labelled == \A p \in Proc : proc[p].op \in {"save", "remove"} <=> at(p) \in ChangeSteps

\* Every authorization brings a grant of its own.
FreshGrants ==
    /\ saved <= grants
    /\ \A p \in Proc : at(p) \in SaveSteps =>
        /\ proc[p].new # 0 /\ proc[p].new <= grants
        /\ proc[p].new # saved
        /\ \A q \in Proc \ {p} : at(q) \in SaveSteps => proc[q].new # proc[p].new

\* While nothing raced, at most one command changes the account, and the key ring
\* follows that command's step.
Undisturbed == provider # "cloudflare_r2" /\ "credential_race" \notin causes

KeyRingTracked ==
    Undisturbed =>
    /\ saved # 0 <=> account = "live"
    /\ (\A p \in Proc : at(p) \notin WriteSteps) => cred = saved
    /\ \A p \in Proc : at(p) \in ChangeSteps => \A q \in Proc : at(q) \in ChangeSteps => q = p
    /\ \A p \in Proc :
        /\ at(p) \in WriteSteps \cup {"save_store", "remove_delete"} => proc[p].held = saved
        /\ at(p) \in {"save_verify", "save_upsert"} => cred = proc[p].new
        /\ at(p) = "remove_row" => cred = NoCred

\* Which commands an account can have in flight is told by its provider.
RemoveSteps == {"remove_load", "remove_delete", "remove_row"}
SharedSteps == {"managed", "shared_load", "shared_write"}
ManagedApart ==
    /\ provider = "cloudflare_r2" => account # "deleted" /\ \A p \in Proc : at(p) \notin RemoveSteps
    /\ provider # "cloudflare_r2" => \A p \in Proc : at(p) \notin SharedSteps

\* What a command in flight knows of the account still holds, unless it has been
\* overtaken by a loss of the authorization or a change of the sync credential.
OpenSteps == {"open", "token", "refresh", "store", "request", "status"}
InformedOf(p) ==
    p \notin overtaken =>
    /\ at(p) = "managed" /\ proc[p].row.auth = "connected" => syncCred
    /\ at(p) = "shared_load" /\ binding.auth = "auth_required" => proc[p].row = binding
    /\ at(p) = "shared_write" /\ binding.auth = "auth_required" /\ proc[p].row.auth = "connected"
         => syncCred /\ binding.err = "none"
    /\ at(p) \in OpenSteps => binding.auth # "auth_required"
Informed == \A p \in Proc : InformedOf(p)

AccountsInv ==
    /\ AccountsTypeOK /\ Labelled /\ FreshGrants /\ KeyRingTracked
    /\ ManagedApart /\ Informed /\ DeletedStaysDisabled /\ LockReleased

-----------------------------------------------------------------------------
(* A command's record stays one.                                            *)
LEMMA CommandFields ==
  ASSUME AccountsAssumption, AccountsTypeOK, NEW p \in Proc
  PROVE  /\ Idle \in Commands
         /\ \A e \in Errors, row \in Bindings :
              [Idle EXCEPT !.pc = "status", !.op = "files", !.err = e, !.row = row] \in Commands
         /\ proc[p] \in Commands /\ proc \in [Proc -> Commands]
         /\ proc[p].row \in Bindings /\ binding \in Bindings
<1>1. 0 \in 0 .. MaxGrant /\ 0 \in 0 .. MAX_API_ATTEMPTS - 1
  BY DEF AccountsAssumption
<1>2. proc[p] \in Commands /\ proc \in [Proc -> Commands] /\ binding \in Bindings
  BY DEF AccountsTypeOK
<1>3. proc[p].row \in Bindings
  BY <1>2 DEF Commands
<1>4. "none" \in Errors /\ NoBinding \in Bindings
  BY DEF NoBinding, Bindings, Errors
<1>5. Idle \in Commands
  BY <1>1, <1>4 DEF Commands, Idle, NoCred
<1>6. ASSUME NEW c \in Commands, NEW e \in Errors, NEW row \in Bindings
      PROVE  [c EXCEPT !.pc = "status", !.op = "files", !.err = e, !.row = row] \in Commands
  BY DEF Commands
<1> QED
  BY <1>2, <1>3, <1>5, <1>6

(* Nor do the changes a step makes to it take it out of its type.           *)
LEMMA CommandChanges ==
  ASSUME AccountsAssumption, AccountsTypeOK, NEW p \in Proc
  PROVE  /\ \A n \in 0 .. MaxGrant : [proc[p] EXCEPT !.pc = "save_load", !.op = "save", !.new = n] \in Commands
         /\ \A h \in 0 .. MaxGrant, l \in {"save_store", "remove_delete"} :
              [proc[p] EXCEPT !.held = h, !.pc = l] \in Commands
         /\ [proc[p] EXCEPT !.pc = "token", !.force = TRUE] \in Commands
         /\ \A row \in Bindings, l \in {"managed", "open", "shared_load", "shared_write"},
               o \in {"managed", "files"} :
              /\ [proc[p] EXCEPT !.pc = l, !.op = o, !.row = row] \in Commands
              /\ [proc[p] EXCEPT !.pc = l, !.row = row] \in Commands
<1>1. proc[p] \in Commands
  BY CommandFields
<1>2. ASSUME NEW c \in Commands, NEW n \in 0 .. MaxGrant
      PROVE  [c EXCEPT !.pc = "save_load", !.op = "save", !.new = n] \in Commands
  BY <1>2 DEF Commands
<1>3. ASSUME NEW c \in Commands, NEW h \in 0 .. MaxGrant, NEW l \in {"save_store", "remove_delete"}
      PROVE  [c EXCEPT !.held = h, !.pc = l] \in Commands
  BY <1>3 DEF Commands
<1>4. ASSUME NEW c \in Commands
      PROVE  [c EXCEPT !.pc = "token", !.force = TRUE] \in Commands
  BY <1>4 DEF Commands
<1>5. ASSUME NEW c \in Commands, NEW row \in Bindings,
             NEW l \in {"managed", "open", "shared_load", "shared_write"}, NEW o \in {"managed", "files"}
      PROVE  /\ [c EXCEPT !.pc = l, !.op = o, !.row = row] \in Commands
             /\ [c EXCEPT !.pc = l, !.row = row] \in Commands
  BY <1>5 DEF Commands
<1> QED
  BY <1>1, <1>2, <1>3, <1>4, <1>5

(* The rows the commands keep are typed.                                    *)
LEMMA RowsTyped ==
  ASSUME AccountsTypeOK, NEW p \in Proc
  PROVE  /\ \A auth \in {"connected", "auth_required"} : ManagedRow(auth) \in Bindings
         /\ [binding EXCEPT !.err = "none"] \in Bindings /\ binding \in Bindings
         /\ \A row \in Bindings : [row EXCEPT !.auth = shared_auth_state(row), !.err = "none"] \in Bindings
         /\ \A row \in Bindings, e \in Errors :
              [row EXCEPT !.auth = IF e = "authentication" THEN "auth_required" ELSE @, !.err = e] \in Bindings
<1>1. binding \in Bindings /\ "none" \in Errors
  BY DEF AccountsTypeOK, Errors
<1>2. \A row \in Bindings : shared_auth_state(row) \in {"connected", "auth_required", "disconnected"}
  BY DEF shared_auth_state, Bindings
<1>3. ASSUME NEW row \in Bindings, NEW e \in Errors, NEW auth \in {"connected", "auth_required", "disconnected"}
      PROVE  /\ [row EXCEPT !.auth = auth, !.err = e] \in Bindings
             /\ [row EXCEPT !.err = e] \in Bindings
  BY DEF Bindings
<1>4. \A auth \in {"connected", "auth_required"} : ManagedRow(auth) \in Bindings
  BY <1>1 DEF ManagedRow, Bindings
<1>5. ASSUME NEW row \in Bindings, NEW e \in Errors
      PROVE  [row EXCEPT !.auth = IF e = "authentication" THEN "auth_required" ELSE @, !.err = e] \in Bindings
  BY DEF Bindings
<1> QED
  BY <1>1, <1>2, <1>3, <1>4, <1>5

(* What a command that connects, or sets the managed account up, keeps.     *)
LEMMA RowKept ==
  ASSUME AccountsTypeOK, NEW p \in Proc
  PROVE  /\ connect_account_with_row(p) \/ ensure_managed_r2_account(p) =>
              \E row \in Bindings, l \in {"open", "shared_load", "managed"}, o \in {"files", "managed"} :
                 proc' = [proc EXCEPT ![p].pc = l, ![p].op = o, ![p].row = row]
         /\ refresh_shared_credential_state(p) =>
              \/ Finish(p)
              \/ \E row \in Bindings, l \in {"open", "shared_write"} :
                    proc' = [proc EXCEPT ![p].pc = l, ![p].row = row]
<1>w. ASSUME NEW row \in Bindings, NEW l \in {"open", "shared_load", "managed"}, NEW o \in {"files", "managed"},
             proc' = [proc EXCEPT ![p].pc = l, ![p].op = o, ![p].row = row]
      PROVE  \E r \in Bindings, m \in {"open", "shared_load", "managed"}, n \in {"files", "managed"} :
                proc' = [proc EXCEPT ![p].pc = m, ![p].op = n, ![p].row = r]
  BY <1>w, Zenon
<1>1. ASSUME connect_account_with_row(p)
      PROVE  \E row \in Bindings, l \in {"open", "shared_load", "managed"}, o \in {"files", "managed"} :
                proc' = [proc EXCEPT ![p].pc = l, ![p].op = o, ![p].row = row]
  <2>1. PICK clear : clear = [binding EXCEPT !.err = "none"]
    OBVIOUS
  <2>2. \/ proc' = [proc EXCEPT ![p].pc = "open", ![p].op = "files", ![p].row = clear]
        \/ proc' = [proc EXCEPT ![p].pc = "shared_load", ![p].op = "files", ![p].row = binding]
    BY <1>1, <2>1 DEF connect_account_with_row
  <2>3. clear \in Bindings /\ binding \in Bindings
    BY <2>1, RowsTyped
  <2>4. CASE proc' = [proc EXCEPT ![p].pc = "open", ![p].op = "files", ![p].row = clear]
    BY <2>3, <2>4, <1>w
  <2>5. CASE proc' = [proc EXCEPT ![p].pc = "shared_load", ![p].op = "files", ![p].row = binding]
    BY <2>3, <2>5, <1>w
  <2> QED
    BY <2>2, <2>4, <2>5
<1>2. ASSUME ensure_managed_r2_account(p)
      PROVE  \E row \in Bindings, l \in {"open", "shared_load", "managed"}, o \in {"files", "managed"} :
                proc' = [proc EXCEPT ![p].pc = l, ![p].op = o, ![p].row = row]
  <2>1. PICK row : row = ManagedRow(IF syncCred THEN "connected" ELSE "auth_required")
    OBVIOUS
  <2>2. proc' = [proc EXCEPT ![p].pc = "managed", ![p].op = "managed", ![p].row = row]
    BY <1>2, <2>1 DEF ensure_managed_r2_account
  <2>3. row \in Bindings
    BY <2>1, RowsTyped
  <2> QED
    BY <2>2, <2>3, <1>w
<1>3. ASSUME refresh_shared_credential_state(p), ~Finish(p)
      PROVE  \E row \in Bindings, l \in {"open", "shared_write"} :
                proc' = [proc EXCEPT ![p].pc = l, ![p].row = row]
  <2>1. PICK updated : updated = [proc[p].row EXCEPT !.auth = shared_auth_state(proc[p].row), !.err = "none"]
    OBVIOUS
  <2>2. \/ proc' = [proc EXCEPT ![p].pc = "shared_write", ![p].row = updated]
        \/ proc' = [proc EXCEPT ![p].pc = "open", ![p].row = updated]
    BY <1>3, <2>1 DEF refresh_shared_credential_state
  <2>3. proc[p].row \in Bindings
    BY DEF AccountsTypeOK, Commands
  <2>4. updated \in Bindings
    BY <2>1, <2>3, RowsTyped
  <2>5. CASE proc' = [proc EXCEPT ![p].pc = "shared_write", ![p].row = updated]
    BY <2>4, <2>5, Zenon
  <2>6. CASE proc' = [proc EXCEPT ![p].pc = "open", ![p].row = updated]
    BY <2>4, <2>6, Zenon
  <2> QED
    BY <2>2, <2>5, <2>6
<1> QED
  BY <1>1, <1>2, <1>3

(* Every step moves one command at most, to a record of the same kind; only *)
(* the end of the application ends them all.                                *)
LEMMA ProcTyped ==
  ASSUME AccountsAssumption, AccountsTypeOK, AccountsNext
  PROVE  proc' \in [Proc -> Commands]
<1>0. proc \in [Proc -> Commands] /\ cred \in 0 .. MaxGrant
  BY DEF AccountsTypeOK
<1>e. \A status : response_error(status) \in Errors /\ refresh_error(status) \in Errors
                  /\ status_error_with_message(status) \in Errors
  BY DEF response_error, refresh_error, status_error_with_message, Errors
<1>i. ASSUME NEW p \in Proc, Finish(p) PROVE proc' \in [Proc -> Commands]
  BY <1>i, <1>0, CommandFields DEF Finish
<1>n. ASSUME NEW p \in Proc, NEW e \in Errors, Ended(p, e) PROVE proc' \in [Proc -> Commands]
  BY <1>n, <1>0, CommandFields DEF Ended
<1>g. ASSUME NEW p \in Proc, NEW l, Goto(p, l),
             l \in {"idle", "polling", "save_load", "save_store", "save_verify", "save_upsert", "restore",
                    "remove_load", "remove_delete", "remove_row", "managed", "shared_load", "shared_write",
                    "open", "token", "refresh", "store", "request", "status"}
      PROVE  proc' \in [Proc -> Commands]
  BY <1>g, <1>0 DEF Goto, Commands
<1>1. ASSUME NEW p \in Proc, authorize_with_pkce(p) \/ poll_result(p) PROVE proc' \in [Proc -> Commands]
  <2>1. CASE Finish(p)
    BY <2>1, <1>i
  <2>2. CASE ~Finish(p)
    <3>1. grants < MaxGrant /\ proc' = [proc EXCEPT ![p].pc = "save_load", ![p].op = "save", ![p].new = grants + 1]
      BY <1>1, <2>2 DEF authorize_with_pkce, poll_result
    <3>2. grants + 1 \in 0 .. MaxGrant
      BY <3>1 DEF AccountsTypeOK, AccountsAssumption
    <3> DEFINE c == [proc[p] EXCEPT !.pc = "save_load", !.op = "save", !.new = grants + 1]
    <3>3. c \in Commands
      BY <3>2, CommandChanges
    <3>4. proc' = [proc EXCEPT ![p] = c]
      BY <3>1, <1>0
    <3> QED
      BY <3>3, <3>4, <1>0
  <2> QED
    BY <2>1, <2>2
<1>2. ASSUME NEW p \in Proc, poll_authorization(p) \/ begin_authorization(p) PROVE proc' \in [Proc -> Commands]
  BY <1>2, <1>0 DEF poll_authorization, begin_authorization, Commands
<1>3. ASSUME NEW p \in Proc, load_previous(p) PROVE proc' \in [Proc -> Commands]
  <2>1. CASE Finish(p)
    BY <2>1, <1>i
  <2>2. CASE proc' = [proc EXCEPT ![p].held = cred,
                          ![p].pc = IF at(p) = "save_load" THEN "save_store" ELSE "remove_delete"]
    <3> DEFINE c == [proc[p] EXCEPT !.held = cred,
                                    !.pc = IF at(p) = "save_load" THEN "save_store" ELSE "remove_delete"]
    <3>1. c \in Commands
      BY <1>0, CommandChanges
    <3>2. proc' = [proc EXCEPT ![p] = c]
      BY <2>2, <1>0
    <3> QED
      BY <3>1, <3>2, <1>0
  <2> QED
    BY <1>3, <2>1, <2>2 DEF load_previous
<1>4. ASSUME NEW p \in Proc,
             save_store(p) \/ save_verify(p) \/ save_upsert(p) \/ restore_credential(p)
             \/ remove_delete(p) \/ remove_row(p) \/ update_provider_status(p)
      PROVE  proc' \in [Proc -> Commands]
  BY <1>4, <1>i, <1>g
  DEF save_store, save_verify, save_upsert, restore_credential, remove_delete, remove_row, update_provider_status
<1>14. ASSUME NEW p \in Proc, managed_upsert(p) \/ shared_write(p) PROVE proc' \in [Proc -> Commands]
  <2>1. Finish(p) \/ Goto(p, "open")
    BY <1>14 DEF managed_upsert, shared_write
  <2> QED
    BY <2>1, <1>i, <1>g
<1>c. ASSUME NEW p \in Proc, NEW c \in Commands, proc' = [proc EXCEPT ![p] = c]
      PROVE  proc' \in [Proc -> Commands]
  BY <1>c, <1>0
<1>5. ASSUME NEW p \in Proc, remove_account(p) PROVE proc' \in [Proc -> Commands]
  <2>1. proc' = [proc EXCEPT ![p] = [proc[p] EXCEPT !.pc = "remove_load", !.op = "remove"]]
    BY <1>5, <1>0 DEF remove_account
  <2>2. [proc[p] EXCEPT !.pc = "remove_load", !.op = "remove"] \in Commands
    <3>1. ASSUME NEW c \in Commands PROVE [c EXCEPT !.pc = "remove_load", !.op = "remove"] \in Commands
      BY DEF Commands
    <3> QED
      BY <3>1, CommandFields
  <2> QED
    BY <2>1, <2>2, <1>c
<1>s. ASSUME NEW p \in Proc, NEW row \in Bindings, NEW l \in {"managed", "open", "shared_load", "shared_write"},
             NEW o \in {"managed", "files"},
             \/ proc' = [proc EXCEPT ![p].pc = l, ![p].op = o, ![p].row = row]
             \/ proc' = [proc EXCEPT ![p].pc = l, ![p].row = row]
      PROVE  proc' \in [Proc -> Commands]
  <2>1. \/ proc' = [proc EXCEPT ![p] = [proc[p] EXCEPT !.pc = l, !.op = o, !.row = row]]
        \/ proc' = [proc EXCEPT ![p] = [proc[p] EXCEPT !.pc = l, !.row = row]]
    BY <1>s, <1>0
  <2>2. /\ [proc[p] EXCEPT !.pc = l, !.op = o, !.row = row] \in Commands
        /\ [proc[p] EXCEPT !.pc = l, !.row = row] \in Commands
    BY CommandChanges
  <2> QED
    BY <2>1, <2>2, <1>c
<1>12. ASSUME NEW p \in Proc, connect_account_with_row(p) \/ ensure_managed_r2_account(p)
       PROVE  proc' \in [Proc -> Commands]
  <2>1. PICK row \in Bindings, l \in {"open", "shared_load", "managed"}, o \in {"files", "managed"} :
          proc' = [proc EXCEPT ![p].pc = l, ![p].op = o, ![p].row = row]
    BY <1>12, RowKept
  <2> QED
    BY <2>1, <1>s
<1>13. ASSUME NEW p \in Proc, refresh_shared_credential_state(p) PROVE proc' \in [Proc -> Commands]
  <2>1. CASE Finish(p)
    BY <2>1, <1>i
  <2>2. CASE \E row \in Bindings, l \in {"open", "shared_write"} :
               proc' = [proc EXCEPT ![p].pc = l, ![p].row = row]
    <3>1. PICK row \in Bindings, l \in {"open", "shared_write"} :
            proc' = [proc EXCEPT ![p].pc = l, ![p].row = row]
      BY <2>2
    <3> QED
      BY <3>1, <1>s
  <2> QED
    BY <1>13, <2>1, <2>2, RowKept
<1>6. ASSUME NEW p \in Proc, connect(p) PROVE proc' \in [Proc -> Commands]
  BY <1>6, <1>g, <1>n DEF connect, Errors
<1>7. ASSUME NEW p \in Proc, access_token(p) PROVE proc' \in [Proc -> Commands]
  <2>1. CASE Ended(p, "authentication")
    BY <2>1, <1>n DEF Errors
  <2>2. CASE \/ proc' = [proc EXCEPT ![p].pc = "refresh", ![p].held = cred]
             \/ proc' = [proc EXCEPT ![p].pc = "request", ![p].held = cred]
    BY <2>2, <1>0 DEF Commands
  <2> QED
    BY <1>7, <2>1, <2>2 DEF access_token
<1>8. ASSUME NEW p \in Proc, refresh_credential(p) \/ request_json(p) PROVE proc' \in [Proc -> Commands]
  BY <1>8, <1>g, <1>n, <1>e DEF refresh_credential, request_json, Errors
<1>a. ASSUME NEW p \in Proc, attempts_left(p) PROVE proc[p].attempt + 1 \in 0 .. MAX_API_ATTEMPTS - 1
  BY <1>a, <1>0 DEF attempts_left, Commands, AccountsAssumption
<1>9. ASSUME NEW p \in Proc, store_refreshed(p) PROVE proc' \in [Proc -> Commands]
  <2>1. CASE Goto(p, "request") \/ Ended(p, "remote_unavailable") \/ Ended(p, "authentication")
    BY <2>1, <1>g, <1>n DEF Errors
  <2>2. CASE /\ attempts_left(p)
             /\ proc' = [proc EXCEPT ![p].pc = "token", ![p].force = FALSE,
                                     ![p].retried = TRUE, ![p].attempt = @ + 1]
    BY <2>2, <1>a, <1>0 DEF Commands
  <2> QED
    BY <1>9, <2>1, <2>2 DEF store_refreshed
<1>10. ASSUME NEW p \in Proc, send_authorized(p) PROVE proc' \in [Proc -> Commands]
  <2>1. CASE \E e \in Errors : Ended(p, e)
    BY <2>1, <1>n
  <2>2. CASE proc' = [proc EXCEPT ![p].pc = "token", ![p].force = TRUE]
    <3> DEFINE c == [proc[p] EXCEPT !.pc = "token", !.force = TRUE]
    <3>1. c \in Commands
      BY CommandChanges
    <3>2. proc' = [proc EXCEPT ![p] = c]
      BY <2>2, <1>0
    <3> QED
      BY <3>1, <3>2, <1>0
  <2>3. CASE attempts_left(p) /\ proc' = [proc EXCEPT ![p].pc = "token", ![p].attempt = @ + 1]
    BY <2>3, <1>a, <1>0 DEF Commands
  <2>4. "none" \in Errors
    BY DEF Errors
  <2> QED
    BY <1>10, <2>1, <2>2, <2>3, <2>4, <1>e DEF send_authorized
<1>11. CASE Environment
  <2>1. CASE application_ends
    BY <2>1, <1>0, CommandFields DEF application_ends
  <2>2. CASE sync_credential_changes \/ grant_revoked
    BY <2>2, <1>0 DEF sync_credential_changes, grant_revoked
  <2> QED
    BY <1>11, <2>1, <2>2 DEF Environment
<1> QED
  BY <1>1, <1>2, <1>3, <1>4, <1>5, <1>6, <1>7, <1>8, <1>9, <1>10, <1>11, <1>12, <1>13, <1>14
  DEF AccountsNext, Start, Local, Network

(* A step of a command on the files of the account, or of an authorization  *)
(* that waits for its answer, leaves the row and the grants alone; it       *)
(* changes the key ring only by a late refresh, which is a race.            *)
Outside(p) ==
  /\ at(p) \notin ChangeSteps /\ at(p)' \notin ChangeSteps
  /\ proc'[p].op \notin {"save", "remove"}
  /\ \A q \in Proc \ {p} : proc'[q] = proc[q]
  /\ UNCHANGED <<provider, grants, saved>>
  /\ account' = account \/ provider = "cloudflare_r2"
  /\ causes \subseteq causes'
  /\ cred' = cred \/ "credential_race" \in causes'

OutsideSteps(p) ==
  \/ begin_authorization(p) \/ poll_authorization(p) \/ (poll_result(p) /\ Finish(p))
  \/ connect_account_with_row(p) \/ connect(p) \/ access_token(p) \/ refresh_credential(p)
  \/ store_refreshed(p) \/ send_authorized(p) \/ request_json(p) \/ update_provider_status(p)
  \/ ensure_managed_r2_account(p) \/ managed_upsert(p)
  \/ refresh_shared_credential_state(p) \/ shared_write(p)

(* Every such step is of that kind.                                         *)
LEMMA OutsideEffect ==
  ASSUME AccountsTypeOK, Labelled, ManagedApart, NEW p \in Proc, OutsideSteps(p)
  PROVE  Outside(p)
<1>0. proc \in [Proc -> Commands] /\ (proc[p].op \in {"save", "remove"} <=> at(p) \in ChangeSteps)
      /\ causes \subseteq causes
  BY DEF AccountsTypeOK, Labelled
<1>d. at(p) = proc[p].pc /\ at(p)' = proc'[p].pc
  BY DEF at
<1>i. ASSUME Finish(p)
      PROVE  /\ at(p)' \notin ChangeSteps /\ proc'[p].op \notin {"save", "remove"}
             /\ \A q \in Proc \ {p} : proc'[q] = proc[q]
  BY <1>i, <1>0, <1>d DEF Finish, Idle, ChangeSteps, SaveSteps, WriteSteps
<1>n. ASSUME NEW e, Ended(p, e)
      PROVE  /\ at(p)' \notin ChangeSteps /\ proc'[p].op \notin {"save", "remove"}
             /\ \A q \in Proc \ {p} : proc'[q] = proc[q]
  BY <1>n, <1>0, <1>d DEF Ended, Idle, ChangeSteps, SaveSteps, WriteSteps
<1>g. ASSUME at(p) \notin ChangeSteps,
             \E l \in {"polling", "managed", "shared_load", "shared_write",
                       "open", "token", "refresh", "store", "request"} :
               /\ proc'[p].pc = l
               /\ proc'[p].op \in {proc[p].op, "authorize", "managed", "files"}
               /\ \A q \in Proc \ {p} : proc'[q] = proc[q]
      PROVE  /\ at(p)' \notin ChangeSteps /\ proc'[p].op \notin {"save", "remove"}
             /\ \A q \in Proc \ {p} : proc'[q] = proc[q]
  BY <1>g, <1>0, <1>d DEF ChangeSteps, SaveSteps, WriteSteps
<1>1. CASE begin_authorization(p)
  BY <1>1, <1>0, <1>d DEF begin_authorization, durable, Outside, ChangeSteps, SaveSteps, WriteSteps
<1>2. CASE poll_authorization(p)
  <2>1. at(p) \notin ChangeSteps
    BY <1>2 DEF poll_authorization, ChangeSteps, SaveSteps, WriteSteps
  <2>2. UNCHANGED <<provider, account, cred, grants, saved, causes>>
    BY <1>2 DEF poll_authorization, durable
  <2>3. CASE proc' = [proc EXCEPT ![p].pc = "polling", ![p].op = "authorize"]
    <3>1. /\ proc'[p].pc = "polling" /\ proc'[p].op = "authorize"
          /\ \A q \in Proc \ {p} : proc'[q] = proc[q]
      BY <2>3, <1>0 DEF Commands
    <3> QED
      BY <2>1, <2>2, <3>1, <1>0, <1>g DEF Outside
  <2>4. CASE proc' = proc
    BY <2>1, <2>2, <2>4, <1>0, <1>d DEF Outside
  <2> QED
    BY <1>2, <2>3, <2>4 DEF poll_authorization
<1>3. CASE poll_result(p) /\ Finish(p)
  <2>1. at(p) \notin ChangeSteps
    BY <1>3 DEF poll_result, ChangeSteps, SaveSteps, WriteSteps
  <2>2. proc'[p].pc # "save_load"
    BY <1>3, <1>0 DEF Finish, Idle
  <2>3. proc' # [proc EXCEPT ![p].pc = "save_load", ![p].op = "save", ![p].new = grants + 1]
    BY <2>2, <1>0 DEF Commands
  <2>4. UNCHANGED <<provider, account, cred, grants, saved, causes>>
    BY <1>3, <2>3 DEF poll_result
  <2> QED
    BY <1>3, <2>1, <2>4, <1>0, <1>i DEF Outside
<1>4. CASE connect_account_with_row(p) \/ ensure_managed_r2_account(p)
  <2>1. at(p) \notin ChangeSteps
    BY <1>4 DEF connect_account_with_row, ensure_managed_r2_account, ChangeSteps, SaveSteps, WriteSteps
  <2>2. \E row \in Bindings, l \in {"open", "shared_load", "managed"}, o \in {"files", "managed"} :
          proc' = [proc EXCEPT ![p].pc = l, ![p].op = o, ![p].row = row]
    BY <1>4, RowKept
  <2>3. UNCHANGED <<provider, account, cred, grants, saved, causes>>
    BY <1>4 DEF connect_account_with_row, ensure_managed_r2_account, durable
  <2>4. /\ \E l \in {"open", "shared_load", "managed"} : proc'[p].pc = l
        /\ proc'[p].op \in {"files", "managed"}
        /\ \A q \in Proc \ {p} : proc'[q] = proc[q]
    BY <2>2, <1>0 DEF Commands
  <2> QED
    BY <2>1, <2>3, <2>4, <1>0, <1>g DEF Outside
<1>12. CASE managed_upsert(p)
  <2>1. at(p) \notin ChangeSteps /\ provider = "cloudflare_r2"
    BY <1>12 DEF managed_upsert, ManagedApart, SharedSteps, ChangeSteps, SaveSteps, WriteSteps
  <2> QED
    BY <1>12, <2>1, <1>0, <1>i DEF managed_upsert, Outside
<1>13. CASE refresh_shared_credential_state(p)
  <2>1. at(p) \notin ChangeSteps
    BY <1>13 DEF refresh_shared_credential_state, ChangeSteps, SaveSteps, WriteSteps
  <2>2. UNCHANGED <<provider, account, cred, grants, saved, causes>>
    BY <1>13 DEF refresh_shared_credential_state, durable
  <2>3. CASE Finish(p)
    BY <2>1, <2>2, <2>3, <1>0, <1>i DEF Outside
  <2>4. CASE \E row \in Bindings, l \in {"open", "shared_write"} : proc' = [proc EXCEPT ![p].pc = l, ![p].row = row]
    <3>1. /\ \E l \in {"open", "shared_write"} : proc'[p].pc = l
          /\ proc'[p].op = proc[p].op
          /\ \A q \in Proc \ {p} : proc'[q] = proc[q]
      BY <2>4, <1>0 DEF Commands
    <3> QED
      BY <2>1, <2>2, <3>1, <1>0, <1>g DEF Outside
  <2> QED
    BY <1>13, <2>3, <2>4, RowKept
<1>14. CASE shared_write(p)
  <2>1. at(p) \notin ChangeSteps
    BY <1>14 DEF shared_write, ChangeSteps, SaveSteps, WriteSteps
  <2> QED
    BY <1>14, <2>1, <1>0, <1>i, <1>g DEF shared_write, Goto, Outside, Commands
<1>5. CASE connect(p)
  <2>1. at(p) \notin ChangeSteps
    BY <1>5 DEF connect, ChangeSteps, SaveSteps, WriteSteps
  <2> QED
    BY <1>5, <2>1, <1>0, <1>g, <1>n DEF connect, Goto, durable, Outside, Commands
<1>6. CASE access_token(p)
  <2>1. at(p) \notin ChangeSteps
    BY <1>6 DEF access_token, ChangeSteps, SaveSteps, WriteSteps
  <2> QED
    BY <1>6, <2>1, <1>0, <1>g, <1>n DEF access_token, durable, Outside, Commands
<1>7. CASE refresh_credential(p)
  <2>1. at(p) \notin ChangeSteps
    BY <1>7 DEF refresh_credential, ChangeSteps, SaveSteps, WriteSteps
  <2> QED
    BY <1>7, <2>1, <1>0, <1>g, <1>n DEF refresh_credential, Goto, durable, Outside, Commands
<1>8. CASE store_refreshed(p)
  <2>1. at(p) \notin ChangeSteps
    BY <1>8 DEF store_refreshed, ChangeSteps, SaveSteps, WriteSteps
  <2>2. /\ UNCHANGED <<provider, account, grants, saved>>
        /\ causes \subseteq causes' /\ (cred' = cred \/ "credential_race" \in causes')
    BY <1>8 DEF store_refreshed
  <2> QED
    BY <1>8, <2>1, <2>2, <1>0, <1>g, <1>n DEF store_refreshed, Goto, Outside, Commands
<1>9. CASE send_authorized(p)
  <2>1. at(p) \notin ChangeSteps
    BY <1>9 DEF send_authorized, ChangeSteps, SaveSteps, WriteSteps
  <2>2. \/ \E e : Ended(p, e)
        \/ proc' = [proc EXCEPT ![p].pc = "token", ![p].force = TRUE]
        \/ proc' = [proc EXCEPT ![p].pc = "token", ![p].attempt = @ + 1]
    BY <1>9 DEF send_authorized
  <2>3. UNCHANGED <<provider, account, cred, grants, saved, causes>>
    BY <1>9 DEF send_authorized, durable
  <2> QED
    BY <2>1, <2>2, <2>3, <1>0, <1>g, <1>n DEF Outside, Commands
<1>10. CASE request_json(p)
  <2>1. at(p) \notin ChangeSteps
    BY <1>10 DEF request_json, ChangeSteps, SaveSteps, WriteSteps
  <2> QED
    BY <1>10, <2>1, <1>0, <1>n DEF request_json, durable, Outside, Commands
<1>11. CASE update_provider_status(p)
  <2>1. at(p) \notin ChangeSteps
    BY <1>11 DEF update_provider_status, ChangeSteps, SaveSteps, WriteSteps
  <2> QED
    BY <1>11, <2>1, <1>0, <1>i DEF update_provider_status, Outside
<1> QED
  BY <1>1, <1>2, <1>3, <1>4, <1>5, <1>6, <1>7, <1>8, <1>9, <1>10, <1>11, <1>12, <1>13, <1>14 DEF OutsideSteps


-----------------------------------------------------------------------------
(* What a step may do to each variable but the commands, the row and its     *)
(* binding.                                                                  *)
Frame ==
  /\ failures' = failures \/ CallFails
  /\ causes' \in {causes, causes \cup {"credential_race"}, causes \cup {"stale_status"}}
  /\ syncCred' \in {syncCred, ~syncCred}
  /\ challenge' \in {challenge, TRUE, FALSE}
  /\ provider' = provider
  /\ refreshLock' \in {refreshLock, "free"} \cup Proc
  /\ cred' \in {cred, NoCred} \/ \E p \in Proc : cred' \in {proc[p].held, proc[p].new}
  /\ saved' \in {saved, 0} \/ \E p \in Proc : saved' = proc[p].new
  /\ revoked' \in {revoked, grants}
  /\ grants' = grants \/ (grants < MaxGrant /\ grants' = grants + 1)

(* Every step does that.                                                     *)
LEMMA AccountFrames ==
  ASSUME AccountsNext
  PROVE  Frame
<1>1. ASSUME NEW p \in Proc, authorize_with_pkce(p) PROVE Frame
  BY <1>1 DEF authorize_with_pkce, Frame, Overlap
<1>2. ASSUME NEW p \in Proc, begin_authorization(p) PROVE Frame
  BY <1>2 DEF begin_authorization, Frame, durable
<1>3. ASSUME NEW p \in Proc, poll_authorization(p) PROVE Frame
  BY <1>3 DEF poll_authorization, Frame, durable
<1>4. ASSUME NEW p \in Proc, remove_account(p) PROVE Frame
  BY <1>4 DEF remove_account, Frame, durable, Overlap
<1>5. ASSUME NEW p \in Proc, connect_account_with_row(p) PROVE Frame
  BY <1>5 DEF connect_account_with_row, Frame, durable
<1>6. ASSUME NEW p \in Proc, load_previous(p) PROVE Frame
  BY <1>6 DEF load_previous, Frame, durable
<1>7. ASSUME NEW p \in Proc, save_store(p) PROVE Frame
  BY <1>7 DEF save_store, Frame
<1>8. ASSUME NEW p \in Proc, save_verify(p) PROVE Frame
  BY <1>8 DEF save_verify, Frame, durable
<1>9. ASSUME NEW p \in Proc, save_upsert(p) PROVE Frame
  BY <1>9 DEF save_upsert, Frame
<1>10. ASSUME NEW p \in Proc, restore_credential(p) PROVE Frame
  BY <1>10 DEF restore_credential, Frame
<1>11. ASSUME NEW p \in Proc, remove_delete(p) PROVE Frame
  BY <1>11 DEF remove_delete, Frame
<1>12. ASSUME NEW p \in Proc, remove_row(p) PROVE Frame
  BY <1>12 DEF remove_row, Frame
<1>13. ASSUME NEW p \in Proc, connect(p) PROVE Frame
  BY <1>13 DEF connect, Frame, durable
<1>14. ASSUME NEW p \in Proc, store_refreshed(p) PROVE Frame
  BY <1>14 DEF store_refreshed, Frame
<1>15. ASSUME NEW p \in Proc, update_provider_status(p) PROVE Frame
  BY <1>15 DEF update_provider_status, Frame
<1>16. ASSUME NEW p \in Proc, access_token(p) PROVE Frame
  BY <1>16 DEF access_token, Frame, durable
<1>17. ASSUME NEW p \in Proc, poll_result(p) PROVE Frame
  BY <1>17 DEF poll_result, Frame, Overlap
<1>18. ASSUME NEW p \in Proc, refresh_credential(p) PROVE Frame
  BY <1>18 DEF refresh_credential, Frame, durable
<1>19. ASSUME NEW p \in Proc, send_authorized(p) PROVE Frame
  BY <1>19 DEF send_authorized, Frame, durable
<1>20. ASSUME NEW p \in Proc, request_json(p) PROVE Frame
  BY <1>20 DEF request_json, Frame, durable
<1>21. ASSUME NEW p \in Proc, ensure_managed_r2_account(p) PROVE Frame
  BY <1>21 DEF ensure_managed_r2_account, Frame, durable
<1>25. ASSUME NEW p \in Proc, managed_upsert(p) PROVE Frame
  BY <1>25 DEF managed_upsert, Frame
<1>26. ASSUME NEW p \in Proc, refresh_shared_credential_state(p) PROVE Frame
  BY <1>26 DEF refresh_shared_credential_state, Frame, durable
<1>27. ASSUME NEW p \in Proc, shared_write(p) PROVE Frame
  BY <1>27 DEF shared_write, Frame
<1>22. CASE sync_credential_changes
  BY <1>22 DEF sync_credential_changes, Frame, CallFails
<1>23. CASE grant_revoked
  BY <1>23 DEF grant_revoked, Frame
<1>24. CASE application_ends
  BY <1>24 DEF application_ends, Frame, durable
<1> QED
  BY <1>1, <1>2, <1>3, <1>4, <1>5, <1>6, <1>7, <1>8, <1>9, <1>10, <1>11, <1>12, <1>13, <1>14, <1>15, <1>16, <1>17, <1>18, <1>19, <1>20, <1>21, <1>22, <1>23, <1>24,
     <1>25, <1>26, <1>27
  DEF AccountsNext, Start, Local, Network, Environment

(* The row and its binding are changed by few steps.                        *)
RowUnchanged == UNCHANGED <<account, binding>> /\ causes \subseteq causes'

(* These, and no others.                                                    *)
LEMMA RowChanges ==
  ASSUME AccountsNext
  PROVE  \/ RowUnchanged
         \/ \E p \in Proc : \/ save_upsert(p) \/ remove_row(p) \/ managed_upsert(p)
                           \/ shared_write(p) \/ update_provider_status(p)
<1>1. ASSUME NEW p \in Proc,
             \/ authorize_with_pkce(p) \/ poll_result(p) \/ remove_account(p)
             \/ restore_credential(p) \/ store_refreshed(p)
      PROVE  RowUnchanged
  BY <1>1 DEF authorize_with_pkce, poll_result, remove_account, restore_credential, store_refreshed,
     Overlap, durable, RowUnchanged
<1>2. ASSUME NEW p \in Proc,
             \/ begin_authorization(p) \/ poll_authorization(p) \/ load_previous(p) \/ save_store(p)
             \/ save_verify(p) \/ remove_delete(p)
      PROVE  RowUnchanged
  BY <1>2 DEF begin_authorization, poll_authorization, load_previous, save_store, save_verify,
     remove_delete, durable, RowUnchanged
<1>3. ASSUME NEW p \in Proc,
             \/ connect(p) \/ access_token(p) \/ refresh_credential(p) \/ send_authorized(p) \/ request_json(p)
             \/ connect_account_with_row(p) \/ ensure_managed_r2_account(p) \/ refresh_shared_credential_state(p)
      PROVE  RowUnchanged
  BY <1>3 DEF connect, access_token, refresh_credential, send_authorized, request_json, connect_account_with_row,
     ensure_managed_r2_account, refresh_shared_credential_state, durable, RowUnchanged
<1>4. CASE sync_credential_changes \/ grant_revoked \/ application_ends
  BY <1>4 DEF sync_credential_changes, grant_revoked, application_ends, durable, RowUnchanged
<1> QED
  BY <1>1, <1>2, <1>3, <1>4 DEF AccountsNext, Start, Local, Network, Environment

(* The types stay.                                                          *)
LEMMA AccountTypes ==
  ASSUME AccountsAssumption, AccountsTypeOK, AccountsNext
  PROVE  AccountsTypeOK'
<1>0. AccountsTypeOK /\ AccountsAssumption /\ Frame
  BY AccountFrames
<1>1. (proc \in [Proc -> Commands])'
  BY ProcTyped
<1>r. ASSUME NEW p \in Proc PROVE proc[p].held \in 0 .. MaxGrant /\ proc[p].new \in 0 .. MaxGrant /\ proc[p].err \in Errors
  BY <1>0 DEF AccountsTypeOK, Commands
<1>b. ASSUME NEW auth \in {"connected", "auth_required", "disconnected"}, upsert_account(auth)
      PROVE  account' \in {"none", "live", "deleted"} /\ binding' \in Bindings
  BY <1>b, <1>0 DEF upsert_account, AccountsTypeOK, Bindings, Errors
<1>2. (failures \in 0 .. MaxFailures)'
  BY <1>0 DEF Frame, CallFails, AccountsTypeOK, AccountsAssumption
<1>3. (causes \subseteq {"credential_race", "stale_status"} /\ overtaken \subseteq Proc)'
  <2>1. InFlight' \subseteq Proc
    BY DEF InFlight
  <2>2. overtaken' \subseteq InFlight'
    BY DEF AccountsNext
  <2> QED
    BY <2>1, <2>2, <1>0 DEF Frame, AccountsTypeOK
<1>4. (syncCred \in BOOLEAN /\ challenge \in BOOLEAN /\ refreshLock \in Lock /\ provider \in Providers)'
  BY <1>0 DEF Frame, AccountsTypeOK, Lock
<1>5. (cred \in 0 .. MaxGrant /\ grants \in 0 .. MaxGrant /\ saved \in 0 .. MaxGrant /\ revoked \in 0 .. MaxGrant)'
  BY <1>0, <1>r DEF Frame, AccountsTypeOK, NoCred, AccountsAssumption
<1>6. (account \in {"none", "live", "deleted"} /\ binding \in Bindings)'
  <2>0. account \in {"none", "live", "deleted"} /\ binding \in Bindings
    BY <1>0 DEF AccountsTypeOK
  <2>1. ASSUME NEW p \in Proc, save_upsert(p)
        PROVE  account' \in {"none", "live", "deleted"} /\ binding' \in Bindings
    BY <2>1, <2>0, <1>b DEF save_upsert
  <2>2. ASSUME NEW p \in Proc, remove_row(p)
        PROVE  account' \in {"none", "live", "deleted"} /\ binding' \in Bindings
    BY <2>2, <2>0 DEF remove_row, delete_account, Bindings
  <2>3. ASSUME NEW p \in Proc, shared_write(p)
        PROVE  account' \in {"none", "live", "deleted"} /\ binding' \in Bindings
    BY <2>3, <2>0, CommandFields DEF shared_write
  <2>4. ASSUME NEW p \in Proc, update_provider_status(p)
        PROVE  account' \in {"none", "live", "deleted"} /\ binding' \in Bindings
    <3>1. /\ account' = account
          /\ \/ binding' = binding
             \/ binding' = [proc[p].row EXCEPT
                    !.auth = IF proc[p].err = "authentication" THEN "auth_required" ELSE @,
                    !.err = proc[p].err]
      BY <2>4 DEF update_provider_status
    <3>2. proc[p].row \in Bindings /\ proc[p].err \in Errors
      BY <1>r, CommandFields
    <3>3. [proc[p].row EXCEPT
                    !.auth = IF proc[p].err = "authentication" THEN "auth_required" ELSE @,
                    !.err = proc[p].err] \in Bindings
      BY <3>2 DEF Bindings
    <3> QED
      BY <3>1, <3>3, <2>0
  <2>5. ASSUME NEW p \in Proc, managed_upsert(p)
        PROVE  account' \in {"none", "live", "deleted"} /\ binding' \in Bindings
    <3>1. proc[p].row.auth \in {"connected", "auth_required", "disconnected"}
      BY CommandFields DEF Bindings
    <3> QED
      BY <2>5, <2>0, <3>1, <1>b DEF managed_upsert
  <2>6. ASSUME UNCHANGED <<account, binding>>
        PROVE  account' \in {"none", "live", "deleted"} /\ binding' \in Bindings
    BY <2>6, <2>0
  <2> QED
    BY <2>1, <2>2, <2>3, <2>4, <2>5, <2>6, RowChanges DEF RowUnchanged
<1> QED
  BY <1>1, <1>2, <1>3, <1>4, <1>5, <1>6 DEF AccountsTypeOK


-----------------------------------------------------------------------------
(* Steps of a command that changes the account: what it and the others are  *)
(* at before and after.                                                     *)
At(p, before, after) ==
  /\ at(p) = before /\ at(p)' = after
  /\ proc'[p].op \in {"save", "remove"} <=> after \in ChangeSteps
  /\ \A q \in Proc \ {p} : proc'[q] = proc[q]

Same(p) == proc'[p].held = proc[p].held /\ proc'[p].new = proc[p].new

\* A command starts an authorization's change of the account.
Begins(p) ==
  /\ \E l \in {"idle", "polling"} : At(p, l, "save_load")
  /\ grants' = grants + 1 /\ proc'[p].new = grants + 1
  /\ causes' = Overlap(p)
  /\ UNCHANGED <<provider, account, cred, saved>>

\* It ends where it has changed nothing.
Withdraws(p) ==
  /\ \E l \in {"save_load", "remove_load", "save_store", "remove_delete"} : At(p, l, "idle")
  /\ UNCHANGED <<provider, account, cred, saved, grants, causes>>

\* It goes on, without touching the row.
Proceeds(p) ==
  /\ \/ At(p, "save_load", "save_store") /\ proc'[p].held = cred /\ proc'[p].new = proc[p].new /\ cred' = cred
     \/ At(p, "remove_load", "remove_delete") /\ proc'[p].held = cred /\ cred' = cred
     \/ At(p, "save_store", "save_verify") /\ Same(p) /\ cred' = proc[p].new
     \/ At(p, "save_verify", "save_upsert") /\ Same(p) /\ cred' = cred
     \/ At(p, "remove_delete", "remove_row") /\ Same(p) /\ cred' = NoCred
     \/ /\ \E l \in {"save_verify", "save_upsert", "remove_row"} : At(p, l, "restore")
        /\ Same(p) /\ cred' = cred
  /\ UNCHANGED <<provider, account, saved, grants, causes>>

\* It completes, or puts back what it changed.
Completes(p) ==
  /\ \/ At(p, "save_upsert", "idle") /\ account' = "live" /\ saved' = proc[p].new /\ UNCHANGED <<cred, causes>>
     \/ At(p, "remove_row", "idle") /\ account' = "deleted" /\ saved' = 0 /\ UNCHANGED <<cred, causes>>
     \/ At(p, "restore", "idle") /\ cred' = proc[p].held /\ UNCHANGED <<account, saved, causes>>
     \/ /\ At(p, "restore", "idle") /\ "credential_race" \in causes' /\ causes \subseteq causes'
        /\ UNCHANGED <<account, saved, cred>>
  /\ UNCHANGED <<provider, grants>>

\* A removal starts.
StartsRemoval(p) ==
  /\ At(p, "idle", "remove_load") /\ causes' = Overlap(p)
  /\ UNCHANGED <<provider, account, cred, saved, grants>>

\* The steps that are not a command's.
Background ==
  \/ proc' = proc /\ UNCHANGED <<provider, account, cred, saved, grants, causes>>
  \/ /\ proc' = [p \in Proc |-> Idle]
     /\ UNCHANGED <<provider, account, cred, saved, grants>>
     /\ causes' = IF \E p \in Proc : Mutating(p) THEN causes \cup {"credential_race"} ELSE causes

(* Every step is one of these.                                              *)
LEMMA AccountSteps ==
  ASSUME AccountsTypeOK, Labelled, ManagedApart, AccountsNext
  PROVE  \/ \E p \in Proc : \/ Outside(p) \/ Begins(p) \/ Withdraws(p) \/ Proceeds(p)
                           \/ Completes(p) \/ StartsRemoval(p)
         \/ Background
<1>0. proc \in [Proc -> Commands] /\ \A p \in Proc : at(p) = proc[p].pc /\ at(p)' = proc'[p].pc
  BY DEF AccountsTypeOK, at
<1> USE DEF ChangeSteps, SaveSteps, WriteSteps
<1>i. ASSUME NEW p \in Proc, NEW l, at(p) = l, Finish(p) PROVE At(p, l, "idle")
  BY <1>i, <1>0 DEF Finish, Idle, At
<1>g. ASSUME NEW p \in Proc, NEW l, NEW m \in {"save_verify", "save_upsert", "restore", "remove_row"},
             l \in ChangeSteps, at(p) = l, Goto(p, m)
      PROVE  At(p, l, m) /\ Same(p)
  BY <1>g, <1>0 DEF Goto, At, Same, Commands, Labelled
<1>1. ASSUME NEW p \in Proc, OutsideSteps(p) PROVE Outside(p)
  BY <1>1, OutsideEffect
<1>2. ASSUME NEW p \in Proc, authorize_with_pkce(p) \/ (poll_result(p) /\ ~Finish(p)) PROVE Begins(p)
  <2>1. /\ at(p) \in {"idle", "polling"}
        /\ proc' = [proc EXCEPT ![p].pc = "save_load", ![p].op = "save", ![p].new = grants + 1]
        /\ grants' = grants + 1 /\ causes' = Overlap(p)
        /\ UNCHANGED <<provider, account, cred, saved>>
    BY <1>2 DEF authorize_with_pkce, poll_result
  <2>2. At(p, at(p), "save_load") /\ proc'[p].new = grants + 1
    BY <2>1, <1>0 DEF At, Commands
  <2> QED
    BY <2>1, <2>2 DEF Begins
<1>3. ASSUME NEW p \in Proc, load_previous(p) PROVE Withdraws(p) \/ Proceeds(p)
  <2>1. at(p) \in {"save_load", "remove_load"} /\ UNCHANGED <<provider, account, cred, saved, grants, causes>>
    BY <1>3 DEF load_previous, durable
  <2>2. CASE Finish(p)
    BY <2>1, <2>2, <1>i DEF Withdraws
  <2>3. CASE proc' = [proc EXCEPT ![p].held = cred,
                          ![p].pc = IF at(p) = "save_load" THEN "save_store" ELSE "remove_delete"]
    <3>1. /\ At(p, at(p), IF at(p) = "save_load" THEN "save_store" ELSE "remove_delete")
          /\ proc'[p].held = cred /\ proc'[p].new = proc[p].new
      BY <2>1, <2>3, <1>0 DEF At, Commands, Labelled
    <3> QED
      BY <2>1, <3>1 DEF Proceeds
  <2> QED
    BY <1>3, <2>2, <2>3 DEF load_previous
<1>4. ASSUME NEW p \in Proc, save_store(p) PROVE Withdraws(p) \/ Proceeds(p)
  BY <1>4, <1>i, <1>g DEF save_store, Withdraws, Proceeds
<1>5. ASSUME NEW p \in Proc, save_verify(p) PROVE Proceeds(p)
  BY <1>5, <1>g DEF save_verify, durable, Proceeds
<1>6. ASSUME NEW p \in Proc, save_upsert(p) PROVE Completes(p) \/ Proceeds(p)
  BY <1>6, <1>i, <1>g DEF save_upsert, upsert_account, Completes, Proceeds
<1>7. ASSUME NEW p \in Proc, restore_credential(p) PROVE Completes(p)
  BY <1>7, <1>i DEF restore_credential, Completes
<1>8. ASSUME NEW p \in Proc, remove_account(p) PROVE StartsRemoval(p)
  BY <1>8, <1>0 DEF remove_account, durable, StartsRemoval, At, Commands
<1>9. ASSUME NEW p \in Proc, remove_delete(p) PROVE Withdraws(p) \/ Proceeds(p)
  BY <1>9, <1>i, <1>g DEF remove_delete, Withdraws, Proceeds
<1>10. ASSUME NEW p \in Proc, remove_row(p) PROVE Completes(p) \/ Proceeds(p)
  BY <1>10, <1>i, <1>g DEF remove_row, delete_account, Completes, Proceeds
<1>11. CASE Environment
  BY <1>11 DEF Environment, sync_credential_changes, grant_revoked, application_ends, durable, Background
<1> QED
  BY <1>1, <1>2, <1>3, <1>4, <1>5, <1>6, <1>7, <1>8, <1>9, <1>10, <1>11
  DEF AccountsNext, Start, Local, Network, OutsideSteps


-----------------------------------------------------------------------------
(* Operation and step of every command agree after every step.              *)
LEMMA LabelledStep ==
  ASSUME AccountsTypeOK, Labelled, ManagedApart, AccountsNext
  PROVE  Labelled'
<1>0. \A p \in Proc : (proc[p].op \in {"save", "remove"} <=> at(p) \in ChangeSteps)
  BY DEF Labelled
<1>d. \A p \in Proc : at(p) = proc[p].pc /\ at(p)' = proc'[p].pc
  BY DEF at
<1>1. ASSUME NEW p \in Proc, \A q \in Proc \ {p} : proc'[q] = proc[q],
             proc'[p].op \in {"save", "remove"} <=> at(p)' \in ChangeSteps
      PROVE  Labelled'
  BY <1>1, <1>0, <1>d DEF Labelled
<1>2. ASSUME NEW p \in Proc, Outside(p) PROVE Labelled'
  BY <1>1, <1>2 DEF Outside
<1>3. ASSUME NEW p \in Proc, NEW l, NEW m, At(p, l, m) PROVE Labelled'
  BY <1>1, <1>3 DEF At
<1>4. ASSUME NEW p \in Proc, Begins(p) \/ Withdraws(p) \/ Proceeds(p) \/ Completes(p) \/ StartsRemoval(p)
      PROVE  Labelled'
  BY <1>3, <1>4 DEF Begins, Withdraws, Proceeds, Completes, StartsRemoval
<1>5. CASE Background
  <2>1. CASE proc' = proc
    BY <2>1, <1>0, <1>d DEF Labelled
  <2>2. CASE proc' = [p \in Proc |-> Idle]
    BY <2>2, <1>d DEF Labelled, Idle, ChangeSteps, SaveSteps, WriteSteps
  <2> QED
    BY <1>5, <2>1, <2>2 DEF Background
<1> QED
  BY <1>2, <1>4, <1>5, AccountSteps

(* The grant of an authorization under way is no other's and not the one    *)
(* last reported.                                                           *)
LEMMA FreshStep ==
  ASSUME AccountsAssumption, AccountsTypeOK, Labelled, ManagedApart, FreshGrants, AccountsNext
  PROVE  FreshGrants'
<1>0. /\ saved \in Nat /\ grants \in Nat /\ saved <= grants
      /\ \A p \in Proc : proc[p].new \in Nat
      /\ \A p \in Proc : at(p) \in SaveSteps =>
           /\ proc[p].new # 0 /\ proc[p].new <= grants /\ proc[p].new # saved
           /\ \A q \in Proc \ {p} : at(q) \in SaveSteps => proc[q].new # proc[p].new
  BY DEF FreshGrants, AccountsTypeOK, Commands, AccountsAssumption
<1>d. \A p \in Proc : at(p) = proc[p].pc /\ at(p)' = proc'[p].pc
  BY DEF at
<1>1. ASSUME NEW p \in Proc, \A q \in Proc \ {p} : proc'[q] = proc[q],
             saved' = saved, grants' = grants,
             at(p)' \in SaveSteps => at(p) \in SaveSteps /\ proc'[p].new = proc[p].new
      PROVE  FreshGrants'
  BY <1>1, <1>0, <1>d DEF FreshGrants
<1>2. ASSUME NEW p \in Proc, Outside(p) PROVE FreshGrants'
  BY <1>1, <1>2 DEF Outside, ChangeSteps
<1>3. ASSUME NEW p \in Proc, Begins(p) PROVE FreshGrants'
  <2>1. /\ at(p) \notin SaveSteps /\ grants' = grants + 1 /\ proc'[p].new = grants + 1 /\ saved' = saved
        /\ \A q \in Proc \ {p} : proc'[q] = proc[q]
    BY <1>3 DEF Begins, At, SaveSteps
  <2> QED
    BY <2>1, <1>0, <1>d DEF FreshGrants
<1>4. ASSUME NEW p \in Proc, Withdraws(p) \/ StartsRemoval(p) PROVE FreshGrants'
  <2>1. /\ at(p)' \notin SaveSteps /\ saved' = saved /\ grants' = grants
        /\ \A q \in Proc \ {p} : proc'[q] = proc[q]
    BY <1>4 DEF Withdraws, StartsRemoval, At, SaveSteps
  <2> QED
    BY <2>1, <1>1
<1>5. ASSUME NEW p \in Proc, Proceeds(p) PROVE FreshGrants'
  <2>1. /\ saved' = saved /\ grants' = grants
        /\ \A q \in Proc \ {p} : proc'[q] = proc[q]
        /\ at(p)' \in SaveSteps => at(p) \in SaveSteps /\ proc'[p].new = proc[p].new
    BY <1>5 DEF Proceeds, At, Same, SaveSteps
  <2> QED
    BY <2>1, <1>1
<1>6. ASSUME NEW p \in Proc, Completes(p) PROVE FreshGrants'
  <2>1. CASE At(p, "save_upsert", "idle") /\ saved' = proc[p].new
    <3>1. /\ at(p) \in SaveSteps /\ at(p)' \notin SaveSteps /\ grants' = grants
          /\ \A q \in Proc \ {p} : proc'[q] = proc[q]
      BY <1>6, <2>1 DEF Completes, At, SaveSteps
    <3> QED
      BY <2>1, <3>1, <1>0, <1>d DEF FreshGrants
  <2>2. CASE saved' \in {saved, 0}
    <3>1. /\ at(p)' \notin SaveSteps /\ grants' = grants
          /\ \A q \in Proc \ {p} : proc'[q] = proc[q]
      BY <1>6 DEF Completes, At, SaveSteps
    <3> QED
      BY <2>2, <3>1, <1>0, <1>d DEF FreshGrants
  <2> QED
    BY <1>6, <2>1, <2>2 DEF Completes
<1>7. CASE Background
  <2>1. CASE proc' = proc
    BY <1>7, <2>1, <1>0, <1>d DEF Background, FreshGrants
  <2>2. CASE proc' = [p \in Proc |-> Idle]
    BY <1>7, <2>2, <1>0, <1>d DEF Background, FreshGrants, Idle, SaveSteps
  <2> QED
    BY <1>7, <2>1, <2>2 DEF Background
<1> QED
  BY <1>2, <1>3, <1>4, <1>5, <1>6, <1>7, AccountSteps

(* While nothing raced, the key ring follows the one command that changes   *)
(* the account.                                                             *)
LEMMA KeyRingStep ==
  ASSUME AccountsAssumption, AccountsTypeOK, Labelled, ManagedApart, FreshGrants, KeyRingTracked, AccountsNext
  PROVE  KeyRingTracked'
<1> SUFFICES ASSUME Undisturbed' PROVE KeyRingTracked'
  BY DEF KeyRingTracked
<1>d. \A p \in Proc : at(p) = proc[p].pc /\ at(p)' = proc'[p].pc
  BY DEF at
<1>m. \A p \in Proc : at(p) \in ChangeSteps => Mutating(p)
  BY DEF Labelled, Mutating, ChangeSteps, SaveSteps, WriteSteps
<1>s. /\ WriteSteps \subseteq ChangeSteps /\ SaveSteps \subseteq ChangeSteps
      /\ WriteSteps \cup {"save_store", "remove_delete"} \subseteq ChangeSteps
      /\ "idle" \notin ChangeSteps
  BY DEF ChangeSteps, SaveSteps, WriteSteps
<1>u. ASSUME provider' = provider, causes \subseteq causes' PROVE Undisturbed
  BY <1>u DEF Undisturbed
<1>k. ASSUME Undisturbed
      PROVE  /\ saved # 0 <=> account = "live"
             /\ (\A p \in Proc : at(p) \notin WriteSteps) => cred = saved
             /\ \A p \in Proc : at(p) \in ChangeSteps => \A q \in Proc : at(q) \in ChangeSteps => q = p
             /\ \A p \in Proc :
                 /\ at(p) \in WriteSteps \cup {"save_store", "remove_delete"} => proc[p].held = saved
                 /\ at(p) \in {"save_verify", "save_upsert"} => cred = proc[p].new
                 /\ at(p) = "remove_row" => cred = NoCred
  BY <1>k DEF KeyRingTracked
<1>1. ASSUME NEW p \in Proc, Outside(p) PROVE KeyRingTracked'
  <2>1. Undisturbed /\ cred' = cred
    BY <1>1, <1>u DEF Outside, Undisturbed
  <2>2. \A q \in Proc : \/ at(q)' = at(q) /\ proc'[q] = proc[q]
                        \/ at(q)' \notin ChangeSteps /\ at(q) \notin ChangeSteps
    BY <1>1, <1>d DEF Outside
  <2>3. saved' = saved /\ account' = account
    BY <1>1, <2>1 DEF Outside, Undisturbed
  <2>4. (\A q \in Proc : at(q)' \notin WriteSteps) => cred' = saved'
    <3>1. (\A q \in Proc : at(q)' \notin WriteSteps) => \A q \in Proc : at(q) \notin WriteSteps
      BY <2>2, <1>s
    <3> QED
      BY <3>1, <2>1, <2>3, <1>k
  <2>5. \A q \in Proc : at(q)' \in ChangeSteps => \A r \in Proc : at(r)' \in ChangeSteps => r = q
    <3>1. \A q \in Proc : at(q)' \in ChangeSteps => at(q) \in ChangeSteps
      BY <2>2
    <3> QED
      BY <3>1, <2>1, <1>k
  <2>6. ASSUME NEW q \in Proc
        PROVE  /\ at(q)' \in WriteSteps \cup {"save_store", "remove_delete"} => proc'[q].held = saved'
               /\ at(q)' \in {"save_verify", "save_upsert"} => cred' = proc'[q].new
               /\ at(q)' = "remove_row" => cred' = NoCred
    <3>1. CASE at(q)' = at(q) /\ proc'[q] = proc[q]
      BY <3>1, <2>1, <2>3, <1>k
    <3>2. CASE at(q)' \notin ChangeSteps
      BY <3>2 DEF ChangeSteps, SaveSteps, WriteSteps
    <3> QED
      BY <3>1, <3>2, <2>2
  <2> QED
    BY <2>1, <2>3, <2>4, <2>5, <2>6, <1>k DEF KeyRingTracked
\* A command that starts to change the account is the only one that does.
<1>2. ASSUME NEW p \in Proc, causes' = Overlap(p)
      PROVE  causes' = causes /\ \A q \in Proc \ {p} : at(q) \notin ChangeSteps
  BY <1>2, <1>m DEF Overlap, Undisturbed
<1>3. ASSUME NEW p \in Proc, Begins(p) \/ StartsRemoval(p) PROVE KeyRingTracked'
  <2>1. /\ causes' = Overlap(p) /\ UNCHANGED <<provider, account, cred, saved>>
        /\ at(p) \notin ChangeSteps /\ at(p)' \in {"save_load", "remove_load"}
        /\ \A q \in Proc \ {p} : proc'[q] = proc[q]
    BY <1>3 DEF Begins, StartsRemoval, At, ChangeSteps, SaveSteps, WriteSteps
  <2>2. Undisturbed /\ \A q \in Proc \ {p} : at(q) \notin ChangeSteps /\ at(q)' \notin ChangeSteps
    BY <2>1, <1>2, <1>u, <1>d
  <2>3. at(p)' \notin WriteSteps \cup {"save_store", "remove_delete"}
    BY <2>1 DEF WriteSteps
  <2> QED
    BY <2>1, <2>2, <2>3, <1>k, <1>s DEF KeyRingTracked, WriteSteps
\* A command that goes on or ends stays, or was, the only one.
<1>4. ASSUME NEW p \in Proc, NEW l \in ChangeSteps, NEW m, At(p, l, m), Undisturbed
      PROVE  /\ \A q \in Proc \ {p} : proc'[q] = proc[q] /\ at(q) \notin ChangeSteps /\ at(q)' \notin ChangeSteps
             /\ at(p) = l /\ at(p)' = m
  BY <1>4, <1>k, <1>d DEF At
<1>5. ASSUME NEW p \in Proc, Withdraws(p) PROVE KeyRingTracked'
  <2>0. Undisturbed /\ UNCHANGED <<account, cred, saved>>
    BY <1>5, <1>u DEF Withdraws
  <2>1. /\ at(p) \in ChangeSteps \ WriteSteps /\ at(p)' = "idle"
        /\ \A q \in Proc \ {p} : at(q) \notin ChangeSteps /\ at(q)' \notin ChangeSteps
    BY <2>0, <1>5, <1>4 DEF Withdraws, ChangeSteps, SaveSteps, WriteSteps
  <2>2. cred = saved
    BY <2>0, <2>1, <1>k, <1>s
  <2> QED
    BY <2>0, <2>1, <2>2, <1>k, <1>s DEF KeyRingTracked, ChangeSteps, SaveSteps, WriteSteps
<1>6. ASSUME NEW p \in Proc, Proceeds(p) PROVE KeyRingTracked'
  <2>0. Undisturbed /\ UNCHANGED <<account, saved>>
    BY <1>6, <1>u DEF Proceeds
  <2>1. /\ at(p) \in ChangeSteps /\ at(p)' \in ChangeSteps
        /\ \A q \in Proc \ {p} : at(q) \notin ChangeSteps /\ at(q)' \notin ChangeSteps
    BY <2>0, <1>6, <1>4 DEF Proceeds, ChangeSteps, SaveSteps, WriteSteps
  <2>2. at(p) \notin WriteSteps => cred = saved
    BY <2>0, <2>1, <1>k, <1>s
  <2>3. /\ at(p)' \in WriteSteps \cup {"save_store", "remove_delete"} => proc'[p].held = saved
        /\ at(p)' \in {"save_verify", "save_upsert"} => cred' = proc'[p].new
        /\ at(p)' = "remove_row" => cred' = NoCred
        /\ at(p)' \notin WriteSteps => cred' = saved
    BY <2>0, <2>2, <1>k, <1>6 DEF Proceeds, At, Same, WriteSteps
  <2>4. ASSUME NEW q \in Proc \ {p}
        PROVE  at(q)' \notin ChangeSteps /\ at(q)' \notin WriteSteps \cup {"save_store", "remove_delete"}
               /\ at(q)' \notin {"save_verify", "save_upsert", "remove_row"}
    BY <2>1 DEF ChangeSteps, SaveSteps, WriteSteps
  <2> QED
    BY <2>0, <2>1, <2>3, <2>4, <1>k DEF KeyRingTracked
<1>7. ASSUME NEW p \in Proc, Completes(p) PROVE KeyRingTracked'
  <2>0. Undisturbed /\ "credential_race" \notin causes'
    BY <1>7, <1>u DEF Completes, Undisturbed
  <2>1. /\ at(p) \in {"save_upsert", "remove_row", "restore"} /\ at(p)' = "idle"
        /\ \A q \in Proc \ {p} : at(q) \notin ChangeSteps /\ at(q)' \notin ChangeSteps
    BY <2>0, <1>7, <1>4 DEF Completes, ChangeSteps, SaveSteps, WriteSteps
  <2>2. cred' = saved' /\ (saved' # 0 <=> account' = "live")
    <3>1. CASE At(p, "save_upsert", "idle") /\ account' = "live" /\ saved' = proc[p].new /\ UNCHANGED cred
      <4>1. proc[p].new # 0 /\ cred = proc[p].new
        BY <3>1, <2>0, <1>k DEF FreshGrants, SaveSteps, At
      <4> QED
        BY <3>1, <4>1
    <3>2. CASE At(p, "remove_row", "idle") /\ account' = "deleted" /\ saved' = 0 /\ UNCHANGED cred
      BY <3>2, <2>0, <1>k DEF At, NoCred
    <3>3. CASE At(p, "restore", "idle") /\ cred' = proc[p].held /\ UNCHANGED <<account, saved>>
      BY <3>3, <2>0, <1>k DEF At, WriteSteps
    <3> QED
      BY <1>7, <2>0, <3>1, <3>2, <3>3 DEF Completes
  <2> QED
    BY <2>1, <2>2, <1>s DEF KeyRingTracked, ChangeSteps, SaveSteps, WriteSteps
<1>8. CASE Background
  <2>1. CASE proc' = proc /\ UNCHANGED <<provider, account, cred, saved, grants, causes>>
    <3>1. \A q \in Proc : at(q)' = at(q)
      BY <2>1 DEF at
    <3> QED
      BY <2>1, <3>1, <1>u, <1>k DEF KeyRingTracked
  <2>3. CASE /\ proc' = [p \in Proc |-> Idle] /\ UNCHANGED <<provider, account, cred, saved>>
             /\ causes' = IF \E p \in Proc : Mutating(p) THEN causes \cup {"credential_race"} ELSE causes
    <3>1. Undisturbed /\ \A q \in Proc : at(q) \notin ChangeSteps /\ at(q)' = "idle"
      BY <2>3, <1>m, <1>d DEF Undisturbed, Idle
    <3> QED
      BY <2>3, <3>1, <1>k, <1>s DEF KeyRingTracked, ChangeSteps, SaveSteps, WriteSteps
  <2> QED
    BY <1>8, <2>1, <2>3 DEF Background
<1> QED
  BY <1>1, <1>3, <1>5, <1>6, <1>7, <1>8, AccountSteps


-----------------------------------------------------------------------------
(* The managed account is not removed, and the others are not managed.      *)
LEMMA ApartStep ==
  ASSUME AccountsTypeOK, ManagedApart, AccountsNext
  PROVE  ManagedApart'
<1>0. proc \in [Proc -> Commands] /\ \A p \in Proc : at(p) = proc[p].pc /\ at(p)' = proc'[p].pc
  BY DEF AccountsTypeOK, at
<1>f. provider' = provider
  BY AccountFrames DEF Frame
<1>a. provider = "cloudflare_r2" => account' # "deleted"
  <2>1. ASSUME NEW p \in Proc, save_upsert(p) \/ managed_upsert(p) PROVE account' \in {account, "live"}
    BY <2>1 DEF save_upsert, managed_upsert, upsert_account
  <2>2. ASSUME NEW p \in Proc, remove_row(p) PROVE provider # "cloudflare_r2"
    BY <2>2 DEF remove_row, ManagedApart, RemoveSteps
  <2>3. ASSUME NEW p \in Proc, shared_write(p) \/ update_provider_status(p) PROVE account' = account
    BY <2>3 DEF shared_write, update_provider_status
  <2> QED
    BY <2>1, <2>2, <2>3, RowChanges DEF RowUnchanged, ManagedApart
\* A command comes to one of these steps only where its kind of account has it.
<1>1. ASSUME NEW p \in Proc, \A q \in Proc \ {p} : proc'[q] = proc[q],
             at(p)' \in RemoveSteps => at(p) \in RemoveSteps \/ provider # "cloudflare_r2",
             at(p)' \in SharedSteps => at(p) \in SharedSteps \/ provider = "cloudflare_r2"
      PROVE  ManagedApart'
  BY <1>1, <1>0, <1>f, <1>a DEF ManagedApart
<1>i. ASSUME NEW p \in Proc, Finish(p) PROVE ManagedApart'
  <2>1. at(p)' = "idle" /\ \A q \in Proc \ {p} : proc'[q] = proc[q]
    BY <1>i, <1>0 DEF Finish, Idle
  <2> QED
    BY <2>1, <1>1 DEF RemoveSteps, SharedSteps
<1>n. ASSUME NEW p \in Proc, NEW e, Ended(p, e) PROVE ManagedApart'
  <2>1. at(p)' = "status" /\ \A q \in Proc \ {p} : proc'[q] = proc[q]
    BY <1>n, <1>0 DEF Ended, Idle
  <2> QED
    BY <2>1, <1>1 DEF RemoveSteps, SharedSteps
<1>g. ASSUME NEW p \in Proc, NEW l, at(p)' = l, \A q \in Proc \ {p} : proc'[q] = proc[q],
             l \notin RemoveSteps \cup SharedSteps
      PROVE  ManagedApart'
  BY <1>g, <1>1
<1>2. ASSUME NEW p \in Proc, proc' = proc PROVE ManagedApart'
  BY <1>2, <1>0, <1>f, <1>a DEF ManagedApart
<1>3. ASSUME NEW p \in Proc, authorize_with_pkce(p) \/ begin_authorization(p) \/ poll_authorization(p) \/ poll_result(p)
      PROVE  ManagedApart'
  <2>1. \/ proc' = proc \/ Finish(p)
        \/ proc' = [proc EXCEPT ![p].pc = "save_load", ![p].op = "save", ![p].new = grants + 1]
        \/ proc' = [proc EXCEPT ![p].pc = "polling", ![p].op = "authorize"]
    BY <1>3 DEF authorize_with_pkce, begin_authorization, poll_authorization, poll_result
  <2>2. CASE \/ proc' = [proc EXCEPT ![p].pc = "save_load", ![p].op = "save", ![p].new = grants + 1]
             \/ proc' = [proc EXCEPT ![p].pc = "polling", ![p].op = "authorize"]
    <3>1. at(p)' \in {"save_load", "polling"} /\ \A q \in Proc \ {p} : proc'[q] = proc[q]
      BY <2>2, <1>0 DEF Commands
    <3> QED
      BY <3>1, <1>1 DEF RemoveSteps, SharedSteps
  <2> QED
    BY <2>1, <2>2, <1>2, <1>i
<1>4. ASSUME NEW p \in Proc, remove_account(p) PROVE ManagedApart'
  <2>1. /\ provider # "cloudflare_r2" /\ at(p)' = "remove_load"
        /\ \A q \in Proc \ {p} : proc'[q] = proc[q]
    BY <1>4, <1>0 DEF remove_account, Commands
  <2> QED
    BY <2>1, <1>1 DEF RemoveSteps, SharedSteps
<1>5. ASSUME NEW p \in Proc, ensure_managed_r2_account(p) \/ connect_account_with_row(p) PROVE ManagedApart'
  <2>1. /\ (at(p)' \in SharedSteps /\ provider = "cloudflare_r2") \/ at(p)' = "open"
        /\ \A q \in Proc \ {p} : proc'[q] = proc[q]
    BY <1>5, <1>0 DEF ensure_managed_r2_account, connect_account_with_row, Commands, SharedSteps
  <2> QED
    BY <2>1, <1>1 DEF RemoveSteps, SharedSteps
<1>6. ASSUME NEW p \in Proc, load_previous(p) PROVE ManagedApart'
  <2>1. CASE Finish(p)
    BY <2>1, <1>i
  <2>2. CASE proc' = [proc EXCEPT ![p].held = cred,
                          ![p].pc = IF at(p) = "save_load" THEN "save_store" ELSE "remove_delete"]
    <3>1. /\ at(p) \in {"save_load", "remove_load"} /\ \A q \in Proc \ {p} : proc'[q] = proc[q]
          /\ at(p)' = IF at(p) = "save_load" THEN "save_store" ELSE "remove_delete"
      BY <1>6, <2>2, <1>0 DEF load_previous, Commands
    <3> QED
      BY <3>1, <1>1 DEF RemoveSteps, SharedSteps
  <2> QED
    BY <1>6, <2>1, <2>2 DEF load_previous
<1>7. ASSUME NEW p \in Proc,
             \/ save_store(p) \/ save_verify(p) \/ save_upsert(p) \/ restore_credential(p) \/ remove_delete(p)
             \/ remove_row(p) \/ managed_upsert(p) \/ shared_write(p) \/ update_provider_status(p)
      PROVE  ManagedApart'
  <2>1. \/ Finish(p) \/ \E l \in {"save_verify", "save_upsert", "restore", "open"} : Goto(p, l)
        \/ Goto(p, "remove_row") /\ at(p) = "remove_delete"
    BY <1>7 DEF save_store, save_verify, save_upsert, restore_credential, remove_delete, remove_row,
       managed_upsert, shared_write, update_provider_status
  <2>2. CASE \E l \in {"save_verify", "save_upsert", "restore", "open"} : Goto(p, l)
    <3>1. at(p)' \in {"save_verify", "save_upsert", "restore", "open"} /\ \A q \in Proc \ {p} : proc'[q] = proc[q]
      BY <2>2, <1>0 DEF Goto, Commands
    <3> QED
      BY <3>1, <1>1 DEF RemoveSteps, SharedSteps
  <2>3. CASE Goto(p, "remove_row") /\ at(p) = "remove_delete"
    <3>1. at(p)' = "remove_row" /\ \A q \in Proc \ {p} : proc'[q] = proc[q]
      BY <2>3, <1>0 DEF Goto, Commands
    <3> QED
      BY <2>3, <3>1, <1>1 DEF RemoveSteps, SharedSteps
  <2> QED
    BY <2>1, <2>2, <2>3, <1>i
<1>8. ASSUME NEW p \in Proc, refresh_shared_credential_state(p) PROVE ManagedApart'
  <2>1. CASE Finish(p)
    BY <2>1, <1>i
  <2>2. CASE \E row \in Bindings, l \in {"open", "shared_write"} : proc' = [proc EXCEPT ![p].pc = l, ![p].row = row]
    <3>1. /\ at(p) = "shared_load" /\ at(p)' \in {"open", "shared_write"}
          /\ \A q \in Proc \ {p} : proc'[q] = proc[q]
      BY <1>8, <2>2, <1>0 DEF refresh_shared_credential_state, Commands
    <3> QED
      BY <3>1, <1>1 DEF RemoveSteps, SharedSteps
  <2> QED
    BY <1>8, <2>1, <2>2, RowKept
<1>9. ASSUME NEW p \in Proc,
             \/ connect(p) \/ access_token(p) \/ refresh_credential(p) \/ store_refreshed(p)
             \/ send_authorized(p) \/ request_json(p)
      PROVE  ManagedApart'
  <2>1. CASE \E e : Ended(p, e)
    BY <2>1, <1>n
  <2>2. CASE ~ \E e : Ended(p, e)
    <3>1. /\ at(p)' \in {"token", "request", "refresh", "store"}
          /\ \A q \in Proc \ {p} : proc'[q] = proc[q]
      BY <1>9, <2>2, <1>0 DEF connect, access_token, refresh_credential, store_refreshed, send_authorized,
         request_json, Goto, Commands
    <3> QED
      BY <3>1, <1>1 DEF RemoveSteps, SharedSteps
  <2> QED
    BY <2>1, <2>2
<1>10. CASE Environment
  <2>1. proc' = proc \/ proc' = [p \in Proc |-> Idle]
    BY <1>10 DEF Environment, sync_credential_changes, grant_revoked, application_ends
  <2>2. CASE proc' = [p \in Proc |-> Idle]
    BY <2>2, <1>0, <1>f, <1>a DEF ManagedApart, Idle, RemoveSteps, SharedSteps
  <2>3. CASE proc' = proc
    BY <2>3, <1>0, <1>f, <1>a DEF ManagedApart
  <2> QED
    BY <2>1, <2>2, <2>3
<1> QED
  BY <1>3, <1>4, <1>5, <1>6, <1>7, <1>8, <1>9, <1>10 DEF AccountsNext, Start, Local, Network

(* What a command has not been told of keeps: another command's steps.      *)
LEMMA InformedOther ==
  ASSUME AccountsTypeOK, AccountsNext, NEW q \in Proc, InformedOf(q), proc'[q] = proc[q]
  PROVE  InformedOf(q)'
<1>d. at(q) = proc[q].pc /\ at(q)' = proc'[q].pc
  BY DEF at
<1>1. CASE at(q) = "idle"
  BY <1>1, <1>d DEF InformedOf, OpenSteps
<1>2. CASE at(q) # "idle"
  <2>1. q \in InFlight /\ q \in InFlight'
    BY <1>2, <1>d DEF InFlight
  <2>2. overtaken' = (IF Overtaking THEN InFlight ELSE overtaken) \cap InFlight'
    BY DEF AccountsNext
  <2>3. q \notin overtaken' => q \notin overtaken /\ ~Overtaking
    BY <2>1, <2>2
  <2>4. ~Overtaking => syncCred' = syncCred /\ (binding' = binding \/ binding'.auth # "auth_required")
    BY DEF Overtaking
  <2> QED
    BY <2>3, <2>4, <1>d DEF InformedOf
<1> QED
  BY <1>1, <1>2

(* And its own.                                                             *)
LEMMA InformedStep ==
  ASSUME AccountsTypeOK, ManagedApart, Informed, AccountsNext
  PROVE  Informed'
<1>0. /\ proc \in [Proc -> Commands] /\ \A p \in Proc : at(p) = proc[p].pc /\ at(p)' = proc'[p].pc
      /\ \A p \in Proc : InformedOf(p)
      /\ binding \in Bindings
      /\ \A p \in Proc : proc[p].row \in Bindings
  BY DEF AccountsTypeOK, at, Informed, Commands
<1>o. \A p \in Proc : at(p) # "idle" /\ at(p)' # "idle" /\ p \notin overtaken' => p \notin overtaken
  BY DEF AccountsNext, InFlight
<1>1. ASSUME NEW p \in Proc, \A q \in Proc \ {p} : proc'[q] = proc[q], InformedOf(p)'
      PROVE  Informed'
  BY <1>1, <1>0, InformedOther DEF Informed
<1>2. ASSUME proc' = proc PROVE Informed'
  BY <1>2, <1>0, InformedOther DEF Informed
\* A step that takes the command to one where nothing is said of it.
<1>3. ASSUME NEW p \in Proc, \A q \in Proc \ {p} : proc'[q] = proc[q],
             at(p)' \notin OpenSteps \cup SharedSteps
      PROVE  Informed'
  BY <1>3, <1>1 DEF InformedOf, SharedSteps
<1>i. ASSUME NEW p \in Proc, Finish(p) PROVE Informed'
  <2>1. at(p)' = "idle" /\ \A q \in Proc \ {p} : proc'[q] = proc[q]
    BY <1>i, <1>0 DEF Finish, Idle
  <2> QED
    BY <2>1, <1>3 DEF OpenSteps, SharedSteps
\* A step on with the operation.
<1>4. ASSUME NEW p \in Proc, \A q \in Proc \ {p} : proc'[q] = proc[q],
             at(p) \in OpenSteps, at(p)' \in OpenSteps, binding' = binding
      PROVE  Informed'
  <2>1. at(p) # "idle" /\ at(p)' # "idle"
        /\ at(p)' # "managed" /\ at(p)' # "shared_load" /\ at(p)' # "shared_write"
    BY <1>4 DEF OpenSteps
  <2>2. InformedOf(p)'
    BY <1>4, <2>1, <1>o, <1>0 DEF InformedOf
  <2> QED
    BY <1>4, <2>2, <1>1
<1>5. ASSUME NEW p \in Proc, authorize_with_pkce(p) \/ begin_authorization(p) \/ poll_authorization(p)
             \/ poll_result(p) \/ remove_account(p)
      PROVE  Informed'
  <2>1. \/ proc' = proc \/ Finish(p)
        \/ proc' = [proc EXCEPT ![p].pc = "save_load", ![p].op = "save", ![p].new = grants + 1]
        \/ proc' = [proc EXCEPT ![p].pc = "polling", ![p].op = "authorize"]
        \/ proc' = [proc EXCEPT ![p].pc = "remove_load", ![p].op = "remove"]
    BY <1>5 DEF authorize_with_pkce, begin_authorization, poll_authorization, poll_result, remove_account
  <2>2. CASE proc' # proc /\ ~Finish(p)
    <3>1. at(p)' \in {"save_load", "polling", "remove_load"} /\ \A q \in Proc \ {p} : proc'[q] = proc[q]
      BY <2>1, <2>2, <1>0 DEF Commands
    <3> QED
      BY <3>1, <1>3 DEF OpenSteps, SharedSteps
  <2> QED
    BY <2>2, <1>2, <1>i
<1>6. ASSUME NEW p \in Proc, load_previous(p) PROVE Informed'
  <2>1. CASE Finish(p)
    BY <2>1, <1>i
  <2>2. CASE proc' = [proc EXCEPT ![p].held = cred,
                          ![p].pc = IF at(p) = "save_load" THEN "save_store" ELSE "remove_delete"]
    <3>1. /\ \A q \in Proc \ {p} : proc'[q] = proc[q]
          /\ at(p)' = IF at(p) = "save_load" THEN "save_store" ELSE "remove_delete"
      BY <2>2, <1>0 DEF Commands
    <3> QED
      BY <3>1, <1>3 DEF OpenSteps, SharedSteps
  <2> QED
    BY <1>6, <2>1, <2>2 DEF load_previous
<1>7. ASSUME NEW p \in Proc,
             \/ save_store(p) \/ save_verify(p) \/ save_upsert(p) \/ restore_credential(p) \/ remove_delete(p)
             \/ remove_row(p) \/ managed_upsert(p) \/ update_provider_status(p)
      PROVE  Informed'
  <2>1. Finish(p) \/ \E l \in {"save_verify", "save_upsert", "restore", "remove_row"} : Goto(p, l)
    BY <1>7 DEF save_store, save_verify, save_upsert, restore_credential, remove_delete, remove_row,
       managed_upsert, update_provider_status
  <2>2. CASE \E l \in {"save_verify", "save_upsert", "restore", "remove_row"} : Goto(p, l)
    <3>1. /\ at(p)' \in {"save_verify", "save_upsert", "restore", "remove_row"}
          /\ \A q \in Proc \ {p} : proc'[q] = proc[q]
      BY <2>2, <1>0 DEF Goto, Commands
    <3> QED
      BY <3>1, <1>3 DEF OpenSteps, SharedSteps
  <2> QED
    BY <2>1, <2>2, <1>i
<1>8. ASSUME NEW p \in Proc, ensure_managed_r2_account(p) PROVE Informed'
  <2>1. /\ at(p)' = "managed" /\ proc'[p].row = ManagedRow(IF syncCred THEN "connected" ELSE "auth_required")
        /\ syncCred' = syncCred /\ \A q \in Proc \ {p} : proc'[q] = proc[q]
    BY <1>8, <1>0 DEF ensure_managed_r2_account, durable, Commands
  <2>2. InformedOf(p)'
    BY <2>1 DEF InformedOf, ManagedRow, OpenSteps
  <2> QED
    BY <2>1, <2>2, <1>1
<1>9. ASSUME NEW p \in Proc, connect_account_with_row(p) PROVE Informed'
  <2>1. /\ binding' = binding /\ \A q \in Proc \ {p} : proc'[q] = proc[q]
        /\ \/ at(p)' = "open" /\ binding.auth = "connected"
           \/ at(p)' = "shared_load" /\ proc'[p].row = binding
    BY <1>9, <1>0 DEF connect_account_with_row, Usable, durable, Commands
  <2>2. InformedOf(p)'
    BY <2>1 DEF InformedOf, OpenSteps
  <2> QED
    BY <2>1, <2>2, <1>1
<1>10. ASSUME NEW p \in Proc, refresh_shared_credential_state(p) PROVE Informed'
  <2>1. CASE Finish(p)
    BY <2>1, <1>i
  <2>2. CASE ~Finish(p)
    <3>1. PICK row, updated :
            /\ row = proc[p].row /\ updated = [row EXCEPT !.auth = shared_auth_state(row), !.err = "none"]
      OBVIOUS
    <3>2. /\ at(p) = "shared_load" /\ UNCHANGED <<binding, syncCred>>
          /\ \/ /\ updated.auth # row.auth
                /\ proc' = [proc EXCEPT ![p].pc = "shared_write", ![p].row = updated]
             \/ /\ updated.auth = row.auth /\ Usable(row)
                /\ proc' = [proc EXCEPT ![p].pc = "open", ![p].row = updated]
      BY <1>10, <2>2, <3>1 DEF refresh_shared_credential_state, durable
    <3>3. /\ \A q \in Proc \ {p} : proc'[q] = proc[q]
          /\ \/ updated.auth # row.auth /\ at(p)' = "shared_write" /\ proc'[p].row = updated
             \/ updated.auth = row.auth /\ Usable(row) /\ at(p)' = "open"
      BY <3>2, <1>0 DEF Commands
    <3>4. row \in Bindings /\ updated.auth = shared_auth_state(row)
      BY <3>1, <1>0 DEF Bindings
    <3>5. p \notin overtaken' => (binding.auth = "auth_required" => row = binding)
      <4>1. at(p)' # "idle"
        BY <3>3
      <4> QED
        BY <4>1, <3>1, <3>2, <1>o, <1>0 DEF InformedOf
    <3>6. CASE updated.auth # row.auth /\ at(p)' = "shared_write" /\ proc'[p].row = updated
      <4>1. updated.auth = "connected" => syncCred /\ row.auth = "auth_required" /\ row.err = "none"
        BY <3>4, <3>6 DEF shared_auth_state
      <4>2. InformedOf(p)'
        BY <4>1, <3>2, <3>5, <3>6 DEF InformedOf, OpenSteps
      <4> QED
        BY <4>2, <3>3, <1>1
    <3>7. CASE Usable(row) /\ at(p)' = "open"
      <4>1. InformedOf(p)'
        BY <3>2, <3>5, <3>7 DEF InformedOf, OpenSteps, Usable
      <4> QED
        BY <4>1, <3>3, <1>1
    <3> QED
      BY <3>3, <3>6, <3>7
  <2> QED
    BY <2>1, <2>2
<1>11. ASSUME NEW p \in Proc, shared_write(p) PROVE Informed'
  <2>1. CASE Finish(p)
    BY <2>1, <1>i
  <2>2. CASE ~Finish(p)
    <3>1. /\ binding' = proc[p].row /\ Usable(proc[p].row) /\ at(p)' = "open"
          /\ \A q \in Proc \ {p} : proc'[q] = proc[q]
      BY <1>11, <2>2, <1>0 DEF shared_write, Goto, Commands
    <3>2. InformedOf(p)'
      BY <3>1 DEF InformedOf, OpenSteps, Usable
    <3> QED
      BY <3>1, <3>2, <1>1
  <2> QED
    BY <2>1, <2>2
<1>12. ASSUME NEW p \in Proc,
             \/ connect(p) \/ access_token(p) \/ refresh_credential(p) \/ store_refreshed(p)
             \/ send_authorized(p) \/ request_json(p)
      PROVE  Informed'
  <2>1. at(p) \in OpenSteps /\ binding' = binding
    BY <1>12 DEF connect, access_token, refresh_credential, store_refreshed, send_authorized, request_json,
       durable, OpenSteps
  <2>2. CASE \E e : Ended(p, e)
    <3>1. at(p)' = "status" /\ \A q \in Proc \ {p} : proc'[q] = proc[q]
      BY <2>2, <1>0 DEF Ended, Idle
    <3> QED
      BY <3>1, <2>1, <1>4 DEF OpenSteps
  <2>3. CASE ~ \E e : Ended(p, e)
    <3>1. /\ at(p)' \in {"token", "request", "refresh", "store"}
          /\ \A q \in Proc \ {p} : proc'[q] = proc[q]
      BY <1>12, <2>3, <1>0 DEF connect, access_token, refresh_credential, store_refreshed, send_authorized,
         request_json, Goto, Commands
    <3> QED
      BY <3>1, <2>1, <1>4 DEF OpenSteps
  <2> QED
    BY <2>2, <2>3
<1>13. CASE Environment
  <2>1. proc' = proc \/ proc' = [p \in Proc |-> Idle]
    BY <1>13 DEF Environment, sync_credential_changes, grant_revoked, application_ends
  <2>2. CASE proc' = [p \in Proc |-> Idle]
    BY <2>2, <1>0 DEF Informed, InformedOf, Idle, OpenSteps
  <2> QED
    BY <2>1, <2>2, <1>2
<1> QED
  BY <1>5, <1>6, <1>7, <1>8, <1>9, <1>10, <1>11, <1>12, <1>13 DEF AccountsNext, Start, Local, Network

(* The row of a removed account is disabled: what a command in flight may   *)
(* write late is noted as a stale status.                                   *)
LEMMA DisabledStep ==
  ASSUME AccountsTypeOK, ManagedApart, DeletedStaysDisabled, AccountsNext
  PROVE  DeletedStaysDisabled'
<1>1. ASSUME NEW p \in Proc, save_upsert(p) PROVE DeletedStaysDisabled'
  BY <1>1 DEF save_upsert, upsert_account, DeletedStaysDisabled
<1>2. ASSUME NEW p \in Proc, remove_row(p) PROVE DeletedStaysDisabled'
  BY <1>2 DEF remove_row, delete_account, DeletedStaysDisabled, AccountsTypeOK, Bindings
<1>3. ASSUME NEW p \in Proc, shared_write(p) PROVE DeletedStaysDisabled'
  BY <1>3 DEF shared_write, ManagedApart, SharedSteps, DeletedStaysDisabled
<1>4. ASSUME NEW p \in Proc, update_provider_status(p) PROVE DeletedStaysDisabled'
  BY <1>4 DEF update_provider_status, DeletedStaysDisabled
<1>5. ASSUME NEW p \in Proc, managed_upsert(p) PROVE DeletedStaysDisabled'
  BY <1>5 DEF managed_upsert, upsert_account, DeletedStaysDisabled
<1>6. CASE RowUnchanged
  BY <1>6 DEF RowUnchanged, DeletedStaysDisabled
<1> QED
  BY <1>1, <1>2, <1>3, <1>4, <1>5, <1>6, RowChanges

(* The refresh lock is held by a command that is refreshing.                *)
LEMMA LockStep ==
  ASSUME AccountsAssumption, AccountsTypeOK, LockReleased, AccountsNext
  PROVE  LockReleased'
<1>0. /\ refreshLock \in Proc \cup {"free"} /\ "free" \notin Proc
      /\ refreshLock # "free" => at(refreshLock) \in {"refresh", "store"}
      /\ proc \in [Proc -> Commands]
      /\ \A p \in Proc : at(p) = proc[p].pc
  BY DEF AccountsAssumption, AccountsTypeOK, LockReleased, Lock, at
<1>1. ASSUME refreshLock' = "free" PROVE LockReleased'
  BY <1>1 DEF LockReleased
\* Another command's step, or the holder's own that stores what it got.
<1>2. ASSUME NEW p \in Proc, refreshLock' = refreshLock, \A q \in Proc \ {p} : proc'[q] = proc[q],
             at(p) \notin {"refresh", "store"} \/ proc'[p].pc \in {"refresh", "store"}
      PROVE  LockReleased'
  BY <1>2, <1>0 DEF LockReleased, at
<1>3. ASSUME NEW p \in Proc, access_token(p) PROVE LockReleased'
  <2>1. at(p) = "token" /\ refreshLock = "free"
    BY <1>3 DEF access_token
  <2>2. CASE refreshLock' = "free"
    BY <2>2, <1>1
  <2>3. CASE refreshLock' = p /\ proc' = [proc EXCEPT ![p].pc = "refresh", ![p].held = cred]
    BY <2>3, <1>0 DEF LockReleased, at, Commands
  <2> QED
    BY <1>3, <2>1, <2>2, <2>3 DEF access_token
<1>4. ASSUME NEW p \in Proc, refresh_credential(p) PROVE LockReleased'
  <2>1. CASE refreshLock' = "free"
    BY <2>1, <1>1
  <2>2. CASE proc' = [proc EXCEPT ![p].pc = "store"] /\ refreshLock' = refreshLock
    BY <2>2, <1>0, <1>2 DEF Commands
  <2> QED
    BY <1>4, <2>1, <2>2 DEF refresh_credential, Goto
<1>5. ASSUME NEW p \in Proc, store_refreshed(p) PROVE LockReleased'
  BY <1>5, <1>1 DEF store_refreshed
<1>6. ASSUME NEW p \in Proc, Start(p) \/ poll_result(p) PROVE LockReleased'
  <2>1. refreshLock' = refreshLock /\ (at(p) \notin {"refresh", "store"} \/ proc' = proc)
    BY <1>6 DEF Start, authorize_with_pkce, begin_authorization, poll_authorization, remove_account,
       ensure_managed_r2_account, connect_account_with_row, poll_result
  <2>2. \A q \in Proc \ {p} : proc'[q] = proc[q]
    BY <1>6, <1>0 DEF Start, authorize_with_pkce, begin_authorization, poll_authorization, remove_account,
       ensure_managed_r2_account, connect_account_with_row, poll_result, Finish
  <2>3. CASE refreshLock' = refreshLock /\ proc' = proc
    BY <2>3 DEF LockReleased, at
  <2> QED
    BY <2>1, <2>2, <2>3, <1>2
<1>7. ASSUME NEW p \in Proc, Local(p) \/ send_authorized(p) \/ request_json(p), ~store_refreshed(p)
      PROVE  LockReleased'
  <2>1. refreshLock' = refreshLock /\ at(p) \notin {"refresh", "store"}
    BY <1>7 DEF Local, load_previous, save_store, save_verify, save_upsert, restore_credential,
       remove_delete, remove_row, connect, update_provider_status, send_authorized, request_json,
       managed_upsert, refresh_shared_credential_state, shared_write
  <2>2. \A q \in Proc \ {p} : proc'[q] = proc[q]
    <3>1. CASE (\E l : Goto(p, l)) \/ Finish(p) \/ (\E e : Ended(p, e))
      BY <3>1, <1>0 DEF Goto, Finish, Ended
    <3>2. CASE save_store(p) \/ save_verify(p) \/ save_upsert(p) \/ restore_credential(p)
               \/ remove_delete(p) \/ remove_row(p) \/ connect(p) \/ update_provider_status(p) \/ request_json(p)
               \/ managed_upsert(p) \/ shared_write(p)
      BY <3>1, <3>2 DEF save_store, save_verify, save_upsert, restore_credential,
         remove_delete, remove_row, connect, update_provider_status, request_json, managed_upsert, shared_write
    <3>5. CASE refresh_shared_credential_state(p)
      BY <3>1, <3>5, <1>0 DEF refresh_shared_credential_state
    <3>3. CASE load_previous(p)
      BY <3>1, <3>3, <1>0 DEF load_previous
    <3>4. CASE send_authorized(p)
      BY <3>1, <3>4, <1>0 DEF send_authorized
    <3> QED
      BY <1>7, <3>2, <3>3, <3>4, <3>5 DEF Local
  <2> QED
    BY <2>1, <2>2, <1>2
<1>8. CASE Environment
  <2>1. refreshLock' = "free" \/ UNCHANGED <<refreshLock, proc>>
    BY <1>8 DEF Environment, sync_credential_changes, grant_revoked, application_ends
  <2>2. CASE UNCHANGED <<refreshLock, proc>>
    BY <2>2 DEF LockReleased, at
  <2> QED
    BY <2>1, <2>2, <1>1
<1> QED
  BY <1>3, <1>4, <1>5, <1>6, <1>7, <1>8 DEF AccountsNext, Network, Local

-----------------------------------------------------------------------------
(* The invariant holds at the start.                                        *)
LEMMA AccountsStart ==
  ASSUME AccountsAssumption, AccountsInit
  PROVE  AccountsInv
<1>1. AccountsTypeOK
  <2>1. 0 \in 0 .. MaxGrant /\ 0 \in 0 .. MaxFailures /\ 0 \in 0 .. MAX_API_ATTEMPTS - 1
    BY DEF AccountsAssumption
  <2>2. Idle \in Commands
    BY <2>1 DEF Idle, Commands, NoBinding, Bindings, Errors, NoCred
  <2>3. syncCred \in BOOLEAN
    BY DEF AccountsInit
  <2> QED
    BY <2>1, <2>2, <2>3 DEF AccountsInit, AccountsTypeOK, NoBinding, Bindings, Errors, NoCred, Lock
<1>2. Labelled /\ FreshGrants /\ KeyRingTracked
  BY DEF AccountsInit, Labelled, FreshGrants, KeyRingTracked, Idle, at, ChangeSteps, SaveSteps, WriteSteps, NoCred
<1>4. ManagedApart /\ Informed
  BY DEF AccountsInit, ManagedApart, Informed, InformedOf, Idle, at, RemoveSteps, SharedSteps, OpenSteps
<1>3. DeletedStaysDisabled /\ LockReleased
  BY DEF AccountsInit, DeletedStaysDisabled, LockReleased
<1> QED
  BY <1>1, <1>2, <1>3, <1>4 DEF AccountsInv

(* It is kept by every step, and by none.                                   *)
LEMMA AccountsInductive ==
  ASSUME AccountsAssumption, AccountsInv, [AccountsNext]_accountVars
  PROVE  AccountsInv'
<1>1. CASE AccountsNext
  BY <1>1, AccountTypes, LabelledStep, FreshStep, KeyRingStep, ApartStep, InformedStep, DisabledStep, LockStep
  DEF AccountsInv
<1>2. CASE accountVars' = accountVars
  <2>1. UNCHANGED <<provider, account, binding, cred, syncCred, revoked, grants, saved,
                    challenge, refreshLock, proc, failures, causes, overtaken>>
    BY <1>2 DEF accountVars
  <2>2. \A p \in Proc : at(p)' = at(p)
    BY <2>1 DEF at
  <2> QED
    BY <2>1, <2>2 DEF AccountsInv, AccountsTypeOK, Labelled, FreshGrants, KeyRingTracked, Undisturbed,
       ManagedApart, Informed, InformedOf, DeletedStaysDisabled, LockReleased, at
<1> QED
  BY <1>1, <1>2

(* It implies what the runs check.                                          *)
LEMMA AccountsInvSafe ==
  ASSUME AccountsInv
  PROVE  AccountsSafe
<1>1. Quiet => \A p \in Proc : at(p) \notin WriteSteps
  BY DEF Quiet, WriteSteps
<1>2. CredentialFollowsAccount /\ LatestGrantKept
  BY <1>1 DEF AccountsInv, KeyRingTracked, Undisturbed, CredentialFollowsAccount, LatestGrantKept, NoCred
<1> QED
  BY <1>2 DEF AccountsInv, AccountsSafe

(* Whatever the number of commands and authorizations: between commands the *)
(* key ring holds the credential of the account's last authorization and    *)
(* nothing after its removal, unless two commands raced or a roll-back      *)
(* failed; a removed account stays disabled, and the refresh lock is never  *)
(* left behind: save_connected_account, remove_account, access_token.       *)
THEOREM AccountsCorrect ==
  ASSUME AccountsAssumption
  PROVE  AccountsSpec => []AccountsSafe
<1>1. AccountsInit => AccountsInv
  BY AccountsStart
<1>2. AccountsInv /\ [AccountsNext]_accountVars => AccountsInv'
  BY AccountsInductive
<1>3. AccountsInv => AccountsSafe
  BY AccountsInvSafe
<1> QED
  BY <1>1, <1>2, <1>3, PTL DEF AccountsSpec

\* How an account that asks for authorization may become connected.
Reconnects ==
  account = "live" /\ binding.auth = "auth_required" /\ binding'.auth = "connected"
    => \/ saved' # saved
       \/ \E p \in overtaken : Moves(p)
       \/ /\ provider = "cloudflare_r2" /\ syncCred
          /\ binding.err = "none" \/ (\E p \in Proc : at(p) = "managed" /\ Moves(p))

(* Every step respects it.                                                  *)
LEMMA ReconnectStep ==
  ASSUME AccountsInv, [AccountsNext]_accountVars
  PROVE  Reconnects
<1>0. /\ binding \in Bindings /\ FreshGrants /\ ManagedApart /\ Informed
      /\ proc \in [Proc -> Commands]
      /\ \A p \in Proc : proc[p].row \in Bindings
  BY DEF AccountsInv, AccountsTypeOK, Commands
<1>1. ASSUME NEW p \in Proc, save_upsert(p) PROVE Reconnects
  <2>1. at(p) \in SaveSteps
    BY <1>1 DEF save_upsert, SaveSteps
  <2> QED
    BY <1>1, <2>1, <1>0 DEF save_upsert, FreshGrants, Reconnects
<1>2. ASSUME NEW p \in Proc, remove_row(p) PROVE Reconnects
  BY <1>2, <1>0 DEF remove_row, delete_account, Reconnects, Bindings
<1>m. ASSUME NEW p \in Proc, at(p) # "idle", proc'[p].pc # proc[p].pc PROVE Moves(p)
  BY <1>m DEF Moves
<1>3. ASSUME NEW p \in Proc, shared_write(p) PROVE Reconnects
  <2>1. /\ at(p) = "shared_write" /\ provider = "cloudflare_r2" /\ InformedOf(p)
        /\ binding' = proc[p].row \/ binding' = binding
    BY <1>3, <1>0 DEF shared_write, ManagedApart, SharedSteps, Informed
  <2>2. Moves(p)
    BY <1>3, <1>0, <1>m DEF shared_write, Goto, Finish, Idle, at, Commands
  <2> QED
    BY <2>1, <2>2 DEF InformedOf, Reconnects
<1>4. ASSUME NEW p \in Proc, update_provider_status(p) PROVE Reconnects
  <2>1. at(p) = "status" /\ InformedOf(p)
    BY <1>4, <1>0 DEF update_provider_status, Informed
  <2>2. Moves(p)
    BY <1>4, <1>0, <1>m DEF update_provider_status, Finish, Idle, at
  <2> QED
    BY <2>1, <2>2 DEF InformedOf, OpenSteps, Reconnects
<1>5. ASSUME NEW p \in Proc, managed_upsert(p) PROVE Reconnects
  <2>1. at(p) = "managed" /\ InformedOf(p) /\ provider = "cloudflare_r2"
    BY <1>5, <1>0 DEF managed_upsert, ManagedApart, SharedSteps, Informed
  <2>2. Moves(p)
    BY <1>5, <1>0, <1>m DEF managed_upsert, Finish, Idle, at
  <2>3. binding'.auth \in {binding.auth, proc[p].row.auth}
    BY <1>5, <1>0 DEF managed_upsert, upsert_account, Bindings
  <2> QED
    BY <2>1, <2>2, <2>3 DEF InformedOf, Reconnects
<1>6. CASE RowUnchanged \/ accountVars' = accountVars
  BY <1>6 DEF RowUnchanged, accountVars, Reconnects
<1> QED
  BY <1>1, <1>2, <1>3, <1>4, <1>5, <1>6, RowChanges

(* An account that lost its authorization asks for a new one until it gets  *)
(* it, for any number of concurrent commands, but for those that were in    *)
(* flight when it was lost: update_provider_status, ensure_managed_r2_account, *)
(* refresh_shared_credential_state.                                         *)
THEOREM AuthRequiredKept ==
  ASSUME AccountsAssumption
  PROVE  AccountsSpec => AuthRequiredSticks
<1>1. AccountsInit => AccountsInv
  BY AccountsStart
<1>2. AccountsInv /\ [AccountsNext]_accountVars => AccountsInv'
  BY AccountsInductive
<1>3. AccountsInv /\ [AccountsNext]_accountVars => Reconnects
  BY ReconnectStep
<1> QED
  BY <1>1, <1>2, <1>3, PTL DEF AccountsSpec, AuthRequiredSticks, Reconnects


-----------------------------------------------------------------------------
(* The first member of a set of numbers.                                   *)
LEMMA First ==
  ASSUME NEW a \in Nat, NEW b \in Nat, NEW S \in SUBSET (a .. b), S # {}
  PROVE  \E m \in S : \A k \in S : m <= k
<1> DEFINE below(i) == {k \in S : k <= i}
           family == {below(i) : i \in S}
<1>1. family \subseteq FiniteSubsetsOf(S)
  <2>1. IsFiniteSet(a .. b)
    BY FS_Interval
  <2>2. IsFiniteSet(S)
    BY <2>1, FS_Subset
  <2>3. FiniteSubsetsOf(S) = SUBSET S
    BY <2>2, FS_FiniteSubsetsOfFinite
  <2> QED
    BY <2>3
<1>2. PICK T \in family : \A U \in family : ~ (<<U, T>> \in StrictSubsetOrdering(S))
  <2>1. IsWellFoundedOn(StrictSubsetOrdering(S), FiniteSubsetsOf(S)) /\ family # {}
    BY FS_StrictSubsetOrderingWellFounded
  <2> HIDE DEF family
  <2> QED
    BY <1>1, <2>1, WFMin, Zenon
<1>3. PICK m \in S : T = below(m)
  BY <1>2
<1>4. ASSUME NEW k \in S, k < m PROVE FALSE
  <2>0. k \in Nat /\ m \in Nat
    OBVIOUS
  <2>1. m \notin below(k) /\ m \in below(m) /\ below(k) \subseteq below(m)
    <3>1. m \notin below(k) /\ m \in below(m)
      BY <1>4, <2>0
    <3>2. \A j \in S : j \in Nat /\ (j <= k => j <= m)
      BY <1>4, <2>0
    <3> QED
      BY <3>1, <3>2
  <2>2. <<below(k), below(m)>> \in StrictSubsetOrdering(S)
    BY <2>1 DEF StrictSubsetOrdering
  <2> QED
    BY <1>2, <1>3, <2>2, Zenon
<1> QED
  BY <1>4

(***************************************************************************)
(* FolderDownload: the inductive invariant, in two parts.                  *)
(***************************************************************************)
Marks == {Bare} \cup {<<Suffix[i], k>> : i \in Remote, k \in Nat}
Entries == [id : Folders, dir : Seq(Marks), depth : Nat, left : SUBSET Remote]

\* Every variable has its type.
FolderTypes ==
  /\ children \in [Folders -> SUBSET (Remote \ {Root})]
  /\ queue \in Seq(Entries) /\ listing \in Entries
  /\ visited \in SUBSET Folders /\ discovered \in Nat
  /\ downloads \in SUBSET [item : Files, parent : Folders, path : Seq(Marks)]
  /\ outcome \in {"start", "running", "done", "error"}

\* Each item seen takes one path at most, and the root one; the paths are free,
\* and no two downloads share one.
PathsFree(p, x, n, d) ==
  /\ IsFiniteSet(p) /\ Cardinality(p) <= n + 1
  /\ IsFiniteSet(x) /\ Cardinality(x) <= 1 /\ p \cap x = {}
  /\ IsFiniteSet(d)
  /\ \A s \in d : s.path \in p
  /\ \A s, t \in d : s.path = t.path => s = t

Ids(q) == {q[i].id : i \in DOMAIN q}
Below(ch) == {f \in Folders : \A S \in SUBSET Folders :
                Root \in S /\ (\A g \in S : ch[g] \cap Folders \subseteq S) => f \in S}

\* What the walk knows of an item of a folder it has listed: it has yet to
\* come to it, or the folder is queued or listed, or the file downloaded.
Met(f, c, l, v, q, d) ==
  \/ f = l.id /\ c \in l.left
  \/ c \in v \cup Ids(q)
  \/ \E s \in d : s.parent = f /\ s.item = c

Walk(ch, l, v, q, d, o) ==
  /\ l.left \subseteq ch[l.id] /\ (l.left # {} => l.id \in v)
  /\ v \cup Ids(q) \subseteq Below(ch)
  /\ o \in {"running", "done"} => Root \in v \cup Ids(q)
  /\ o \in {"start", "done"} => q = <<>> /\ l.left = {}
  /\ o # "error" => \A f \in v : \A c \in ch[f] : Met(f, c, l, v, q, d)
  /\ \A s \in d : s.parent \in v /\ s.item \in ch[s.parent] /\ ~ (s.parent = l.id /\ s.item \in l.left)
  /\ \A s, t \in d : s.parent = t.parent /\ s.item = t.item => s = t

FolderInv ==
  /\ FolderTypes
  /\ PathsFree(planned, existing, discovered, downloads)
  /\ outcome = "start" => planned = {}
  /\ Walk(children, listing, visited, queue, downloads, outcome)

-----------------------------------------------------------------------------
(* The path handed out is free, as long as no more were handed out than    *)
(* the ordinals that are tried can tell apart.                             *)
LEMMA FreshPath ==
  ASSUME NEW dir \in Seq(Marks), NEW item \in Remote,
         IsFiniteSet(planned), Cardinality(planned) <= MAX_FOLDER_ITEMS,
         IsFiniteSet(existing), Cardinality(existing) <= 1
  PROVE  /\ available_child_path(dir, item) \in Seq(Marks)
         /\ available_child_path(dir, item) \notin existing \cup planned
<1> DEFINE taken == existing \cup planned
           n == MAX_FOLDER_ITEMS + 2
           path(k) == Append(dir, <<Suffix[item], k>>)
           free == {k \in 1 .. n : path(k) \notin taken}
<1>0. n \in Nat /\ n > 1
  BY FolderAssumption
<1>1. \A k \in 1 .. n : <<Suffix[item], k>> \in Marks
  BY <1>0 DEF Marks
<1>2. \A k \in 1 .. n : path(k) \in Seq(Marks)
  BY <1>1, AppendProperties
<1>3. Append(dir, Bare) \in Seq(Marks)
  <2>1. Bare \in Marks
    BY DEF Marks
  <2> QED
    BY <2>1, AppendProperties
<1>4. free # {}
  <2> SUFFICES ASSUME free = {} PROVE FALSE
    OBVIOUS
  <2> DEFINE f == [k \in 1 .. n |-> path(k)]
  <2>1. \A k \in 1 .. n : path(k) \in taken
    OBVIOUS
  <2>2. ASSUME NEW j \in 1 .. n, NEW k \in 1 .. n, path(j) = path(k) PROVE j = k
    <3>1. <<Suffix[item], j>> = <<Suffix[item], k>>
      BY <1>1, <2>2, AppendInjective
    <3> QED
      BY <3>1
  <2>3. f \in Injection(1 .. n, taken)
    <3> HIDE DEF n, path, taken
    <3>1. f \in [1 .. n -> taken]
      BY <2>1
    <3>2. \A i, j \in 1 .. n : f[i] = f[j] => i = j
      BY <2>2
    <3> HIDE DEF f
    <3> QED
      BY <3>1, <3>2, Fun_IsInj
  <2>4. /\ IsFiniteSet(taken)
        /\ Cardinality(taken) = Cardinality(existing) + Cardinality(planned) - Cardinality(existing \cap planned)
    BY FS_Union
  <2>5. IsFiniteSet(1 .. n) /\ Cardinality(1 .. n) = n
    BY <1>0, FS_Interval
  <2>6. Cardinality(1 .. n) <= Cardinality(taken)
    <3> HIDE DEF f, taken, n
    <3> QED
      BY <2>3, <2>4, FS_Injection
  <2>7. IsFiniteSet(existing \cap planned)
    BY FS_Subset
  <2>8. Cardinality(existing) \in Nat /\ Cardinality(planned) \in Nat /\ Cardinality(existing \cap planned) \in Nat
    BY <2>7, FS_CardinalityType
  <2> HIDE DEF taken
  <2> QED
    BY <2>4, <2>5, <2>6, <2>8, FolderAssumption
<1>5. PICK m \in free : \A k \in free : m <= k
  <2>1. free \in SUBSET (1 .. n) /\ 1 \in Nat
    OBVIOUS
  <2> HIDE DEF free, n
  <2> QED
    BY <1>0, <1>4, <2>1, First
<1> DEFINE k == CHOOSE j \in free : \A l \in free : j <= l
<1>6. k \in free
  <2> HIDE DEF free
  <2> QED
    BY <1>5
<1>7. available_child_path(dir, item) = IF Append(dir, Bare) \notin taken THEN Append(dir, Bare) ELSE path(k)
  BY DEF available_child_path
<1> HIDE DEF k
<1> QED
  BY <1>2, <1>3, <1>6, <1>7

(* The folders queued, when one is taken from the queue or put into it.    *)
LEMMA QueueIds ==
  ASSUME NEW q \in Seq(Entries)
  PROVE  /\ q # <<>> => /\ Head(q) \in Entries /\ Tail(q) \in Seq(Entries)
                        /\ Ids(q) = {Head(q).id} \cup Ids(Tail(q))
         /\ \A e \in Entries : Append(q, e) \in Seq(Entries) /\ Ids(Append(q, e)) = Ids(q) \cup {e.id}
<1>1. ASSUME q # <<>>
      PROVE  /\ Head(q) \in Entries /\ Tail(q) \in Seq(Entries)
             /\ Ids(q) = {Head(q).id} \cup Ids(Tail(q))
  <2>1. /\ Head(q) \in Entries /\ Tail(q) \in Seq(Entries) /\ Len(Tail(q)) = Len(q) - 1
        /\ \A i \in 1 .. Len(Tail(q)) : Tail(q)[i] = q[i + 1]
    BY <1>1, HeadTailProperties
  <2>2. Head(q) = q[1] /\ Len(q) \in Nat /\ Len(q) > 0 /\ DOMAIN q = 1 .. Len(q)
           /\ DOMAIN Tail(q) = 1 .. Len(Tail(q))
    BY <1>1, <2>1
  <2>3. ASSUME NEW x \in Ids(q) PROVE x \in {Head(q).id} \cup Ids(Tail(q))
    <3>1. PICK i \in 1 .. Len(q) : x = q[i].id
      BY <2>2 DEF Ids
    <3>2. i = 1 \/ (i - 1 \in 1 .. Len(Tail(q)) /\ Tail(q)[i - 1] = q[i])
      BY <2>1, <2>2
    <3> QED
      BY <2>2, <3>1, <3>2 DEF Ids
  <2>4. ASSUME NEW x \in {Head(q).id} \cup Ids(Tail(q)) PROVE x \in Ids(q)
    <3>1. CASE x = Head(q).id
      <4>1. 1 \in DOMAIN q
        BY <2>2
      <4> QED
        BY <2>2, <3>1, <4>1 DEF Ids
    <3>2. CASE x \in Ids(Tail(q))
      <4>1. PICK i \in 1 .. Len(Tail(q)) : x = Tail(q)[i].id
        BY <2>2, <3>2 DEF Ids
      <4>2. i + 1 \in DOMAIN q
        BY <2>1, <2>2
      <4> QED
        BY <2>1, <4>1, <4>2 DEF Ids
    <3> QED
      BY <2>4, <3>1, <3>2
  <2> QED
    BY <2>1, <2>3, <2>4
<1>2. ASSUME NEW e \in Entries PROVE Append(q, e) \in Seq(Entries) /\ Ids(Append(q, e)) = Ids(q) \cup {e.id}
  <2>1. /\ Append(q, e) \in Seq(Entries) /\ Len(Append(q, e)) = Len(q) + 1
        /\ \A i \in 1 .. Len(q) : Append(q, e)[i] = q[i]
        /\ Append(q, e)[Len(q) + 1] = e
    BY AppendProperties
  <2>2. Len(q) \in Nat /\ DOMAIN q = 1 .. Len(q) /\ DOMAIN Append(q, e) = 1 .. Len(q) + 1
    BY <2>1
  <2>3. \A i : i \in 1 .. Len(q) + 1 <=> i \in 1 .. Len(q) \/ i = Len(q) + 1
    BY <2>2
  <2> QED
    BY <2>1, <2>2, <2>3 DEF Ids
<1> QED
  BY <1>1, <1>2

(* The folders below the root.                                             *)
LEMMA BelowRoot ==
  /\ \A ch : Root \in Below(ch) /\ Below(ch) \subseteq Folders
  /\ \A ch : \A f \in Below(ch) : ch[f] \cap Folders \subseteq Below(ch)
  /\ \A ch : \A S \in SUBSET Folders :
        Root \in S /\ (\A g \in S : ch[g] \cap Folders \subseteq S) => Below(ch) \subseteq S
BY FolderAssumption DEF Below

LEMMA download_folderInv == FolderInv /\ download_folder => FolderInv'
<1> SUFFICES ASSUME FolderInv, download_folder PROVE FolderInv'
  OBVIOUS
<1> DEFINE path == available_child_path(<<>>, Root)
           entry == [id |-> Root, dir |-> path, depth |-> 0, left |-> {}]
<1>1. /\ outcome = "start" /\ planned' = {path} /\ queue' = <<entry>> /\ outcome' = "running"
      /\ UNCHANGED <<children, existing, listing, visited, discovered, downloads>>
  BY DEF download_folder
<1>2. planned = {} /\ queue = <<>> /\ listing.left = {}
  BY <1>1 DEF FolderInv, Walk
<1>3. path \in Seq(Marks) /\ path \notin existing
  <2>1. IsFiniteSet(planned) /\ Cardinality(planned) <= MAX_FOLDER_ITEMS
    BY <1>2, FS_EmptySet, FolderAssumption
  <2>2. <<>> \in Seq(Marks) /\ Root \in Remote
    BY FolderAssumption, EmptySeq DEF Remote
  <2> QED
    BY <2>1, <2>2, FreshPath DEF FolderInv, PathsFree
<1>4. entry \in Entries /\ entry.id = Root
  BY <1>3, FolderAssumption DEF Entries
<1> HIDE DEF path, entry
<1>5. queue' \in Seq(Entries) /\ Ids(queue') = Ids(queue) \cup {Root}
  <2>1. queue' = Append(queue, entry) /\ queue \in Seq(Entries)
    BY <1>1, <1>2 DEF FolderInv, FolderTypes
  <2> QED
    BY <1>4, <2>1, QueueIds
<1>6. FolderTypes'
  BY <1>1, <1>5 DEF FolderInv, FolderTypes
<1>7. PathsFree(planned', existing', discovered', downloads')
  <2>1. IsFiniteSet(planned') /\ Cardinality(planned') = 1
    BY <1>1, FS_Singleton
  <2>2. \A s \in downloads : FALSE
    BY <1>2 DEF FolderInv, PathsFree
  <2>3. discovered \in Nat
    BY DEF FolderInv, FolderTypes
  <2> QED
    BY <1>1, <1>3, <2>1, <2>2, <2>3 DEF FolderInv, PathsFree
<1>8. Walk(children', listing', visited', queue', downloads', outcome')
  <2>1. visited \cup Ids(queue') \subseteq Below(children)
    BY <1>5, BelowRoot DEF FolderInv, Walk
  <2>2. \A f \in visited : \A c \in children[f] : Met(f, c, listing, visited, queue', downloads)
    BY <1>1, <1>5 DEF FolderInv, Walk, Met
  <2> QED
    BY <1>1, <1>5, <2>1, <2>2 DEF FolderInv, Walk
<1> QED
  BY <1>1, <1>6, <1>7, <1>8 DEF FolderInv

LEMMA next_folderInv == FolderInv /\ next_folder => FolderInv'
<1> SUFFICES ASSUME FolderInv, next_folder PROVE FolderInv'
  OBVIOUS
<1> DEFINE q == Head(queue)
<1>1. /\ outcome = "running" /\ listing.left = {} /\ queue # <<>> /\ queue' = Tail(queue)
      /\ UNCHANGED <<children, existing, planned, discovered, downloads>>
      /\ \/ outcome' = "error" /\ UNCHANGED <<listing, visited>>
         \/ /\ visited' = visited \cup {q.id} /\ outcome' = outcome
            /\ listing' = IF q.id \in visited THEN listing ELSE [q EXCEPT !.left = children[q.id]]
  BY DEF next_folder
<1>2. /\ q \in Entries /\ queue' \in Seq(Entries) /\ Ids(queue) = {q.id} \cup Ids(queue')
      /\ q.id \in Folders /\ q.id \in Below(children)
  <2>1. q \in Entries /\ queue' \in Seq(Entries) /\ Ids(queue) = {q.id} \cup Ids(queue')
    BY <1>1, QueueIds DEF FolderInv, FolderTypes
  <2> QED
    BY <2>1 DEF FolderInv, Walk, Entries
<1> HIDE DEF q
<1>3. children[q.id] \in SUBSET Remote
  BY <1>2 DEF FolderInv, FolderTypes
<1>4. PathsFree(planned', existing', discovered', downloads') /\ (outcome' = "start" => planned' = {})
  BY <1>1 DEF FolderInv
<1>5. CASE outcome' = "error" /\ UNCHANGED <<listing, visited>>
  <2>1. FolderTypes'
    BY <1>1, <1>2, <1>5 DEF FolderInv, FolderTypes
  <2>2. Walk(children', listing', visited', queue', downloads', outcome')
    BY <1>1, <1>2, <1>5 DEF FolderInv, Walk
  <2> QED
    BY <1>4, <2>1, <2>2 DEF FolderInv
<1>6. CASE q.id \in visited /\ visited' = visited /\ listing' = listing /\ outcome' = outcome
  <2>1. FolderTypes'
    BY <1>1, <1>2, <1>6 DEF FolderInv, FolderTypes
  <2>2. visited \cup Ids(queue) = visited \cup Ids(queue')
    BY <1>2, <1>6
  <2>3. \A f \in visited : \A c \in children[f] : Met(f, c, listing, visited, queue', downloads)
    BY <1>1, <2>2 DEF FolderInv, Walk, Met
  <2>4. Walk(children', listing', visited', queue', downloads', outcome')
    BY <1>1, <1>6, <2>2, <2>3 DEF FolderInv, Walk
  <2> QED
    BY <1>4, <2>1, <2>4 DEF FolderInv
<1>7. CASE /\ q.id \notin visited /\ visited' = visited \cup {q.id} /\ outcome' = outcome
           /\ listing' = [q EXCEPT !.left = children[q.id]]
  <2>1. listing' \in Entries /\ listing'.id = q.id /\ listing'.left = children[q.id]
    BY <1>2, <1>3, <1>7 DEF Entries
  <2>2. FolderTypes'
    BY <1>1, <1>2, <1>7, <2>1 DEF FolderInv, FolderTypes
  <2>3. visited \cup Ids(queue) = visited' \cup Ids(queue')
    BY <1>2, <1>7
  <2>4. ASSUME NEW f \in visited', NEW c \in children[f]
        PROVE  Met(f, c, listing', visited', queue', downloads)
    <3>1. CASE f = q.id
      BY <2>1, <2>4, <3>1 DEF Met
    <3>2. CASE f \in visited
      <4>1. Met(f, c, listing, visited, queue, downloads)
        BY <1>1, <2>4, <3>2 DEF FolderInv, Walk
      <4> QED
        BY <1>1, <2>3, <4>1 DEF Met
    <3> QED
      BY <1>7, <2>4, <3>1, <3>2
  <2>5. \A s \in downloads : s.parent \in visited /\ s.parent # q.id /\ s.item \in children[s.parent]
    BY <1>7 DEF FolderInv, Walk
  <2>6. \A s, t \in downloads : s.parent = t.parent /\ s.item = t.item => s = t
    BY DEF FolderInv, Walk
  <2>7. visited' \cup Ids(queue') \subseteq Below(children) /\ Root \in visited' \cup Ids(queue')
    BY <1>1, <2>3 DEF FolderInv, Walk
  <2>8. Walk(children', listing', visited', queue', downloads', outcome')
    BY <1>1, <1>7, <2>1, <2>4, <2>5, <2>6, <2>7 DEF Walk
  <2> QED
    BY <1>4, <2>2, <2>8 DEF FolderInv
<1> QED
  <2>1. ASSUME visited' = visited \cup {q.id}, outcome' = outcome,
               listing' = IF q.id \in visited THEN listing ELSE [q EXCEPT !.left = children[q.id]]
        PROVE  FolderInv'
    <3>1. CASE q.id \in visited
      <4>1. visited' = visited /\ listing' = listing
        BY <2>1, <3>1
      <4> QED
        BY <1>6, <2>1, <3>1, <4>1
    <3>2. CASE q.id \notin visited
      BY <1>7, <2>1, <3>2
    <3> QED
      BY <3>1, <3>2
  <2> QED
    BY <1>1, <1>5, <2>1 DEF q

LEMMA next_itemInv == FolderInv /\ next_item => FolderInv'
<1> SUFFICES ASSUME FolderInv, next_item PROVE FolderInv'
  OBVIOUS
<1>1. PICK item \in listing.left :
        /\ outcome = "running" /\ discovered' = discovered + 1
        /\ listing' = [listing EXCEPT !.left = @ \ {item}]
        /\ LET path == available_child_path(listing.dir, item) IN
           IF discovered + 1 > MAX_FOLDER_ITEMS
           THEN outcome' = "error" /\ UNCHANGED <<planned, queue, downloads>>
           ELSE /\ planned' = planned \cup {path}
                /\ IF item \in Folders
                   THEN /\ queue' = Append(queue, [id |-> item, dir |-> path,
                                                   depth |-> listing.depth + 1, left |-> {}])
                        /\ UNCHANGED <<downloads, outcome>>
                   ELSE /\ UNCHANGED queue
                        /\ \/ downloads' = downloads \cup {[item |-> item, parent |-> listing.id, path |-> path]}
                              /\ UNCHANGED outcome
                           \/ outcome' = "error" /\ UNCHANGED downloads
        /\ UNCHANGED <<children, existing, visited>>
  BY DEF next_item
<1> DEFINE path == available_child_path(listing.dir, item)
           entry == [id |-> item, dir |-> path, depth |-> listing.depth + 1, left |-> {}]
           fetch == [item |-> item, parent |-> listing.id, path |-> path]
<1>2. /\ listing \in Entries /\ listing.id \in Folders /\ listing.dir \in Seq(Marks) /\ listing.depth \in Nat
      /\ listing.left \in SUBSET Remote /\ item \in Remote /\ item \in children[listing.id] /\ listing.id \in visited
  <2>1. listing \in Entries
    BY DEF FolderInv, FolderTypes
  <2>2. listing.left \subseteq children[listing.id] /\ listing.id \in visited
    BY DEF FolderInv, Walk
  <2> QED
    BY <2>1, <2>2 DEF Entries
<1>3. /\ listing' \in Entries /\ listing'.id = listing.id /\ listing'.left = listing.left \ {item}
  BY <1>1, <1>2 DEF Entries
<1>4. discovered \in Nat /\ discovered' \in Nat /\ discovered' = discovered + 1
  BY <1>1 DEF FolderInv, FolderTypes
<1>5. /\ IsFiniteSet(planned) /\ Cardinality(planned) \in Nat /\ Cardinality(planned) <= discovered + 1
      /\ IsFiniteSet(existing) /\ Cardinality(existing) <= 1
  BY FS_CardinalityType DEF FolderInv, PathsFree
\* The items met before stay met; the one at hand has still to be accounted for.
<1>6. ASSUME NEW f \in visited, NEW c \in children[f], f # listing.id \/ c # item,
             Ids(queue) \subseteq Ids(queue'), downloads \subseteq downloads'
      PROVE  Met(f, c, listing', visited, queue', downloads')
  <2>1. Met(f, c, listing, visited, queue, downloads)
    BY <1>1, <1>6 DEF FolderInv, Walk
  <2>2. \/ f = listing'.id /\ c \in listing'.left
        \/ c \in visited \cup Ids(queue')
        \/ \E s \in downloads' : s.parent = f /\ s.item = c
    <3>1. CASE f = listing.id /\ c \in listing.left
      BY <1>3, <1>6, <3>1
    <3>2. CASE c \in visited \cup Ids(queue)
      BY <1>6, <3>2
    <3>3. CASE \E s \in downloads : s.parent = f /\ s.item = c
      BY <1>6, <3>3
    <3> QED
      BY <2>1, <3>1, <3>2, <3>3 DEF Met
  <2> QED
    BY <2>2 DEF Met
\* The downloads so far are no item that is left.
<1>7. /\ \A s \in downloads : /\ s.parent \in visited /\ s.item \in children[s.parent]
                              /\ ~ (s.parent = listing'.id /\ s.item \in listing'.left)
                              /\ ~ (s.parent = listing.id /\ s.item = item)
      /\ \A s, t \in downloads : s.parent = t.parent /\ s.item = t.item => s = t
  BY <1>3 DEF FolderInv, Walk
<1>8. listing'.left \subseteq children[listing'.id] /\ listing'.id \in visited
  BY <1>2, <1>3 DEF FolderInv, Walk
<1>v. visited \cup Ids(queue) \subseteq Below(children) /\ Root \in visited \cup Ids(queue)
  BY <1>1 DEF FolderInv, Walk
<1>9. ASSUME outcome' = "error", UNCHANGED <<queue, downloads, children, existing, visited>>,
             planned' = planned \/ (planned' = planned \cup {path} /\ path \notin existing)
      PROVE  FolderInv'
  <2>1. FolderTypes'
    BY <1>3, <1>4, <1>9 DEF FolderInv, FolderTypes
  <2>2. IsFiniteSet(planned') /\ Cardinality(planned') <= discovered' + 1 /\ planned' \cap existing = {}
          /\ planned \subseteq planned'
    <3>1. CASE planned' = planned
      BY <1>4, <1>5, <3>1 DEF FolderInv, PathsFree
    <3>2. CASE planned' = planned \cup {path} /\ path \notin existing
      <4>1. IsFiniteSet(planned') /\ Cardinality(planned') <= Cardinality(planned) + 1
        <5>1. /\ IsFiniteSet(planned \cup {path})
              /\ Cardinality(planned \cup {path}) = IF path \in planned THEN Cardinality(planned)
                                                    ELSE Cardinality(planned) + 1
          BY <1>5, FS_AddElement
        <5> HIDE DEF path
        <5> QED
          BY <1>5, <3>2, <5>1
      <4>2. Cardinality(planned') \in Nat
        BY <4>1, FS_CardinalityType
      <4>3. Cardinality(planned') <= discovered' + 1
        BY <1>4, <1>5, <4>1, <4>2
      <4>4. planned \cap existing = {}
        BY DEF FolderInv, PathsFree
      <4> QED
        BY <3>2, <4>1, <4>3, <4>4
    <3> QED
      BY <1>9, <3>1, <3>2
  <2>3. PathsFree(planned', existing', discovered', downloads')
    <3>1. /\ IsFiniteSet(downloads) /\ \A s \in downloads : s.path \in planned'
          /\ \A s, t \in downloads : s.path = t.path => s = t
      BY <2>2 DEF FolderInv, PathsFree
    <3> QED
      BY <1>5, <1>9, <2>2, <3>1 DEF PathsFree
  <2>4. Walk(children', listing', visited', queue', downloads', outcome')
    <3>1. outcome' \notin {"start", "running", "done"}
      BY <1>9
    <3> QED
      BY <1>7, <1>8, <1>9, <1>v, <3>1 DEF Walk
  <2> QED
    BY <1>9, <2>1, <2>3, <2>4 DEF FolderInv
<1>10. CASE discovered + 1 > MAX_FOLDER_ITEMS
  BY <1>1, <1>9, <1>10
<1>11. CASE ~ (discovered + 1 > MAX_FOLDER_ITEMS)
  <2>1. Cardinality(planned) <= MAX_FOLDER_ITEMS
    BY <1>4, <1>5, <1>11, FolderAssumption
  <2>2. path \in Seq(Marks) /\ path \notin existing \cup planned
    BY <1>2, <1>5, <2>1, FreshPath
  <2>3. /\ planned' = planned \cup {path} /\ UNCHANGED <<children, existing, visited>>
        /\ \/ item \in Folders /\ queue' = Append(queue, entry) /\ UNCHANGED <<downloads, outcome>>
           \/ /\ item \notin Folders /\ UNCHANGED queue
              /\ \/ downloads' = downloads \cup {fetch} /\ UNCHANGED outcome
                 \/ outcome' = "error" /\ UNCHANGED downloads
    BY <1>1, <1>11
  <2>4. item \in Folders => entry \in Entries /\ entry.id = item
    BY <1>2, <2>2 DEF Entries
  <2>5. fetch.item = item /\ fetch.parent = listing.id /\ fetch.path = path
    OBVIOUS
  <2>6. item \in Folders \/ fetch \in [item : Files, parent : Folders, path : Seq(Marks)]
    BY <1>2, <2>2 DEF Remote
  <2> HIDE DEF path, entry, fetch
  <2>7. /\ IsFiniteSet(planned') /\ Cardinality(planned') <= discovered' + 1
        /\ planned' \cap existing = {} /\ planned \subseteq planned' /\ path \in planned'
    <3>1. IsFiniteSet(planned') /\ Cardinality(planned') = Cardinality(planned) + 1
      BY <1>5, <2>2, <2>3, FS_AddElement
    <3>2. planned \cap existing = {}
      BY DEF FolderInv, PathsFree
    <3> QED
      BY <1>4, <1>5, <2>2, <2>3, <3>1, <3>2
  <2>8. CASE item \in Folders /\ queue' = Append(queue, entry) /\ UNCHANGED <<downloads, outcome>>
    <3>1. queue' \in Seq(Entries) /\ Ids(queue') = Ids(queue) \cup {item}
      BY <2>4, <2>8, QueueIds DEF FolderInv, FolderTypes
    <3>2. FolderTypes'
      BY <1>3, <1>4, <2>3, <2>8, <3>1 DEF FolderInv, FolderTypes
    <3>3. PathsFree(planned', existing', discovered', downloads')
      <4>1. /\ IsFiniteSet(downloads) /\ \A s \in downloads : s.path \in planned'
            /\ \A s, t \in downloads : s.path = t.path => s = t
        BY <2>7 DEF FolderInv, PathsFree
      <4> QED
        BY <1>5, <2>3, <2>7, <2>8, <4>1 DEF PathsFree
    <3>4. visited \cup Ids(queue') \subseteq Below(children)
      <4>1. item \in Below(children)
        BY <1>2, <1>v, <2>8, BelowRoot
      <4> QED
        BY <1>v, <3>1, <4>1
    <3>5. \A f \in visited : \A c \in children[f] : Met(f, c, listing', visited, queue', downloads')
      <4> SUFFICES ASSUME NEW f \in visited, NEW c \in children[f]
                   PROVE  Met(f, c, listing', visited, queue', downloads')
        OBVIOUS
      <4>1. CASE c = item
        BY <3>1, <4>1 DEF Met
      <4>2. CASE c # item
        BY <1>6, <2>8, <3>1, <4>2
      <4> QED
        BY <4>1, <4>2
    <3>6. Walk(children', listing', visited', queue', downloads', outcome')
      <4>1. Root \in visited \cup Ids(queue')
        BY <1>v, <3>1
      <4>2. downloads' = downloads /\ outcome' = "running" /\ visited' = visited /\ children' = children
        BY <1>1, <2>3, <2>8
      <4>3. Walk(children, listing', visited, queue', downloads, "running")
        BY <1>7, <1>8, <3>4, <3>5, <4>1, <4>2 DEF Walk
      <4> QED
        BY <4>2, <4>3
    <3> QED
      BY <1>1, <2>8, <3>2, <3>3, <3>6 DEF FolderInv
  <2>9. CASE item \notin Folders /\ UNCHANGED queue /\ downloads' = downloads \cup {fetch} /\ UNCHANGED outcome
    <3>1. FolderTypes'
      BY <1>3, <1>4, <2>3, <2>6, <2>9 DEF FolderInv, FolderTypes
    <3>2. PathsFree(planned', existing', discovered', downloads')
      <4>1. /\ IsFiniteSet(downloads) /\ \A s \in downloads : s.path \in planned /\ s.path \in planned'
            /\ \A s, t \in downloads : s.path = t.path => s = t
        BY <2>7 DEF FolderInv, PathsFree
      <4>2. \A s \in downloads : s.path # fetch.path
        BY <2>2, <2>5, <4>1
      <4>3. \A s, t \in downloads' : s.path = t.path => s = t
        BY <2>9, <4>1, <4>2
      <4>4. IsFiniteSet(downloads')
        BY <2>9, <4>1, FS_AddElement
      <4>5. \A s \in downloads' : s.path \in planned'
        BY <2>5, <2>7, <2>9, <4>1
      <4> QED
        BY <1>5, <2>3, <2>7, <4>3, <4>4, <4>5 DEF PathsFree
    <3>3. \A f \in visited : \A c \in children[f] : Met(f, c, listing', visited, queue', downloads')
      <4> SUFFICES ASSUME NEW f \in visited, NEW c \in children[f]
                   PROVE  Met(f, c, listing', visited, queue', downloads')
        OBVIOUS
      <4>1. CASE f = listing.id /\ c = item
        BY <2>5, <2>9, <4>1 DEF Met
      <4>2. CASE f # listing.id \/ c # item
        BY <1>6, <2>9, <4>2
      <4> QED
        BY <4>1, <4>2
    <3>4. \A s \in downloads' : /\ s.parent \in visited /\ s.item \in children[s.parent]
                                /\ ~ (s.parent = listing'.id /\ s.item \in listing'.left)
      BY <1>2, <1>3, <1>7, <2>5, <2>9
    <3>5. \A s, t \in downloads' : s.parent = t.parent /\ s.item = t.item => s = t
      BY <1>7, <2>5, <2>9
    <3>6. Walk(children', listing', visited', queue', downloads', outcome')
      <4>1. queue' = queue /\ outcome' = "running" /\ visited' = visited /\ children' = children
        BY <1>1, <2>3, <2>9
      <4>2. Walk(children, listing', visited, queue', downloads', "running")
        BY <1>8, <1>v, <3>3, <3>4, <3>5, <4>1 DEF Walk
      <4> QED
        BY <4>1, <4>2
    <3> QED
      BY <1>1, <2>9, <3>1, <3>2, <3>6 DEF FolderInv
  <2>10. CASE outcome' = "error" /\ UNCHANGED <<queue, downloads>>
    BY <1>9, <2>2, <2>3, <2>10
  <2> QED
    BY <2>3, <2>8, <2>9, <2>10
<1> QED
  BY <1>10, <1>11

LEMMA finish_folderInv == FolderInv /\ finish_folder => FolderInv'
<1> SUFFICES ASSUME FolderInv, finish_folder PROVE FolderInv'
  OBVIOUS
<1>1. /\ outcome = "running" /\ listing.left = {} /\ queue = <<>> /\ outcome' = "done"
      /\ UNCHANGED <<children, existing, queue, listing, visited, planned, discovered, downloads>>
  BY DEF finish_folder
<1>2. FolderTypes'
  BY <1>1 DEF FolderInv, FolderTypes
<1>3. Walk(children', listing', visited', queue', downloads', outcome')
  BY <1>1 DEF FolderInv, Walk
<1> QED
  BY <1>1, <1>2, <1>3 DEF FolderInv

LEMMA FolderInvariant == FolderSpec => []FolderInv
<1>1. FolderInit => FolderInv
  <2> SUFFICES ASSUME FolderInit PROVE FolderInv
    OBVIOUS
  <2>1. /\ children \in [Folders -> SUBSET (Remote \ {Root})] /\ existing \in {{}, {<<Bare>>}}
        /\ planned = {} /\ queue = <<>> /\ listing = None /\ visited = {} /\ discovered = 0
        /\ downloads = {} /\ outcome = "start"
    BY DEF FolderInit
  <2>2. None \in Entries /\ None.left = {} /\ queue \in Seq(Entries)
    BY <2>1, FolderAssumption, EmptySeq DEF None, Entries
  <2>3. FolderTypes
    BY <2>1, <2>2 DEF FolderTypes
  <2>4. PathsFree(planned, existing, discovered, downloads)
    <3>1. IsFiniteSet(existing) /\ Cardinality(existing) <= 1
      <4>1. CASE existing = {}
        BY <4>1, FS_EmptySet
      <4>2. CASE existing = {<<Bare>>}
        <5>1. \A x : IsFiniteSet({x}) /\ Cardinality({x}) = 1
          BY FS_Singleton
        <5>2. IsFiniteSet(existing) /\ Cardinality(existing) = 1
          BY <4>2, <5>1
        <5> QED
          BY <5>2
      <4> QED
        BY <2>1, <4>1, <4>2
    <3> QED
      BY <2>1, <3>1, FS_EmptySet DEF PathsFree
  <2>5. Walk(children, listing, visited, queue, downloads, outcome)
    <3>1. Ids(queue) = {}
      BY <2>1 DEF Ids
    <3> QED
      BY <2>1, <2>2, <3>1 DEF Walk
  <2> QED
    BY <2>1, <2>3, <2>4, <2>5 DEF FolderInv
<1>2. FolderInv /\ [FolderNext]_folderVars => FolderInv'
  <2> SUFFICES ASSUME FolderInv, [FolderNext]_folderVars PROVE FolderInv'
    OBVIOUS
  <2>1. CASE UNCHANGED folderVars
    BY <2>1 DEF folderVars, FolderInv, FolderTypes
  <2> QED
    BY <2>1, download_folderInv, next_folderInv, next_itemInv, finish_folderInv DEF FolderNext
<1> QED
  BY <1>1, <1>2, PTL DEF FolderSpec

(* A folder download writes over nothing, and one that reports success has *)
(* every file of every folder below the root once for each folder it is    *)
(* in, whatever graph the remote folders form, whatever names and ids they *)
(* have, and whatever the limits on depth and number are.                  *)
THEOREM FoldersCorrect == FolderSpec => []FoldersSafe
<1>1. FolderInv => NothingOverwritten
  BY DEF FolderInv, PathsFree, NothingOverwritten
<1>2. FolderInv => EveryFileOnce
  <2> SUFFICES ASSUME FolderInv, outcome = "done" PROVE EveryFileOnce
    BY DEF EveryFileOnce
  <2> DEFINE pair == [s \in downloads |-> <<s.parent, s.item>>]
  <2>1. queue = <<>> /\ listing.left = {} /\ Root \in visited \cup Ids(queue) /\ visited \subseteq Below(children)
    BY DEF FolderInv, Walk
  <2>2. Ids(queue) = {} /\ Root \in visited
    BY <2>1 DEF Ids
  <2>3. \A g \in visited : \A c \in children[g] : c \in visited \/ \E s \in downloads : s.parent = g /\ s.item = c
    BY <2>1, <2>2 DEF FolderInv, Walk, Met
  <2>4. /\ \A s \in downloads : s.parent \in visited /\ s.item \in children[s.parent] /\ s.item \in Files
        /\ \A s, t \in downloads : s.parent = t.parent /\ s.item = t.item => s = t
    <3>1. \A s \in downloads : s.item \in Files
      BY DEF FolderInv, FolderTypes
    <3> QED
      BY <3>1 DEF FolderInv, Walk
  <2>5. visited \in SUBSET Folders
    BY DEF FolderInv, FolderTypes
  <2>6. visited = Below(children)
    <3>1. \A g \in visited : children[g] \cap Folders \subseteq visited
      BY <2>3, <2>4, FolderAssumption
    <3> QED
      BY <2>1, <2>2, <2>5, <3>1, BelowRoot
  <2>7. Reached = visited
    BY <2>6 DEF Reached, Closed, Below
  <2>8. Downloaded = Wanted
    <3>1. ASSUME NEW x \in Downloaded PROVE x \in UNION {{g} \X (children[g] \cap Files) : g \in visited}
      <4>1. PICK s \in downloads : x = <<s.parent, s.item>>
        BY <3>1 DEF Downloaded
      <4> QED
        BY <2>4, <4>1
    <3>2. ASSUME NEW g \in visited, NEW c \in children[g] \cap Files PROVE <<g, c>> \in Downloaded
      <4>1. c \notin visited
        BY <2>5, FolderAssumption
      <4>2. PICK s \in downloads : s.parent = g /\ s.item = c
        BY <2>3, <4>1
      <4> QED
        BY <4>2 DEF Downloaded
    <3> QED
      BY <2>7, <3>1, <3>2 DEF Wanted
  <2>9. Cardinality(downloads) = Cardinality(Downloaded)
    <3>1. pair \in [downloads -> Downloaded]
      BY DEF Downloaded
    <3>2. \A s, t \in downloads : pair[s] = pair[t] => s = t
      BY <2>4
    <3>3. \A x \in Downloaded : \E s \in downloads : pair[s] = x
      BY DEF Downloaded
    <3> HIDE DEF pair
    <3>4. pair \in Bijection(downloads, Downloaded)
      BY <3>1, <3>2, <3>3, Fun_IsBij
    <3>5. IsFiniteSet(downloads)
      BY DEF FolderInv, PathsFree
    <3> QED
      BY <3>4, <3>5, FS_Bijection DEF ExistsBijection
  <2> QED
    BY <2>8, <2>9 DEF EveryFileOnce
<1> QED
  BY <1>1, <1>2, FolderInvariant, PTL DEF FoldersSafe

-----------------------------------------------------------------------------
(***************************************************************************)
(* TaskSeries: the inductive invariant, that of the rows and that of the   *)
(* record of a tool call.                                                  *)
(***************************************************************************)
TaskRows == [status : {"open", "completed"}, due : Days \cup {NoDay}, rule : Rules \cup {NoRule},
             anchor : Days \cup {NoDay}, source : TaskIds \cup {NoId}, parent : TaskIds \cup {NoId},
             version : Nat \ {0}, deleted : BOOLEAN]

DueFits(rule, due, anchor) == rule # NoRule => due \in Occurrences(rule, anchor)
FitRows == {r \in TaskRows : DueFits(r.rule, r.due, r.anchor)}

\* Every row is due on its rule and enqueued as it is; what the user has
\* changed is there, and no longer the version it was generated with.
TableInv ==
  /\ tasks \in [TaskIds -> {NoTask} \cup FitRows] /\ queued \in [TaskIds -> Nat]
  /\ EveryChangeQueued
  /\ touched \in SUBSET TaskIds
  /\ \A i \in touched : tasks[i] \in FitRows /\ ~tasks[i].deleted /\ tasks[i].version > 1

\* The task an instance was generated from is there, and it is still completed,
\* unless a task the instance follows was reopened; and instances are generated
\* anew over the user's changes only after such a reopening.
FollowsReopened(i) == \E s \in reopened : Follows(i, s)
LineageInv ==
  /\ rewritten \in SUBSET TaskIds /\ reopened \in SUBSET TaskIds
  /\ \A i \in rewritten : FollowsReopened(i)
  /\ \A p \in TaskIds, d \in Days :
        recurring_task_id(p, d) \in TaskIds /\ Exists(recurring_task_id(p, d)) =>
          /\ Exists(p)
          /\ tasks[p].status = "completed" \/ FollowsReopened(recurring_task_id(p, d))

\* What the record says of a call is what the call has come to.
CallInv ==
  /\ call \in [pc : {"idle", "running", "answered", "over"},
               status : {"none", "running", "failed", "done"}, wrote : BOOLEAN, held : BOOLEAN]
  /\ call.pc = "idle" => call.status = "none" /\ ~call.wrote
  /\ call.pc = "running" => call.status = "running" /\ ~call.wrote
  /\ call.pc = "answered" => call.status = "running" /\ call.held
  /\ call.pc = "over" => CallTruthful

SeriesInv == TableInv /\ LineageInv /\ CallInv

-----------------------------------------------------------------------------
(* A row of a task is no missing row.                                      *)
LEMMA RowThere ==
  ASSUME tasks \in [TaskIds -> {NoTask} \cup FitRows], NEW i \in TaskIds
  PROVE  Exists(i) <=> tasks[i] \in FitRows
BY DEF Exists, NoTask, FitRows, TaskRows

(* A row one version later, and with another status or deleted.            *)
LEMMA LaterRow ==
  ASSUME NEW r \in FitRows, NEW status \in {"open", "completed"}
  PROVE  /\ [NewVersion(r) EXCEPT !.status = status] \in FitRows
         /\ [NewVersion(r) EXCEPT !.status = status].version > 1
         /\ [NewVersion(r) EXCEPT !.status = status].deleted = r.deleted
         /\ [NewVersion(r) EXCEPT !.deleted = TRUE] \in FitRows
<1>0. /\ r \in TaskRows /\ DueFits(r.rule, r.due, r.anchor) /\ r.version \in Nat \ {0}
      /\ r.version + 1 \in Nat \ {0} /\ r.version + 1 > 1
  BY DEF FitRows, TaskRows
<1>1. r = [status |-> r.status, due |-> r.due, rule |-> r.rule, anchor |-> r.anchor, source |-> r.source,
           parent |-> r.parent, version |-> r.version, deleted |-> r.deleted]
  BY <1>0 DEF TaskRows
<1>2. NewVersion(r) = [status |-> r.status, due |-> r.due, rule |-> r.rule, anchor |-> r.anchor, source |-> r.source,
                       parent |-> r.parent, version |-> r.version + 1, deleted |-> r.deleted]
  BY <1>1 DEF NewVersion
<1>3. [NewVersion(r) EXCEPT !.status = status] =
        [status |-> status, due |-> r.due, rule |-> r.rule, anchor |-> r.anchor, source |-> r.source,
         parent |-> r.parent, version |-> r.version + 1, deleted |-> r.deleted]
  BY <1>2
<1>4. ASSUME NEW gone
      PROVE  [NewVersion(r) EXCEPT !.deleted = gone] =
               [status |-> r.status, due |-> r.due, rule |-> r.rule, anchor |-> r.anchor, source |-> r.source,
                parent |-> r.parent, version |-> r.version + 1, deleted |-> gone]
  BY <1>2
<1>5. /\ r.status \in {"open", "completed"} /\ r.due \in Days \cup {NoDay} /\ r.rule \in Rules \cup {NoRule}
      /\ r.anchor \in Days \cup {NoDay} /\ r.source \in TaskIds \cup {NoId} /\ r.parent \in TaskIds \cup {NoId}
      /\ r.deleted \in BOOLEAN
  BY <1>0 DEF TaskRows
<1>6. [NewVersion(r) EXCEPT !.status = status] \in FitRows
  BY <1>0, <1>3, <1>5 DEF FitRows, TaskRows
<1>7. [NewVersion(r) EXCEPT !.deleted = TRUE] \in FitRows
  <2> DEFINE gone == [NewVersion(r) EXCEPT !.deleted = TRUE]
  <2>1. gone = [status |-> r.status, due |-> r.due, rule |-> r.rule, anchor |-> r.anchor, source |-> r.source,
                parent |-> r.parent, version |-> r.version + 1, deleted |-> TRUE]
    BY <1>4
  <2> HIDE DEF gone
  <2>2. gone \in TaskRows /\ gone.rule = r.rule /\ gone.due = r.due /\ gone.anchor = r.anchor
    BY <2>1, <1>0, <1>5 DEF TaskRows
  <2>3. gone \in FitRows
    BY <2>2, <1>0 DEF FitRows
  <2> QED
    BY <2>3 DEF gone
<1> QED
  BY <1>0, <1>3, <1>6, <1>7

(* A transaction that writes rows and enqueues the tasks it has written.   *)
LEMMA Written ==
  ASSUME TableInv, NEW ids \in SUBSET TaskIds, enqueue_task(ids),
         tasks' \in [TaskIds -> {NoTask} \cup FitRows],
         \A i \in ids : tasks'[i] \in FitRows,
         \A i \in TaskIds \ ids : tasks'[i] = tasks[i],
         \A i \in touched' : \/ i \in touched /\ i \notin ids
                             \/ i \in ids /\ ~tasks'[i].deleted /\ tasks'[i].version > 1
  PROVE  TableInv'
<1>1. \A i \in TaskIds : queued'[i] = IF i \in ids THEN tasks'[i].version ELSE queued[i]
  BY DEF enqueue_task, get_task_sync_source
<1>2. \A i \in ids : tasks'[i].version \in Nat
  BY DEF FitRows, TaskRows
<1>3. queued' \in [TaskIds -> Nat]
  <2>1. queued' = [i \in TaskIds |-> queued'[i]]
    BY DEF enqueue_task
  <2>2. \A i \in TaskIds : queued'[i] \in Nat
    BY <1>1, <1>2 DEF TableInv
  <2> QED
    BY <2>1, <2>2
<1>4. EveryChangeQueued'
  <2> SUFFICES ASSUME NEW i \in TaskIds, tasks'[i] # NoTask PROVE queued'[i] = tasks'[i].version
    BY DEF EveryChangeQueued, Exists
  <2>1. CASE i \in ids
    BY <1>1, <2>1
  <2>2. CASE i \notin ids
    BY <1>1, <2>2 DEF TableInv, EveryChangeQueued, Exists
  <2> QED
    BY <2>1, <2>2
<1>5. touched' \in SUBSET TaskIds
  BY DEF TableInv
<1>6. \A i \in touched' : tasks'[i] \in FitRows /\ ~tasks'[i].deleted /\ tasks'[i].version > 1
  BY DEF TableInv
<1> QED
  BY <1>3, <1>4, <1>5, <1>6 DEF TableInv

(* The schedule of a task that is created or updated fits its rule.        *)
LEMMA Scheduled ==
  ASSUME NEW due \in Days \cup {NoDay}, NEW rule \in Rules \cup {NoRule}, NEW kept \in Days \cup {NoDay},
         ValidSchedule(due, rule), kept = NoDay \/ DueFits(rule, due, kept)
  PROVE  new_anchor(due, rule, kept) \in Days \cup {NoDay} /\ DueFits(rule, due, new_anchor(due, rule, kept))
<1>1. CASE rule = NoRule
  BY <1>1 DEF new_anchor, DueFits
<1>2. CASE rule # NoRule /\ kept # NoDay
  BY <1>2 DEF new_anchor
<1>3. CASE rule # NoRule /\ kept = NoDay
  <2>1. new_anchor(due, rule, kept) = due /\ due \in Days
    BY <1>3 DEF new_anchor, ValidSchedule
  <2>2. rule.every \in Nat /\ rule.count \in Nat /\ rule.count > 0 /\ due \in Nat
    BY <1>3, <2>1, SeriesAssumption DEF Days
  <2>3. 0 \in 0 .. rule.count - 1 /\ due + rule.every * 0 = due
    BY <2>2
  <2>4. due \in Occurrences(rule, due)
    BY <2>1, <2>3 DEF Occurrences
  <2> QED
    BY <2>1, <2>4 DEF DueFits
<1> QED
  BY <1>1, <1>2, <1>3

LEMMA create_taskInv ==
  ASSUME TableInv, NEW id \in TaskIds, NEW due \in Days \cup {NoDay}, NEW rule \in Rules \cup {NoRule},
         NEW parent \in TaskIds \cup {NoId}, create_task(id, due, rule, parent)
  PROVE  TableInv' /\ Open(id)' /\ (\A i \in TaskIds \ {id} : tasks'[i] = tasks[i])
<1> DEFINE anchor == new_anchor(due, rule, NoDay)
           row == Row(due, rule, anchor, NoId, parent)
<1>1. /\ ~Exists(id) /\ ValidSchedule(due, rule) /\ tasks' = [tasks EXCEPT ![id] = row]
      /\ enqueue_task({id}) /\ touched' = touched
  BY DEF create_task, history
<1>2. anchor \in Days \cup {NoDay} /\ DueFits(rule, due, anchor)
  BY <1>1, Scheduled
<1>3. row \in FitRows /\ row.status = "open" /\ row.deleted = FALSE
  BY <1>2 DEF Row, FitRows, TaskRows
<1> HIDE DEF row
<1>4. /\ tasks' \in [TaskIds -> {NoTask} \cup FitRows] /\ tasks'[id] = row
      /\ \A i \in TaskIds \ {id} : tasks'[i] = tasks[i]
  BY <1>1, <1>3 DEF TableInv
<1>5. id \notin touched
  BY <1>1, RowThere DEF TableInv
<1>6. TableInv'
  BY <1>1, <1>3, <1>4, <1>5, Written
<1>7. Open(id)'
  BY <1>3, <1>4 DEF Open, Alive, Exists, NoTask, FitRows, TaskRows
<1> QED
  BY <1>4, <1>6, <1>7

(* The next day is none, or a later occurrence of the rule.                *)
LEMMA NextDue ==
  ASSUME NEW r \in FitRows, next_due(r) # NoDay
  PROVE  next_due(r) \in Days /\ next_due(r) \in Occurrences(r.rule, r.anchor) /\ r.rule # NoRule
<1> DEFINE later == {d \in Occurrences(r.rule, r.anchor) : d > r.due}
           day == CHOOSE d \in later : \A e \in later : d <= e
<1>1. r.rule # NoRule /\ later # {} /\ next_due(r) = day
  BY DEF next_due
<1>2. later \in SUBSET (0 .. MaxDay)
  BY DEF Occurrences, Days
<1>3. \E d \in later : \A e \in later : d <= e
  <2> HIDE DEF later
  <2>1. 0 \in Nat /\ MaxDay \in Nat
    BY SeriesAssumption
  <2> QED
    BY <1>1, <1>2, <2>1, First
<1>4. day \in later
  <2> HIDE DEF later
  <2> QED
    BY <1>3
<1> QED
  BY <1>1, <1>2, <1>4 DEF Days

(* An instance of a task is another task.                                  *)
LEMMA OtherId ==
  ASSUME NEW id \in TaskIds, NEW due \in Days
  PROVE  recurring_task_id(id, due) # id
<1>1. PICK n \in 0 .. MaxChain : id.path \in [1 .. n -> Days]
  BY DEF TaskIds
<1>2. id.path \in Seq(Days)
  <2>1. n \in Nat
    BY SeriesAssumption
  <2> QED
    BY <1>1, <2>1, SeqDef
<1>3. Len(Append(id.path, due)) = Len(id.path) + 1 /\ Len(id.path) \in Nat
  BY <1>2, AppendProperties
<1>4. recurring_task_id(id, due).path = Append(id.path, due)
  BY DEF recurring_task_id, TaskIds
<1> QED
  BY <1>3, <1>4

LEMMA completeInv ==
  ASSUME TableInv, NEW id \in TaskIds, complete(id)
  PROVE  /\ TableInv'
         /\ Open(id) /\ Alive(id)' /\ tasks'[id].status = "completed"
         /\ \/ rewritten' = rewritten /\ \A i \in TaskIds \ {id} : tasks'[i] = tasks[i]
            \/ \E d \in Days :
                  /\ recurring_task_id(id, d) \in TaskIds /\ tasks'[recurring_task_id(id, d)] \in FitRows
                  /\ \A i \in TaskIds \ {id, recurring_task_id(id, d)} : tasks'[i] = tasks[i]
                  /\ rewritten' = rewritten \/ (/\ rewritten' = rewritten \cup {recurring_task_id(id, d)}
                                                /\ recurring_task_id(id, d) \in touched)
<1> DEFINE due == next_due(tasks[id])
           next == recurring_task_id(id, due)
           row == [NewVersion(tasks[id]) EXCEPT !.status = "completed"]
           ended == [tasks EXCEPT ![id].status = "completed", ![id].version = @ + 1]
           new == successor_row(id, due)
<1>1. /\ Open(id)
      /\ \/ /\ due = NoDay /\ tasks' = ended /\ enqueue_task({id}) /\ touched' = touched \cup {id}
            /\ rewritten' = rewritten
         \/ /\ due # NoDay /\ next \in TaskIds /\ tasks' = [ended EXCEPT ![next] = new]
            /\ enqueue_task({id, next}) /\ touched' = (touched \cup {id}) \ {next}
            /\ rewritten' = rewritten \/ (next \in touched /\ rewritten' = rewritten \cup {next})
  BY DEF complete
<1>2. tasks[id] \in FitRows /\ ~tasks[id].deleted
  BY <1>1, RowThere DEF Open, Alive, TableInv
<1>3. row \in FitRows /\ row.version > 1 /\ ~row.deleted /\ row.status = "completed"
  <2>1. row \in FitRows /\ row.version > 1 /\ ~row.deleted
    BY <1>2, LaterRow
  <2>2. row.status = "completed"
    BY <1>2 DEF NewVersion, FitRows, TaskRows
  <2> QED
    BY <2>1, <2>2
<1>8. ASSUME tasks'[id] = row PROVE Alive(id)' /\ tasks'[id].status = "completed"
  <2> HIDE DEF row
  <2> QED
    BY <1>3, <1>8 DEF Alive, Exists, NoTask
<1>4. ended = [tasks EXCEPT ![id] = row]
  <2>1. ended = [tasks EXCEPT ![id] = [[tasks[id] EXCEPT !.status = "completed"] EXCEPT !.version = @ + 1]]
    BY DEF TableInv
  <2>2. [[tasks[id] EXCEPT !.status = "completed"] EXCEPT !.version = @ + 1] = row
    BY <1>2 DEF NewVersion, FitRows, TaskRows
  <2> QED
    BY <2>1, <2>2
<1>5. /\ ended \in [TaskIds -> {NoTask} \cup FitRows] /\ ended[id] = row
      /\ \A i \in TaskIds \ {id} : ended[i] = tasks[i]
  <2> HIDE DEF row, ended
  <2> QED
    BY <1>3, <1>4 DEF TableInv
<1>6. CASE due = NoDay
  <2> HIDE DEF due, next, row, ended, new
  <2>1. tasks' = ended /\ enqueue_task({id}) /\ touched' = touched \cup {id} /\ UNCHANGED rewritten
    BY <1>1, <1>6
  <2>2. TableInv'
    BY <1>3, <1>5, <2>1, Written
  <2>3. tasks'[id] = row /\ rewritten' = rewritten /\ \A i \in TaskIds \ {id} : tasks'[i] = tasks[i]
    BY <1>5, <2>1
  <2> QED
    BY <1>1, <1>8, <2>2, <2>3
<1>7. CASE due # NoDay
  <2>1. /\ next \in TaskIds /\ tasks' = [ended EXCEPT ![next] = new]
        /\ enqueue_task({id, next}) /\ touched' = (touched \cup {id}) \ {next}
        /\ rewritten' = rewritten \/ (next \in touched /\ rewritten' = rewritten \cup {next})
    BY <1>1, <1>7
  <2>2. due \in Days /\ due \in Occurrences(tasks[id].rule, tasks[id].anchor) /\ tasks[id].rule # NoRule
    BY <1>2, <1>7, NextDue
  <2>3. next # id
    <3> HIDE DEF due
    <3> QED
      BY <2>2, OtherId
  <2>4. new \in FitRows
    <3> DEFINE v == IF tasks[next] = NoTask THEN 1 ELSE tasks[next].version + 1
               rule == tasks[id].rule
               anchor == tasks[id].anchor
               parent == tasks[id].parent
    <3>1. v \in Nat \ {0}
      <4>1. CASE tasks[next] = NoTask
        BY <4>1
      <4>2. CASE tasks[next] # NoTask
        <5>1. tasks[next] \in FitRows
          BY <2>1, <4>2 DEF TableInv
        <5>2. tasks[next].version \in Nat
          BY <5>1 DEF FitRows, TaskRows
        <5> QED
          BY <4>2, <5>2
      <4> QED
        BY <4>1, <4>2
    <3>2. new = [Row(due, rule, anchor, id, parent) EXCEPT !.version = v]
      BY DEF successor_row
    <3>3. /\ rule \in Rules \cup {NoRule} /\ anchor \in Days \cup {NoDay} /\ parent \in TaskIds \cup {NoId}
          /\ DueFits(rule, due, anchor)
      BY <1>2, <2>2 DEF FitRows, TaskRows, DueFits
    <3> HIDE DEF v, new, rule, anchor, parent, due
    <3>4. new = [status |-> "open", due |-> due, rule |-> rule, anchor |-> anchor,
                 source |-> id, parent |-> parent, version |-> v, deleted |-> FALSE]
      BY <3>2 DEF Row
    <3> QED
      BY <2>2, <3>1, <3>3, <3>4 DEF FitRows, TaskRows
  <2> HIDE DEF row, ended, new
  <2>5. /\ tasks' \in [TaskIds -> {NoTask} \cup FitRows] /\ tasks'[next] = new /\ tasks'[id] = row
        /\ \A i \in TaskIds \ {id, next} : tasks'[i] = tasks[i]
    <3> HIDE DEF due, next
    <3> QED
      BY <1>5, <2>1, <2>3, <2>4
  <2>6. TableInv'
    <3> HIDE DEF due, next
    <3> QED
      BY <1>3, <2>1, <2>4, <2>5, Written
  <2>7. \E d \in Days :
          /\ recurring_task_id(id, d) \in TaskIds /\ tasks'[recurring_task_id(id, d)] \in FitRows
          /\ \A i \in TaskIds \ {id, recurring_task_id(id, d)} : tasks'[i] = tasks[i]
          /\ rewritten' = rewritten \/ (/\ rewritten' = rewritten \cup {recurring_task_id(id, d)}
                                        /\ recurring_task_id(id, d) \in touched)
    <3>1. PICK d \in Days : d = due
      BY <2>2
    <3>2. next = recurring_task_id(id, d)
      BY <3>1
    <3> HIDE DEF due, next
    <3> QED
      BY <2>1, <2>4, <2>5, <3>2
  <2> QED
    BY <1>1, <1>8, <2>5, <2>6, <2>7
<1> QED
  BY <1>6, <1>7

LEMMA reopenInv ==
  ASSUME TableInv, NEW id \in TaskIds, reopen(id)
  PROVE  /\ TableInv' /\ Alive(id)' /\ tasks'[id].status = "open"
         /\ reopened' = reopened \cup {id} /\ rewritten' = rewritten
         /\ \A i \in TaskIds \ {id} : tasks'[i] = tasks[i] \/ (Exists(i) /\ Exists(i)' /\ tasks'[i].status = tasks[i].status)
<1> DEFINE undone == {i \in TaskIds : Untouched(i) /\ tasks[i].source = id}
           row(i) == [NewVersion(tasks[i]) EXCEPT !.status = "open"]
           gone(i) == [NewVersion(tasks[i]) EXCEPT !.deleted = TRUE]
<1>1. /\ Alive(id)
      /\ tasks' = [i \in TaskIds |-> IF i = id THEN row(i) ELSE IF i \in undone THEN gone(i) ELSE tasks[i]]
      /\ enqueue_task(undone \cup {id}) /\ touched' = touched \cup {id}
      /\ reopened' = reopened \cup {id} /\ rewritten' = rewritten
  BY DEF reopen
<1>2. tasks[id] \in FitRows /\ ~tasks[id].deleted
  BY <1>1, RowThere DEF Alive, TableInv
<1>3. \A i \in undone : tasks[i] \in FitRows /\ tasks[i].version = 1
  BY RowThere DEF Untouched, Open, Alive, TableInv
<1>4. row(id) \in FitRows /\ row(id).version > 1 /\ ~row(id).deleted /\ row(id).status = "open"
  <2>1. row(id) \in FitRows /\ row(id).version > 1 /\ ~row(id).deleted
    BY <1>2, LaterRow
  <2>2. row(id).status = "open"
    BY <1>2 DEF NewVersion, FitRows, TaskRows
  <2> QED
    BY <2>1, <2>2
<1>5. \A i \in undone : gone(i) \in FitRows /\ gone(i).status = tasks[i].status
  <2>1. ASSUME NEW r \in FitRows PROVE [NewVersion(r) EXCEPT !.deleted = TRUE].status = r.status
    BY DEF NewVersion, FitRows, TaskRows
  <2> QED
    BY <1>3, <2>1, LaterRow
<1>6. undone \in SUBSET TaskIds
  OBVIOUS
<1> HIDE DEF undone, row, gone
<1>7. tasks' \in [TaskIds -> {NoTask} \cup FitRows]
  BY <1>1, <1>4, <1>5 DEF TableInv
<1>8. /\ tasks'[id] = row(id) /\ \A i \in undone : tasks'[i] \in FitRows
      /\ \A i \in TaskIds \ (undone \cup {id}) : tasks'[i] = tasks[i]
      /\ \A i \in undone \ {id} : tasks'[i] = gone(i)
  BY <1>1, <1>4, <1>5, <1>6
<1>9. \A i \in touched : i \notin undone
  BY <1>3 DEF TableInv
<1>10. TableInv'
  BY <1>1, <1>4, <1>6, <1>7, <1>8, <1>9, Written
<1>11. Alive(id)' /\ tasks'[id].status = "open"
  BY <1>4, <1>8 DEF Alive, Exists, NoTask
<1>12. ASSUME NEW i \in undone \ {id}
       PROVE  Exists(i) /\ Exists(i)' /\ tasks'[i].status = tasks[i].status
  BY <1>3, <1>5, <1>6, <1>8 DEF Exists, NoTask, FitRows, TaskRows
<1> QED
  BY <1>1, <1>8, <1>10, <1>11, <1>12

(* A row one version later on another schedule.                            *)
Rescheduled(r, due, rule, anchor) == [NewVersion(r) EXCEPT !.due = due, !.rule = rule, !.anchor = anchor]

LEMMA ScheduledRow ==
  ASSUME NEW r \in FitRows, NEW due \in Days \cup {NoDay}, NEW rule \in Rules \cup {NoRule},
         NEW anchor \in Days \cup {NoDay}, DueFits(rule, due, anchor)
  PROVE  /\ Rescheduled(r, due, rule, anchor) \in FitRows
         /\ Rescheduled(r, due, rule, anchor).version > 1
         /\ Rescheduled(r, due, rule, anchor).deleted = r.deleted
         /\ Rescheduled(r, due, rule, anchor).status = r.status
         /\ Rescheduled(r, due, rule, anchor).due = due
         /\ Rescheduled(r, due, rule, anchor).rule = rule
<1>1. NewVersion(r) = [status |-> r.status, due |-> r.due, rule |-> r.rule, anchor |-> r.anchor, source |-> r.source,
                       parent |-> r.parent, version |-> r.version + 1, deleted |-> r.deleted]
  <2>1. r = [status |-> r.status, due |-> r.due, rule |-> r.rule, anchor |-> r.anchor, source |-> r.source,
             parent |-> r.parent, version |-> r.version, deleted |-> r.deleted]
    BY DEF FitRows, TaskRows
  <2> QED
    BY <2>1 DEF NewVersion
<1> DEFINE next == r.version + 1
<1>2. ASSUME NEW d, NEW u, NEW a
      PROVE  Rescheduled(r, d, u, a) =
               [status |-> r.status, due |-> d, rule |-> u, anchor |-> a, source |-> r.source,
                parent |-> r.parent, version |-> next, deleted |-> r.deleted]
  <2>1. NewVersion(r) = [status |-> r.status, due |-> r.due, rule |-> r.rule, anchor |-> r.anchor, source |-> r.source,
                         parent |-> r.parent, version |-> next, deleted |-> r.deleted]
    BY <1>1
  <2> DEFINE x == NewVersion(r)
             y == [x EXCEPT !.due = d]
             z == [y EXCEPT !.rule = u]
  <2> HIDE DEF next, x
  <2>2. y = [status |-> r.status, due |-> d, rule |-> r.rule, anchor |-> r.anchor, source |-> r.source,
             parent |-> r.parent, version |-> next, deleted |-> r.deleted]
    BY <2>1 DEF x
  <2> HIDE DEF y
  <2>3. z = [status |-> r.status, due |-> d, rule |-> u, anchor |-> r.anchor, source |-> r.source,
             parent |-> r.parent, version |-> next, deleted |-> r.deleted]
    BY <2>2
  <2> HIDE DEF z
  <2>4. [z EXCEPT !.anchor = a] =
          [status |-> r.status, due |-> d, rule |-> u, anchor |-> a, source |-> r.source,
           parent |-> r.parent, version |-> next, deleted |-> r.deleted]
    BY <2>3
  <2>5. Rescheduled(r, d, u, a) = [z EXCEPT !.anchor = a]
    BY DEF Rescheduled, x, y, z
  <2> QED
    BY <2>4, <2>5
<1>3. /\ r.version \in Nat \ {0} /\ r.version + 1 \in Nat \ {0} /\ r.version + 1 > 1
      /\ r.status \in {"open", "completed"} /\ r.source \in TaskIds \cup {NoId} /\ r.parent \in TaskIds \cup {NoId}
      /\ r.deleted \in BOOLEAN
  BY DEF FitRows, TaskRows
<1> DEFINE row == Rescheduled(r, due, rule, anchor)
<1>4. /\ row.due = due /\ row.rule = rule /\ row.anchor = anchor /\ row.version = r.version + 1
      /\ row.deleted = r.deleted /\ row.status = r.status
  BY <1>2
<1>5. row \in TaskRows
  BY <1>2, <1>3 DEF TaskRows
<1> HIDE DEF row
<1>6. row \in FitRows
  BY <1>4, <1>5 DEF FitRows
<1> QED
  BY <1>3, <1>4, <1>6 DEF row

LEMMA update_taskInv ==
  ASSUME TableInv, NEW id \in TaskIds, NEW due \in Days \cup {NoDay}, NEW rule \in Rules \cup {NoRule},
         NEW scheduled \in BOOLEAN, update_task(id, due, rule, scheduled)
  PROVE  /\ TableInv' /\ tasks'[id].due = due /\ tasks'[id].rule = rule
         /\ Exists(id) /\ Exists(id)' /\ tasks'[id].status = tasks[id].status
         /\ \A i \in TaskIds \ {id} : tasks'[i] = tasks[i]
<1> DEFINE r == tasks[id]
           anchor == anchor_after(id, due, rule, scheduled)
           row == Rescheduled(r, due, rule, anchor)
<1>1. /\ Alive(id) /\ ValidSchedule(due, rule) /\ tasks' = [tasks EXCEPT ![id] = row]
      /\ enqueue_task({id}) /\ touched' = touched \cup {id}
      /\ scheduled \/ (due = r.due /\ rule = r.rule)
  BY DEF update_task, TableInv, Rescheduled
<1>2. r \in FitRows /\ ~r.deleted
  BY <1>1, RowThere DEF Alive, TableInv
<1>3. /\ r.anchor \in Days \cup {NoDay} /\ DueFits(r.rule, r.due, r.anchor) /\ r.version \in Nat \ {0}
      /\ r.status \in {"open", "completed"} /\ r.source \in TaskIds \cup {NoId} /\ r.parent \in TaskIds \cup {NoId}
      /\ r.deleted = FALSE
  BY <1>2 DEF FitRows, TaskRows
<1>4. anchor \in Days \cup {NoDay} /\ DueFits(rule, due, anchor)
  <2>1. CASE ~scheduled
    <3>1. anchor = new_anchor(due, rule, r.anchor) /\ due = r.due /\ rule = r.rule
      BY <1>1, <2>1 DEF anchor_after
    <3> HIDE DEF anchor, r
    <3> QED
      BY <1>1, <1>3, <2>1, <3>1, Scheduled
  <2>2. CASE scheduled
    <3>1. anchor = new_anchor(due, rule, NoDay)
      BY <2>2 DEF anchor_after
    <3> HIDE DEF anchor, r
    <3>2. NoDay \in Days \cup {NoDay}
      OBVIOUS
    <3> QED
      BY <1>1, <3>1, <3>2, Scheduled
  <2> QED
    BY <2>1, <2>2
<1>6. row \in FitRows /\ row.version > 1 /\ ~row.deleted
      /\ row.status = r.status /\ row.due = due /\ row.rule = rule
  <2>1. PICK x, a : x = r /\ a = anchor
    OBVIOUS
  <2>2. x \in FitRows /\ a \in Days \cup {NoDay} /\ DueFits(rule, due, a) /\ ~x.deleted
    BY <1>2, <1>4, <2>1
  <2>3. /\ Rescheduled(x, due, rule, a) \in FitRows
        /\ Rescheduled(x, due, rule, a).version > 1
        /\ Rescheduled(x, due, rule, a).deleted = x.deleted
        /\ Rescheduled(x, due, rule, a).status = x.status
        /\ Rescheduled(x, due, rule, a).due = due
        /\ Rescheduled(x, due, rule, a).rule = rule
    BY <2>2, ScheduledRow
  <2>4. row = Rescheduled(x, due, rule, a)
    BY <2>1
  <2> HIDE DEF row, r
  <2> QED
    BY <2>1, <2>2, <2>3, <2>4
<1> HIDE DEF row
<1>7. /\ tasks' \in [TaskIds -> {NoTask} \cup FitRows] /\ tasks'[id] = row
      /\ \A i \in TaskIds \ {id} : tasks'[i] = tasks[i]
  BY <1>1, <1>6 DEF TableInv
<1>8. TableInv'
  BY <1>1, <1>6, <1>7, Written
<1>9. Exists(id) /\ Exists(id)'
  BY <1>1, <1>6, <1>7 DEF Alive, Exists, NoTask, FitRows, TaskRows
<1> QED
  BY <1>6, <1>7, <1>8, <1>9

LEMMA delete_taskInv ==
  ASSUME TableInv, NEW id \in TaskIds, delete_task(id)
  PROVE  /\ TableInv'
         /\ \A i \in TaskIds : tasks'[i] = tasks[i] \/ (Exists(i) /\ Exists(i)' /\ tasks'[i].status = tasks[i].status)
<1> DEFINE gone == {i \in TaskIds : Alive(i) /\ (i = id \/ tasks[i].parent = id)}
           row(i) == [NewVersion(tasks[i]) EXCEPT !.deleted = TRUE]
<1>1. /\ tasks' = [i \in TaskIds |-> IF i \in gone THEN row(i) ELSE tasks[i]]
      /\ enqueue_task(gone) /\ touched' = touched \ gone
  BY DEF delete_task
<1>2. \A i \in gone : tasks[i] \in FitRows
  BY RowThere DEF Alive, TableInv
<1>3. \A i \in gone : row(i) \in FitRows /\ row(i).status = tasks[i].status
  <2>1. ASSUME NEW r \in FitRows PROVE [NewVersion(r) EXCEPT !.deleted = TRUE].status = r.status
    BY DEF NewVersion, FitRows, TaskRows
  <2> QED
    BY <1>2, <2>1, LaterRow
<1>4. gone \in SUBSET TaskIds
  OBVIOUS
<1> HIDE DEF gone, row
<1>5. tasks' \in [TaskIds -> {NoTask} \cup FitRows]
  BY <1>1, <1>3 DEF TableInv
<1>6. /\ \A i \in gone : tasks'[i] \in FitRows
      /\ \A i \in TaskIds \ gone : tasks'[i] = tasks[i]
      /\ \A i \in gone : tasks'[i] = row(i)
  BY <1>1, <1>3, <1>4
<1>7. TableInv'
  BY <1>1, <1>4, <1>5, <1>6, Written
<1>8. ASSUME NEW i \in gone PROVE Exists(i) /\ Exists(i)' /\ tasks'[i].status = tasks[i].status
  BY <1>2, <1>3, <1>4, <1>6 DEF Exists, NoTask, FitRows, TaskRows
<1> QED
  BY <1>6, <1>7, <1>8

(* The tasks the user names, and the schedules tried.                      *)
LEMMA UserIds == \A b \in Bases : Base(b) \in TaskIds
<1>1. SUFFICES ASSUME NEW b \in Bases PROVE Base(b) \in TaskIds
  OBVIOUS
<1>2. <<>> \in [1 .. 0 -> Days] /\ 0 \in 0 .. MaxChain
  BY SeriesAssumption
<1> QED
  BY <1>2 DEF Base, TaskIds

-----------------------------------------------------------------------------
(* The path of a task is a sequence.                                        *)
LEMMA PathSeq ==
  ASSUME NEW p \in TaskIds
  PROVE  p.path \in Seq(Days) /\ p = [base |-> p.base, path |-> p.path]
<1>1. PICK n \in 0 .. MaxChain : p.path \in [1 .. n -> Days]
  BY DEF TaskIds
<1>2. n \in Nat
  BY SeriesAssumption
<1>3. p.path \in Seq(Days)
  BY <1>1, <1>2, SeqDef
<1> QED
  BY <1>3 DEF TaskIds

(* An instance follows the task it was generated from and what that one     *)
(* follows; and it was generated from one task only.                        *)
LEMMA FollowsSource ==
  ASSUME NEW p \in TaskIds, NEW d \in Days
  PROVE  /\ Follows(recurring_task_id(p, d), p)
         /\ \A s \in TaskIds : Follows(p, s) => Follows(recurring_task_id(p, d), s)
<1> DEFINE i == recurring_task_id(p, d)
<1>1. i.base = p.base /\ i.path = Append(p.path, d)
  BY DEF recurring_task_id, TaskIds
<1>2. PICK x : x = p.path
  OBVIOUS
<1>3. x \in Seq(Days)
  BY <1>2, PathSeq
<1>4. PICK y : y = Append(x, d)
  OBVIOUS
<1>5. y \in Seq(Days) /\ Len(y) = Len(x) + 1 /\ Len(x) \in Nat /\ \A k \in 1 .. Len(x) : y[k] = x[k]
  BY <1>3, <1>4, AppendProperties
<1>6. ASSUME NEW n \in 0 .. Len(x) PROVE SubSeq(y, 1, n) = SubSeq(x, 1, n)
  <2>1. \A k \in 1 .. n : x[k] \in Days /\ y[k] \in Days /\ y[k] = x[k]
    BY <1>3, <1>5
  <2>2. n \in Int /\ 1 \in Int
    BY <1>5
  <2>3. /\ SubSeq(y, 1, n) \in Seq(Days) /\ SubSeq(x, 1, n) \in Seq(Days)
        /\ Len(SubSeq(y, 1, n)) = (IF 1 <= n THEN n - 1 + 1 ELSE 0)
        /\ Len(SubSeq(x, 1, n)) = (IF 1 <= n THEN n - 1 + 1 ELSE 0)
        /\ \A k \in 1 .. n - 1 + 1 : SubSeq(y, 1, n)[k] = y[1 + k - 1] /\ SubSeq(x, 1, n)[k] = x[1 + k - 1]
    BY <2>1, <2>2, SubSeqProperties
  <2>4. Len(SubSeq(y, 1, n)) = n /\ Len(SubSeq(x, 1, n)) = n
    BY <2>2, <2>3, <1>5
  <2>5. \A k \in 1 .. n : SubSeq(y, 1, n)[k] = SubSeq(x, 1, n)[k]
    <3> SUFFICES ASSUME NEW k \in 1 .. n PROVE SubSeq(y, 1, n)[k] = SubSeq(x, 1, n)[k]
      OBVIOUS
    <3>1. n - 1 + 1 = n /\ 1 + k - 1 = k
      BY <2>2
    <3>2. SubSeq(y, 1, n)[k] = y[k] /\ SubSeq(x, 1, n)[k] = x[k]
      BY <2>3, <3>1
    <3> QED
      BY <2>1, <3>2
  <2> QED
    BY <2>3, <2>4, <2>5, SeqEqual
<1>7. SubSeq(x, 1, Len(x)) = x
  <2>1. \A k \in 1 .. Len(x) : x[k] \in Days
    BY <1>3
  <2>2. /\ SubSeq(x, 1, Len(x)) \in Seq(Days)
        /\ Len(SubSeq(x, 1, Len(x))) = (IF 1 <= Len(x) THEN Len(x) - 1 + 1 ELSE 0)
        /\ \A k \in 1 .. Len(x) - 1 + 1 : SubSeq(x, 1, Len(x))[k] = x[1 + k - 1]
    BY <1>5, <2>1, SubSeqProperties
  <2>3. Len(SubSeq(x, 1, Len(x))) = Len(x) /\ \A k \in 1 .. Len(x) : SubSeq(x, 1, Len(x))[k] = x[k]
    <3>1. Len(x) - 1 + 1 = Len(x) /\ \A k \in 1 .. Len(x) : 1 + k - 1 = k
      BY <1>5
    <3> QED
      BY <1>5, <2>2, <3>1
  <2> QED
    BY <1>3, <2>2, <2>3, SeqEqual
<1>8. Len(x) \in 0 .. Len(x) /\ Len(x) < Len(y)
  BY <1>5
<1>9. Follows(i, p)
  <2>1. SubSeq(y, 1, Len(x)) = x
    BY <1>6, <1>7, <1>8
  <2> HIDE DEF i
  <2> QED
    BY <1>1, <1>2, <1>4, <1>8, <2>1 DEF Follows
<1>10. ASSUME NEW s \in TaskIds, Follows(p, s) PROVE Follows(i, s)
  <2>1. s.base = p.base /\ Len(s.path) < Len(x) /\ s.path = SubSeq(x, 1, Len(s.path))
    BY <1>2, <1>10 DEF Follows
  <2>2. Len(s.path) \in 0 .. Len(x) /\ Len(s.path) < Len(y)
    <3>1. Len(s.path) \in Nat
      BY PathSeq
    <3> QED
      BY <1>5, <2>1, <3>1
  <2>3. s.path = SubSeq(y, 1, Len(s.path))
    BY <1>6, <2>1, <2>2
  <2> HIDE DEF i
  <2> QED
    BY <1>1, <1>2, <1>4, <2>1, <2>2, <2>3 DEF Follows
<1> QED
  BY <1>9, <1>10

LEMMA OneSource ==
  ASSUME NEW p \in TaskIds, NEW q \in TaskIds, NEW d \in Days, NEW e \in Days,
         recurring_task_id(p, d) = recurring_task_id(q, e)
  PROVE  p = q
<1>1. p.base = q.base /\ Append(p.path, d) = Append(q.path, e)
  BY DEF recurring_task_id, TaskIds
<1>2. PICK x, y : x = p.path /\ y = q.path
  OBVIOUS
<1>3. x \in Seq(Days) /\ y \in Seq(Days) /\ Append(x, d) = Append(y, e)
  BY <1>1, <1>2, PathSeq
<1>4. /\ Len(Append(x, d)) = Len(x) + 1 /\ Len(Append(y, e)) = Len(y) + 1
      /\ \A k \in 1 .. Len(x) : Append(x, d)[k] = x[k]
      /\ \A k \in 1 .. Len(y) : Append(y, e)[k] = y[k]
      /\ Len(x) \in Nat /\ Len(y) \in Nat
  BY <1>3, AppendProperties
<1>5. Len(x) = Len(y)
  BY <1>3, <1>4
<1>6. \A k \in 1 .. Len(x) : x[k] = y[k]
  BY <1>3, <1>4, <1>5
<1>7. x = y
  BY <1>3, <1>5, <1>6, SeqEqual
<1> QED
  BY <1>1, <1>2, <1>7, PathSeq

(* A step that generates nothing keeps the lineage: tasks stay, and one that *)
(* is no longer completed was reopened.                                      *)
LEMMA LineageKept ==
  ASSUME LineageInv, reopened' \in SUBSET TaskIds, reopened \subseteq reopened', rewritten' = rewritten,
         \A p \in TaskIds, d \in Days :
            recurring_task_id(p, d) \in TaskIds /\ Exists(recurring_task_id(p, d))' => Exists(recurring_task_id(p, d)),
         \A i \in TaskIds : Exists(i) =>
            Exists(i)' /\ (tasks[i].status = "completed" => tasks'[i].status = "completed" \/ i \in reopened')
  PROVE  LineageInv'
<1>1. \A i : FollowsReopened(i) => FollowsReopened(i)'
  BY DEF FollowsReopened
<1>2. ASSUME NEW p \in TaskIds, NEW d \in Days, recurring_task_id(p, d) \in TaskIds, Exists(recurring_task_id(p, d))'
      PROVE  Exists(p)' /\ (tasks'[p].status = "completed" \/ FollowsReopened(recurring_task_id(p, d))')
  <2>1. Exists(p) /\ (tasks[p].status = "completed" \/ FollowsReopened(recurring_task_id(p, d)))
    BY <1>2 DEF LineageInv
  <2>2. p \in reopened' => FollowsReopened(recurring_task_id(p, d))'
    BY FollowsSource DEF FollowsReopened
  <2> QED
    BY <1>1, <2>1, <2>2
<1>3. \A i \in rewritten' : FollowsReopened(i)'
  BY <1>1 DEF LineageInv
<1>4. rewritten' \in SUBSET TaskIds
  BY DEF LineageInv
<1> QED
  BY <1>2, <1>3, <1>4 DEF LineageInv

LEMMA createLineage ==
  ASSUME TableInv, LineageInv, NEW b \in Bases, NEW due \in Days \cup {NoDay}, NEW rule \in Rules \cup {NoRule},
         NEW parent \in TaskIds \cup {NoId}, create_task(Base(b), due, rule, parent)
  PROVE  LineageInv'
<1>1. Base(b) \in TaskIds
  BY UserIds
<1>2. \A i \in TaskIds \ {Base(b)} : tasks'[i] = tasks[i]
  BY <1>1, create_taskInv
<1>3. ~Exists(Base(b)) /\ UNCHANGED <<rewritten, reopened>>
  BY DEF create_task, history
<1>4. ASSUME NEW p \in TaskIds, NEW d \in Days PROVE recurring_task_id(p, d) # Base(b)
  <2>1. recurring_task_id(p, d).path = Append(p.path, d) /\ Base(b).path = <<>>
    BY DEF recurring_task_id, TaskIds, Base
  <2>2. Append(p.path, d) # <<>>
    BY PathSeq, AppendProperties
  <2> QED
    BY <2>1, <2>2
<1> QED
  BY <1>1, <1>2, <1>3, <1>4, LineageKept DEF LineageInv, Exists

LEMMA completeLineage ==
  ASSUME TableInv, LineageInv, NEW id \in TaskIds, complete(id)
  PROVE  LineageInv'
<1>1. /\ Open(id) /\ Alive(id)' /\ tasks'[id].status = "completed" /\ reopened' = reopened
      /\ Exists(id) /\ Exists(id)'
  BY completeInv DEF complete, Open, Alive
<1>2. CASE rewritten' = rewritten /\ \A i \in TaskIds \ {id} : tasks'[i] = tasks[i]
  <2>1. rewritten' = rewritten
    BY <1>2
  <2>2. \A i \in TaskIds : Exists(i)' => Exists(i)
    BY <1>1, <1>2 DEF Exists
  <2>3. \A i \in TaskIds : Exists(i) =>
            Exists(i)' /\ (tasks[i].status = "completed" => tasks'[i].status = "completed")
    BY <1>1, <1>2 DEF Exists
  <2> QED
    BY <1>1, <2>1, <2>2, <2>3, LineageKept DEF LineageInv
<1>3. ASSUME NEW due \in Days, NEW next \in TaskIds, next = recurring_task_id(id, due),
             tasks'[next] \in FitRows,
             \A i \in TaskIds \ {id, next} : tasks'[i] = tasks[i],
             rewritten' = rewritten \/ (rewritten' = rewritten \cup {next} /\ next \in touched)
      PROVE  LineageInv'
  <2>f. \A i : FollowsReopened(i)' <=> FollowsReopened(i)
    BY <1>1 DEF FollowsReopened
  <2>1. Exists(next) => FollowsReopened(next)
    <3>1. tasks[id].status # "completed"
      BY <1>1 DEF Open
    <3> QED
      BY <1>3, <3>1 DEF LineageInv
  <2>2. Exists(next)'
    BY <1>3 DEF Exists, NoTask, FitRows, TaskRows
  <2>3. \A i \in rewritten' : FollowsReopened(i)'
    <3>1. next \in touched => Exists(next)
      BY RowThere DEF TableInv
    <3> QED
      BY <1>3, <2>1, <2>f, <3>1 DEF LineageInv
  <2>4. ASSUME NEW p \in TaskIds, NEW d \in Days, NEW i \in TaskIds, i = recurring_task_id(p, d), Exists(i)'
        PROVE  Exists(p)' /\ (tasks'[p].status = "completed" \/ FollowsReopened(i)')
    <3>1. CASE p = id
      BY <1>1, <3>1
    <3>2. CASE p # id
      <4>1. i # next
        BY <1>3, <2>4, <3>2, OneSource
      <4>2. Exists(i)
        BY <1>1, <1>3, <2>4, <4>1 DEF Exists
      <4>3. Exists(p) /\ (tasks[p].status = "completed" \/ FollowsReopened(i))
        BY <2>4, <4>2 DEF LineageInv
      <4>4. CASE p # next
        BY <1>3, <2>f, <3>2, <4>3, <4>4 DEF Exists
      <4>5. CASE p = next
        <5>1. FollowsReopened(p)
          BY <2>1, <4>3, <4>5
        <5>2. FollowsReopened(i)
          BY <2>4, <5>1, FollowsSource DEF FollowsReopened, LineageInv
        <5> QED
          BY <2>2, <2>f, <4>5, <5>2
      <4> QED
        BY <4>4, <4>5
    <3> QED
      BY <3>1, <3>2
  <2>5. rewritten' \in SUBSET TaskIds /\ reopened' \in SUBSET TaskIds
    BY <1>1, <1>3 DEF LineageInv
  <2> QED
    BY <2>3, <2>4, <2>5 DEF LineageInv
<1> QED
  BY <1>2, <1>3, completeInv

LEMMA reopenLineage ==
  ASSUME TableInv, LineageInv, NEW id \in TaskIds, reopen(id)
  PROVE  LineageInv'
<1>1. /\ Alive(id) /\ Alive(id)' /\ reopened' = reopened \cup {id} /\ rewritten' = rewritten
      /\ \A i \in TaskIds \ {id} : tasks'[i] = tasks[i] \/ (Exists(i) /\ Exists(i)' /\ tasks'[i].status = tasks[i].status)
  BY reopenInv DEF reopen
<1>2. \A i \in TaskIds : Exists(i)' <=> Exists(i)
  BY <1>1 DEF Alive, Exists
<1>3. \A i \in TaskIds : tasks[i].status = "completed" => tasks'[i].status = "completed" \/ i \in reopened'
  BY <1>1
<1>4. reopened' \in SUBSET TaskIds /\ reopened \subseteq reopened'
  BY <1>1 DEF LineageInv
<1> QED
  BY <1>1, <1>2, <1>3, <1>4, LineageKept

\* Tasks whose status nobody changes.
LEMMA SameStatus ==
  ASSUME LineageInv, UNCHANGED <<rewritten, reopened>>,
         \A i \in TaskIds : tasks'[i] = tasks[i] \/ (Exists(i) /\ Exists(i)' /\ tasks'[i].status = tasks[i].status)
  PROVE  LineageInv'
<1>1. \A i \in TaskIds : (Exists(i)' <=> Exists(i))
  BY DEF Exists
<1>2. \A i \in TaskIds : tasks[i].status = "completed" => tasks'[i].status = "completed"
  OBVIOUS
<1>3. reopened' \in SUBSET TaskIds /\ reopened \subseteq reopened'
  BY DEF LineageInv
<1> QED
  BY <1>1, <1>2, <1>3, LineageKept

-----------------------------------------------------------------------------
(* What the repository answers: the task is as it was asked for.            *)
LEMMA AnswerHolds ==
  ASSUME TableInv, NEW id \in TaskIds, NEW completed \in BOOLEAN, complete_task(id, completed)
  PROVE  AsRequested(id, completed)'
<1>1. CASE AsRequested(id, completed) /\ UNCHANGED <<tasks, queued, history>>
  BY <1>1 DEF AsRequested, Alive, Exists
<1>2. CASE completed /\ complete(id)
  <2>1. Alive(id)' /\ tasks'[id].status = "completed"
    BY <1>2, completeInv
  <2> QED
    BY <1>2, <2>1 DEF AsRequested
<1>3. CASE ~completed /\ reopen(id)
  <2>1. Alive(id)' /\ tasks'[id].status = "open"
    BY <1>3, reopenInv
  <2> QED
    BY <1>3, <2>1 DEF AsRequested
<1> QED
  BY <1>1, <1>2, <1>3 DEF complete_task

(* A step of a call keeps its record true.                                  *)
LEMMA ToolCall ==
  ASSUME TableInv, CallInv, ToolNext
  PROVE  CallInv'
<1>s. \A s \in Schedules : s.due \in Days \cup {NoDay} /\ s.rule \in Rules \cup {NoRule}
  BY DEF Schedules
<1>e. Editable \subseteq TaskIds
  BY DEF Editable
<1>1. CASE update_running
  BY <1>1 DEF update_running, CallInv, CallTruthful, IdleCall
<1>2. CASE record_failure
  BY <1>2 DEF record_failure, CallInv, CallTruthful
<1>3. CASE update_complete
  BY <1>3 DEF update_complete, CallInv, CallTruthful
<1>4. CASE next_call
  BY <1>4 DEF next_call, CallInv, CallTruthful, IdleCall
<1>5. ASSUME NEW held, call.pc = "running", Answered(held), held = TRUE PROVE CallInv'
  <2>1. PICK wrote \in BOOLEAN : wrote = (tasks' # tasks)
    OBVIOUS
  <2>2. call' = [call EXCEPT !.pc = "answered", !.wrote = wrote, !.held = TRUE]
    BY <1>5, <2>1 DEF Answered
  <2> QED
    BY <1>5, <2>2 DEF CallInv, CallTruthful
<1>6. ASSUME NEW b \in Bases, NEW s \in Schedules, task_create(Base(b), s.due, s.rule) PROVE CallInv'
  <2>1. /\ call.pc = "running" /\ create_task(Base(b), s.due, s.rule, NoId)
        /\ Answered(Open(Base(b))')
    BY <1>6 DEF task_create
  <2>2. Base(b) \in TaskIds
    BY UserIds
  <2>3. Open(Base(b))'
    BY <1>s, <2>1, <2>2, create_taskInv
  <2>4. Open(Base(b))' = TRUE
    BY <2>3
  <2> HIDE DEF Open
  <2> QED
    BY <2>1, <2>4, <1>5
<1>7. ASSUME NEW i \in Editable, NEW s \in Schedules, NEW scheduled \in BOOLEAN,
             task_update(i, s.due, s.rule, scheduled)
      PROVE  CallInv'
  <2>1. /\ call.pc = "running" /\ update_task(i, s.due, s.rule, scheduled)
        /\ Answered(tasks'[i].due = s.due /\ tasks'[i].rule = s.rule)
    BY <1>7 DEF task_update
  <2>2. tasks'[i].due = s.due /\ tasks'[i].rule = s.rule
    BY <1>s, <1>e, <2>1, update_taskInv
  <2>3. (tasks'[i].due = s.due /\ tasks'[i].rule = s.rule) = TRUE
    BY <2>2
  <2> QED
    BY <2>1, <2>3, <1>5
<1>8. ASSUME NEW i \in Editable, NEW completed \in BOOLEAN, task_complete(i, completed) PROVE CallInv'
  <2>1. /\ call.pc = "running" /\ complete_task(i, completed)
        /\ Answered(AsRequested(i, completed)')
    BY <1>8 DEF task_complete
  <2>2. AsRequested(i, completed)'
    BY <1>e, <2>1, AnswerHolds
  <2>3. AsRequested(i, completed)' = TRUE
    BY <2>2 DEF AsRequested
  <2> QED
    BY <2>1, <2>3, <1>5
<1> QED
  BY <1>1, <1>2, <1>3, <1>4, <1>6, <1>7, <1>8 DEF ToolNext

LEMMA SeriesInvariant == SeriesSpec => []SeriesInv
<1>1. SeriesInit => SeriesInv
  <2> SUFFICES ASSUME SeriesInit PROVE SeriesInv
    OBVIOUS
  <2>1. TableInv
    BY DEF SeriesInit, TableInv, EveryChangeQueued, Exists
  <2>2. CallInv
    BY DEF SeriesInit, IdleCall, CallInv, CallTruthful
  <2>3. LineageInv
    BY DEF SeriesInit, LineageInv, Exists
  <2> QED
    BY <2>1, <2>2, <2>3 DEF SeriesInv
<1>2. SeriesInv /\ [SeriesNext]_seriesVars => SeriesInv'
  <2> SUFFICES ASSUME SeriesInv, [SeriesNext]_seriesVars PROVE SeriesInv'
    OBVIOUS
  <2>t. TableInv /\ LineageInv /\ CallInv
    BY DEF SeriesInv
  <2>u. ASSUME UNCHANGED <<tasks, queued, history>> PROVE TableInv' /\ LineageInv'
    <3>1. UNCHANGED <<tasks, queued, touched, rewritten, reopened>>
      BY <2>u DEF history
    <3> QED
      BY <2>t, <3>1 DEF TableInv, EveryChangeQueued, Exists, LineageInv, FollowsReopened
  <2>c. ASSUME UNCHANGED call PROVE CallInv'
    BY <2>t, <2>c DEF CallInv, CallTruthful
  <2>s. \A s \in Schedules : s.due \in Days \cup {NoDay} /\ s.rule \in Rules \cup {NoRule}
    BY DEF Schedules
  <2>e. Editable \subseteq TaskIds
    BY DEF Editable
  <2>1. ASSUME NEW b \in Bases, NEW s \in Schedules, NEW p \in {NoId} \cup {Base(c) : c \in Bases},
               create_task(Base(b), s.due, s.rule, p)
        PROVE  TableInv' /\ LineageInv'
    <3>1. Base(b) \in TaskIds /\ p \in TaskIds \cup {NoId}
      BY UserIds
    <3>2. TableInv'
      BY <2>1, <2>s, <2>t, <3>1, create_taskInv
    <3>3. LineageInv'
      BY <2>1, <2>s, <2>t, <3>1, createLineage
    <3> QED
      BY <3>2, <3>3
  <2>2. ASSUME NEW i \in Editable, NEW completed \in BOOLEAN, complete_task(i, completed)
        PROVE  TableInv' /\ LineageInv'
    <3>1. \/ UNCHANGED <<tasks, queued, history>> \/ complete(i) \/ reopen(i)
      BY <2>2 DEF complete_task
    <3>2. CASE complete(i)
      BY <3>2, <2>e, <2>t, completeInv, completeLineage
    <3>3. CASE reopen(i)
      BY <3>3, <2>e, <2>t, reopenInv, reopenLineage
    <3> QED
      BY <2>u, <3>1, <3>2, <3>3
  <2>3. ASSUME NEW i \in Editable, NEW s \in Schedules, NEW scheduled \in BOOLEAN,
               update_task(i, s.due, s.rule, scheduled)
        PROVE  TableInv' /\ LineageInv'
    <3>1. /\ TableInv' /\ Exists(i) /\ Exists(i)' /\ tasks'[i].status = tasks[i].status
          /\ \A j \in TaskIds \ {i} : tasks'[j] = tasks[j]
      BY <2>3, <2>e, <2>s, <2>t, update_taskInv
    <3>2. UNCHANGED <<rewritten, reopened>>
      BY <2>3 DEF update_task
    <3>3. LineageInv'
      BY <2>t, <3>1, <3>2, SameStatus
    <3> QED
      BY <3>1, <3>3
  <2>4. ASSUME NEW i \in Editable, delete_task(i) PROVE TableInv' /\ LineageInv'
    <3>1. /\ TableInv'
          /\ \A j \in TaskIds : tasks'[j] = tasks[j] \/ (Exists(j) /\ Exists(j)' /\ tasks'[j].status = tasks[j].status)
      BY <2>4, <2>e, <2>t, delete_taskInv
    <3>2. UNCHANGED <<rewritten, reopened>>
      BY <2>4 DEF delete_task
    <3>3. LineageInv'
      BY <2>t, <3>1, <3>2, SameStatus
    <3> QED
      BY <3>1, <3>3
  <2>5. CASE UNCHANGED seriesVars
    BY <2>5, <2>c, <2>u DEF seriesVars, SeriesInv
  <2>6. CASE UserNext /\ UNCHANGED call
    BY <2>1, <2>2, <2>3, <2>4, <2>6, <2>c DEF UserNext, SeriesInv
  <2>7. CASE ToolNext
    <3>1. TableInv' /\ LineageInv'
      <4>1. CASE update_running \/ record_failure \/ update_complete \/ next_call
        BY <2>u, <4>1 DEF update_running, record_failure, update_complete, next_call
      <4>2. CASE \E b \in Bases, s \in Schedules : create_task(Base(b), s.due, s.rule, NoId)
        BY <2>1, <4>2
      <4>3. CASE \E i \in Editable : \E s \in Schedules, scheduled \in BOOLEAN :
                    update_task(i, s.due, s.rule, scheduled)
        BY <2>3, <4>3
      <4>4. CASE \E i \in Editable : \E completed \in BOOLEAN : complete_task(i, completed)
        BY <2>2, <4>4
      <4> QED
        BY <2>7, <4>1, <4>2, <4>3, <4>4 DEF ToolNext, task_create, task_update, task_complete
    <3> QED
      BY <2>7, <2>t, <3>1, ToolCall DEF SeriesInv
  <2> QED
    BY <2>5, <2>6, <2>7 DEF SeriesNext
<1> QED
  BY <1>1, <1>2, PTL DEF SeriesSpec

(* Recurring tasks are due on a day of their rule, every change of a task  *)
(* is enqueued, an instance the user has changed is generated anew only    *)
(* where a task it follows was reopened, and the record of a tool call     *)
(* tells what is so, whatever the rules and however many tasks, instances  *)
(* and changes: complete_task, reopen, update_task, task_complete.         *)
THEOREM TasksCorrect == SeriesSpec => []TasksSafe
<1>1. SeriesInv => TasksSafe
  <2> SUFFICES ASSUME SeriesInv PROVE TasksSafe
    OBVIOUS
  <2>1. \A i \in TaskIds : Exists(i) => tasks[i] \in FitRows
    BY RowThere DEF SeriesInv, TableInv
  <2>2. SeriesTypeOK
    BY <2>1 DEF SeriesTypeOK, SeriesInv, TableInv, LineageInv, FitRows, TaskRows
  <2>3. DueOnRule
    BY <2>1 DEF DueOnRule, FitRows, DueFits
  <2>4. EditedInstancesKept
    <3>1. \A i \in touched : i \in TaskIds /\ tasks[i] \in FitRows /\ ~tasks[i].deleted
      BY DEF SeriesInv, TableInv
    <3> QED
      BY <3>1, RowThere DEF EditedInstancesKept, Alive, SeriesInv, TableInv, LineageInv, FollowsReopened
  <2>5. CallTruthful
    BY DEF SeriesInv, CallInv, CallTruthful
  <2> QED
    BY <2>2, <2>3, <2>4, <2>5 DEF TasksSafe, SeriesInv, TableInv
<1> QED
  BY <1>1, SeriesInvariant, PTL

-----------------------------------------------------------------------------
(***************************************************************************)
(* Calendar: the inductive invariant.                                      *)
(***************************************************************************)
Masters == [start : Instants, len : Lengths, every : Intervals, live : BOOLEAN, version : Nat]
Exceptions == [Instants -> [state : {"none", "moved", "cancelled", "deleted"},
                            by : Replacements \cup {"none"}, version : Nat]]
Events == [Replacements -> [state : {"none", "live", "deleted"}, at : Nat, len : Nat, version : Nat]]

\* Every variable has its type.
EventTypes ==
  /\ master \in Masters /\ exceptions \in Exceptions /\ replaced \in Events
  /\ synced \in [event : Nat, exceptions : [Instants -> Nat], replaced : [Replacements -> Nat]]
  /\ strays \subseteq Instants

\* An exception that moves its occurrence has a live replacement, any other
\* has none or left it behind deleted; exceptions share no replacement, and
\* every live one belongs to an exception.
Paired(x, p) ==
  /\ \A o \in Instants : x[o].state = "moved" => x[o].by # "none" /\ p[x[o].by].state = "live"
  /\ \A o \in Instants : x[o].state # "moved" /\ x[o].by # "none" => p[x[o].by].state = "deleted"
  /\ \A o, q \in Instants : x[o].by = x[q].by /\ x[o].by # "none" => o = q
  /\ \A r \in Replacements : p[r].state = "live" => \E o \in Instants : x[o].state = "moved" /\ x[o].by = r

\* An exception in force is one of an occurrence, but for those that another
\* device's version of the event has left behind.
Placed ==
  /\ \A o \in Instants : LiveException(o) => o \in OccurrencesOf(master) \/ o \in strays
  /\ \A o \in strays : o \notin OccurrencesOf(master)

EventInv == EventTypes /\ Paired(exceptions, replaced) /\ Placed /\ CalendarQueued

-----------------------------------------------------------------------------
(* The rows of an event, of an exception and of a replacement one version  *)
(* later.                                                                  *)
LEMMA Rows ==
  ASSUME EventTypes
  PROVE  /\ \A o \in Instants :
               /\ exceptions[o].state \in {"none", "moved", "cancelled", "deleted"}
               /\ exceptions[o].by \in Replacements \cup {"none"} /\ exceptions[o].version \in Nat
               /\ DropException(exceptions[o]) = [state |-> "deleted", by |-> exceptions[o].by,
                                                  version |-> exceptions[o].version + 1]
         /\ \A r \in Replacements :
               /\ replaced[r].state \in {"none", "live", "deleted"} /\ replaced[r].version \in Nat
               /\ replaced[r].at \in Nat /\ replaced[r].len \in Nat
               /\ replaced[r].state = "live" =>
                    DropEvent(replaced[r]) = [state |-> "deleted", at |-> replaced[r].at,
                                              len |-> replaced[r].len, version |-> replaced[r].version + 1]
               /\ replaced[r].state # "live" => DropEvent(replaced[r]) = replaced[r]
<1>1. \A o \in Instants :
        exceptions[o] \in [state : {"none", "moved", "cancelled", "deleted"},
                           by : Replacements \cup {"none"}, version : Nat]
  BY DEF EventTypes, Exceptions
<1>2. \A r \in Replacements :
        replaced[r] \in [state : {"none", "live", "deleted"}, at : Nat, len : Nat, version : Nat]
  BY DEF EventTypes, Events
<1>3. ASSUME NEW x \in [state : {"none", "moved", "cancelled", "deleted"},
                        by : Replacements \cup {"none"}, version : Nat]
      PROVE  DropException(x) = [state |-> "deleted", by |-> x.by, version |-> x.version + 1]
  <2>1. x = [state |-> x.state, by |-> x.by, version |-> x.version]
    OBVIOUS
  <2>2. Bumped(x) = [state |-> x.state, by |-> x.by, version |-> x.version + 1]
    BY <2>1 DEF Bumped
  <2> QED
    BY <2>2 DEF DropException
<1>4. ASSUME NEW x \in [state : {"none", "live", "deleted"}, at : Nat, len : Nat, version : Nat]
      PROVE  /\ x.state = "live" =>
                  DropEvent(x) = [state |-> "deleted", at |-> x.at, len |-> x.len, version |-> x.version + 1]
             /\ x.state # "live" => DropEvent(x) = x
  BY DEF DropEvent, Bumped
<1> QED
  BY <1>1, <1>2, <1>3, <1>4

(* Dropping the replacements of exceptions that are deleted, cancelled or  *)
(* without one.                                                            *)
LEMMA Dropped ==
  ASSUME EventTypes, NEW S \in SUBSET Replacements
  PROVE  LET p == [r \in Replacements |-> IF r \in S THEN DropEvent(replaced[r]) ELSE replaced[r]]
         IN /\ p \in Events
            /\ \A r \in Replacements :
                 /\ r \in S => p[r].state = IF replaced[r].state = "live" THEN "deleted" ELSE replaced[r].state
                 /\ r \notin S \/ replaced[r].state # "live" => p[r] = replaced[r]
<1> DEFINE p == [r \in Replacements |-> IF r \in S THEN DropEvent(replaced[r]) ELSE replaced[r]]
<1>1. ASSUME NEW r \in Replacements
      PROVE  /\ p[r] \in [state : {"none", "live", "deleted"}, at : Nat, len : Nat, version : Nat]
             /\ r \in S => p[r].state = IF replaced[r].state = "live" THEN "deleted" ELSE replaced[r].state
             /\ r \notin S \/ replaced[r].state # "live" => p[r] = replaced[r]
  <2>1. replaced[r] \in [state : {"none", "live", "deleted"}, at : Nat, len : Nat, version : Nat]
    BY DEF EventTypes, Events
  <2>2. p[r] = IF r \in S THEN DropEvent(replaced[r]) ELSE replaced[r]
    OBVIOUS
  <2>3. CASE r \in S /\ replaced[r].state = "live"
    <3>1. p[r] = [state |-> "deleted", at |-> replaced[r].at, len |-> replaced[r].len,
                  version |-> replaced[r].version + 1]
      BY <2>2, <2>3, Rows
    <3> QED
      BY <2>1, <2>3, <3>1
  <2>4. CASE r \notin S \/ replaced[r].state # "live"
    <3>1. p[r] = replaced[r]
      BY <2>2, <2>4, Rows
    <3> QED
      BY <2>1, <2>4, <3>1
  <2> QED
    BY <2>3, <2>4
<1>2. p \in Events
  BY <1>1 DEF Events
<1> QED
  BY <1>1, <1>2

(* All exceptions are deleted, with their replacements.                    *)
LEMMA ClearedEvent ==
  ASSUME EventInv, clear_exceptions
  PROVE  /\ exceptions' \in Exceptions /\ replaced' \in Events /\ Paired(exceptions', replaced')
         /\ \A o \in Instants : exceptions'[o].state \notin {"moved", "cancelled"}
         /\ \A o \in Instants \ Cleared : exceptions'[o] = exceptions[o]
         /\ \A r \in Replacements \ Owned(Cleared) : replaced'[r] = replaced[r]
         /\ strays' = {} /\ Placed'
<1> DEFINE x == exceptions'
           p == replaced'
<1>1. ASSUME NEW o \in Instants
      PROVE  /\ x[o] \in [state : {"none", "moved", "cancelled", "deleted"},
                          by : Replacements \cup {"none"}, version : Nat]
             /\ x[o].state = IF LiveException(o) THEN "deleted" ELSE exceptions[o].state
             /\ x[o].by = exceptions[o].by /\ (o \notin Cleared => x[o] = exceptions[o])
             /\ LiveException(o) <=> exceptions[o].state \in {"moved", "cancelled"}
  <2>1. x[o] = IF o \in Cleared THEN DropException(exceptions[o]) ELSE exceptions[o]
    BY DEF clear_exceptions
  <2>2. exceptions[o] \in [state : {"none", "moved", "cancelled", "deleted"},
                           by : Replacements \cup {"none"}, version : Nat]
    BY DEF EventInv, EventTypes, Exceptions
  <2>3. DropException(exceptions[o]) = [state |-> "deleted", by |-> exceptions[o].by,
                                        version |-> exceptions[o].version + 1]
    BY Rows DEF EventInv
  <2> QED
    BY <2>1, <2>2, <2>3 DEF Cleared, LiveException
<1>2. x \in Exceptions
  <2>1. x = [o \in Instants |-> x[o]]
    BY DEF clear_exceptions
  <2> QED
    BY <1>1, <2>1 DEF Exceptions
<1>3. Owned(Instants) \in SUBSET Replacements
  BY Rows DEF Owned, EventInv
<1>4. /\ p \in Events
      /\ \A r \in Replacements :
           /\ r \in Owned(Instants) => p[r].state = IF replaced[r].state = "live" THEN "deleted" ELSE replaced[r].state
           /\ r \notin Owned(Instants) \/ replaced[r].state # "live" => p[r] = replaced[r]
  BY <1>3, Dropped DEF EventInv, clear_exceptions
<1>5. \A o \in Instants : exceptions[o].by # "none" =>
         exceptions[o].by \in Replacements /\ exceptions[o].by \in Owned(Instants) /\ p[exceptions[o].by].state = "deleted"
  <2> SUFFICES ASSUME NEW o \in Instants, exceptions[o].by # "none"
               PROVE  exceptions[o].by \in Replacements /\ exceptions[o].by \in Owned(Instants)
                        /\ p[exceptions[o].by].state = "deleted"
    OBVIOUS
  <2>1. exceptions[o].by \in Replacements /\ exceptions[o].by \in Owned(Instants)
    BY Rows DEF EventInv, Owned
  <2>2. replaced[exceptions[o].by].state \in {"live", "deleted"}
    BY DEF EventInv, Paired
  <2> QED
    BY <1>4, <2>1, <2>2
<1>6. \A r \in Replacements : p[r].state # "live"
  <2> SUFFICES ASSUME NEW r \in Replacements, p[r].state = "live" PROVE FALSE
    OBVIOUS
  <2>1. replaced[r].state = "live" /\ r \notin Owned(Instants)
    BY <1>4
  <2>2. PICK o \in Instants : exceptions[o].state = "moved" /\ exceptions[o].by = r
    BY <2>1 DEF EventInv, Paired
  <2>3. r # "none"
    BY CalendarAssumption
  <2> QED
    BY <2>1, <2>2, <2>3, <1>5
<1>7. Paired(x, p)
  <2>1. \A o, q \in Instants : x[o].by = x[q].by /\ x[o].by # "none" => o = q
    BY <1>1 DEF EventInv, Paired
  <2>2. \A o \in Instants : x[o].state # "moved"
    BY <1>1
  <2>3. \A o \in Instants : x[o].by # "none" => p[x[o].by].state = "deleted"
    BY <1>1, <1>5
  <2> QED
    BY <2>1, <2>2, <2>3, <1>6 DEF Paired
<1>8. \A r \in Replacements \ Owned(Cleared) : p[r] = replaced[r]
  <2> SUFFICES ASSUME NEW r \in Replacements, r \notin Owned(Cleared), replaced[r].state = "live", r \in Owned(Instants)
               PROVE  FALSE
    BY <1>4
  <2>1. PICK o \in Instants : exceptions[o].state = "moved" /\ exceptions[o].by = r
    BY DEF EventInv, Paired
  <2> QED
    BY <2>1, CalendarAssumption DEF Owned, Cleared, LiveException
<1>9. strays' = {}
  BY DEF clear_exceptions
<1>10. Placed'
  BY <1>1, <1>9 DEF Placed, LiveException
<1> QED
  BY <1>1, <1>2, <1>4, <1>7, <1>8, <1>9, <1>10

(* What the transaction has changed is enqueued.                           *)
LEMMA Enqueued ==
  ASSUME EventInv, NEW event \in BOOLEAN, NEW occs, NEW reps, enqueue(event, occs, reps),
         master' \in Masters, exceptions' \in Exceptions, replaced' \in Events, strays' \subseteq Instants,
         ~event => master' = master,
         \A o \in Instants \ occs : exceptions'[o] = exceptions[o],
         \A r \in Replacements \ reps : replaced'[r] = replaced[r]
  PROVE  EventTypes' /\ CalendarQueued'
<1>1. /\ synced'.event = IF event THEN master'.version ELSE synced.event
      /\ synced'.exceptions = [o \in Instants |-> IF o \in occs THEN exceptions'[o].version ELSE synced.exceptions[o]]
      /\ synced'.replaced = [r \in Replacements |-> IF r \in reps THEN replaced'[r].version ELSE synced.replaced[r]]
      /\ synced' = [event |-> synced'.event, exceptions |-> synced'.exceptions, replaced |-> synced'.replaced]
  <2>1. \A o \in Instants : SyncSource.exceptions[o] = exceptions'[o].version
    BY DEF SyncSource
  <2>2. \A r \in Replacements : SyncSource.replaced[r] = replaced'[r].version
    BY DEF SyncSource
  <2>3. SyncSource.event = master'.version
    BY DEF SyncSource
  <2> QED
    BY <2>1, <2>2, <2>3 DEF enqueue
<1>2. CalendarQueued'
  <2>1. synced'.event = master'.version
    BY <1>1 DEF EventInv, CalendarQueued
  <2>2. \A o \in Instants : synced'.exceptions[o] = exceptions'[o].version
    BY <1>1 DEF EventInv, CalendarQueued
  <2>3. \A r \in Replacements : synced'.replaced[r] = replaced'[r].version
    BY <1>1 DEF EventInv, CalendarQueued
  <2> QED
    BY <2>1, <2>2, <2>3 DEF CalendarQueued
<1>3. synced' \in [event : Nat, exceptions : [Instants -> Nat], replaced : [Replacements -> Nat]]
  <2>1. synced'.event \in Nat
    BY <1>2 DEF CalendarQueued, Masters
  <2>2. synced'.exceptions \in [Instants -> Nat]
    BY <1>1, <1>2 DEF CalendarQueued, Exceptions
  <2>3. synced'.replaced \in [Replacements -> Nat]
    BY <1>1, <1>2 DEF CalendarQueued, Events
  <2> QED
    BY <1>1, <2>1, <2>2, <2>3
<1> QED
  BY <1>2, <1>3 DEF EventTypes

LEMMA update_eventInv ==
  ASSUME EventInv, NEW start \in Instants, NEW len \in Lengths, NEW every \in Intervals,
         update_event(start, len, every)
  PROVE  EventInv'
<1>1. /\ master' \in Masters /\ master'.start = start /\ master'.every = every
  <2>1. master \in Masters
    BY DEF EventInv, EventTypes
  <2>2. Bumped(master) \in Masters
    BY <2>1 DEF Bumped, Masters
  <2> QED
    BY <2>2 DEF update_event, Masters
<1>2. CASE schedule_changed(start, every)
  <2>1. clear_exceptions /\ enqueue(TRUE, Cleared, Owned(Cleared))
    BY <1>2 DEF update_event
  <2>2. Placed' /\ strays' \subseteq Instants
    BY <2>1, ClearedEvent
  <2>3. EventTypes' /\ CalendarQueued'
    BY <1>1, <2>1, <2>2, ClearedEvent, Enqueued
  <2> QED
    BY <2>1, <2>2, <2>3, ClearedEvent DEF EventInv
<1>3. CASE ~schedule_changed(start, every)
  <2>1. UNCHANGED <<exceptions, replaced, strays>> /\ enqueue(TRUE, {}, {})
    BY <1>3 DEF update_event
  <2>2. Placed'
    <3>1. OccurrencesOf(master') = OccurrencesOf(master)
      BY <1>1, <1>3 DEF schedule_changed, OccurrencesOf
    <3> QED
      BY <2>1, <3>1 DEF EventInv, Placed, LiveException
  <2>3. EventTypes' /\ CalendarQueued'
    BY <1>1, <2>1, Enqueued DEF EventInv, EventTypes
  <2> QED
    BY <2>1, <2>2, <2>3 DEF EventInv
<1> QED
  BY <1>2, <1>3

LEMMA delete_eventInv == EventInv /\ delete_event => EventInv'
<1> SUFFICES ASSUME EventInv, delete_event PROVE EventInv'
  OBVIOUS
<1>1. master' \in Masters
  <2>1. master \in Masters
    BY DEF EventInv, EventTypes
  <2>2. Bumped(master) \in Masters
    BY <2>1 DEF Bumped, Masters
  <2> QED
    BY <2>2 DEF delete_event, Masters
<1>2. clear_exceptions /\ enqueue(TRUE, Cleared, Owned(Cleared))
  BY DEF delete_event
<1>3. Placed' /\ strays' \subseteq Instants
  BY <1>2, ClearedEvent
<1>4. EventTypes' /\ CalendarQueued'
  BY <1>1, <1>2, <1>3, ClearedEvent, Enqueued
<1> QED
  BY <1>2, <1>3, <1>4, ClearedEvent DEF EventInv

(* Another device's version of the event: exceptions whose occurrence it   *)
(* does not have stay behind.                                              *)
LEMMA apply_remote_calendar_eventInv ==
  ASSUME EventInv, NEW start \in Instants, NEW len \in Lengths, NEW every \in Intervals,
         apply_remote_calendar_event(start, len, every)
  PROVE  EventInv'
<1>1. master' \in Masters
  <2>1. master \in Masters
    BY DEF EventInv, EventTypes
  <2>2. Bumped(master) \in Masters
    BY <2>1 DEF Bumped, Masters
  <2> QED
    BY <2>2 DEF apply_remote_calendar_event, Masters
<1>2. /\ UNCHANGED <<exceptions, replaced>> /\ strays' = {o \in Cleared : o \notin OccurrencesOf(master')}
      /\ synced' = [synced EXCEPT !.event = master'.version]
  BY DEF apply_remote_calendar_event
<1>3. Placed'
  BY <1>2 DEF Placed, LiveException, Cleared
<1>4. /\ synced' \in [event : Nat, exceptions : [Instants -> Nat], replaced : [Replacements -> Nat]]
      /\ synced'.event = master'.version
      /\ synced'.exceptions = synced.exceptions /\ synced'.replaced = synced.replaced
  <2>1. master'.version \in Nat
    BY <1>1 DEF Masters
  <2>2. synced \in [event : Nat, exceptions : [Instants -> Nat], replaced : [Replacements -> Nat]]
    BY DEF EventInv, EventTypes
  <2> HIDE DEF Masters
  <2> QED
    BY <1>2, <2>1, <2>2
<1>5. EventTypes'
  BY <1>1, <1>2, <1>4 DEF EventInv, EventTypes, Cleared
<1>6. CalendarQueued'
  BY <1>2, <1>4 DEF EventInv, CalendarQueued
<1> QED
  BY <1>2, <1>3, <1>5, <1>6 DEF EventInv

(* The exception of an occurrence is replaced by one without replacement,  *)
(* and its own replacement goes.                                           *)
LEMMA WithoutReplacement ==
  ASSUME EventInv, NEW o \in Instants, NEW S \in SUBSET Replacements,
         NEW new \in [state : {"none", "cancelled", "deleted"}, by : Replacements \cup {"none"}, version : Nat],
         new.by \in {"none", exceptions[o].by},
         S \subseteq {exceptions[o].by}, exceptions[o].by # "none" /\ LiveException(o) => exceptions[o].by \in S,
         exceptions' = [exceptions EXCEPT ![o] = new],
         replaced' = [r \in Replacements |-> IF r \in S THEN DropEvent(replaced[r]) ELSE replaced[r]]
  PROVE  /\ exceptions' \in Exceptions /\ replaced' \in Events /\ Paired(exceptions', replaced')
         /\ \A q \in Instants \ {o} : exceptions'[q] = exceptions[q]
         /\ \A r \in Replacements \ S : replaced'[r] = replaced[r]
<1>1. /\ exceptions' \in Exceptions
      /\ exceptions'[o] = new /\ \A q \in Instants \ {o} : exceptions'[q] = exceptions[q]
  BY DEF EventInv, EventTypes, Exceptions
<1>2. /\ replaced' \in Events
      /\ \A r \in Replacements :
           /\ r \in S => replaced'[r].state = IF replaced[r].state = "live" THEN "deleted" ELSE replaced[r].state
           /\ r \notin S \/ replaced[r].state # "live" => replaced'[r] = replaced[r]
  BY Dropped DEF EventInv
<1>3. /\ exceptions[o].by \in Replacements \cup {"none"}
      /\ exceptions[o].state \in {"none", "moved", "cancelled", "deleted"}
      /\ \A q \in Instants : exceptions[q].by \in Replacements \cup {"none"}
  BY Rows DEF EventInv
<1>p. Paired(exceptions, replaced)
  BY DEF EventInv
<1>4. exceptions[o].by # "none" => replaced'[exceptions[o].by].state = "deleted"
  <2>1. CASE exceptions[o].state = "moved"
    BY <1>2, <1>3, <1>p, <2>1 DEF Paired, LiveException
  <2>2. CASE exceptions[o].state # "moved"
    BY <1>2, <1>3, <1>p, <2>2 DEF Paired
  <2> QED
    BY <2>1, <2>2
<1>5. \A q \in Instants \ {o} : exceptions[q].by # "none" => exceptions[q].by \notin S /\
         replaced'[exceptions[q].by] = replaced[exceptions[q].by]
  BY <1>2, <1>3, <1>p DEF Paired
<1>6. \A q \in Instants : exceptions'[q].state = "moved" =>
         exceptions'[q].by # "none" /\ replaced'[exceptions'[q].by].state = "live"
  <2> SUFFICES ASSUME NEW q \in Instants, exceptions'[q].state = "moved"
               PROVE  exceptions'[q].by # "none" /\ replaced'[exceptions'[q].by].state = "live"
    OBVIOUS
  <2>1. q # o
    BY <1>1
  <2>2. exceptions'[q] = exceptions[q]
    BY <1>1, <2>1
  <2>3. exceptions[q].by # "none" /\ replaced[exceptions[q].by].state = "live"
    BY <1>p, <2>2 DEF Paired
  <2> QED
    BY <1>5, <2>1, <2>2, <2>3
<1>7. \A q \in Instants : exceptions'[q].state # "moved" /\ exceptions'[q].by # "none" =>
         replaced'[exceptions'[q].by].state = "deleted"
  BY <1>1, <1>4, <1>5, <1>p DEF Paired
<1>8. \A q, s \in Instants : exceptions'[q].by = exceptions'[s].by /\ exceptions'[q].by # "none" => q = s
  BY <1>1, <1>p DEF Paired
<1>9. \A r \in Replacements : replaced'[r].state = "live" =>
         \E q \in Instants : exceptions'[q].state = "moved" /\ exceptions'[q].by = r
  <2> SUFFICES ASSUME NEW r \in Replacements, replaced'[r].state = "live"
               PROVE  \E q \in Instants : exceptions'[q].state = "moved" /\ exceptions'[q].by = r
    OBVIOUS
  <2>1. replaced[r].state = "live"
    BY <1>2
  <2>2. PICK q \in Instants : exceptions[q].state = "moved" /\ exceptions[q].by = r
    BY <1>p, <2>1 DEF Paired
  <2>3. q # o
    BY <1>4, <2>2, CalendarAssumption
  <2> QED
    BY <1>1, <2>2, <2>3
<1> QED
  BY <1>1, <1>2, <1>6, <1>7, <1>8, <1>9 DEF Paired

LEMMA cancel_occurrenceInv == ASSUME EventInv, NEW o \in Instants, cancel_occurrence(o) PROVE EventInv'
<1> DEFINE new == [state |-> "cancelled", by |-> "none", version |-> exceptions[o].version + 1]
           S == IF LiveException(o) THEN Owned({o}) ELSE {}
<1>1. /\ exceptions' = [exceptions EXCEPT ![o] = new]
      /\ replaced' = [r \in Replacements |-> IF r \in S THEN DropEvent(replaced[r]) ELSE replaced[r]]
      /\ enqueue(FALSE, {o}, S) /\ master' = master /\ strays' = strays /\ o \in OccurrencesOf(master)
  BY DEF cancel_occurrence, Generated
<1>2. /\ new \in [state : {"none", "cancelled", "deleted"}, by : Replacements \cup {"none"}, version : Nat]
      /\ new.by = "none"
  <2>1. exceptions[o].version \in Nat
    BY Rows DEF EventInv
  <2>2. exceptions[o].version + 1 \in Nat
    BY <2>1
  <2> QED
    BY <2>2
<1>3. /\ S \in SUBSET Replacements /\ S \subseteq {exceptions[o].by}
      /\ exceptions[o].by # "none" /\ LiveException(o) => exceptions[o].by \in S
  BY Rows DEF EventInv, Owned
<1> HIDE DEF new, S
<1>4. /\ exceptions' \in Exceptions /\ replaced' \in Events /\ Paired(exceptions', replaced')
      /\ \A q \in Instants \ {o} : exceptions'[q] = exceptions[q]
      /\ \A r \in Replacements \ S : replaced'[r] = replaced[r]
  BY <1>1, <1>2, <1>3, WithoutReplacement
<1>5. EventTypes' /\ CalendarQueued'
  BY <1>1, <1>4, Enqueued DEF EventInv, EventTypes
<1>6. Placed'
  BY <1>1, <1>4 DEF EventInv, Placed, LiveException
<1> QED
  BY <1>4, <1>5, <1>6 DEF EventInv

LEMMA restore_occurrenceInv == ASSUME EventInv, NEW o \in Instants, restore_occurrence(o) PROVE EventInv'
<1> DEFINE new == IF LiveException(o) THEN DropException(exceptions[o]) ELSE exceptions[o]
           occs == IF LiveException(o) THEN {o} ELSE {}
<1>1. /\ exceptions' = [exceptions EXCEPT ![o] = new]
      /\ replaced' = [r \in Replacements |-> IF r \in Owned({o}) THEN DropEvent(replaced[r]) ELSE replaced[r]]
      /\ enqueue(FALSE, occs, Owned({o})) /\ master' = master /\ strays' = strays /\ o \in OccurrencesOf(master)
  BY DEF restore_occurrence, Generated
<1>2. /\ new \in [state : {"none", "cancelled", "deleted"}, by : Replacements \cup {"none"}, version : Nat]
      /\ new.by = exceptions[o].by /\ (~LiveException(o) => new = exceptions[o])
  <2>1. exceptions[o] \in [state : {"none", "moved", "cancelled", "deleted"},
                           by : Replacements \cup {"none"}, version : Nat]
    BY DEF EventInv, EventTypes, Exceptions
  <2>2. CASE LiveException(o)
    <3>1. new = [state |-> "deleted", by |-> exceptions[o].by, version |-> exceptions[o].version + 1]
      BY <2>2, Rows DEF EventInv
    <3> QED
      BY <2>1, <2>2, <3>1
  <2>3. CASE ~LiveException(o)
    <3>1. new = exceptions[o] /\ exceptions[o].state \in {"none", "deleted"}
      BY <2>1, <2>3 DEF LiveException
    <3>2. exceptions[o] = [state |-> exceptions[o].state, by |-> exceptions[o].by, version |-> exceptions[o].version]
      BY <2>1
    <3> QED
      BY <2>1, <2>3, <3>1, <3>2
  <2> QED
    BY <2>2, <2>3
<1>3. /\ Owned({o}) \in SUBSET Replacements /\ Owned({o}) \subseteq {exceptions[o].by}
      /\ exceptions[o].by # "none" /\ LiveException(o) => exceptions[o].by \in Owned({o})
  BY Rows DEF EventInv, Owned
<1>x. o \in occs \/ new = exceptions[o]
  BY <1>2
<1> HIDE DEF new, occs
<1>4. /\ exceptions' \in Exceptions /\ replaced' \in Events /\ Paired(exceptions', replaced')
      /\ \A q \in Instants \ {o} : exceptions'[q] = exceptions[q]
      /\ \A r \in Replacements \ Owned({o}) : replaced'[r] = replaced[r]
  BY <1>1, <1>2, <1>3, WithoutReplacement
<1>5. \A q \in Instants \ occs : exceptions'[q] = exceptions[q]
  BY <1>1, <1>4, <1>x DEF EventInv, EventTypes, Exceptions
<1>6. EventTypes' /\ CalendarQueued'
  <2>1. master' \in Masters /\ strays' \subseteq Instants
    BY <1>1 DEF EventInv, EventTypes
  <2> QED
    BY <1>1, <1>4, <1>5, <2>1, Enqueued
<1>7. Placed'
  BY <1>1, <1>4 DEF EventInv, Placed, LiveException
<1> QED
  BY <1>4, <1>6, <1>7 DEF EventInv

LEMMA update_occurrenceInv ==
  ASSUME EventInv, NEW o \in Instants, NEW new \in Replacements, NEW when \in Instants, NEW len \in Lengths,
         update_occurrence(o, new, when, len)
  PROVE  EventInv'
<1> DEFINE r == IF LiveException(o) /\ exceptions[o].by # "none" THEN exceptions[o].by ELSE new
           row == [state |-> "live", at |-> when, len |-> len, version |-> replaced[r].version + 1]
           x == [state |-> "moved", by |-> r, version |-> exceptions[o].version + 1]
<1>1. /\ replaced' = [replaced EXCEPT ![r] = row] /\ exceptions' = [exceptions EXCEPT ![o] = x]
      /\ master' = master /\ strays' = strays /\ enqueue(FALSE, {o}, {r}) /\ o \in OccurrencesOf(master)
      /\ r = new => replaced[new].state = "none"
  BY DEF update_occurrence, Generated
<1>2. /\ r \in Replacements /\ r # "none"
      /\ r = new \/ (r = exceptions[o].by /\ LiveException(o))
  BY Rows, CalendarAssumption DEF EventInv
<1>3. /\ row \in [state : {"none", "live", "deleted"}, at : Nat, len : Nat, version : Nat] /\ row.state = "live"
      /\ x \in [state : {"none", "moved", "cancelled", "deleted"}, by : Replacements \cup {"none"}, version : Nat]
      /\ x.state = "moved" /\ x.by = r
  <2> HIDE DEF r
  <2>1. replaced[r].version \in Nat /\ exceptions[o].version \in Nat
    BY <1>2, Rows DEF EventInv
  <2>2. replaced[r].version + 1 \in Nat /\ exceptions[o].version + 1 \in Nat
    BY <2>1
  <2>3. when \in Nat /\ len \in Nat
    BY CalendarAssumption
  <2> QED
    BY <1>2, <2>2, <2>3
<1> HIDE DEF r, row, x
<1>4. /\ replaced' \in Events /\ replaced'[r] = row
      /\ \A s \in Replacements \ {r} : replaced'[s] = replaced[s]
  BY <1>1, <1>2, <1>3 DEF EventInv, EventTypes, Events
<1>5. /\ exceptions' \in Exceptions /\ exceptions'[o] = x
      /\ \A q \in Instants \ {o} : exceptions'[q] = exceptions[q]
  BY <1>1, <1>3 DEF EventInv, EventTypes, Exceptions
<1>p. Paired(exceptions, replaced)
  BY DEF EventInv
\* No other exception names the replacement.
<1>6. \A q \in Instants \ {o} : exceptions[q].by # r
  <2> SUFFICES ASSUME NEW q \in Instants, q # o, exceptions[q].by = r PROVE FALSE
    OBVIOUS
  <2>1. r # exceptions[o].by
    BY <1>2, <1>p DEF Paired
  <2>2. replaced[r].state = "none"
    BY <1>1, <1>2, <2>1
  <2> QED
    BY <1>2, <1>p, <2>2 DEF Paired
<1>7. \A q \in Instants \ {o} : exceptions[q].by # "none" =>
         exceptions[q].by \in Replacements /\ replaced'[exceptions[q].by] = replaced[exceptions[q].by]
  BY <1>4, <1>6, Rows DEF EventInv
<1>8. \A q \in Instants : exceptions'[q].state = "moved" =>
         exceptions'[q].by # "none" /\ replaced'[exceptions'[q].by].state = "live"
  <2> SUFFICES ASSUME NEW q \in Instants, exceptions'[q].state = "moved"
               PROVE  exceptions'[q].by # "none" /\ replaced'[exceptions'[q].by].state = "live"
    OBVIOUS
  <2>1. CASE q = o
    BY <1>2, <1>3, <1>4, <1>5, <2>1
  <2>2. CASE q # o
    <3>1. exceptions'[q] = exceptions[q]
      BY <1>5, <2>2
    <3>2. exceptions[q].by # "none" /\ replaced[exceptions[q].by].state = "live"
      BY <1>p, <3>1 DEF Paired
    <3> QED
      BY <1>7, <2>2, <3>1, <3>2
  <2> QED
    BY <2>1, <2>2
<1>9. \A q \in Instants : exceptions'[q].state # "moved" /\ exceptions'[q].by # "none" =>
         replaced'[exceptions'[q].by].state = "deleted"
  <2> SUFFICES ASSUME NEW q \in Instants, exceptions'[q].state # "moved", exceptions'[q].by # "none"
               PROVE  replaced'[exceptions'[q].by].state = "deleted"
    OBVIOUS
  <2>1. q # o
    BY <1>3, <1>5
  <2>2. exceptions'[q] = exceptions[q]
    BY <1>5, <2>1
  <2>3. replaced[exceptions[q].by].state = "deleted"
    BY <1>p, <2>2 DEF Paired
  <2> QED
    BY <1>7, <2>1, <2>2, <2>3
<1>10. \A q, s \in Instants : exceptions'[q].by = exceptions'[s].by /\ exceptions'[q].by # "none" => q = s
  <2> SUFFICES ASSUME NEW q \in Instants, NEW s \in Instants, exceptions'[q].by = exceptions'[s].by,
                      exceptions'[q].by # "none", q # s
               PROVE  FALSE
    OBVIOUS
  <2>1. CASE q # o /\ s # o
    BY <1>5, <1>p, <2>1 DEF Paired
  <2>2. CASE q = o
    BY <1>3, <1>5, <1>6, <2>2
  <2>3. CASE s = o
    BY <1>3, <1>5, <1>6, <2>3
  <2> QED
    BY <2>1, <2>2, <2>3
<1>11. \A t \in Replacements : replaced'[t].state = "live" =>
         \E q \in Instants : exceptions'[q].state = "moved" /\ exceptions'[q].by = t
  <2> SUFFICES ASSUME NEW t \in Replacements, replaced'[t].state = "live"
               PROVE  \E q \in Instants : exceptions'[q].state = "moved" /\ exceptions'[q].by = t
    OBVIOUS
  <2>1. CASE t = r
    BY <1>3, <1>5, <2>1
  <2>2. CASE t # r
    <3>1. replaced[t].state = "live" /\ t # "none"
      BY <1>4, <2>2, CalendarAssumption
    <3>2. PICK q \in Instants : exceptions[q].state = "moved" /\ exceptions[q].by = t
      BY <1>p, <3>1 DEF Paired
    <3>3. q # o
      <4> SUFFICES ASSUME q = o PROVE FALSE
        OBVIOUS
      <4>1. LiveException(o) /\ exceptions[o].by # "none"
        BY <3>1, <3>2 DEF LiveException
      <4>2. r = t
        BY <3>2, <4>1 DEF r
      <4> QED
        BY <2>2, <4>2
    <3> QED
      BY <1>5, <3>2, <3>3
  <2> QED
    BY <2>1, <2>2
<1>12. Paired(exceptions', replaced')
  BY <1>8, <1>9, <1>10, <1>11 DEF Paired
<1>13. EventTypes' /\ CalendarQueued'
  <2>1. master' \in Masters /\ strays' \subseteq Instants
    BY <1>1 DEF EventInv, EventTypes
  <2> QED
    BY <1>1, <1>4, <1>5, <2>1, Enqueued
<1>14. Placed'
  BY <1>1, <1>5 DEF EventInv, Placed, LiveException
<1> QED
  BY <1>12, <1>13, <1>14 DEF EventInv

LEMMA EventInvariant == EventSpec => []EventInv
<1>1. EventInit => EventInv
  <2> SUFFICES ASSUME EventInit PROVE EventInv
    OBVIOUS
  <2>1. /\ master \in Masters /\ master.version = 1
        /\ exceptions = [o \in Instants |-> NoException] /\ replaced = [r \in Replacements |-> NoEvent]
        /\ synced = [event |-> 1, exceptions |-> [o \in Instants |-> 0], replaced |-> [r \in Replacements |-> 0]]
        /\ strays = {}
    BY DEF EventInit, Masters
  <2>2. EventTypes
    BY <2>1 DEF EventTypes, Exceptions, Events, NoException, NoEvent
  <2>3. Paired(exceptions, replaced)
    BY <2>1 DEF Paired, NoException, NoEvent
  <2>4. Placed
    BY <2>1 DEF Placed, LiveException, NoException
  <2>5. CalendarQueued
    BY <2>1 DEF CalendarQueued, NoException, NoEvent
  <2> QED
    BY <2>2, <2>3, <2>4, <2>5 DEF EventInv
<1>2. EventInv /\ [EventNext]_eventVars => EventInv'
  <2> SUFFICES ASSUME EventInv, [EventNext]_eventVars PROVE EventInv'
    OBVIOUS
  <2>1. CASE UNCHANGED eventVars
    BY <2>1 DEF eventVars, EventInv, EventTypes, Placed, LiveException, OccurrencesOf, CalendarQueued
  <2>2. CASE delete_event
    BY <2>2, delete_eventInv
  <2>3. ASSUME NEW t \in Instants, NEW n \in Lengths, NEW k \in Intervals, update_event(t, n, k)
        PROVE  EventInv'
    BY <2>3, update_eventInv
  <2>7. ASSUME NEW t \in Instants, NEW n \in Lengths, NEW k \in Intervals, apply_remote_calendar_event(t, n, k)
        PROVE  EventInv'
    BY <2>7, apply_remote_calendar_eventInv
  <2>4. ASSUME NEW o \in Instants, cancel_occurrence(o) PROVE EventInv'
    BY <2>4, cancel_occurrenceInv
  <2>5. ASSUME NEW o \in Instants, restore_occurrence(o) PROVE EventInv'
    BY <2>5, restore_occurrenceInv
  <2>6. ASSUME NEW o \in Instants, NEW r \in Replacements, NEW t \in Instants, NEW n \in Lengths,
               update_occurrence(o, r, t, n)
        PROVE  EventInv'
    BY <2>6, update_occurrenceInv
  <2> QED
    BY <2>1, <2>2, <2>3, <2>4, <2>5, <2>6, <2>7 DEF EventNext
<1> QED
  BY <1>1, <1>2, PTL DEF EventSpec

-----------------------------------------------------------------------------
(* What the properties read from the invariant.                            *)
LEMMA OneEach == EventInv => ReplacementsOwned
<1> SUFFICES ASSUME EventInv PROVE ReplacementsOwned
  OBVIOUS
<1>p. Paired(exceptions, replaced)
  BY DEF EventInv
<1>1. \A r \in Replacements : replaced[r].state = "live" =>
         Cardinality({o \in Instants : exceptions[o].state = "moved" /\ exceptions[o].by = r}) = 1
  <2> SUFFICES ASSUME NEW r \in Replacements, replaced[r].state = "live"
               PROVE  Cardinality({o \in Instants : exceptions[o].state = "moved" /\ exceptions[o].by = r}) = 1
    OBVIOUS
  <2>1. PICK o \in Instants : exceptions[o].state = "moved" /\ exceptions[o].by = r
    BY <1>p DEF Paired
  <2>2. \A q \in Instants : exceptions[q].by = r => q = o
    BY <1>p, <2>1, CalendarAssumption DEF Paired
  <2>3. {q \in Instants : exceptions[q].state = "moved" /\ exceptions[q].by = r} = {o}
    BY <2>1, <2>2
  <2> QED
    BY <2>3, FS_Singleton
<1> QED
  BY <1>1, <1>p DEF ReplacementsOwned, Paired

(* The range shows an occurrence that was not moved only if the expansion  *)
(* around it generates the occurrence.                                     *)
LEMMA Around ==
  ASSUME NEW o \in Nat, NEW len \in Nat, NEW from \in Nat, NEW to \in Nat, Shown(Entry(o, o, len), from, to)
  PROVE  o + len >= from /\ o <= to
BY DEF Shown, Entry, overlaps

LEMMA Complete == EventInv => ListingComplete
<1> SUFFICES ASSUME EventInv, NEW from \in Instants, NEW to \in Instants, from < to, master.live, master.every > 0
             PROVE  /\ Crowded(from, to) \/ StrayIn(from, to) => ListFails(from, to)
                    /\ ~ (Crowded(from, to) \/ StrayIn(from, to)) =>
                          ~ListFails(from, to) /\ list_events(from, to) = Reference(from, to)
  BY DEF ListingComplete
<1> DEFINE Of == OccurrencesOf(master)
           Here(o) == IF HasReplacement(o) THEN Moved(o) ELSE Entry(o, o, master.len)
           Listed == {p \in Expanded(from, to) : ~LiveException(p) \/ HasReplacement(p)}
<1>1. master.every # 0 /\ Of \subseteq Instants /\ master.len \in Nat /\ Instants \subseteq Nat
  <2>1. master.len \in Lengths /\ master.every \in Intervals
    BY DEF EventInv, EventTypes, Masters
  <2>2. Of \subseteq Instants
    BY DEF OccurrencesOf
  <2>3. master.len \in Nat /\ Instants \subseteq Nat /\ 0 \in Nat
    BY <2>1, CalendarAssumption
  <2>4. master.every # 0
    OBVIOUS
  <2> HIDE DEF Of
  <2> QED
    BY <2>2, <2>3, <2>4
<1>2. \A o \in Instants : HasReplacement(o) <=> exceptions[o].state = "moved"
  BY DEF EventInv, Paired, HasReplacement
<1>3. \A o \in Instants : HasReplacement(o) => LiveException(o) /\ (o \in Of \/ o \in strays)
  BY <1>2 DEF EventInv, Placed, LiveException
<1>4. \A o \in Instants : Effective(o) = IF LiveException(o) /\ ~HasReplacement(o) THEN {} ELSE {Here(o)}
  BY <1>2, <1>3 DEF Effective, LiveException
<1>5. StrayIn(from, to) <=> ~ (MovedIn(from, to) \subseteq Of)
  <2>1. ASSUME NEW o \in strays, exceptions[o].state = "moved", o \notin Expanded(from, to), Shown(Moved(o), from, to)
        PROVE  o \in MovedIn(from, to) /\ o \notin Of
    BY <1>2, <2>1 DEF EventInv, EventTypes, Placed, MovedIn
  <2>2. ASSUME NEW o \in MovedIn(from, to), o \notin Of
        PROVE  /\ o \in strays /\ exceptions[o].state = "moved"
               /\ o \notin Expanded(from, to) /\ Shown(Moved(o), from, to)
    BY <1>2, <1>3, <2>2 DEF MovedIn
  <2> QED
    BY <2>1, <2>2 DEF StrayIn
<1>6. ListFails(from, to) <=> Crowded(from, to) \/ StrayIn(from, to)
  BY <1>5 DEF ListFails
<1>7. SUFFICES ASSUME MovedIn(from, to) \subseteq Of
               PROVE  list_events(from, to) = Reference(from, to)
  BY <1>5, <1>6
<1>8. list_events(from, to) = {e \in {Here(o) : o \in Listed} : Shown(e, from, to)} \cup {Moved(o) : o \in MovedIn(from, to)}
  BY <1>1 DEF list_events, InRange
<1>9. Expanded(from, to) = {o \in Of : o + master.len >= from /\ o <= to}
  BY DEF Expanded
<1>10. \A o \in Of : Shown(Entry(o, o, master.len), from, to) => o \in Expanded(from, to)
  BY <1>1, <1>9, Around
<1> HIDE DEF Of
<1>11. ASSUME NEW e PROVE e \in list_events(from, to) => e \in Reference(from, to)
  <2>1. ASSUME NEW o \in Listed, e = Here(o), Shown(e, from, to) PROVE e \in Reference(from, to)
    <3>1. o \in Of /\ o \in Instants /\ e \in Effective(o)
      BY <1>1, <1>4, <1>9, <2>1
    <3> QED
      BY <2>1, <3>1 DEF Reference, Of
  <2>2. ASSUME NEW o \in MovedIn(from, to), e = Moved(o) PROVE e \in Reference(from, to)
    <3>1. o \in Of /\ o \in Instants /\ HasReplacement(o) /\ Shown(e, from, to)
      BY <1>7, <2>2 DEF MovedIn
    <3>2. e \in Effective(o)
      BY <1>4, <2>2, <3>1
    <3> QED
      BY <3>1, <3>2 DEF Reference, Of
  <2> QED
    BY <1>8, <2>1, <2>2
<1>12. ASSUME NEW e PROVE e \in Reference(from, to) => e \in list_events(from, to)
  <2> SUFFICES ASSUME NEW o \in Of, e \in Effective(o), Shown(e, from, to) PROVE e \in list_events(from, to)
    BY DEF Reference, Of
  <2>1. o \in Instants /\ e = Here(o) /\ (~LiveException(o) \/ HasReplacement(o))
    BY <1>1, <1>4
  <2>2. CASE o \in Expanded(from, to)
    BY <1>8, <2>1, <2>2
  <2>3. CASE o \notin Expanded(from, to)
    <3>1. HasReplacement(o)
      BY <1>10, <2>1, <2>3
    <3>2. o \in MovedIn(from, to) /\ e = Moved(o)
      BY <2>1, <2>3, <3>1 DEF MovedIn
    <3> QED
      BY <1>8, <3>2
  <2> QED
    BY <2>2, <2>3
<1> QED
  BY <1>11, <1>12

(* The calendar shows every occurrence of a series once, where it was      *)
(* moved to and not when it was cancelled, in any range, and fails only    *)
(* where there are too many occurrences or an exception that another       *)
(* device's version of the event left behind moves into the range (no      *)
(* command of this device leaves one behind); replacement events and       *)
(* exceptions match one to one, and every change is enqueued, whatever     *)
(* the instants, the durations, the rules and the limit, and however many  *)
(* commands and pages ran.                                                 *)
THEOREM CalendarCorrect == EventSpec => []CalendarSafe
<1>1. EventInv => CalendarSafe
  <2> SUFFICES ASSUME EventInv PROVE CalendarSafe
    OBVIOUS
  <2>1. EventTypeOK
    BY Rows DEF EventInv, EventTypes, Masters, EventTypeOK
  <2> QED
    BY <2>1, OneEach, Complete DEF EventInv, CalendarSafe
<1> QED
  BY <1>1, EventInvariant, PTL

-----------------------------------------------------------------------------
(***************************************************************************)
(* Reminders: the inductive invariant.                                     *)
(***************************************************************************)

\* Every variable has its type.
ReminderTypes ==
  /\ time \in Times /\ running \in BOOLEAN /\ focused \in BOOLEAN /\ scanned \in BOOLEAN
  /\ items \in [Items -> [at : Times, open : BOOLEAN]]
  /\ steady \in [Items -> 0 .. time]
  /\ inbox \in [Keys -> {"absent", "unread", "read"}]
  /\ shown \in [Keys -> Nat]
  /\ approval \in [Approvals -> {"new", "notified", "registered", "resolved", "read"}]

\* A scan ends in the interval in which it began; what it has left are due
\* items, and what it is about to show is stored and was not shown before.
Scans == [pc : {"idle", "item", "show"}, from : Times, todo : SUBSET Items, key : ItemKeys \cup {<<>>}]
Scanning ==
  /\ scan \in Scans
  /\ scan.pc # "idle" =>
       \A i \in scan.todo : items[i].open /\ inside_window(items[i].at, time)
  /\ scan.pc = "show" => scan.key \in ItemKeys /\ inbox[scan.key] # "absent" /\ shown[scan.key] = 0

\* What is shown is stored, and what is stored was due.
Shown1(k) ==
  /\ shown[k] <= 1
  /\ shown[k] = 1 => inbox[k] # "absent"
  /\ inbox[k] # "absent" => k[2] <= time

\* The first scan after an item has become due, or the application has last
\* been disturbed, stores it.
FirstScan(since, when) == IF since > when THEN since + 1 ELSE when + 1
Caught(i) ==
  LET when == items[i].at
      first == FirstScan(steady[i], when)
  IN running /\ ~focused /\ items[i].open /\ first <= when + MISSED_WINDOW_MINUTES =>
       /\ first < time => inbox[<<i, when>>] # "absent"
       /\ first = time /\ scanned =>
            inbox[<<i, when>>] # "absent" \/ (scan.pc # "idle" /\ i \in scan.todo)

RemindersInv ==
  /\ ReminderTypes /\ Scanning
  /\ \A k \in ItemKeys : Shown1(k)
  /\ \A i \in Items : Caught(i)
  /\ ApprovedIsRead

-----------------------------------------------------------------------------
(* A key of a reminder is a pair, one of an approval is not.               *)
LEMMA KeysDiffer ==
  /\ \A k \in ItemKeys : k \in Keys /\ k[2] \in Times
  /\ \A i \in Items, when \in Times : <<i, when>> \in ItemKeys
  /\ \A a \in Approvals : <<a>> \in Keys /\ <<a>> \notin ItemKeys
<1>1. \A i \in Items, when \in Times : <<i, when>> \in ItemKeys
  BY DEF ItemKeys
<1>2. \A k \in ItemKeys : k \in Keys /\ k[2] \in Times
  BY DEF ItemKeys, Keys
<1>3. ASSUME NEW a \in Approvals, <<a>> \in ItemKeys PROVE FALSE
  <2>1. Len(<<a>>) = 1
    OBVIOUS
  <2> QED
    BY <1>3, <2>1 DEF ItemKeys
<1> QED
  BY <1>1, <1>2, <1>3 DEF Keys

LEMMA RemindersStart == RemindersInit => RemindersInv
<1> SUFFICES ASSUME RemindersInit PROVE RemindersInv
  OBVIOUS
<1>1. ReminderTypes /\ \A k \in Keys : inbox[k] = "absent" /\ shown[k] = 0
  <2>1. items \in [Items -> [at : Times, open : BOOLEAN]]
    <3>1. [at : Times, open : {TRUE}] \subseteq [at : Times, open : BOOLEAN]
      OBVIOUS
    <3> QED
      BY <3>1 DEF RemindersInit
  <2>2. steady \in [Items -> 0 .. time] /\ time \in Times
    BY RemindersAssumption DEF RemindersInit, Times
  <2> QED
    BY <2>1, <2>2 DEF RemindersInit, ReminderTypes
<1>2. Scanning
  BY RemindersAssumption DEF RemindersInit, Scanning, Scans, NoScan, Times
<1>3. \A k \in ItemKeys : Shown1(k)
  BY <1>1, KeysDiffer DEF Shown1
<1>4. ASSUME NEW i \in Items PROVE Caught(i)
  <2>1. items[i].at \in Times /\ steady[i] = 0 /\ time = 0 /\ ~scanned
    BY <1>1 DEF RemindersInit, ReminderTypes
  <2>2. items[i].at \in Nat
    BY <2>1 DEF Times
  <2>3. FirstScan(0, items[i].at) > 0 /\ FirstScan(0, items[i].at) \in Nat
    BY <2>2 DEF FirstScan
  <2> QED
    BY <2>1, <2>3 DEF Caught
<1>5. ApprovedIsRead
  BY <1>1, KeysDiffer DEF ApprovedIsRead
<1> QED
  BY <1>1, <1>2, <1>3, <1>4, <1>5 DEF RemindersInv

(* An item that was disturbed in this interval waits for the next scan.    *)
LEMMA NotYet ==
  ASSUME ReminderTypes', NEW i \in Items, steady'[i] = time'
  PROVE  Caught(i)'
<1>1. items'[i].at \in Nat /\ time' \in Nat
  BY RemindersAssumption DEF ReminderTypes, Times
<1>2. \A since, when \in Nat : FirstScan(since, when) > since /\ FirstScan(since, when) \in Nat
  BY DEF FirstScan
<1>3. FirstScan(steady'[i], items'[i].at) > time' /\ FirstScan(steady'[i], items'[i].at) \in Nat
  BY <1>1, <1>2
<1> QED
  BY <1>1, <1>3 DEF Caught

(* A stored notification stays stored, and the rest of what a reminder     *)
(* depends on is as it was.                                                *)
LEMMA StillCaught ==
  ASSUME RemindersInv, ReminderTypes', NEW i \in Items, UNCHANGED <<time, items>>,
         steady'[i] = steady[i], running' => running, ~focused' => ~focused,
         \A k \in ItemKeys : inbox[k] # "absent" => inbox'[k] # "absent",
         scanned' => scanned,
         scan.pc # "idle" /\ i \in scan.todo =>
            \/ scan'.pc # "idle" /\ i \in scan'.todo
            \/ inbox'[<<i, items[i].at>>] # "absent"
            \/ focused'
  PROVE  Caught(i)'
<1>1. <<i, items[i].at>> \in ItemKeys
  BY KeysDiffer DEF RemindersInv, ReminderTypes
<1>2. Caught(i)
  BY DEF RemindersInv
<1> QED
  BY <1>1, <1>2 DEF Caught

(* Marking as read stores nothing and removes nothing.                     *)
LEMMA MarkedRead ==
  ASSUME RemindersInv, NEW keys, mark_read(keys)
  PROVE  /\ inbox' \in [Keys -> {"absent", "unread", "read"}]
         /\ \A k \in Keys : /\ inbox'[k] = "absent" <=> inbox[k] = "absent"
                            /\ inbox'[k] = "unread" => inbox[k] = "unread"
BY DEF mark_read, RemindersInv, ReminderTypes

(* What is shown, when no alert is shown and what is new in the inbox was  *)
(* due.                                                                    *)
LEMMA StillShown ==
  ASSUME RemindersInv, ReminderTypes', UNCHANGED shown, time' \in {time, time + 1},
         \A k \in ItemKeys : inbox[k] # "absent" => inbox'[k] # "absent",
         \A k \in ItemKeys : inbox[k] = "absent" /\ inbox'[k] # "absent" => k[2] <= time
  PROVE  \A k \in ItemKeys : Shown1(k)'
<1> SUFFICES ASSUME NEW k \in ItemKeys PROVE Shown1(k)'
  OBVIOUS
<1>1. Shown1(k) /\ k[2] \in Nat /\ time \in Nat /\ k \in Keys
  BY KeysDiffer, RemindersAssumption DEF RemindersInv, ReminderTypes, Times
<1> QED
  BY <1>1 DEF Shown1

LEMMA scan_dueReminders == RemindersInv /\ scan_due => RemindersInv'
<1> SUFFICES ASSUME RemindersInv, scan_due PROVE RemindersInv'
  OBVIOUS
<1>0. /\ UNCHANGED <<time, running, focused, items, steady, inbox, shown, approval>> /\ scanned' = TRUE
      /\ scan.pc = "idle" /\ ~scanned /\ scan'.pc = "item"
      /\ scan'.todo = {i \in Items : items[i].open /\ inside_window(items[i].at, time)}
  BY DEF scan_due, notification_time
<1>1. ReminderTypes'
  BY <1>0 DEF RemindersInv, ReminderTypes, Times, Keys, ItemKeys
<1>2. Scanning'
  <2>1. scan' \in Scans
    BY DEF RemindersInv, ReminderTypes, scan_due, Scans
  <2> QED
    BY <1>0, <2>1 DEF Scanning, inside_window
<1>3. \A k \in ItemKeys : Shown1(k)'
  BY <1>0 DEF RemindersInv, Shown1
<1>4. ASSUME NEW i \in Items PROVE Caught(i)'
  <2>1. items[i].at \in Nat /\ steady[i] \in Nat /\ time \in Nat /\ Caught(i)
    BY RemindersAssumption DEF RemindersInv, ReminderTypes, Times
  <2>2. \A since, when \in Nat : FirstScan(since, when) = time => when <= time
    BY <2>1 DEF FirstScan
  <2>3. items[i].open /\ FirstScan(steady[i], items[i].at) <= items[i].at + MISSED_WINDOW_MINUTES
          /\ FirstScan(steady[i], items[i].at) = time => i \in scan'.todo
    BY <1>0, <2>1, <2>2, RemindersAssumption DEF inside_window
  <2> QED
    BY <1>0, <2>1, <2>3 DEF Caught
<1>5. ApprovedIsRead'
  BY <1>0 DEF RemindersInv, ApprovedIsRead
<1> QED
  BY <1>1, <1>2, <1>3, <1>4, <1>5 DEF RemindersInv

LEMMA remindReminders == ASSUME RemindersInv, NEW j \in Items, remind(j) PROVE RemindersInv'
<1> DEFINE key == <<j, items[j].at>>
<1>a. /\ UNCHANGED <<time, running, focused, items, steady, scanned, shown, approval>>
      /\ scan.pc = "item" /\ j \in scan.todo /\ key \in ItemKeys /\ key \in Keys /\ items[j].at <= time
  BY KeysDiffer DEF remind, RemindersInv, ReminderTypes, Scanning, inside_window
<1>b. \/ ~focused /\ inbox[key] = "absent" /\ inbox' = [inbox EXCEPT ![key] = "unread"]
            /\ scan' = [scan EXCEPT !.pc = "show", !.key = key, !.todo = @ \ {j}]
      \/ (focused \/ inbox[key] # "absent") /\ inbox' = inbox /\ scan' = [scan EXCEPT !.todo = @ \ {j}]
  BY DEF remind, create_if_absent, Stored, dedupe_key, notification_time
<1> HIDE DEF key
<1>c. scan \in Scans
  BY DEF RemindersInv, Scanning
<1>1. /\ scan' \in Scans /\ scan'.todo = scan.todo \ {j}
      /\ \/ ~focused /\ inbox[key] = "absent" /\ inbox' = [inbox EXCEPT ![key] = "unread"]
               /\ scan'.pc = "show" /\ scan'.key = key
         \/ (focused \/ inbox[key] # "absent") /\ inbox' = inbox /\ scan'.pc = "item"
  <2>1. CASE ~focused /\ inbox[key] = "absent" /\ inbox' = [inbox EXCEPT ![key] = "unread"]
               /\ scan' = [scan EXCEPT !.pc = "show", !.key = key, !.todo = @ \ {j}]
    BY <1>a, <1>c, <2>1 DEF Scans
  <2>2. CASE (focused \/ inbox[key] # "absent") /\ inbox' = inbox /\ scan' = [scan EXCEPT !.todo = @ \ {j}]
    BY <1>a, <1>c, <2>2 DEF Scans
  <2> QED
    BY <1>b, <2>1, <2>2
<1>0. /\ UNCHANGED <<time, running, focused, items, steady, scanned, shown, approval>>
      /\ scan.pc = "item" /\ j \in scan.todo /\ key \in ItemKeys /\ key \in Keys /\ items[j].at <= time
      /\ scan' \in Scans /\ scan'.todo = scan.todo \ {j} /\ scan'.pc \in {"item", "show"}
  BY <1>a, <1>1
<1>2. ReminderTypes'
  BY <1>0, <1>1 DEF RemindersInv, ReminderTypes, Times, Keys, ItemKeys
<1>3. /\ \A k \in Keys : inbox[k] # "absent" => inbox'[k] # "absent"
      /\ \A k \in Keys : inbox'[k] = inbox[k] \/ (k = key /\ inbox[k] = "absent" /\ inbox'[k] = "unread")
      /\ inbox'[key] # "absent" \/ focused
  BY <1>0, <1>1 DEF RemindersInv, ReminderTypes
<1>4. Scanning'
  <2>1. scan'.pc = "show" => inbox'[scan'.key] # "absent" /\ shown[scan'.key] = 0
    <3>1. shown[key] \in Nat /\ Shown1(key)
      BY <1>0 DEF RemindersInv, ReminderTypes
    <3>2. inbox[key] = "absent" => shown[key] = 0
      BY <3>1 DEF Shown1
    <3>3. ~focused => inbox'[key] # "absent"
      BY <1>3
    <3> QED
      BY <1>1, <3>2, <3>3
  <2>2. \A i \in scan.todo : items[i].open /\ inside_window(items[i].at, time)
    BY <1>0 DEF RemindersInv, Scanning
  <2>3. scan'.pc = "show" => scan'.key \in ItemKeys
    BY <1>0, <1>1
  <2> QED
    BY <1>0, <2>1, <2>2, <2>3 DEF Scanning, inside_window
<1>5. \A k \in ItemKeys : Shown1(k)'
  <2>1. key[2] <= time
    BY <1>0 DEF key
  <2> QED
    BY <1>0, <1>2, <1>3, <2>1, StillShown, KeysDiffer
<1>6. ASSUME NEW i \in Items PROVE Caught(i)'
  <2>1. i = j => inbox'[<<i, items[i].at>>] # "absent" \/ focused'
    BY <1>0, <1>3 DEF key
  <2>2. scan.pc # "idle" /\ i \in scan.todo =>
            \/ scan'.pc # "idle" /\ i \in scan'.todo
            \/ inbox'[<<i, items[i].at>>] # "absent"
            \/ focused'
    BY <1>0, <2>1
  <2>3. \A k \in ItemKeys : inbox[k] # "absent" => inbox'[k] # "absent"
    BY <1>3, KeysDiffer
  <2> QED
    BY <1>0, <1>2, <2>2, <2>3, StillCaught
<1>7. ApprovedIsRead'
  BY <1>0, <1>3, KeysDiffer DEF RemindersInv, ApprovedIsRead
<1> QED
  BY <1>2, <1>4, <1>5, <1>6, <1>7 DEF RemindersInv

LEMMA show_native_notificationReminders ==
  RemindersInv /\ show_native_notification => RemindersInv'
<1> SUFFICES ASSUME RemindersInv, show_native_notification PROVE RemindersInv'
  OBVIOUS
<1>a. \A s \in Scans :
         LET new == [s EXCEPT !.pc = "item", !.key = <<>>]
         IN new \in Scans /\ new.pc = "item" /\ new.todo = s.todo
  BY DEF Scans
<1>0. /\ UNCHANGED <<time, running, focused, items, steady, scanned, inbox, approval>>
      /\ scan.pc = "show" /\ scan' \in Scans /\ scan'.pc = "item" /\ scan'.todo = scan.todo
      /\ shown' = [shown EXCEPT ![scan.key] = @ + 1]
  BY <1>a DEF show_native_notification, RemindersInv, Scanning
<1>1. scan.key \in ItemKeys /\ scan.key \in Keys /\ inbox[scan.key] # "absent" /\ shown[scan.key] = 0
  BY <1>0, KeysDiffer DEF RemindersInv, Scanning
<1>2. ReminderTypes'
  <2>1. shown' \in [Keys -> Nat]
    BY <1>0, <1>1 DEF RemindersInv, ReminderTypes
  <2> QED
    BY <1>0, <2>1 DEF RemindersInv, ReminderTypes, Times
<1>3. Scanning'
  BY <1>0 DEF Scanning, RemindersInv, inside_window
<1>4. ASSUME NEW k \in ItemKeys PROVE Shown1(k)'
  <2>1. k \in Keys /\ Shown1(k)
    BY KeysDiffer DEF RemindersInv
  <2>2. shown'[k] = IF k = scan.key THEN 1 ELSE shown[k]
    BY <1>0, <1>1, <2>1 DEF RemindersInv, ReminderTypes
  <2> QED
    BY <1>0, <1>1, <2>1, <2>2 DEF Shown1
<1>5. ASSUME NEW i \in Items PROVE Caught(i)'
  <2>1. scan.pc # "idle" /\ i \in scan.todo => scan'.pc # "idle" /\ i \in scan'.todo
    BY <1>0
  <2> QED
    BY <1>0, <1>2, <2>1, StillCaught
<1>6. ApprovedIsRead'
  BY <1>0 DEF RemindersInv, ApprovedIsRead
<1> QED
  BY <1>2, <1>3, <1>4, <1>5, <1>6 DEF RemindersInv

LEMMA scan_endsReminders == RemindersInv /\ scan_ends => RemindersInv'
<1> SUFFICES ASSUME RemindersInv, scan_ends PROVE RemindersInv'
  OBVIOUS
<1>0. /\ UNCHANGED <<time, running, focused, items, scanned, inbox, shown, approval>>
      /\ scan' = NoScan /\ steady' = Touched(scan.todo)
  BY DEF scan_ends
<1>1. \A i \in Items : steady'[i] = IF i \in scan.todo THEN time ELSE steady[i]
  BY <1>0 DEF Touched
<1>2. ReminderTypes'
  <2>1. steady' \in [Items -> 0 .. time]
    BY <1>0, RemindersAssumption DEF RemindersInv, ReminderTypes, Touched, Times
  <2> QED
    BY <1>0, <2>1 DEF RemindersInv, ReminderTypes, Times
<1>3. Scanning'
  BY <1>0, RemindersAssumption DEF Scanning, Scans, NoScan, Times
<1>4. \A k \in ItemKeys : Shown1(k)'
  BY <1>0, <1>2, StillShown
<1>5. ASSUME NEW i \in Items PROVE Caught(i)'
  <2>1. CASE i \in scan.todo
    BY <1>0, <1>1, <1>2, <2>1, NotYet
  <2>2. CASE i \notin scan.todo
    BY <1>0, <1>1, <1>2, <2>2, StillCaught
  <2> QED
    BY <2>1, <2>2
<1>6. ApprovedIsRead'
  BY <1>0 DEF RemindersInv, ApprovedIsRead
<1> QED
  BY <1>2, <1>3, <1>4, <1>5, <1>6 DEF RemindersInv

(* Steps of approvals touch no reminder and no scan.                       *)
LEMMA ApprovalReminders ==
  ASSUME RemindersInv, NEW a \in Approvals,
         notify_approval_requested(a) \/ register_approval(a) \/ approve_tool(a) \/ resolve_approval(a)
  PROVE  RemindersInv'
<1>0. /\ UNCHANGED <<time, running, focused, items, steady, scan, scanned, shown>>
      /\ approval' \in [Approvals -> {"new", "notified", "registered", "resolved", "read"}]
  BY DEF notify_approval_requested, register_approval, approve_tool, resolve_approval, RemindersInv, ReminderTypes
<1>1. /\ inbox' \in [Keys -> {"absent", "unread", "read"}]
      /\ \A k \in ItemKeys : inbox'[k] = "absent" <=> inbox[k] = "absent"
      /\ \A k \in Keys : k # <<a>> /\ inbox'[k] = "unread" => inbox[k] = "unread"
      /\ approval'[a] = "read" => inbox'[<<a>>] # "unread"
  <2>t. inbox \in [Keys -> {"absent", "unread", "read"}] /\ approval \in [Approvals -> {"new", "notified", "registered", "resolved", "read"}]
    BY DEF RemindersInv, ReminderTypes
  <2>1. CASE notify_approval_requested(a)
    <3>1. approval'[a] = "notified"
      BY <2>1, <2>t DEF notify_approval_requested
    <3>2. inbox' = inbox \/ inbox' = [inbox EXCEPT ![<<a>>] = "unread"]
      BY <2>1 DEF notify_approval_requested, Stored
    <3> QED
      BY <3>1, <3>2, <2>t, KeysDiffer
  <2>2. CASE register_approval(a) \/ approve_tool(a)
    <3>1. inbox' = inbox /\ approval'[a] \in {"registered", "resolved"}
      BY <2>2, <2>t DEF register_approval, approve_tool
    <3> QED
      BY <3>1, <2>t
  <2>3. CASE resolve_approval(a)
    <3>1. inbox' = [k \in Keys |-> IF k \in {<<a>>} /\ inbox[k] = "unread" THEN "read" ELSE inbox[k]]
      BY <2>3 DEF resolve_approval, mark_read
    <3> QED
      BY <3>1, <2>t, KeysDiffer
  <2> QED
    BY <2>1, <2>2, <2>3
<1>2. ReminderTypes'
  BY <1>0, <1>1 DEF RemindersInv, ReminderTypes, Times
<1>3. Scanning'
  BY <1>0, <1>1 DEF RemindersInv, Scanning, inside_window
<1>4. \A k \in ItemKeys : Shown1(k)'
  BY <1>0, <1>1, <1>2, StillShown
<1>5. ASSUME NEW i \in Items PROVE Caught(i)'
  BY <1>0, <1>1, <1>2, StillCaught
<1>6. ApprovedIsRead'
  <2> SUFFICES ASSUME NEW b \in Approvals, approval'[b] = "read" PROVE inbox'[<<b>>] # "unread"
    BY DEF ApprovedIsRead
  <2>1. CASE b = a
    BY <1>1, <2>1
  <2>2. CASE b # a
    <3>1. approval'[b] = approval[b]
      BY <2>2 DEF notify_approval_requested, register_approval, approve_tool, resolve_approval,
                  RemindersInv, ReminderTypes
    <3>2. <<b>> # <<a>> /\ <<b>> \in Keys
      BY <2>2, KeysDiffer
    <3> QED
      BY <1>1, <3>1, <3>2 DEF RemindersInv, ApprovedIsRead
  <2> QED
    BY <2>1, <2>2
<1> QED
  BY <1>2, <1>3, <1>4, <1>5, <1>6 DEF RemindersInv

LEMMA mark_all_readReminders == RemindersInv /\ mark_all_read => RemindersInv'
<1> SUFFICES ASSUME RemindersInv, mark_all_read PROVE RemindersInv'
  OBVIOUS
<1>0. UNCHANGED <<time, running, focused, items, steady, scan, scanned, shown, approval>> /\ mark_read(Keys)
  BY DEF mark_all_read
<1>1. /\ inbox' \in [Keys -> {"absent", "unread", "read"}]
      /\ \A k \in Keys : /\ inbox'[k] = "absent" <=> inbox[k] = "absent"
                         /\ inbox'[k] = "unread" => inbox[k] = "unread"
  BY <1>0, MarkedRead
<1>2. ReminderTypes'
  BY <1>0, <1>1 DEF RemindersInv, ReminderTypes, Times
<1>3. \A k \in ItemKeys : k \in Keys
  BY KeysDiffer
<1>4. Scanning'
  BY <1>0, <1>1, <1>3 DEF RemindersInv, Scanning, inside_window
<1>5. \A k \in ItemKeys : Shown1(k)'
  BY <1>0, <1>1, <1>2, <1>3, StillShown
<1>6. ASSUME NEW i \in Items PROVE Caught(i)'
  BY <1>0, <1>1, <1>2, <1>3, StillCaught
<1>7. ApprovedIsRead'
  BY <1>0, <1>1, KeysDiffer DEF RemindersInv, ApprovedIsRead
<1> QED
  BY <1>2, <1>4, <1>5, <1>6, <1>7 DEF RemindersInv

(* Steps that disturb items: the user's, and the end and the start of the  *)
(* application.                                                            *)
LEMMA DisturbedReminders ==
  ASSUME RemindersInv, NEW disturbed \in SUBSET Items,
         UNCHANGED <<time, inbox, shown>>, ReminderTypes', Scanning', ApprovedIsRead',
         steady' = Touched(disturbed), \A i \in Items \ disturbed : items'[i] = items[i],
         disturbed # Items => UNCHANGED <<running, focused, scan, scanned>> /\ scan.pc = "idle"
  PROVE  RemindersInv'
<1>1. \A k \in ItemKeys : Shown1(k)'
  BY StillShown
<1>2. ASSUME NEW i \in Items PROVE Caught(i)'
  <2>1. CASE i \in disturbed
    BY <2>1, NotYet DEF Touched
  <2>2. CASE i \notin disturbed
    <3>1. steady'[i] = steady[i] /\ items'[i] = items[i] /\ Caught(i)
      BY <2>2 DEF Touched, RemindersInv
    <3>2. UNCHANGED <<time, inbox, running, focused, scan, scanned>>
      BY <2>2
    <3> QED
      BY <3>1, <3>2 DEF Caught
  <2> QED
    BY <2>1, <2>2
<1> QED
  BY <1>1, <1>2 DEF RemindersInv

LEMMA change_itemReminders == ASSUME RemindersInv, NEW i \in Items, change_item(i) PROVE RemindersInv'
<1>0. /\ UNCHANGED <<time, running, focused, scan, scanned, inbox, shown, approval>>
      /\ scan.pc = "idle" /\ steady' = Touched({i})
  BY DEF change_item
<1>1. PICK when \in Times, open \in BOOLEAN : items' = [items EXCEPT ![i] = [at |-> when, open |-> open]]
  BY DEF change_item
<1>2. items' \in [Items -> [at : Times, open : BOOLEAN]] /\ \A j \in Items \ {i} : items'[j] = items[j]
  BY <1>1 DEF RemindersInv, ReminderTypes
<1>3. steady' \in [Items -> 0 .. time]
  BY <1>0, RemindersAssumption DEF RemindersInv, ReminderTypes, Touched, Times
<1>4. ReminderTypes'
  BY <1>0, <1>2, <1>3 DEF RemindersInv, ReminderTypes, Times
<1>5. Scanning'
  BY <1>0 DEF RemindersInv, Scanning
<1>6. ApprovedIsRead'
  BY <1>0 DEF RemindersInv, ApprovedIsRead
<1> QED
  BY <1>0, <1>2, <1>4, <1>5, <1>6, DisturbedReminders

LEMMA ApplicationReminders ==
  RemindersInv /\ (change_focus \/ quit \/ start_background) => RemindersInv'
<1> SUFFICES ASSUME RemindersInv, change_focus \/ quit \/ start_background PROVE RemindersInv'
  OBVIOUS
<1>0. /\ UNCHANGED <<time, items, inbox, shown>> /\ steady' = Touched(Items)
      /\ running' \in BOOLEAN /\ focused' \in BOOLEAN /\ scanned' \in BOOLEAN
      /\ scan' \in {scan, NoScan}
  BY DEF change_focus, quit, start_background, RemindersInv, ReminderTypes
<1>1. /\ approval' \in [Approvals -> {"new", "notified", "registered", "resolved", "read"}]
      /\ \A a \in Approvals : approval'[a] = "read" => approval[a] = "read"
  BY DEF change_focus, quit, start_background, RemindersInv, ReminderTypes
<1>2. steady' \in [Items -> 0 .. time]
  BY <1>0, RemindersAssumption DEF RemindersInv, ReminderTypes, Touched, Times
<1>3. ReminderTypes'
  BY <1>0, <1>1, <1>2 DEF RemindersInv, ReminderTypes, Times
<1>4. Scanning'
  BY <1>0, RemindersAssumption DEF RemindersInv, Scanning, Scans, NoScan, Times, inside_window
<1>5. ApprovedIsRead'
  BY <1>0, <1>1 DEF RemindersInv, ApprovedIsRead
<1> QED
  BY <1>0, <1>3, <1>4, <1>5, DisturbedReminders

LEMMA tickReminders == RemindersInv /\ tick => RemindersInv'
<1> SUFFICES ASSUME RemindersInv, tick PROVE RemindersInv'
  OBVIOUS
<1>0. /\ UNCHANGED <<running, focused, items, steady, scan, inbox, shown, approval>>
      /\ time' = time + 1 /\ scanned' = FALSE /\ scan.pc = "idle" /\ (running => scanned) /\ time < MaxTime
  BY DEF tick
<1>1. ReminderTypes'
  <2>1. time' \in Times /\ time \in Nat
    BY <1>0, RemindersAssumption DEF RemindersInv, ReminderTypes, Times
  <2>2. 0 .. time \subseteq 0 .. time'
    BY <1>0, <2>1
  <2>3. steady' \in [Items -> 0 .. time']
    BY <1>0, <2>2 DEF RemindersInv, ReminderTypes
  <2> QED
    BY <1>0, <2>1, <2>3 DEF RemindersInv, ReminderTypes, Times
<1>2. Scanning'
  BY <1>0 DEF RemindersInv, Scanning
<1>3. \A k \in ItemKeys : Shown1(k)'
  BY <1>0, <1>1, StillShown
<1>4. ASSUME NEW i \in Items PROVE Caught(i)'
  <2>1. items[i].at \in Nat /\ steady[i] \in Nat /\ time \in Nat /\ Caught(i)
    BY RemindersAssumption DEF RemindersInv, ReminderTypes, Times
  <2>2. \A since, when \in Nat : FirstScan(since, when) \in Nat
    BY DEF FirstScan
  <2>3. FirstScan(steady[i], items[i].at) \in Nat
    BY <2>1, <2>2
  <2> QED
    BY <1>0, <2>1, <2>3 DEF Caught
<1>5. ApprovedIsRead'
  BY <1>0 DEF RemindersInv, ApprovedIsRead
<1> QED
  BY <1>1, <1>2, <1>3, <1>4, <1>5 DEF RemindersInv

LEMMA RemindersStep == RemindersInv /\ [RemindersNext]_reminderVars => RemindersInv'
<1> SUFFICES ASSUME RemindersInv, [RemindersNext]_reminderVars PROVE RemindersInv'
  OBVIOUS
<1>1. CASE RemindersNext
  BY <1>1, scan_dueReminders, remindReminders, show_native_notificationReminders, scan_endsReminders,
     ApprovalReminders, mark_all_readReminders, change_itemReminders, ApplicationReminders, tickReminders
  DEF RemindersNext
<1>2. CASE UNCHANGED reminderVars
  <2>1. \A i \in Items : Caught(i)'
    BY <1>2 DEF RemindersInv, Caught, reminderVars
  <2> QED
    BY <1>2, <2>1 DEF RemindersInv, reminderVars, ReminderTypes, Times, Scanning, inside_window, Shown1,
                      ApprovedIsRead
<1> QED
  BY <1>1, <1>2

(* A reminder is shown at most once and not before its time, what is due   *)
(* is in the inbox one scan later, and a given approval leaves no unread   *)
(* notification (notifications.rs).                                        *)
THEOREM RemindersCorrect == RemindersSpec => []RemindersSafe
<1>1. RemindersInv => RemindersSafe
  <2> SUFFICES ASSUME RemindersInv PROVE RemindersSafe
    OBVIOUS
  <2>1. RemindersTypeOK
    BY DEF RemindersInv, ReminderTypes, Scanning, Scans, RemindersTypeOK
  <2>2. RemindedOnce
    BY DEF RemindersInv, Shown1, RemindedOnce
  <2>3. Reminded
    BY DEF RemindersInv, Caught, FirstScan, Reminded
  <2> QED
    BY <2>1, <2>2, <2>3 DEF RemindersInv, RemindersSafe
<1> QED
  BY <1>1, RemindersStart, RemindersStep, PTL DEF RemindersSpec
=============================================================================
