--------------------------- MODULE DocumentImport ---------------------------
(***************************************************************************)
(* Importing a file into a knowledge collection: the registry of jobs that *)
(* the user can cancel, the parser in a child process that reads the file  *)
(* by itself (document_parser.rs), and imports from a drive, which move a  *)
(* managed copy into place before the document is stored (commands/mod.rs).*)
(* At the end, the optional package with the PDF parser and its models     *)
(* (pdf_models.rs).  How the text that is read is cut into chunks, and     *)
(* what becomes of a stored document, is told in Chunking and              *)
(* KnowledgeIndex; none of these share a variable.                         *)
(***************************************************************************)
EXTENDS Chunking, KnowledgeIndex

CONSTANTS Imports,     \* import commands
          JobIds,
          MaxIncidents,  \* bound: changes of the file and cancellations
          Installers,    \* concurrent install commands
          Archives,      \* archives that the user may choose
          Valid,         \* those with a fitting manifest and files that match it
          MaxInstalls    \* bound: installations, removals and ends of the application

ASSUME ImportAssumption ==
    /\ "none" \notin JobIds
    /\ Valid \subseteq Archives /\ {"missing", "damaged"} \cap Archives = {}

VARIABLES source,    \* the import commands read "disk" or "drive"
          file,      \* content of the user's file, or of the drive's; a hash tells contents apart
          jobs,      \* DocumentParserManager: "free", "live" or "cancelled"
          imports,   \* the import commands
          children,  \* parser processes that run: import -> what each has read
          target,    \* managed copy of the drive's file
          document,  \* current version: recorded hash, text that was chunked
          met,       \* two imports at the managed copy, a crash between its steps
          incidents,
          destination,  \* the package directory: an archive, Missing or Damaged
          installers,
          spoiled,      \* the user removed a package; killed between two renames
          once,         \* a package has been installed
          installs

importVars == <<source, file, jobs, imports, children, target, document, met, incidents>>
packageVars == <<destination, installers, spoiled, once, installs>>

ImportKinds == {"text", "structured", "drive"}
NotImporting == [pc |-> "idle", kind |-> "none", job |-> "none", hash |-> NoText, text |-> NoText, backup |-> NoText]
NothingStored == [hash |-> NoText, text |-> NoText]

SetImport(i, rec) == imports' = [imports EXCEPT ![i] = rec]
ImportAt(i, pc) == imports[i].pc = pc
ImportGoes(i, pc) == SetImport(i, [imports[i] EXCEPT !.pc = pc])
ImportCounted == incidents < MaxIncidents /\ incidents' = incidents + 1

\* ensure_not_cancelled: an import from a drive has no job to cancel.
Cancelled(i) == imports[i].job # "none" /\ jobs[imports[i].job] = "cancelled"

(***************************************************************************)
(* The registry of jobs.                                                   *)
(***************************************************************************)

register(job) == jobs[job] = "free" /\ jobs' = [jobs EXCEPT ![job] = "live"]

finish(i) == jobs' = [job \in JobIds |-> IF job = imports[i].job THEN "free" ELSE jobs[job]]

cancel(job) ==
    /\ ImportCounted
    /\ jobs' = [jobs EXCEPT ![job] = IF @ = "free" THEN @ ELSE "cancelled"]
    /\ UNCHANGED <<file, imports, children, target, document, met>>

\* Every way out of an import of a local file gives the job back.
Ends(i) == SetImport(i, NotImporting) /\ finish(i)

(***************************************************************************)
(* An import of a local file.                                              *)
(***************************************************************************)

\* An id in use is refused, and left to the import that has it.
import_rejected(i, job) ==
    /\ ImportAt(i, "idle") /\ jobs[job] # "free" /\ ImportCounted
    /\ UNCHANGED <<file, jobs, imports, children, target, document, met>>

import_local_knowledge_document(i, job, kind) ==
    /\ ImportAt(i, "idle") /\ kind # "drive" /\ ImportCounted /\ register(job)
    /\ SetImport(i, [NotImporting EXCEPT !.pc = "reading", !.kind = kind, !.job = job])
    /\ UNCHANGED <<file, children, target, document, met>>

(* read_text_knowledge_document: text and hash come from one read.         *)
read_text(i) ==
    /\ ImportAt(i, "reading") /\ imports[i].kind = "text"
    /\ IF Cancelled(i) THEN Ends(i)
       ELSE SetImport(i, [imports[i] EXCEPT !.pc = "read", !.hash = file, !.text = file]) /\ UNCHANGED jobs
    /\ UNCHANGED <<file, children, target, document, met, incidents>>

(* parse_structured_document: the hash is taken, then a child is started   *)
(* with the path.                                                          *)
read_hash(i) ==
    /\ ImportAt(i, "reading") /\ imports[i].kind = "structured"
    /\ IF Cancelled(i) THEN Ends(i)
       ELSE SetImport(i, [imports[i] EXCEPT !.pc = "spawning", !.hash = file]) /\ UNCHANGED jobs
    /\ UNCHANGED <<file, children, target, document, met, incidents>>

run_parser(i) ==
    /\ ImportAt(i, "spawning")
    /\ IF Cancelled(i) THEN Ends(i) /\ UNCHANGED children
       ELSE /\ ImportGoes(i, "parsing") /\ UNCHANGED jobs
            /\ children' = [children EXCEPT ![i] = "started"]
    /\ UNCHANGED <<file, target, document, met, incidents>>

\* The child reads the file when it comes to it.
child_reads(i) ==
    /\ children[i] = "started" /\ children' = [children EXCEPT ![i] = file]
    /\ UNCHANGED <<file, jobs, imports, target, document, met, incidents>>

\* The output of the child ends with a result that is understood and valid.
Answered(i) == children[i] \in Contents

\* mutant
Accepted_Any(i) == TRUE

\* The result must be of the bytes that were hashed here.
Accepted(i) == children[i] = imports[i].hash

(* The exit of the child, taken before a cancellation by chance.           *)
child_exits(i) ==
    /\ ImportAt(i, "parsing") /\ Answered(i)
    /\ children' = [children EXCEPT ![i] = NoText]
    /\ IF Cancelled(i) \/ ~Accepted(i) THEN Ends(i)
       ELSE SetImport(i, [imports[i] EXCEPT !.pc = "read", !.text = children[i]]) /\ UNCHANGED jobs
    /\ UNCHANGED <<file, target, document, met, incidents>>

\* Cancellation, timeout, output over the limit or not understood, and an exit
\* with an error: the child is killed and waited for.
parsing_stops(i) ==
    /\ ImportAt(i, "parsing") /\ Ends(i)
    /\ children' = [children EXCEPT ![i] = NoText]
    /\ UNCHANGED <<file, target, document, met, incidents>>

(* The last check; the database does the rest whatever the user does.      *)
last_check(i) ==
    /\ ImportAt(i, "read") /\ imports[i].kind # "drive"
    /\ IF Cancelled(i) THEN Ends(i) ELSE ImportGoes(i, "storing") /\ UNCHANGED jobs
    /\ UNCHANGED <<file, children, target, document, met, incidents>>

Stored(i) == document' = [hash |-> imports[i].hash, text |-> imports[i].text]

store(i) ==
    /\ ImportAt(i, "storing")
    /\ Stored(i) \/ UNCHANGED document
    /\ Ends(i)
    /\ UNCHANGED <<file, children, target, met, incidents>>

(***************************************************************************)
(* An import from a drive: `file' is then the file in the drive and        *)
(* `document' the one whose path is the managed copy.                      *)
(***************************************************************************)

InTarget == {i \in Imports : imports[i].pc \in {"installing", "installed", "unsettled"}}

(* Staged and parsed as text: the staged file is this import's own.        *)
import_storage_knowledge_document(i) ==
    /\ ImportAt(i, "idle") /\ ImportCounted
    /\ SetImport(i, [NotImporting EXCEPT !.pc = "read", !.kind = "drive", !.hash = file, !.text = file])
    /\ UNCHANGED <<file, jobs, children, target, document, met>>

(* install_managed_file: the copy that is there is moved aside.            *)
set_aside(i) ==
    /\ ImportAt(i, "read") /\ imports[i].kind = "drive"
    /\ SetImport(i, [imports[i] EXCEPT !.pc = "installing", !.backup = target])
    /\ target' = NoText
    /\ met' = IF InTarget # {} THEN met \cup {"overlap"} ELSE met
    /\ UNCHANGED <<file, jobs, children, document, incidents>>

install(i) ==
    /\ ImportAt(i, "installing")
    /\ \/ target' = imports[i].text /\ ImportGoes(i, "installed")
       \/ /\ target' = IF imports[i].backup = NoText THEN target ELSE imports[i].backup
          /\ SetImport(i, NotImporting)
    /\ UNCHANGED <<file, jobs, children, document, met, incidents>>

\* rollback_managed_file.
Restored(i) == imports[i].backup

(* The document is stored, and the backup removed; or put back.            *)
store_installed(i) ==
    /\ ImportAt(i, "installed")
    /\ \/ Stored(i) /\ SetImport(i, NotImporting) /\ UNCHANGED target
       \/ UNCHANGED document /\ ImportGoes(i, "unsettled") /\ UNCHANGED target
    /\ UNCHANGED <<file, jobs, children, met, incidents>>

rollback_managed_file(i) ==
    /\ ImportAt(i, "unsettled") /\ target' = Restored(i) /\ SetImport(i, NotImporting)
    /\ UNCHANGED <<file, jobs, children, document, met, incidents>>

(***************************************************************************)
(* The environment.                                                        *)
(***************************************************************************)

change_file(content) ==
    /\ content # file /\ ImportCounted /\ file' = content
    /\ UNCHANGED <<jobs, imports, children, target, document, met>>

\* The application is killed and started again: backups are not looked for.
restart ==
    /\ \E i \in Imports : ~ImportAt(i, "idle")
    /\ ImportCounted
    /\ imports' = [i \in Imports |-> NotImporting]
    /\ met' = IF InTarget # {} THEN met \cup {"crash"} ELSE met
    /\ UNCHANGED <<file, jobs, children, target, document>>

(***************************************************************************)
(* The package of the PDF parser: an archive is unpacked and verified      *)
(* beside the installed package, which is moved aside for it, and removed  *)
(* or put back.  Commands run on blocking threads and take no lock.        *)
(***************************************************************************)

NoPackage == "missing"
Damaged == "damaged"
NoInstall == [pc |-> "idle", archive |-> NoPackage, backup |-> NoPackage]
Installing == installs < MaxInstalls /\ installs' = installs + 1

\* validate_manifest, extract_and_verify_archive.
Verified(archive) == archive \in Valid

(* Unpacked into a directory of the command's own, which is removed again  *)
(* if it is not as its manifest says.                                      *)
install_archive(i, archive) ==
    /\ installers[i].pc = "idle" /\ Installing
    /\ installers' = IF Verified(archive)
                     THEN [installers EXCEPT ![i] = [NoInstall EXCEPT !.pc = "staged", !.archive = archive]]
                     ELSE installers
    /\ UNCHANGED <<destination, spoiled, once>>

move_aside(i) ==
    /\ installers[i].pc = "staged"
    /\ installers' = [installers EXCEPT ![i].pc = "moving", ![i].backup = destination]
    /\ destination' = NoPackage
    /\ UNCHANGED <<spoiled, once, installs>>

\* The backup, when there is one, goes back to where nothing is.
restored(i) == IF destination = NoPackage THEN installers[i].backup ELSE destination

(* Renaming fails when a package is there again, or for the file system's  *)
(* reasons.  The backup of a successful installation is removed last.      *)
move_in(i) ==
    /\ installers[i].pc = "moving"
    /\ \/ /\ destination = NoPackage
          /\ destination' = installers[i].archive /\ once' = TRUE
       \/ destination' = restored(i) /\ UNCHANGED once
    /\ installers' = [installers EXCEPT ![i] = NoInstall]
    /\ UNCHANGED <<spoiled, installs>>

(* remove: a removal that fails halfway leaves some of the files, the      *)
(* manifest perhaps among them.                                            *)
remove ==
    /\ destination # NoPackage /\ Installing
    /\ destination' \in {NoPackage, Damaged}
    /\ spoiled' = spoiled \cup {"removed"}
    /\ UNCHANGED <<installers, once>>

killed_installing ==
    /\ Installing /\ \E i \in Installers : installers[i].pc # "idle"
    /\ spoiled' = IF \E i \in Installers : installers[i].pc = "moving" THEN spoiled \cup {"killed"} ELSE spoiled
    /\ installers' = [i \in Installers |-> NoInstall]
    /\ UNCHANGED <<destination, once>>

-----------------------------------------------------------------------------
ImportInit ==
    /\ source \in {"disk", "drive"} /\ file \in Contents /\ jobs = [job \in JobIds |-> "free"]
    /\ imports = [i \in Imports |-> NotImporting] /\ children = [i \in Imports |-> NoText]
    /\ target = NoText /\ document = NothingStored /\ met = {} /\ incidents = 0

PackageInit ==
    /\ destination = NoPackage /\ installers = [i \in Installers |-> NoInstall]
    /\ spoiled = {} /\ once = FALSE /\ installs = 0

FromDisk(i) ==
    \/ \E job \in JobIds : import_rejected(i, job)
    \/ \E job \in JobIds, kind \in ImportKinds : import_local_knowledge_document(i, job, kind)
    \/ read_text(i) \/ read_hash(i) \/ run_parser(i) \/ child_reads(i) \/ child_exits(i)
    \/ parsing_stops(i) \/ last_check(i) \/ store(i)

Drive(i) ==
    \/ import_storage_knowledge_document(i) \/ set_aside(i) \/ install(i)
    \/ store_installed(i) \/ rollback_managed_file(i)

Shared ==
    \/ \E job \in JobIds : cancel(job)
    \/ \E content \in Contents : change_file(content)

\* Imports either of the file on disk or of the one in the drive.
ImportNext ==
    /\ UNCHANGED source
    /\ \/ Shared
       \/ source = "disk" /\ \E i \in Imports : FromDisk(i)
       \/ source = "drive" /\ (restart \/ \E i \in Imports : Drive(i))

ImportSpec == ImportInit /\ [][ImportNext]_importVars

\* Installations.
PackageNext ==
    \/ \E i \in Installers :
          move_aside(i) \/ move_in(i) \/ \E archive \in Archives : install_archive(i, archive)
    \/ remove \/ killed_installing

PackageSpec == PackageInit /\ [][PackageNext]_packageVars

(***************************************************************************)
(* Properties.                                                             *)
(***************************************************************************)

\* The state has its type.
ImportTypeOK ==
    /\ file \in Contents /\ \A job \in JobIds : jobs[job] \in {"free", "live", "cancelled"}
    /\ \A i \in Imports :
          imports[i].pc \in {"idle", "reading", "spawning", "parsing", "read", "storing",
                             "installing", "installed", "unsettled"}

PackageTypeOK ==
    destination \in Archives \cup {NoPackage, Damaged} /\ spoiled \subseteq {"removed", "killed"}

\* A running import of a local file can be cancelled by its id, and by its id
\* alone: no other import, refused or ended, takes the entry from it or shares
\* it.
JobsReachTheirImport ==
    \A job \in JobIds :
        (jobs[job] # "free") <=> Cardinality({i \in Imports : imports[i].job = job}) = 1

\* What is stored under a hash is the text of the bytes with that hash, even
\* when the file changes between the hash, the parser's read and the end.
TextMatchesHash == document.text = document.hash

\* DOCUMENT_PARSING.md, "import": cancelling or a timeout ends the real parsing
\* process.
NoParserLeft == \A i \in Imports : children[i] # NoText => ImportAt(i, "parsing")

\* When no import is under way the managed copy is the file that the document
\* was made from, whatever failed, unless two imports met at the copy or the
\* application was killed between its steps.
CopyMatchesDocument ==
    source = "drive" /\ met = {} /\ InTarget = {} => target = document.text

\* Only a verified archive is ever in place, and once there is one, neither a
\* failed installation nor two at the same time leave the device without; only a
\* removal does, or being killed between the two renames.
PackageKept ==
    /\ destination \notin Archives \ Valid
    /\ once /\ spoiled = {} /\ (\A i \in Installers : installers[i].pc # "moving") => destination \in Valid

ImportSafe == ImportTypeOK /\ JobsReachTheirImport /\ TextMatchesHash /\ NoParserLeft /\ CopyMatchesDocument
PackageSafe == PackageTypeOK /\ PackageKept

\* Texts are cut into chunks without a loss, versions, packages and searches of
\* the knowledge base agree, imports store what they have hashed, and files in
\* place are whole.
KnowledgeSafe == ChunksSafe /\ IndexSafe /\ ImportSafe /\ PackageSafe
=============================================================================
