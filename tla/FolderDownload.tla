--------------------------- MODULE FolderDownload ---------------------------
(***************************************************************************)
(* download_folder of storage/service.rs: a breadth-first walk over the    *)
(* remote folders that mirrors them in a local directory.  Remote folders  *)
(* form any graph (Google Drive items may have several parents), names may *)
(* repeat, and the remote ids may agree in the part used as a suffix.      *)
(***************************************************************************)
EXTENDS Naturals, Sequences, FiniteSets

CONSTANTS Folders, Files,     \* remote items
          Root,               \* the folder asked for
          Suffix,             \* the first alphanumeric characters of an id
          MAX_FOLDER_DEPTH, MAX_FOLDER_ITEMS

ASSUME FolderAssumption ==
    /\ Root \in Folders /\ Folders \cap Files = {}
    /\ MAX_FOLDER_DEPTH \in Nat /\ MAX_FOLDER_ITEMS \in Nat

VARIABLES children,    \* the remote folders' items; folders below the root may contain each other
          existing,    \* local paths that were there before
          queue,       \* folders to list: id, local directory, depth
          listing,     \* the entry being listed, and the items of it left
          visited,     \* ids listed
          planned,     \* paths handed out
          discovered,  \* items seen
          downloads,   \* downloads: item and path
          outcome      \* "running", "done" or "error"

folderVars == <<children, existing, queue, listing, visited, planned, discovered, downloads, outcome>>

Remote == Folders \cup Files

\* All items have the same name; a path is the directory followed by the marker
\* that tells the name from others: 0 for the bare name, else id suffix and ordinal.
Bare == <<"", 0>>

None == [id |-> Root, dir |-> <<>>, depth |-> 0, left |-> {}]

\* mutant: paths handed out before are not remembered
available_child_path_Unplanned(dir, item) ==
    IF Append(dir, Bare) \notin existing THEN Append(dir, Bare)
    ELSE Append(dir, <<Suffix[item], 1>>)

\* available_child_path: the bare name, or the first free ordinal behind the id.
available_child_path(dir, item) ==
    IF Append(dir, Bare) \notin existing \cup planned THEN Append(dir, Bare)
    ELSE LET free == {k \in 1 .. MAX_FOLDER_ITEMS + 2 :
                        Append(dir, <<Suffix[item], k>>) \notin existing \cup planned}
         IN Append(dir, <<Suffix[item], CHOOSE k \in free : \A l \in free : k <= l>>)

FolderInit ==
    /\ children \in [Folders -> SUBSET (Remote \ {Root})]
    /\ existing \in {{}, {<<Bare>>}}
    /\ planned = {}
    /\ queue = <<>>
    /\ listing = None
    /\ visited = {}
    /\ discovered = 0
    /\ downloads = {}
    /\ outcome = "start"

\* The directory of the root is created and the root queued.
download_folder ==
    /\ outcome = "start"
    /\ LET path == available_child_path(<<>>, Root)
       IN /\ planned' = {path}
          /\ queue' = <<[id |-> Root, dir |-> path, depth |-> 0, left |-> {}]>>
    /\ outcome' = "running"
    /\ UNCHANGED <<children, existing, listing, visited, discovered, downloads>>

\* The next folder of the queue, skipped when it was listed before.
next_folder ==
    /\ outcome = "running"
    /\ listing.left = {}
    /\ queue # <<>>
    /\ LET q == Head(queue) IN
       IF q.depth > MAX_FOLDER_DEPTH
       THEN outcome' = "error" /\ UNCHANGED <<listing, visited>>
       ELSE /\ visited' = visited \cup {q.id}
            /\ listing' = IF q.id \in visited THEN listing ELSE [q EXCEPT !.left = children[q.id]]
            /\ UNCHANGED outcome
    /\ queue' = Tail(queue)
    /\ UNCHANGED <<children, existing, planned, discovered, downloads>>

\* One item of a page, in the order the provider lists them: folders are queued,
\* downloadable files downloaded; an error ends the walk.
next_item ==
    /\ outcome = "running"
    /\ \E item \in listing.left :
        /\ discovered' = discovered + 1
        /\ listing' = [listing EXCEPT !.left = @ \ {item}]
        /\ LET path == available_child_path(listing.dir, item) IN
           IF discovered + 1 > MAX_FOLDER_ITEMS
           THEN outcome' = "error" /\ UNCHANGED <<planned, queue, downloads>>
           ELSE /\ planned' = planned \cup {path}
                /\ IF item \in Folders
                   THEN /\ queue' = Append(queue, [id |-> item, dir |-> path,
                                                   depth |-> listing.depth + 1, left |-> {}])
                        /\ UNCHANGED <<downloads, outcome>>
                   ELSE /\ UNCHANGED queue
                        /\ \/ downloads' = downloads \cup {[item |-> item, parent |-> listing.id, path |-> path]}
                              /\ UNCHANGED outcome
                           \/ outcome' = "error" /\ UNCHANGED downloads
    /\ UNCHANGED <<children, existing, visited>>

finish_folder ==
    /\ outcome = "running"
    /\ listing.left = {}
    /\ queue = <<>>
    /\ outcome' = "done"
    /\ UNCHANGED <<children, existing, queue, listing, visited, planned, discovered, downloads>>

FolderNext == download_folder \/ next_folder \/ next_item \/ finish_folder

FolderSpec == FolderInit /\ [][FolderNext]_folderVars

-----------------------------------------------------------------------------
\* No download writes over another one or over a file that was there before,
\* whatever names and ids the remote items have.
NothingOverwritten ==
    /\ \A s, t \in downloads : s.path = t.path => s = t
    /\ \A s \in downloads : s.path \notin existing

\* The reference: the folders that can be reached from the root, those in every
\* set that has the root and with a folder the folders in it.
Closed(S) == Root \in S /\ \A f \in S : children[f] \cap Folders \subseteq S
Reached == {f \in Folders : \A S \in SUBSET Folders : Closed(S) => f \in S}

Wanted == UNION {{f} \X (children[f] \cap Files) : f \in Reached}
Downloaded == {<<s.parent, s.item>> : s \in downloads}

\* A walk that reports success has downloaded every file of every folder below
\* the root, and each folder's files once.
EveryFileOnce == outcome = "done" => Downloaded = Wanted /\ Cardinality(downloads) = Cardinality(Downloaded)

\* Folder downloads overwrite nothing and are complete, without duplicates.
FoldersSafe == NothingOverwritten /\ EveryFileOnce
=============================================================================
