---------------------------- MODULE MCServices -----------------------------
(***************************************************************************)
(* The storage service and the planner for TLC: accounts, one transfer,    *)
(* a folder download, recurring tasks, a calendar event, reminders and the *)
(* notifications of approvals.  The parts touch different tables and       *)
(* files, so each is explored by itself while the others stay as they are. *)
(***************************************************************************)
EXTENDS StorageTransfers, StorageAccounts, FolderDownload, TaskSeries, Calendar, Reminders

CONSTANTS Parts

VARIABLE part

ASSUME TransferBounds == BoundsAssumption
ASSUME AccountBounds == AccountsAssumption

\* Every day, three times.
Daily == {[every |-> 1, count |-> 3]}

\* Ids that agree in their first characters.
SameSuffix == [i \in Remote |-> "id"]

plannerVars == <<seriesVars, eventVars, reminderVars>>
storageVars == <<accountVars, vars, folderVars>>

OneEvent == master = [start |-> 0, len |-> 1, every |-> 0, live |-> TRUE, version |-> 1]

SomeFile == [kind |-> "download", stable |-> TRUE, range |-> TRUE, total |-> 0, revision |-> 0,
             old |-> FALSE, len |-> [v \in 1 .. MaxVersion |-> 0]]

ServicesInit ==
    /\ part \in Parts
    /\ part # "event" => OneEvent
    /\ part # "alarm" => focused = FALSE /\ items = [i \in Items |-> [at |-> 0, open |-> TRUE]]
    /\ part # "accounts" => provider = "quark_drive"
    /\ part # "transfers" => file = SomeFile
    /\ part # "folder" => children = [f \in Folders |-> {}] /\ existing = {}
    /\ SeriesInit /\ EventInit /\ RemindersInit
    /\ AccountsInit /\ Init /\ FolderInit

PlannerNext ==
    \/ part = "tasks" /\ SeriesNext /\ UNCHANGED <<eventVars, reminderVars>>
    \/ part = "event" /\ EventNext /\ UNCHANGED <<seriesVars, reminderVars>>
    \/ part = "alarm" /\ RemindersNext /\ UNCHANGED <<approval, seriesVars, eventVars>>
    \/ part = "approval" /\ RemindersNext /\ UNCHANGED <<items, scan, seriesVars, eventVars>>

StorageNext ==
    \/ part = "accounts" /\ AccountsNext /\ UNCHANGED <<vars, folderVars>>
    \/ part = "transfers" /\ Next /\ UNCHANGED <<accountVars, folderVars>>
    \/ part = "folder" /\ FolderNext /\ UNCHANGED <<accountVars, vars>>

ServicesNext ==
    /\ UNCHANGED part
    /\ \/ PlannerNext /\ UNCHANGED storageVars
       \/ StorageNext /\ UNCHANGED plannerVars

ServicesSpec == ServicesInit /\ [][ServicesNext]_<<part, plannerVars, storageVars>>
=============================================================================
