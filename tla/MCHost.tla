------------------------------- MODULE MCHost -------------------------------
(***************************************************************************)
(* Parts of the application around the conversation, for TLC: the keys of  *)
(* synchronization, the settings of model providers and of web search, the *)
(* tools (the hunks of a patch, the tools that change files, terminals),   *)
(* and the start of the database.  They share no state, so each is         *)
(* explored by itself.                                                     *)
(***************************************************************************)
EXTENDS SyncKeys

CONSTANTS Parts,
          Slots, ModelProviders, Models, MaxSaves, MaxSearches,
          Texts, MaxLines, MaxHunks,
          Calls, Paths, MaxActions,
          Owners, Shells, MAX_TERMINAL_SESSIONS, MaxOutput, MaxRuns,
          Messages, Ages, MaxStarts

VARIABLES part,
          rows, keys, legacy, roles, started, slots, chat, mixed, spoiled, saves, failed,
          settings, key, savers, search, troubles, searches,
          original, sloppy, hunks, content, from, next, outcome,
          disk, calls, late, meant, crossed, given_up, begun, upsets,
          terms, terminals, tasks, turn, ending, connected, told, swallowed, opened,
          age, columns, linked, root, agents, provider, docs, folder, memory, change,
          statement, added, starts, cut

\* Two devices of which the second is paired by the first: the constants of the
\* configuration.  In the other part both have credentials of their own, the first
\* synchronizes, and no pairing is begun.
Keys      == INSTANCE SyncKeys WITH Configured <- Dev, Running <- {"a"}, MaxOps <- MaxOps - 2
ModelKeys == INSTANCE ProviderSettings WITH Providers <- ModelProviders, at <- slots,
                                            causes <- spoiled, faults <- failed
Search    == INSTANCE SearchSettings WITH Savers <- Slots, at <- savers, causes <- troubles
Hunks     == INSTANCE PatchHunks
FileCalls == INSTANCE FileTools WITH raced <- crossed, started <- begun, faults <- upsets
Terminal  == INSTANCE Terminals WITH sessions <- terminals, run <- turn, late <- opened
Startup   == INSTANCE Migrations WITH at <- statement

modelVars == <<rows, keys, legacy, roles, started, slots, chat, mixed, spoiled, failed>>
searchVars == <<settings, key, savers, search, troubles, searches>>
settingVars == <<modelVars, searchVars, saves>>
hunkVars == <<original, sloppy, hunks, content, from, next, outcome>>
fileVars == <<disk, calls, late, meant, crossed, given_up, begun, upsets>>
terminalVars == <<terms, terminals, tasks, turn, ending, connected, told, swallowed, opened>>
toolVars == <<hunkVars, fileVars, terminalVars>>
startVars == <<age, columns, linked, root, agents, provider, docs, folder, memory, change,
               statement, added, starts, cut>>
hostVars == <<vars, settingVars, toolVars, startVars>>

OneLine == [lines |-> <<Hunks!Line(CHOOSE t \in Texts : TRUE, "")>>, nl |-> TRUE]
OneHunk == [first |-> 1, before |-> 0, removed |-> 1, after |-> 0, new |-> 1, anchor |-> "none", eof |-> FALSE]

\* Every upgrade by itself, none, all, and all of a database that synchronizes;
\* and a new database.
Upgrades == {"thinking", "model", "tree", "selected_root_id", "deleted_at", "tasks",
             "folder", "memory", "documents", "transfers", "source_payload"}
MCAges == {{u} : u \in Upgrades} \cup {{}, Upgrades, Upgrades \ {"deleted_at"}, {"agents"}}

HostInit ==
    /\ part \in Parts
    /\ part \notin {"pairing", "keys"} => confirmed = [d \in Dev |-> 0]
    /\ part # "models" => rows = [p \in ModelProviders |-> ModelKeys!NoRow]
    /\ part # "hunks" => sloppy = FALSE /\ original = OneLine /\ hunks = <<OneHunk>>
    /\ part # "files" => disk = [p \in Paths |-> FileCalls!Absent]
    /\ part # "start" => age = {}
    /\ IF part = "pairing" THEN Init ELSE Keys!Init
    /\ ModelKeys!Init /\ Search!Init
    /\ Hunks!Init /\ FileCalls!Init /\ Terminal!Init /\ Startup!Init

HostNext ==
    /\ UNCHANGED part
    /\ \/ part = "pairing" /\ Next /\ UNCHANGED <<settingVars, toolVars, startVars>>
       \/ part = "keys" /\ Keys!Next /\ sessions' = sessions /\ UNCHANGED <<settingVars, toolVars, startVars>>
       \/ part = "models" /\ ModelKeys!Next /\ UNCHANGED <<vars, searchVars, toolVars, startVars>>
       \/ part = "search" /\ Search!Next /\ UNCHANGED <<vars, modelVars, toolVars, startVars>>
       \/ part = "hunks" /\ Hunks!Next /\ UNCHANGED <<vars, settingVars, fileVars, terminalVars, startVars>>
       \/ part = "files" /\ FileCalls!Next /\ UNCHANGED <<vars, settingVars, hunkVars, terminalVars, startVars>>
       \/ part = "terminals" /\ Terminal!Next /\ UNCHANGED <<vars, settingVars, hunkVars, fileVars, startVars>>
       \/ part = "start" /\ Startup!Next /\ UNCHANGED <<vars, settingVars, toolVars>>

HostSpec == HostInit /\ [][HostNext]_<<part, hostVars>>

\* Keys, rows and roles of model providers agree after every command, and so do
\* the chain and the key of web search; a patch changes what it was written for,
\* tools that change files do what they mean and lose nothing, and a terminal tells
\* its output once and leaves no process behind (see ProviderSettings,
\* SearchSettings, PatchHunks, FileTools and Terminals).
ToolsSafe ==
    /\ part = "models" => ModelKeys!TypeOK /\ ModelKeys!ProvidersSafe
    /\ part = "search" => Search!TypeOK /\ Search!SearchSafe
    /\ part = "hunks" => Hunks!TypeOK /\ Hunks!AppliedAsMeant
    /\ part = "files" => FileCalls!TypeOK /\ FileCalls!FilesSafe
    /\ part = "terminals" => Terminal!TypeOK /\ Terminal!TerminalsSafe

\* However starts of the application end, an upgrade loses nothing and completes,
\* but for the gaps named there (see Migrations).
StartupSafe == part = "start" => Startup!StartsSafe
=============================================================================
