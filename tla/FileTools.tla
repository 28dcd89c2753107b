------------------------------ MODULE FileTools ------------------------------
(***************************************************************************)
(* The tools that change files: apply_patch, file_edit and file_write      *)
(* (tools/builtin), executed by tools/executor.rs for agents that may      *)
(* share a workspace, while the user changes the files as well.            *)
(*                                                                         *)
(* A file is its identity (the text no tool quotes) and the version of the *)
(* text the tools quote and replace.  A write that was begun completes     *)
(* even when its call is cancelled (tokio::fs runs it on another thread).  *)
(***************************************************************************)
EXTENDS Naturals, Sequences, SequencesExt, FiniteSets, FiniteSetsExt, TLC

CONSTANTS Calls,      \* tool calls in flight, numbered
          Paths,      \* numbered
          MaxActions, \* bound: actions of all patches, edits and writes
          MaxFaults   \* bound: user's edits, failed writes, cancellations, crashes

VARIABLES disk,       \* path -> file
          calls,      \* call -> what it does and has read
          late,       \* writes of cancelled calls that are still under way
          meant,      \* call -> the files its patch means
          raced,      \* calls whose files others have changed in the meantime
          given_up,   \* identities that somebody meant to remove
          started, faults

vars == <<disk, calls, late, meant, raced, given_up, started, faults>>

Absent == [id |-> 0, v |-> 0]
File(id, v) == [id |-> id, v |-> v]
Idle == [step |-> "idle", paths |-> {}, patch |-> <<>>, new |-> 0, files |-> <<>>, order |-> <<>>, todo |-> <<>>]
Torn == File(0, 2)
Refused == [p \in Paths |-> File(0, 1)]

Ids(files) == {files[p].id : p \in DOMAIN files} \ {0}

Init ==
    /\ \E there \in SUBSET Paths : disk = [p \in Paths |-> IF p \in there THEN File(p, 0) ELSE Absent]
    /\ calls = [c \in Calls |-> Idle] /\ late = {} /\ meant = [c \in Calls |-> Refused]
    /\ raced = {} /\ given_up = Paths \ Ids(disk) /\ started = 0 /\ faults = 0

Fail == faults < MaxFaults /\ faults' = faults + 1

\* A file changes, maybe under calls that use it too.
Change(p, file, by, lost) ==
    LET met == {c \in Calls \ {by} : p \in calls[c].paths}
    IN /\ disk' = [disk EXCEPT ![p] = file]
       /\ raced' = raced \cup met
       /\ given_up' = given_up \cup lost \cup (IF met = {} THEN {} ELSE Ids(disk))

Actions ==
    [kind : {"add", "delete"}, path : Paths, to : {0}]
      \cup [kind : {"update"}, path : Paths, to : Paths \cup {0}]

-----------------------------------------------------------------------------
(* What a patch means: its actions one after the other, on the files.      *)

Applies(action, files) ==
    CASE action.kind = "add" -> files[action.path] = Absent
      [] action.kind = "delete" -> files[action.path] # Absent
      [] action.kind = "update" ->
           /\ files[action.path] # Absent
           /\ IF action.to = 0 THEN files[action.path].v = 0
              ELSE action.to # action.path /\ files[action.to] = Absent

Applied(action, files, new) ==
    CASE action.kind = "add" -> [files EXCEPT ![action.path] = File(new, 0)]
      [] action.kind = "delete" -> [files EXCEPT ![action.path] = Absent]
      [] action.kind = "update" /\ action.to = 0 -> [files EXCEPT ![action.path].v = 1]
      [] OTHER -> [files EXCEPT ![action.path] = Absent, ![action.to] = files[action.path]]

Meant(patch, new) ==
    LET after[i \in 0 .. Len(patch)] ==
          IF i = 0 THEN disk
          ELSE LET files == after[i - 1]
               IN IF files # Refused /\ Applies(patch[i], files) THEN Applied(patch[i], files, new) ELSE Refused
    IN after[Len(patch)]

\* A new file takes the place of one that the same patch moves away.
Replaced(patch) ==
    {disk[p].id : p \in {q \in Paths : \E i, j \in DOMAIN patch :
                           patch[i].kind = "update" /\ patch[i].path = q /\ patch[i].to # 0
                           /\ j > i /\ (patch[j].to = q \/ (patch[j].kind = "add" /\ patch[j].path = q))}}

-----------------------------------------------------------------------------
(* execute_with_permission_mode and the tools.                             *)

New == 100 + started

start(c, call, files, lost) ==
    /\ calls[c] = Idle /\ c = Min({d \in Calls : calls[d] = Idle})
    /\ started' = started + Max({1, Len(call.patch)}) /\ started' <= MaxActions
    /\ calls' = [calls EXCEPT ![c] = call]
    /\ meant' = [meant EXCEPT ![c] = files]
    /\ given_up' = given_up \cup lost
    /\ raced' = raced \ {c}
    /\ UNCHANGED <<disk, late, faults>>

PathsOf(patch) == {patch[i].path : i \in DOMAIN patch} \cup ({patch[i].to : i \in DOMAIN patch} \ {0})

apply_patch(c) ==
    \E n \in 1 .. MaxActions - started : \E patch \in [1 .. n -> Actions] :
      LET files == Meant(patch, New)
      IN start(c,
               [Idle EXCEPT !.step = "plan", !.paths = PathsOf(patch), !.patch = patch, !.new = New], files,
               IF files = Refused THEN {}
               ELSE (Ids(disk) \ Ids(files)) \cup Replaced(patch)
                      \cup {disk[patch[i].path].id : i \in {j \in DOMAIN patch : patch[j].kind = "delete"}})

\* Reads the file, wants the old text there once, writes: an update of one file.
file_edit(c, p) ==
    LET patch == <<[kind |-> "update", path |-> p, to |-> 0]>>
    IN start(c, [Idle EXCEPT !.step = "plan", !.paths = {p}, !.patch = patch, !.new = New],
             Meant(patch, New), {})

\* The whole file, whatever is there.
file_write(c, p) ==
    start(c, [Idle EXCEPT !.step = "write", !.paths = {p}, !.todo = <<<<p, File(New, 0)>>>>],
          [disk EXCEPT ![p] = File(New, 0)], {disk[p].id})

load_virtual_file(files, p) ==
    IF p \in DOMAIN files \cup {0} THEN files ELSE files @@ (p :> [was |-> disk[p], is |-> disk[p]])

\* What has changed, all writes before all deletions.
changes(files, order) ==
    LET changed == SelectSeq(order, LAMBDA p : files[p].was # files[p].is)
        paths == SelectSeq(changed, LAMBDA p : files[p].is # Absent)
                   \o SelectSeq(changed, LAMBDA p : files[p].is = Absent)
    IN [i \in DOMAIN paths |-> <<paths[i], files[paths[i]].is>>]

\* One action of the patch: its files are read, the first time they are named,
\* and changed in memory.
plan(c) ==
    LET call == calls[c]
        action == Head(call.patch)
        loaded == load_virtual_file(load_virtual_file(call.files, action.path), action.to)
        now == [p \in DOMAIN loaded |-> loaded[p].is]
        files == [p \in DOMAIN loaded |-> [loaded[p] EXCEPT !.is = Applied(action, now, call.new)[p]]]
        order == call.order \o SelectSeq(<<action.path, action.to>>, LAMBDA p : p \in DOMAIN loaded \ DOMAIN call.files)
    IN /\ call.step = "plan"
       /\ calls' = [calls EXCEPT ![c] =
            IF action.path = action.to \/ ~Applies(action, now) THEN [call EXCEPT !.step = "refused"]
            ELSE IF Len(call.patch) > 1
              THEN [call EXCEPT !.patch = Tail(@), !.files = files, !.order = order]
            ELSE [Idle EXCEPT !.step = "write", !.paths = call.paths, !.todo = changes(files, order)]]
       /\ UNCHANGED <<disk, late, meant, raced, given_up, started, faults>>

\* One write or deletion; a write that fails may have emptied the file, and the
\* rest is not done.
write(c) ==
    LET p == Head(calls[c].todo)[1]
        file == Head(calls[c].todo)[2]
        failed == calls' = [calls EXCEPT ![c].step = "failed"]
    IN /\ calls[c].step = "write" /\ calls[c].todo # <<>>
       /\ \/ /\ file # Absent \/ disk[p] # Absent
             /\ Change(p, file, c, {}) /\ calls' = [calls EXCEPT ![c].todo = Tail(@)] /\ UNCHANGED faults
          \/ file = Absent /\ disk[p] = Absent /\ failed /\ UNCHANGED <<disk, raced, given_up, faults>>
          \/ Fail /\ failed /\ UNCHANGED <<disk, raced, given_up>>
          \/ Fail /\ failed /\ file # Absent /\ Change(p, Torn, c, {disk[p].id})
       /\ UNCHANGED <<late, meant, started>>

complete(c) ==
    /\ calls[c].step = "write" /\ calls[c].todo = <<>>
    /\ calls' = [calls EXCEPT ![c].step = "done"]
    /\ UNCHANGED <<disk, late, meant, raced, given_up, started, faults>>

return(c) ==
    /\ calls[c].step \in {"done", "refused", "failed"}
    /\ calls' = [calls EXCEPT ![c] = Idle] /\ meant' = [meant EXCEPT ![c] = Refused] /\ raced' = raced \ {c}
    /\ UNCHANGED <<disk, late, given_up, started, faults>>

\* Stop drops the call at any await.
cancel(c) ==
    /\ calls[c].step \in {"plan", "write"} /\ Fail
    /\ calls' = [calls EXCEPT ![c] = Idle]
    /\ \/ UNCHANGED late
       \/ calls[c].todo # <<>> /\ late' = late \cup {Head(calls[c].todo)}
    /\ UNCHANGED <<disk, meant, raced, given_up, started>>

late_write(w) ==
    /\ w \in late /\ late' = late \ {w}
    /\ Change(w[1], w[2], 0, IF w[2] = Absent THEN {} ELSE {disk[w[1]].id} \ {w[2].id})
    /\ UNCHANGED <<calls, meant, started, faults>>

crash ==
    /\ Fail /\ calls' = [c \in Calls |-> Idle] /\ late' = {}
    /\ \/ UNCHANGED <<disk, given_up>>
       \/ \E c \in Calls : /\ calls[c].step = "write" /\ calls[c].todo # <<>>
                            /\ Head(calls[c].todo)[2] # Absent
                            /\ disk' = [disk EXCEPT ![Head(calls[c].todo)[1]] = Torn]
                            /\ given_up' = given_up \cup {disk[Head(calls[c].todo)[1]].id}
    /\ raced' = {}
    /\ UNCHANGED <<meant, started>>

\* The user saves a file in an editor or removes it.
user(p) ==
    /\ Fail /\ disk[p] # Absent
    /\ \E file \in {Absent, File(200 + faults, 0), File(200 + faults, 1)} : Change(p, file, 0, {disk[p].id})
    /\ UNCHANGED <<calls, late, meant, started>>

Next ==
    \/ \E c \in Calls :
         \/ apply_patch(c) \/ plan(c) \/ write(c) \/ complete(c) \/ return(c) \/ cancel(c)
         \/ \E p \in Paths : file_edit(c, p) \/ file_write(c, p)
    \/ \E w \in late : late_write(w)
    \/ crash
    \/ \E p \in Paths : user(p)

Spec == Init /\ [][Next]_vars

-----------------------------------------------------------------------------
TypeOK ==
    /\ \A p \in Paths : disk[p].v \in 0 .. 2
    /\ \A c \in Calls : calls[c].step \in {"idle", "plan", "write", "done", "refused", "failed"}

\* A call that succeeds has done exactly what its actions mean one after the
\* other, and one is refused only when they cannot be done: then it has changed
\* nothing.  Calls and a user that change the same file in the meantime may
\* undo each other.
DoneAsMeant ==
    \A c \in Calls \ raced :
      /\ calls[c].step = "done" => \A p \in calls[c].paths : disk[p] = meant[c][p]
      /\ calls[c].step = "refused" => meant[c] = Refused

\* A file disappears only when somebody means to remove or replace it, or when
\* its own write is interrupted: a moved file is there under one of its names at
\* every moment, wherever the call fails, is cancelled, or the application ends.
NothingLost ==
    Paths \subseteq Ids(disk) \cup given_up

FilesSafe == DoneAsMeant /\ NothingLost
=============================================================================
