----------------------------- MODULE Terminals ------------------------------
(***************************************************************************)
(* The terminals of the shell tools: tools/terminal.rs, and the tools      *)
(* shell, write_stdin and stop_terminal of tools/builtin/shell.rs.         *)
(*                                                                         *)
(* Conversations share one manager; each has a run that calls one tool at  *)
(* a time, and the runs of a conversation follow each other.  A terminal   *)
(* has the process that was started and maybe one more, in its process     *)
(* group or, by setsid, outside of it, whose output goes to the terminal   *)
(* or somewhere else.  Output is counted in units of the cap.              *)
(***************************************************************************)
EXTENDS Naturals, FiniteSets, FiniteSetsExt

CONSTANTS Owners,                \* conversations
          Shells,                \* terminals, in the order they are opened
          MAX_TERMINAL_SESSIONS,
          MaxOutput,             \* bound: output of all processes
          MaxRuns                \* bound: ends of runs

VARIABLES terms,      \* terminal -> its processes, its TerminalState, who owns it
          sessions,   \* the manager's terminals
          tasks,      \* conversation -> the tool call that is executed
          run,        \* conversation -> its run
          ending,     \* conversations whose run has been stopped, not yet its tasks
          connected,
          told,       \* terminal -> the units of output that an answer contained
          swallowed,  \* terminal -> those in an answer that was dropped
          late        \* terminals that were opened when their run had been stopped

vars == <<terms, sessions, tasks, run, ending, connected, told, swallowed, late>>

\* The other process: where its output goes to the terminal, which it then holds
\* open, and where it is in the process group.
Children == {"group", "quiet", "escaped", "detached"}
Holding == {"group", "escaped"}
Grouped == {"group", "quiet"}

Unused == [owner |-> "none", run |-> 0, leader |-> FALSE, child |-> "none", writer |-> FALSE,
           wrote |-> 0, total |-> 0, base |-> 0, delivered |-> 0, closed |-> FALSE, code |-> "none"]
Idle == [step |-> "idle"]

Init ==
    /\ terms = [t \in Shells |-> Unused] /\ sessions = {}
    /\ tasks = [o \in Owners |-> Idle] /\ run = [o \in Owners |-> 1] /\ ending = {}
    /\ connected = TRUE
    /\ told = [t \in Shells |-> {}] /\ swallowed = [t \in Shells |-> {}] /\ late = {}

finished(term) == term.code # "none" /\ term.closed

\* The process group is killed, and the process that was started.
stop(term) ==
    [term EXCEPT !.writer = FALSE, !.leader = FALSE, !.child = IF @ \in Grouped THEN "none" ELSE @]

take_incremental_output(term) ==
    [term |-> [term EXCEPT !.delivered = term.total],
     output |-> (IF term.delivered < term.base THEN term.base ELSE term.delivered) + 1 .. term.total]

-----------------------------------------------------------------------------
(* The processes, and the threads of a terminal.                           *)

Set(t, term) == /\ terms' = [terms EXCEPT ![t] = term]
                /\ UNCHANGED <<sessions, tasks, run, ending, connected, told, swallowed, late>>

print(t) ==
    /\ terms[t].leader \/ terms[t].child \in Holding
    /\ Cardinality({<<s, n>> \in Shells \X (1 .. MaxOutput) : n <= terms[s].wrote}) < MaxOutput
    /\ Set(t, [terms[t] EXCEPT !.wrote = @ + 1])

fork(t) ==
    /\ terms[t].leader /\ terms[t].child = "none" /\ terms[t].wrote = 0
    /\ \E where \in Children : Set(t, [terms[t] EXCEPT !.child = where])

exit(t) ==
    \/ terms[t].leader /\ Set(t, [terms[t] EXCEPT !.leader = FALSE])
    \/ terms[t].child # "none" /\ Set(t, [terms[t] EXCEPT !.child = "none"])

\* The reading thread; the cap is one unit.  It reads the end when nobody holds the
\* terminal open, whoever else is left.
append(t) ==
    /\ terms[t].total < terms[t].wrote
    /\ Set(t, [terms[t] EXCEPT !.total = @ + 1, !.base = terms[t].total])

close(t) ==
    /\ terms[t].owner # "none" /\ ~terms[t].closed
    /\ ~terms[t].leader /\ terms[t].child \notin Holding /\ terms[t].total = terms[t].wrote
    /\ Set(t, [terms[t] EXCEPT !.closed = TRUE])

\* The waiting thread: what the command has left in its group is killed.
wait(t) ==
    /\ terms[t].owner # "none" /\ ~terms[t].leader /\ terms[t].code = "none"
    /\ Set(t, [stop(terms[t]) EXCEPT !.writer = terms[t].writer, !.code = "exit"])

stop_after_timeout(t) ==
    /\ t \in sessions /\ terms[t].writer /\ ~finished(terms[t])
    /\ Set(t, stop(terms[t]))

-----------------------------------------------------------------------------
(* The tools.                                                              *)

Mine(o, t) == t \in sessions /\ terms[t].owner = o

\* remove_finished and the check of the limit; the command starts, and the
\* manager learns of it later.
spawn(o) ==
    LET left == {s \in sessions : ~finished(terms[s])}
        free == {s \in Shells : terms[s] = Unused}
        t == Min(free)
    IN /\ connected /\ tasks[o] = Idle
       /\ sessions' = left
       /\ IF Cardinality(left) >= MAX_TERMINAL_SESSIONS
          THEN UNCHANGED <<terms, tasks>>
          ELSE /\ free # {}
               /\ terms' = [terms EXCEPT ![t] = [Unused EXCEPT !.owner = o, !.run = run[o], !.leader = TRUE, !.writer = TRUE]]
               /\ tasks' = [tasks EXCEPT ![o] = [step |-> "spawned", t |-> t]]
       /\ UNCHANGED <<run, ending, connected, told, swallowed, late>>

insert(o) ==
    /\ tasks[o].step = "spawned"
    /\ sessions' = sessions \cup {tasks[o].t}
    /\ tasks' = [tasks EXCEPT ![o] = [step |-> "poll", t |-> tasks[o].t]]
    /\ late' = IF o \in ending THEN late \cup {tasks[o].t} ELSE late
    /\ UNCHANGED <<terms, run, ending, connected, told, swallowed>>

\* It refuses input when the terminal has been stopped.
write_stdin(o, t) ==
    /\ connected /\ tasks[o] = Idle /\ Mine(o, t)
    /\ tasks' = [tasks EXCEPT ![o] = [step |-> "poll", t |-> t]]
    /\ UNCHANGED <<terms, sessions, run, ending, connected, told, swallowed, late>>

\* The answer of TerminalManager::stop is not used: what it contains is lost.
stop_terminal(o, t) ==
    LET taken == take_incremental_output(stop(terms[t]))
    IN /\ connected /\ tasks[o] = Idle /\ Mine(o, t)
       /\ terms' = [terms EXCEPT ![t] = taken.term]
       /\ swallowed' = [swallowed EXCEPT ![t] = @ \cup taken.output]
       /\ tasks' = [tasks EXCEPT ![o] = [step |-> "poll", t |-> t]]
       /\ UNCHANGED <<sessions, run, ending, connected, told, late>>

\* The deadline, or the terminal has finished.
poll(o) ==
    LET t == tasks[o].t
        taken == take_incremental_output(terms[t])
    IN /\ tasks[o].step = "poll"
       /\ terms' = [terms EXCEPT ![t] = taken.term]
       /\ sessions' = IF finished(terms[t]) THEN sessions \ {t} ELSE sessions
       /\ tasks' = [tasks EXCEPT ![o] = [step |-> "answer", t |-> t, output |-> taken.output,
                                         running |-> ~finished(terms[t])]]
       /\ UNCHANGED <<run, ending, connected, told, swallowed, late>>

Answered(o) == [tasks EXCEPT ![o] = Idle]

\* The answer once the record of the call has been saved.
complete_tool_call(o) ==
    /\ tasks[o].step = "answer"
    /\ told' = [told EXCEPT ![tasks[o].t] = @ \cup tasks[o].output]
    /\ tasks' = IF tasks[o].running THEN Answered(o) ELSE [tasks EXCEPT ![o] = [step |-> "exited", t |-> tasks[o].t]]
    /\ UNCHANGED <<terms, sessions, run, ending, connected, swallowed, late>>

return(o) ==
    /\ tasks[o].step = "exited" /\ tasks' = Answered(o)
    /\ UNCHANGED <<terms, sessions, run, ending, connected, told, swallowed, late>>

-----------------------------------------------------------------------------
(* Ends of runs.                                                           *)

\* mutant
stop_run_Commands(o) ==
    terms' = [t \in Shells |-> IF Mine(o, t) /\ terms[t].run = run[o]
                               THEN [terms[t] EXCEPT !.leader = FALSE, !.writer = FALSE] ELSE terms[t]]

stop_run(o) ==
    terms' = [t \in Shells |-> IF Mine(o, t) /\ terms[t].run = run[o] THEN stop(terms[t]) ELSE terms[t]]

\* A call is dropped at an await, with the answer it may have.
Drop(owners) ==
    /\ tasks' = [o \in Owners |-> IF o \in owners THEN Idle ELSE tasks[o]]
    /\ swallowed' = [t \in Shells |-> swallowed[t] \cup
         UNION {tasks[o].output : o \in {p \in owners : tasks[p].step = "answer" /\ tasks[p].t = t}}]

\* Stop reaches the call that is executed.
cancel(o) ==
    /\ tasks[o].step \in {"poll", "answer"}
    /\ stop_run(o) /\ Drop({o})
    /\ UNCHANGED <<sessions, run, ending, connected, told, late>>

\* The end of the run: its terminals are stopped, then its tasks.
run_ends(o) ==
    /\ connected /\ o \notin ending /\ run[o] <= MaxRuns
    /\ stop_run(o) /\ ending' = ending \cup {o}
    /\ UNCHANGED <<sessions, tasks, run, connected, told, swallowed, late>>

\* A task that does not wait is not aborted before it does.
abort_run_tool_tasks(o) ==
    /\ o \in ending /\ tasks[o].step # "spawned"
    /\ Drop({o})
    /\ ending' = ending \ {o} /\ run' = [run EXCEPT ![o] = @ + 1]
    /\ UNCHANGED <<terms, sessions, connected, told, late>>

\* The connection ends: its tasks are aborted, then the manager is dropped.
disconnect ==
    /\ connected /\ connected' = FALSE
    /\ \A o \in Owners : tasks[o].step # "spawned"
    /\ Drop(Owners)
    /\ terms' = [t \in Shells |-> IF t \in sessions THEN stop(terms[t]) ELSE terms[t]]
    /\ sessions' = {}
    /\ UNCHANGED <<run, ending, told, late>>

Next ==
    \/ \E t \in Shells :
         \/ print(t) \/ fork(t) \/ exit(t) \/ append(t) \/ close(t) \/ wait(t) \/ stop_after_timeout(t)
         \/ \E o \in Owners : write_stdin(o, t) \/ stop_terminal(o, t)
    \/ \E o \in Owners :
         \/ spawn(o) \/ insert(o) \/ poll(o) \/ complete_tool_call(o) \/ return(o)
         \/ cancel(o) \/ run_ends(o) \/ abort_run_tool_tasks(o)
    \/ disconnect

Spec == Init /\ [][Next]_vars

-----------------------------------------------------------------------------
TypeOK ==
    /\ sessions \subseteq Shells /\ ending \subseteq Owners
    /\ \A t \in Shells : terms[t].delivered <= terms[t].total /\ terms[t].total <= terms[t].wrote

\* When a call answers that a terminal has exited, everything its processes
\* have printed was in an answer, but for what the cap has dropped (then the
\* answer says that it is truncated) and what was in an answer nobody received;
\* and no process of its group is left, nor one that can still print.  (One that has
\* left the group and prints elsewhere may be, whatever the tool's description says
\* of all descendants.)
ExitedIsTold ==
    \A o \in Owners : tasks[o].step = "exited" =>
      LET t == tasks[o].t IN
        /\ 1 .. terms[t].wrote \subseteq told[t] \cup swallowed[t] \cup (1 .. terms[t].base)
        /\ ~terms[t].leader /\ terms[t].child \in {"none", "detached"}

\* Whatever was printed is in one answer at most.
ToldOnce ==
    \A o \in Owners : tasks[o].step = "answer" =>
      tasks[o].output \cap (told[tasks[o].t] \cup swallowed[tasks[o].t]) = {}

\* When a run has ended no command of it is left, nor what it has started in its
\* process group, but in a terminal that was opened while the run was being stopped,
\* and that one the manager still has (a timeout, stop_terminal or the end of the
\* connection reaches it); and none at all is left when the connection has ended.
NoneLeft ==
    \A t \in Shells :
      (terms[t].leader \/ terms[t].child \in Grouped) =>
         connected /\ (terms[t].run = run[terms[t].owner] \/ t \in late \cap sessions)
NoneLeftBehind ==
    ~connected => \A t \in Shells : ~terms[t].leader /\ terms[t].child \notin Grouped

TerminalsSafe == ExitedIsTold /\ ToldOnce /\ NoneLeft /\ NoneLeftBehind
=============================================================================
