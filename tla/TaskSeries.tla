----------------------------- MODULE TaskSeries -----------------------------
(***************************************************************************)
(* Tasks, their steps and the instances of recurring tasks                 *)
(* (db/repo/planner.rs), written by the user and by the planner tools of   *)
(* the agent (tools/builtin/planner.rs).  A repository call is one         *)
(* transaction of the database thread.  Days stand for dates and instants; *)
(* a rule repeats every so many days, a given number of times (RRULE       *)
(* INTERVAL and COUNT).                                                    *)
(***************************************************************************)
EXTENDS Naturals, Sequences, FiniteSets
LOCAL INSTANCE FiniteSetsExt

CONSTANTS Bases,       \* tasks created by the user or a tool
          MaxDay,      \* bound: last day
          MaxChain,    \* bound: instances generated after one another
          MaxWrites,   \* bound: versions of all tasks together
          Rules        \* recurrence rules, [every, count]

ASSUME SeriesAssumption ==
    /\ MaxDay \in Nat /\ MaxChain \in Nat
    /\ Rules \subseteq [every : Nat \ {0}, count : Nat \ {0}]

VARIABLES tasks,    \* rows of the table tasks
          queued,   \* version of each task that was enqueued for synchronisation last
          touched,  \* tasks the user changed since they were created or generated
          rewritten, \* instances that were generated anew over what the user had changed
          reopened, \* tasks that were reopened
          call      \* the planner tool call in flight

history == <<touched, rewritten, reopened>>
seriesVars == <<tasks, queued, history, call>>

Days == 0 .. MaxDay
NoDay == MaxDay + 1
NoRule == [every |-> 0, count |-> 0]

(* recurring_task_id: derived from the source task and the due date, so    *)
(* that every device derives the same.                                     *)
TaskIds == [base : Bases, path : UNION {[1 .. n -> Days] : n \in 0 .. MaxChain}]
recurring_task_id(source, due) == [source EXCEPT !.path = Append(@, due)]
Base(b) == [base |-> b, path |-> <<>>]
NoTask == [status |-> "none"]
NoId == [base |-> "none", path |-> <<>>]

Row(due, rule, anchor, source, parent) ==
    [status |-> "open", due |-> due, rule |-> rule, anchor |-> anchor,
     source |-> source, parent |-> parent, version |-> 1, deleted |-> FALSE]

Exists(id) == tasks[id] # NoTask
Alive(id) == Exists(id) /\ ~tasks[id].deleted
Open(id) == Alive(id) /\ tasks[id].status = "open"

(* build_recurrence_set *)
Occurrences(rule, anchor) == {anchor + rule.every * k : k \in 0 .. rule.count - 1} \cap Days

(* normalize_task_schedule: only a task with a due day recurs; the anchor  *)
(* is kept, or else is the due day.                                        *)
ValidSchedule(due, rule) == rule # NoRule => due \in Days
new_anchor(due, rule, kept) ==
    IF rule = NoRule THEN NoDay ELSE IF kept # NoDay THEN kept ELSE due

(* next_task_schedule: the first occurrence after the current due day. *)
next_due(task) ==
    LET later == {d \in Occurrences(task.rule, task.anchor) : d > task.due} IN
    IF task.rule = NoRule \/ later = {} THEN NoDay
    ELSE CHOOSE d \in later : \A e \in later : d <= e

NewVersion(row) == [row EXCEPT !.version = @ + 1]

(* The row as the transaction leaves it. *)
get_task_sync_source(id) == tasks'[id].version

(* enqueue_task, for all tasks the transaction changed. *)
enqueue_task(ids) ==
    queued' = [i \in TaskIds |-> IF i \in ids THEN get_task_sync_source(i) ELSE queued[i]]

create_task(id, due, rule, parent) ==
    /\ ~Exists(id) /\ ValidSchedule(due, rule)
    /\ parent # NoId => Exists(parent)
    /\ tasks' = [tasks EXCEPT ![id] = Row(due, rule, new_anchor(due, rule, NoDay), NoId, parent)]
    /\ enqueue_task({id}) /\ UNCHANGED history

(* The instance that follows a completed one: inserted, or written over    *)
(* the row that an earlier completion left behind.                         *)
successor_row(id, due) ==
    LET source == tasks[id]
        old == tasks[recurring_task_id(id, due)] IN
    [Row(due, source.rule, source.anchor, id, source.parent)
        EXCEPT !.version = IF old = NoTask THEN 1 ELSE old.version + 1]

complete(id) ==
    LET due == next_due(tasks[id])
        next == recurring_task_id(id, due)
        done == [tasks EXCEPT ![id].status = "completed", ![id].version = @ + 1] IN
    /\ Open(id)
    /\ IF due = NoDay
       THEN /\ tasks' = done /\ enqueue_task({id})
            /\ touched' = touched \cup {id} /\ UNCHANGED rewritten
       ELSE /\ next \in TaskIds
            /\ tasks' = [done EXCEPT ![next] = successor_row(id, due)]
            /\ enqueue_task({id, next})
            /\ touched' = (touched \cup {id}) \ {next}
            /\ rewritten' = IF next \in touched THEN rewritten \cup {next} ELSE rewritten
    /\ UNCHANGED reopened

(* Instances that were generated and not changed since. *)
Untouched(id) == Open(id) /\ tasks[id].version = 1

reopen(id) ==
    LET undone == {i \in TaskIds : Untouched(i) /\ tasks[i].source = id} IN
    /\ Alive(id) /\ tasks[id].status = "completed"
    /\ tasks' = [i \in TaskIds |->
           IF i = id THEN [NewVersion(tasks[i]) EXCEPT !.status = "open"]
           ELSE IF i \in undone THEN [NewVersion(tasks[i]) EXCEPT !.deleted = TRUE] ELSE tasks[i]]
    /\ enqueue_task(undone \cup {id})
    /\ touched' = touched \cup {id} /\ reopened' = reopened \cup {id} /\ UNCHANGED rewritten

(* A request that matches the status succeeds and writes nothing. *)
AsRequested(id, completed) == Alive(id) /\ (tasks[id].status = "completed") = completed
complete_task(id, completed) ==
    \/ AsRequested(id, completed) /\ UNCHANGED <<tasks, queued, history>>
    \/ completed /\ complete(id)
    \/ ~completed /\ reopen(id)

\* mutant
anchor_after_Kept(id, due, rule, scheduled) == new_anchor(due, rule, tasks[id].anchor)

(* The anchor survives only an update that names no field of the schedule. *)
anchor_after(id, due, rule, scheduled) ==
    new_anchor(due, rule, IF scheduled THEN NoDay ELSE tasks[id].anchor)

update_task(id, due, rule, scheduled) ==
    /\ Alive(id) /\ ValidSchedule(due, rule)
    /\ scheduled \/ (due = tasks[id].due /\ rule = tasks[id].rule)
    /\ tasks' = [tasks EXCEPT ![id] = [NewVersion(@) EXCEPT
           !.due = due, !.rule = rule, !.anchor = anchor_after(id, due, rule, scheduled)]]
    /\ enqueue_task({id}) /\ touched' = touched \cup {id} /\ UNCHANGED <<rewritten, reopened>>

(* A task is deleted with its direct steps. *)
delete_task(id) ==
    LET gone == {i \in TaskIds : Alive(i) /\ (i = id \/ tasks[i].parent = id)} IN
    /\ gone # {}
    /\ tasks' = [i \in TaskIds |-> IF i \in gone THEN [NewVersion(tasks[i]) EXCEPT !.deleted = TRUE] ELSE tasks[i]]
    /\ enqueue_task(gone) /\ touched' = touched \ gone /\ UNCHANGED <<rewritten, reopened>>

(***************************************************************************)
(* The tools task_create, task_update and task_complete: the call is       *)
(* recorded as running, the repository is called, and the outcome is       *)
(* recorded.                                                               *)
(***************************************************************************)

\* wrote: the call has written; held: what it asked for is so when it is answered.
IdleCall == [pc |-> "idle", status |-> "none", wrote |-> FALSE, held |-> FALSE]

update_running ==
    /\ call.pc = "idle"
    /\ call' = [IdleCall EXCEPT !.pc = "running", !.status = "running"]
    /\ UNCHANGED <<tasks, queued, history>>

Answered(held) ==
    call' = [call EXCEPT !.pc = "answered", !.wrote = (tasks' # tasks), !.held = held]

task_create(id, due, rule) ==
    /\ call.pc = "running" /\ create_task(id, due, rule, NoId)
    /\ Answered(Open(id)')

task_update(id, due, rule, scheduled) ==
    /\ call.pc = "running" /\ update_task(id, due, rule, scheduled)
    /\ Answered(tasks'[id].due = due /\ tasks'[id].rule = rule)

task_complete(id, completed) ==
    /\ call.pc = "running" /\ complete_task(id, completed)
    /\ Answered(AsRequested(id, completed)')

(* fail: the policy, the arguments or the repository refused the call. *)
record_failure ==
    /\ call.pc = "running"
    /\ call' = [call EXCEPT !.pc = "over", !.status = "failed"]
    /\ UNCHANGED <<tasks, queued, history>>

(* complete, or an error of the database that leaves the call running. *)
update_complete ==
    /\ call.pc = "answered"
    /\ \/ call' = [call EXCEPT !.pc = "over", !.status = "done"]
       \/ call' = [call EXCEPT !.pc = "over"]
    /\ UNCHANGED <<tasks, queued, history>>

next_call == call.pc = "over" /\ call' = IdleCall /\ UNCHANGED <<tasks, queued, history>>

SeriesInit ==
    /\ tasks = [i \in TaskIds |-> NoTask]
    /\ queued = [i \in TaskIds |-> 0]
    /\ touched = {} /\ rewritten = {} /\ reopened = {}
    /\ call = IdleCall

written == MapThenSumSet(LAMBDA i : tasks[i].version, {i \in TaskIds : Exists(i)})
Editable == IF written < MaxWrites THEN {i \in TaskIds : Exists(i)} ELSE {}
Schedules == {s \in [due : Days \cup {NoDay}, rule : Rules \cup {NoRule}] : ValidSchedule(s.due, s.rule)}

UserNext ==
    \/ \E b \in Bases, s \in Schedules, p \in {NoId} \cup {Base(c) : c \in Bases} :
          create_task(Base(b), s.due, s.rule, p)
    \/ \E i \in Editable :
          \/ \E completed \in BOOLEAN : complete_task(i, completed)
          \/ \E s \in Schedules, scheduled \in BOOLEAN : update_task(i, s.due, s.rule, scheduled)
          \/ delete_task(i)

ToolNext ==
    \/ update_running \/ record_failure \/ update_complete \/ next_call
    \/ \E b \in Bases, s \in Schedules : task_create(Base(b), s.due, s.rule)
    \/ \E i \in Editable :
          \/ \E s \in Schedules, scheduled \in BOOLEAN : task_update(i, s.due, s.rule, scheduled)
          \/ \E completed \in BOOLEAN : task_complete(i, completed)

SeriesNext == (UserNext /\ UNCHANGED call) \/ ToolNext

SeriesSpec == SeriesInit /\ [][SeriesNext]_seriesVars

(***************************************************************************)
(* Properties.                                                             *)
(***************************************************************************)

\* The state has its type.
SeriesTypeOK ==
    /\ \A i \in TaskIds : Exists(i) =>
          /\ tasks[i].status \in {"open", "completed"}
          /\ tasks[i].due \in Days \cup {NoDay} /\ tasks[i].anchor \in Days \cup {NoDay}
          /\ tasks[i].version > 0 /\ tasks[i].source \in TaskIds \cup {NoId}
    /\ touched \subseteq TaskIds /\ rewritten \subseteq TaskIds /\ reopened \subseteq TaskIds

\* A recurring task is due on a day of its own rule, counted from its anchor,
\* however often the task, its rule or an earlier instance was changed: the
\* next instance is then never computed from a day the rule does not contain.
DueOnRule ==
    \A i \in TaskIds :
        Exists(i) /\ tasks[i].rule # NoRule
            => tasks[i].due \in Occurrences(tasks[i].rule, tasks[i].anchor)

\* No change of a task is kept from the other devices: the version enqueued
\* last is the version of the row, also for the tasks a command changes on
\* the side (instances, steps).
EveryChangeQueued == \A i \in TaskIds : Exists(i) => queued[i] = tasks[i].version

\* An instance the user has changed is removed by the user only; and what the user
\* changed in it is taken back only where a task it follows, at any distance, was
\* reopened: completing that one again generates what follows it anew.
Follows(i, s) ==
    i.base = s.base /\ Len(s.path) < Len(i.path) /\ s.path = SubSeq(i.path, 1, Len(s.path))
EditedInstancesKept ==
    /\ \A i \in touched : Alive(i)
    /\ \A i \in rewritten : \E s \in reopened : Follows(i, s)

\* A tool call recorded as failed has changed nothing; when one recorded as done was
\* answered, the tasks were as it had asked for, whether it had to write or not.
CallTruthful ==
    /\ call.status = "failed" => ~call.wrote
    /\ call.status = "done" => call.held

\* An open task has no open instance generated from it that nobody changed:
\* reopening removes it.
NoDuplicateInstance ==
    \A i \in TaskIds : Open(i) /\ i \notin touched /\ tasks[i].source # NoId => ~Open(tasks[i].source)

\* Recurring tasks stay on their rule, every change of a task is enqueued, what the
\* user changed in an instance goes by the user or by completing a reopened task
\* again, and the record of a tool call tells what is so.
TasksSafe ==
    SeriesTypeOK /\ DueOnRule /\ EveryChangeQueued /\ EditedInstancesKept /\ CallTruthful
=============================================================================
