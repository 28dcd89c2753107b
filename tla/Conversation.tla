---------------------------- MODULE Conversation ----------------------------
(***************************************************************************)
(* The message tree of a session (db/repo/messages.rs, db/repo/sessions.rs,*)
(* the composed commands of db/actor.rs) and the commands that grow, edit, *)
(* switch and prune it (commands/mod.rs).  A command is several calls of   *)
(* the database thread with awaits between them, so commands, model runs   *)
(* and the sidecar's title interleave; a database call is one step.        *)
(* Messages are numbered in the order of their seq.                        *)
(***************************************************************************)
EXTENDS Naturals, FiniteSets
LOCAL INSTANCE FiniteSetsExt

CONSTANTS MaxMessages,  \* bound: messages of the session
          Requests,     \* bound: commands in flight at a time
          MaxCommands   \* bound: commands and restarts of the application

VARIABLES msgs,          \* messages with their parts
          session,       \* title, selected root, the messages its summary covers
          queued,        \* per message, the projection enqueued last
          queuedSession,
          reqs,          \* commands in flight
          runs,          \* runs by assistant message: what was sent to the sidecar
          causes,        \* excluded: "stale", a command acted on a tree others changed under it;
                         \* "moved", the path left messages that the summary may cover
          renamed,       \* has the user named the session?
          commands       \* how many commands and restarts there were

vars == <<msgs, session, queued, queuedSession, reqs, runs, causes, renamed, commands>>

Ids == 1 .. MaxMessages
None == 0
NoMessage == [role |-> "none", parent |-> None, selected |-> None, status |-> "none",
              parts |-> 0, deleted |-> FALSE]
NoRequest == [pc |-> "idle", kind |-> "none", msg |-> None, child |-> None,
              title |-> FALSE, summary |-> {}, raced |-> FALSE]
NoRun == [pc |-> "none", history |-> {}, summary |-> {}, title |-> "no"]
Unsent == [selected |-> None, parts |-> 0, deleted |-> FALSE]

Exists(m) == m \in Ids /\ msgs[m] # NoMessage
Live(m) == Exists(m) /\ ~msgs[m].deleted
Count == Cardinality({m \in Ids : Exists(m)})

(***************************************************************************)
(* Reading the tree.                                                       *)
(***************************************************************************)

Roots == {m \in Ids : Live(m) /\ msgs[m].parent = None}

StartOfPath ==
    IF Live(session.root) THEN session.root ELSE IF Roots = {} THEN None ELSE Max(Roots)

(* list_active_with_parts: from the root along the selected children.      *)
ActivePath ==
    LET Reach[n \in 0 .. MaxMessages] ==
            IF n = 0 THEN {m \in {StartOfPath} : m # None}
            ELSE LET found == Reach[n-1] IN found \cup {c \in {msgs[m].selected : m \in found} : Live(c)}
    IN Reach[MaxMessages]

Leaf == IF ActivePath = {} THEN None ELSE Max(ActivePath)

Ancestors(m) ==
    LET Up[n \in 0 .. MaxMessages] ==
            IF n = 0 THEN {p \in {msgs[m].parent} : p # None}
            ELSE LET found == Up[n-1] IN found \cup {p \in {msgs[q].parent : q \in found} : p # None}
    IN Up[MaxMessages]

count_children(m) == Cardinality({c \in Ids : Live(c) /\ msgs[c].parent = m})

Siblings(m) == {s \in Ids : Live(s) /\ msgs[s].parent = msgs[m].parent}

(* What other devices are told of a message: a selected child they cannot  *)
(* know yet is left out. *)
Projection(tree, m) ==
    LET child == tree[m].selected
        known == child # None /\ tree[child].status = "complete" /\ ~tree[child].deleted IN
    IF tree[m].deleted THEN [Unsent EXCEPT !.deleted = TRUE]
    ELSE [selected |-> IF known THEN child ELSE None, parts |-> tree[m].parts, deleted |-> FALSE]

(* enqueue_if_complete *)
enqueue_if_complete(changed) ==
    queued' = [m \in Ids |->
        IF m \in changed /\ msgs'[m].status = "complete" THEN Projection(msgs', m) ELSE queued[m]]

\* mutant
parents_selecting_None(m) == {}

(* enqueue_complete_parents_selecting *)
parents_selecting(m) == {p \in Ids : Live(p) /\ msgs[p].selected = m}

(* sessions::enqueue_current, in the transaction of every update.          *)
SetSession(new) == session' = new /\ queuedSession' = new

(***************************************************************************)
(* Writing the tree.                                                       *)
(***************************************************************************)

Row(role, parent, status) ==
    [NoMessage EXCEPT !.role = role, !.parent = parent, !.status = status]

(* set_selected_child_local: a deleted row is left alone.                  *)
Select(tree, p, c) ==
    [m \in Ids |-> IF m = p /\ ~tree[m].deleted THEN [tree[m] EXCEPT !.selected = c] ELSE tree[m]]

(* Commands that wait between a reading and a write learn nothing of what  *)
(* another one writes to the tree meanwhile. *)
Overtake(r) ==
    [q \in Requests |-> IF q # r /\ reqs[q].pc # "idle" THEN [reqs[q] EXCEPT !.raced = TRUE] ELSE reqs[q]]
Acts(r) ==
    causes' = causes \cup (IF reqs[r].raced THEN {"stale"} ELSE {})
                     \cup (IF reqs[r].kind \in {"edit", "switch", "branch"} THEN {"moved"} ELSE {})

(* AppendUserAndAssistant *)
append_user_and_assistant(parent) ==
    LET user == Count + 1  reply == Count + 2
        added == [msgs EXCEPT ![user] = Row("user", parent, "complete"),
                              ![reply] = Row("assistant", user, "pending")]
        linked == IF parent = None THEN added ELSE Select(added, parent, user) IN
    /\ reply \in Ids
    /\ msgs' = Select(linked, user, reply)
    /\ enqueue_if_complete({parent, user})
    /\ IF parent = None THEN SetSession([session EXCEPT !.root = user])
       ELSE UNCHANGED <<session, queuedSession>>

(* AppendAssistantSibling *)
append_assistant_sibling(user) ==
    LET reply == Count + 1 IN
    /\ reply \in Ids
    /\ msgs' = Select([msgs EXCEPT ![reply] = Row("assistant", user, "pending")], user, reply)
    /\ enqueue_if_complete({user})
    /\ UNCHANGED <<session, queuedSession>>

set_selected_child(m, child) ==
    /\ msgs' = Select(msgs, m, child) /\ enqueue_if_complete({m})
    /\ UNCHANGED <<session, queuedSession>>

(* The row is marked as deleted and no live row selects it any more.       *)
delete_row(m) ==
    /\ msgs' = [i \in Ids |-> IF i = m THEN [msgs[i] EXCEPT !.deleted = TRUE]
                ELSE IF Live(i) /\ msgs[i].selected = m THEN [msgs[i] EXCEPT !.selected = None] ELSE msgs[i]]
    /\ enqueue_if_complete(parents_selecting(m) \cup {k \in {m} : Live(k)})
    /\ UNCHANGED <<session, queuedSession>>

(* fail_pending_assistant, of one message or (recover_interrupted) all.    *)
fail_pending(tree, ms) ==
    [m \in Ids |-> IF m \in ms /\ tree[m].status = "pending" /\ ~tree[m].deleted
                   THEN [tree[m] EXCEPT !.status = "failed", !.parts = 1] ELSE tree[m]]

(***************************************************************************)
(* Commands.  Targets are messages the user sees, on the active path.      *)
(***************************************************************************)

Counted == commands < MaxCommands /\ commands' = commands + 1

Begin(r, req) ==
    /\ reqs[r].pc = "idle" /\ reqs' = [reqs EXCEPT ![r] = req]
    /\ Counted /\ UNCHANGED <<msgs, session, queued, queuedSession, runs, causes, renamed>>

Request(kind, m) == [NoRequest EXCEPT !.pc = "decided", !.kind = kind, !.msg = m,
                                      !.summary = session.summary]
is_automatic_session_title(title) == title = "automatic"

(* send_message: configuration with the summary, leaf of the path, title.  *)
send_message(r) ==
    LET auto == is_automatic_session_title(session.title) IN
    Begin(r, [Request("send", Leaf) EXCEPT !.pc = IF auto THEN "title" ELSE "decided", !.title = auto])

set_fallback_title(r) ==
    /\ reqs[r].pc = "title" /\ reqs' = [reqs EXCEPT ![r].pc = "decided"]
    /\ SetSession([session EXCEPT !.title = "fallback"])
    /\ UNCHANGED <<msgs, queued, runs, causes, renamed, commands>>

(* edit_and_resend: a new version beside the edited message.               *)
edit_and_resend(r) ==
    \E m \in ActivePath : msgs[m].role = "user" /\ Begin(r, Request("edit", msgs[m].parent))

(* regenerate_message: the summary may cover the rejected answer.          *)
regenerate_message(r) ==
    \E m \in ActivePath :
        /\ reqs[r].pc = "idle" /\ msgs[m].role = "assistant"
        /\ reqs' = [reqs EXCEPT ![r] = [Request("regenerate", msgs[m].parent) EXCEPT !.summary = {}]]
        /\ SetSession([session EXCEPT !.summary = {}])
        /\ Counted /\ UNCHANGED <<msgs, queued, runs, causes, renamed>>

(* switch_version: the neighbour in the order of seq.                      *)
switch_version(r) ==
    \E m \in ActivePath : \E s \in Siblings(m) \ {m} :
        /\ \A t \in Siblings(m) : ~(m < t /\ t < s) /\ ~(s < t /\ t < m)
        /\ Begin(r, [Request("switch", msgs[m].parent) EXCEPT !.child = s])

(* delete_message: a leaf that is not being generated.                     *)
Deletable(m) == msgs[m].status # "pending" /\ count_children(m) = 0

delete_message(r) == \E m \in ActivePath : Deletable(m) /\ Begin(r, Request("delete", m))

replace_message_parts(r) ==
    \E m \in ActivePath :
        /\ msgs[m].role = "assistant" /\ msgs[m].status = "complete"
        /\ Begin(r, Request("parts", m))

create_branch(r) == \E m \in ActivePath : Begin(r, Request("branch", m))

(* The message is appended; its run is started next.                       *)
append(r) ==
    LET q == reqs[r] IN
    /\ q.pc = "decided" /\ q.kind \in {"send", "edit", "regenerate"}
    /\ IF q.kind = "regenerate" THEN append_assistant_sibling(q.msg) ELSE append_user_and_assistant(q.msg)
    /\ LET reply == CHOOSE m \in Ids : Exists(m)' /\ ~Exists(m) /\ msgs'[m].role = "assistant" IN
       reqs' = [Overtake(r) EXCEPT ![r].pc = "appended", ![r].msg = reply]
    /\ Acts(r) /\ UNCHANGED <<runs, renamed, commands>>

(* The other commands end with their write.                                *)
write(r) ==
    LET q == reqs[r] IN
    /\ q.pc = "decided"
    /\ CASE q.kind = "switch" /\ q.msg = None ->
              /\ SetSession([session EXCEPT !.root = q.child]) /\ UNCHANGED <<msgs, queued>>
         [] q.kind = "switch" /\ q.msg # None -> set_selected_child(q.msg, q.child)
         [] q.kind = "branch" -> set_selected_child(q.msg, None)
         [] q.kind = "delete" -> delete_row(q.msg)
         [] q.kind = "parts" ->
              /\ msgs' = [msgs EXCEPT ![q.msg].parts = 2]
              /\ enqueue_if_complete({q.msg})
              /\ UNCHANGED <<session, queuedSession>>
         [] OTHER -> FALSE
    /\ reqs' = [Overtake(r) EXCEPT ![r] = NoRequest]
    /\ Acts(r) /\ UNCHANGED <<runs, renamed, commands>>

(* start_agent_run: the active path without the reply itself.              *)
History(reply) == ActivePath \ {reply}

start_agent_run(r) ==
    LET q == reqs[r] IN
    /\ q.pc = "appended" /\ reqs' = [reqs EXCEPT ![r] = NoRequest]
    /\ runs' = [runs EXCEPT ![q.msg] = [pc |-> "running", history |-> History(q.msg),
                                        summary |-> q.summary, title |-> IF q.title THEN "asked" ELSE "no"]]
    /\ Acts(r) /\ UNCHANGED <<msgs, session, queued, queuedSession, renamed, commands>>

(* start_agent_run_or_mark_failed: the run cannot be started.              *)
mark_failed(r) ==
    /\ reqs[r].pc = "appended" /\ reqs' = [reqs EXCEPT ![r] = NoRequest]
    /\ msgs' = fail_pending(msgs, {reqs[r].msg})
    /\ UNCHANGED <<session, queued, queuedSession, runs, causes, renamed, commands>>

rename_session ==
    /\ ~renamed /\ renamed' = TRUE /\ Counted
    /\ SetSession([session EXCEPT !.title = "manual"])
    /\ UNCHANGED <<msgs, queued, reqs, runs, causes>>

(***************************************************************************)
(* Runs, as the WebSocket loop records them.                               *)
(***************************************************************************)

(* SESSION_TITLE_UPDATE: the title is read, and then written.              *)
compare_title(m) ==
    /\ runs[m].title = "asked"
    /\ runs' = [runs EXCEPT ![m].title = IF session.title = "fallback" THEN "equal" ELSE "no"]
    /\ UNCHANGED <<msgs, session, queued, queuedSession, reqs, causes, renamed, commands>>

write_title(m) ==
    /\ runs[m].title = "equal"
    /\ runs' = [runs EXCEPT ![m].title = "no"]
    /\ SetSession([session EXCEPT !.title = "generated"])
    /\ UNCHANGED <<msgs, queued, reqs, causes, renamed, commands>>

Alone(m) == (\A r \in Requests : reqs[r].pc = "idle") /\ \A k \in Ids \ {m} : runs[k].pc # "running"

(* RUN_FINISHED, first: the summary, the one the run was given or one that *)
(* covers the history that no longer fitted. *)
update_summary(m) ==
    /\ runs[m].pc = "running" /\ runs[m].title # "equal"
    /\ runs' = [runs EXCEPT ![m].pc = "summarised", ![m].history = {}, ![m].summary = {}, ![m].title = "no"]
    /\ \E covered \in {runs[m].summary, runs[m].summary \cup runs[m].history} :
          IF covered = {} THEN UNCHANGED <<session, queuedSession>>
          ELSE SetSession([session EXCEPT !.summary = covered])
    /\ causes' = causes \cup (IF Alone(m) THEN {} ELSE {"moved"})
    /\ UNCHANGED <<msgs, queued, reqs, renamed, commands>>

(* ... then its text and its status.                                       *)
update_status(m) ==
    /\ runs[m].pc = "summarised" /\ runs' = [runs EXCEPT ![m] = NoRun]
    /\ msgs' = [i \in Ids |-> IF i = m /\ Live(m) THEN [msgs[m] EXCEPT !.status = "complete", !.parts = 1]
                              ELSE msgs[i]]
    /\ enqueue_if_complete({m} \cup parents_selecting(m))
    /\ UNCHANGED <<session, queuedSession, reqs, causes, renamed, commands>>

(* RUN_ERROR, or a run without output.                                     *)
run_fails(m) ==
    /\ runs[m].pc \in {"running", "summarised"} /\ runs[m].title # "equal"
    /\ runs' = [runs EXCEPT ![m] = NoRun]
    /\ msgs' = fail_pending(msgs, {m})
    /\ UNCHANGED <<session, queued, queuedSession, reqs, causes, renamed, commands>>

(* The application starts again: recover_interrupted_assistants.           *)
restart ==
    /\ Counted
    /\ reqs' = [r \in Requests |-> NoRequest] /\ runs' = [m \in Ids |-> NoRun]
    /\ msgs' = fail_pending(msgs, Ids)
    /\ UNCHANGED <<session, queued, queuedSession, causes, renamed>>

(* A new session, or one with a message that was answered twice.           *)
Init ==
    /\ \/ /\ msgs = [m \in Ids |-> NoMessage]
          /\ session = [title |-> "automatic", root |-> None, summary |-> {}]
       \/ /\ msgs = [m \in Ids |->
                 CASE m = 1 -> [Row("user", None, "complete") EXCEPT !.selected = 2]
                   [] m = 2 -> [Row("assistant", 1, "complete") EXCEPT !.parts = 1]
                   [] m = 3 -> [Row("assistant", 1, "complete") EXCEPT !.parts = 1]
                   [] OTHER -> NoMessage]
          /\ session = [title |-> "manual", root |-> 1, summary |-> {1, 2}]
    /\ queuedSession = session
    /\ queued = [m \in Ids |-> IF Exists(m) THEN Projection(msgs, m) ELSE Unsent]
    /\ reqs = [r \in Requests |-> NoRequest] /\ runs = [m \in Ids |-> NoRun]
    /\ causes = {} /\ renamed = FALSE /\ commands = 0

Next ==
    \/ rename_session \/ restart
    \/ \E r \in Requests :
          \/ send_message(r) \/ set_fallback_title(r) \/ edit_and_resend(r) \/ regenerate_message(r)
          \/ switch_version(r) \/ delete_message(r) \/ replace_message_parts(r) \/ create_branch(r)
          \/ append(r) \/ write(r) \/ start_agent_run(r) \/ mark_failed(r)
    \/ \E m \in Ids :
          compare_title(m) \/ write_title(m) \/ update_summary(m) \/ update_status(m) \/ run_fails(m)

Spec == Init /\ [][Next]_vars

(***************************************************************************)
(* Properties.                                                             *)
(***************************************************************************)

\* The state has its type.
TypeOK ==
    /\ \A m \in Ids : /\ msgs[m].status \in {"none", "pending", "complete", "failed"}
                      /\ msgs[m].parent \in 0 .. m - 1 /\ msgs[m].selected \in 0 .. MaxMessages
                      /\ queued[m] \in [selected : 0 .. MaxMessages, parts : 0 .. 2, deleted : BOOLEAN]
    /\ session.summary \subseteq Ids /\ session = queuedSession

\* Whatever commands and runs interleave, the other devices are sent the
\* present form of every complete message: its parts, its deletion, and its
\* selected child from the moment the child is complete.
ProjectionCurrent ==
    \A m \in Ids : msgs[m].status = "complete" =>
        /\ queued[m].deleted = msgs[m].deleted
        /\ Live(m) => /\ queued[m].parts = msgs[m].parts
                      /\ \A c \in Ids : queued[m].selected = c
                            <=> msgs[m].selected = c /\ Live(c) /\ msgs[c].status = "complete"

\* A reply that is being generated has a run, or a command that starts one;
\* a restart leaves none behind.
PendingIsServed ==
    \A m \in Ids : Live(m) /\ msgs[m].status = "pending" =>
        runs[m] # NoRun \/ \E r \in Requests : reqs[r].pc = "appended" /\ reqs[r].msg = m

\* As long as no command acts on a tree another one has changed since it
\* looked, the model is given the ancestors of its reply and nothing else,
\* and a message is deleted only when nothing follows it.
BranchIsolated ==
    "stale" \notin causes =>
    /\ \A m \in Ids : runs[m].pc = "running" => runs[m].history = Ancestors(m)
    /\ \A m \in Ids : Live(m) /\ msgs[m].parent # None => Live(msgs[m].parent)

\* A regenerated answer is forgotten: no later run is given a summary that
\* covers a version the path has left, unless the user left it by other means
\* or a second run of the session wrote its own summary.
RejectedForgotten ==
    causes = {} =>
    \A m \in Ids : runs[m].pc = "running" =>
        \A a \in Ancestors(m) \cup {m} : (Siblings(a) \ {a}) \cap runs[m].summary = {}

\* A comment of the title update: a manual rename performed while the title
\* model was running always wins.
ManualTitleWins == renamed => session.title # "generated"
=============================================================================
