------------------------------ MODULE AgentTurn ------------------------------
(****************************************************************************)
(* One turn of the conversation agent, from send_message to the end of the  *)
(* run, and the stop button: the Tauri commands (commands/mod.rs), the      *)
(* registries of AgentManager (agent/manager.rs), the WebSocket loop and    *)
(* its tool tasks (agent/ws_server.rs), and the Python sidecar              *)
(* (agent/app/main.py).                                                     *)
(*                                                                          *)
(* The commands, the loop, every tool task and the sidecar run              *)
(* concurrently; an action is what one of them does between two awaits.     *)
(* Runs are numbered in the order they are sent, and the assistant message  *)
(* of a run has the run's number.  A run executes its tools one at a time   *)
(* (graph.py, execute_tools_node), so at most one of its tool calls is      *)
(* unanswered.  Text is counted, not spelled, and the database stores what  *)
(* it is given: the code ignores a failed insert of parts and goes on.      *)
(****************************************************************************)
EXTENDS Naturals, Sequences, FiniteSets

CONSTANTS
  Sessions,
  MaxRun, SessionOf,      \* the runs 1 .. MaxRun and the session of each
  MaxDeltas, MaxTools,    \* per run, its text fragments and its tool calls
  MaxFaults               \* sidecar exits and application restarts

Runs == 1 .. MaxRun
NoRun == 0
NoMessage == [type |-> "NONE", run |-> NoRun]

ASSUME RunsAssumption == MaxRun \in Nat /\ SessionOf \in [Runs -> Sessions]
ASSUME BoundsAssumption ==
  MaxDeltas \in [Runs -> Nat] /\ MaxTools \in [Runs -> Nat] /\ MaxFaults \in Nat

VARIABLES
  start, stop,            \* per run, how far send_message and cancel_run are
  pendingRuns,            \* pending_runs
  sessionRun,             \* active_session_runs
  cancelled,              \* cancelled_runs
  signals,                \* run_cancel_signals: runs with a registered sender
  approvals,              \* pending_approvals and run_approval_tc
  sender,                 \* active_sender is set
  alive,                  \* the sidecar process and its connection
  toPy, toRust,           \* the two directions of the connection
  py, tools,              \* per run, the sidecar's task and its tool calls so far
  task,                   \* per run, the task serving its open tool call
  fired,                  \* runs whose task's cancel_rx has resolved
  decision,               \* per run, what the user answered the approval card
  clearing,               \* runs with a rejected task about to clear its signal
  loop, hand,             \* where the WebSocket loop is, the message it handles
  active,                 \* active_runs: per run, the message its text goes to
  heard, saved, traces,   \* fragments received and stored, tool calls stored
  status,                 \* messages.status of the assistant message
  faults

commands == <<start, stop>>
registry == <<pendingRuns, sessionRun>>
stopping == <<cancelled, signals, fired>>
card == <<approvals, decision>>
wires == <<sender, alive, faults>>
sidecar == <<py, tools>>
text == <<active, heard, saved, traces>>
vars == <<commands, registry, stopping, card, wires, toPy, toRust, sidecar, task,
          clearing, loop, hand, text, status>>

Message(t, r) == [type |-> t, run |-> r]
Ends == {"RUN_FINISHED", "RUN_ERROR", "CANCELLED"}  \* CANCELLED: RUN_ERROR "已取消"
Ended == {"complete", "failed", "cancelled"}

TypeOK ==
  /\ start \in [Runs -> {"none", "inserted", "registered", "mapped", "sent", "over"}]
  /\ stop \in [Runs -> {"no", "taken", "marked", "signalled", "sent", "early", "unsent"}]
  /\ pendingRuns \subseteq Runs
  /\ sessionRun \in [Sessions -> Runs \cup {NoRun}]
  /\ cancelled \subseteq Runs /\ signals \subseteq Runs /\ approvals \subseteq Runs
  /\ fired \subseteq Runs /\ clearing \subseteq Runs
  /\ sender \in BOOLEAN /\ alive \in BOOLEAN
  /\ toPy \in Seq([type : {"RUN_REQUEST", "TOOL_RESULT", "RUN_CANCEL"}, run : Runs])
  /\ toRust \in Seq([type : {"ASSISTANT_DELTA", "TOOL_CALL_REQUEST"} \cup Ends, run : Runs])
  /\ py \in [Runs -> {"none", "preparing", "thinking", "tool", "finishing", "done", "dropped"}]
  /\ task \in [Runs -> {"none", "asked", "armed", "waiting", "rejected", "ready",
                        "executing", "executed", "storing", "replying", "abandoned"}]
  /\ decision \in [Runs -> {"none", "yes", "no"}]
  /\ loop \in {"reading", "ending", "removing", "unmapping",
               "drainSessions", "drainRuns", "clearSender", "closed"}
  /\ hand \in [type : Ends \cup {"NONE"}, run : Runs \cup {NoRun}]
  /\ active \in [Runs -> Runs \cup {NoRun}]
  /\ \A f \in {tools, heard, saved, traces} : f \in [Runs -> Nat]
  /\ status \in [Runs -> {"none", "pending"} \cup Ended]
  /\ faults \in 0 .. MaxFaults

Init ==
  /\ start = [r \in Runs |-> "none"] /\ stop = [r \in Runs |-> "no"]
  /\ pendingRuns = {} /\ sessionRun = [s \in Sessions |-> NoRun]
  /\ cancelled = {} /\ signals = {} /\ fired = {} /\ approvals = {} /\ clearing = {}
  /\ sender = TRUE /\ alive = TRUE /\ faults = 0
  /\ toPy = <<>> /\ toRust = <<>>
  /\ py = [r \in Runs |-> "none"] /\ tools = [r \in Runs |-> 0]
  /\ task = [r \in Runs |-> "none"] /\ decision = [r \in Runs |-> "none"]
  /\ loop = "reading" /\ hand = NoMessage
  /\ active = [r \in Runs |-> NoRun]
  /\ heard = [r \in Runs |-> 0] /\ saved = [r \in Runs |-> 0]
  /\ traces = [r \in Runs |-> 0]
  /\ status = [r \in Runs |-> "none"]

-----------------------------------------------------------------------------
(* Shared operations                                                        *)

(* fail_pending_assistant: only a pending message becomes failed.           *)
fail_pending_assistant_Error(old, rs) ==
  [r \in Runs |-> IF r \in rs /\ old[r] = "pending" THEN "error" ELSE old[r]]  \* mutant
fail_pending_assistant(old, rs) ==
  [r \in Runs |-> IF r \in rs /\ old[r] = "pending" THEN "failed" ELSE old[r]]

(* remove_run: the entry of pending_runs, and only that of the run itself.  *)
without_run_Kept(r) == pendingRuns                                      \* mutant
without_run(r) == pendingRuns \ {r}

(* drain_accumulated and insert_message_parts: what the run has said since  *)
(* the last drain is stored with its message.                               *)
drain_accumulated_Skip(r) == saved                                      \* mutant
drain_accumulated(r) ==
  IF active[r] = NoRun THEN saved ELSE [saved EXCEPT ![r] = heard[r]]

(* Taking a sender out of run_cancel_signals and dropping or firing it:     *)
(* either way the receiver held by the run's task resolves.                 *)
ResolveSignal(r) ==
  /\ signals' = signals \ {r}
  /\ fired' = IF r \in signals THEN fired \cup {r} ELSE fired

(* send_to_agent.  A message accepted after the sidecar is gone is lost; once *)
(* the writer task has noticed, or the sender is cleared, sending fails.    *)
CanSend == sender
MayFail == ~sender \/ ~alive
Queued(t, r) == IF alive THEN Append(toPy, Message(t, r)) ELSE toPy

-----------------------------------------------------------------------------
(* The commands                                                             *)

(* The front end offers stop, not send, until the user has stopped the run or *)
(* the run_finished or run_error event told it that the run is over.        *)
NotStreaming(s) ==
  \A r \in Runs : SessionOf[r] = s => \/ stop[r] # "no"
                                     \/ /\ status[r] # "pending"
                                        /\ hand.run # r

(* send_message: the pending assistant message is inserted.                 *)
send_message(r) ==
  /\ start[r] = "none" /\ \A q \in 1 .. r - 1 : start[q] # "none"
  /\ NotStreaming(SessionOf[r])
  /\ start' = [start EXCEPT ![r] = "inserted"]
  /\ status' = [status EXCEPT ![r] = "pending"]
  /\ UNCHANGED <<stop, registry, stopping, card, wires, toPy, toRust, sidecar, task,
                 clearing, loop, hand, text>>

(* start_agent_run fails before it has registered the run.                  *)
start_agent_run_or_mark_failed(r) ==
  /\ start[r] = "inserted"
  /\ start' = [start EXCEPT ![r] = "over"]
  /\ status' = fail_pending_assistant(status, {r})
  /\ UNCHANGED <<stop, registry, stopping, card, wires, toPy, toRust, sidecar, task,
                 clearing, loop, hand, text>>

register_run(r) ==
  /\ start[r] = "inserted"
  /\ start' = [start EXCEPT ![r] = "registered"]
  /\ pendingRuns' = pendingRuns \cup {r}
  /\ UNCHANGED <<stop, sessionRun, stopping, card, wires, toPy, toRust, sidecar, task,
                 clearing, loop, hand, text, status>>

set_session_run(r) ==
  /\ start[r] = "registered"
  /\ start' = [start EXCEPT ![r] = "mapped"]
  /\ cancelled' = cancelled \ {r}
  /\ sessionRun' = [sessionRun EXCEPT ![SessionOf[r]] = r]
  /\ UNCHANGED <<stop, pendingRuns, signals, fired, card, wires, toPy, toRust, sidecar,
                 task, clearing, loop, hand, text, status>>

(* The RUN_REQUEST is queued, or the run is unregistered and failed.        *)
start_agent_run(r) ==
  /\ start[r] = "mapped"
  /\ \/ /\ CanSend
        /\ start' = [start EXCEPT ![r] = "sent"]
        /\ toPy' = Queued("RUN_REQUEST", r)
        /\ UNCHANGED <<registry, status>>
     \/ /\ MayFail
        /\ start' = [start EXCEPT ![r] = "over"]
        /\ pendingRuns' = without_run(r)
        /\ sessionRun' = [sessionRun EXCEPT ![SessionOf[r]] = NoRun]
        /\ status' = fail_pending_assistant(status, {r})
        /\ UNCHANGED toPy
  /\ UNCHANGED <<stop, stopping, card, wires, toRust, sidecar, task, clearing, loop,
                 hand, text>>

(* cancel_run, one registry call per step.                                  *)
cancel_run(s) ==
  LET r == sessionRun[s] IN
  /\ r # NoRun
  /\ sessionRun' = [sessionRun EXCEPT ![s] = NoRun]
  /\ stop' = [stop EXCEPT ![r] = "taken"]
  /\ UNCHANGED <<start, pendingRuns, stopping, card, wires, toPy, toRust, sidecar, task,
                 clearing, loop, hand, text, status>>

mark_run_cancelled(r) ==
  /\ stop[r] = "taken"
  /\ stop' = [stop EXCEPT ![r] = "marked"]
  /\ cancelled' = cancelled \cup {r}
  /\ UNCHANGED <<start, registry, signals, fired, card, wires, toPy, toRust, sidecar,
                 task, clearing, loop, hand, text, status>>

take_run_cancel_signal(r) ==
  /\ stop[r] = "marked"
  /\ stop' = [stop EXCEPT ![r] = "signalled"]
  /\ ResolveSignal(r)
  /\ UNCHANGED <<start, registry, cancelled, card, wires, toPy, toRust, sidecar, task,
                 clearing, loop, hand, text, status>>

(* RUN_CANCEL is queued, perhaps before the RUN_REQUEST it is about: the run *)
(* is in active_session_runs before the request is sent.                    *)
send_run_cancel(r) ==
  /\ stop[r] = "signalled"
  /\ \/ /\ CanSend
        /\ toPy' = Queued("RUN_CANCEL", r)
        /\ stop' = [stop EXCEPT ![r] = IF start[r] = "mapped" THEN "early" ELSE "sent"]
     \/ /\ MayFail
        /\ UNCHANGED toPy
        /\ stop' = [stop EXCEPT ![r] = "unsent"]
  /\ UNCHANGED <<start, registry, stopping, card, wires, toRust, sidecar, task, clearing,
                 loop, hand, text, status>>

(* approve_tool on a card that is still open.                               *)
approve_tool(r, answer) ==
  /\ r \in approvals
  /\ approvals' = approvals \ {r}
  /\ decision' = [decision EXCEPT ![r] = answer]
  /\ UNCHANGED <<commands, registry, stopping, wires, toPy, toRust, sidecar, task,
                 clearing, loop, hand, text, status>>

-----------------------------------------------------------------------------
(* The task of a TOOL_CALL_REQUEST                                          *)

taskOnly == <<commands, registry, wires, toRust, sidecar, loop, hand, status>>

(* The message a run's text goes to once its ActiveRun exists.              *)
ensure_run(r) ==
  IF active[r] = NoRun /\ r \in pendingRuns THEN [active EXCEPT ![r] = r] ELSE active

(* The ActiveRun is created, the policy read, the cancel signal registered. *)
set_run_cancel_signal(r) ==
  /\ task[r] = "asked"
  /\ task' = [task EXCEPT ![r] = "armed"]
  /\ active' = ensure_run(r)
  /\ signals' = signals \cup {r}
  /\ fired' = fired \ {r}
  /\ UNCHANGED <<taskOnly, cancelled, card, toPy, clearing, heard, saved, traces>>

(* is_run_cancelled, then the card is shown or the tool needs no approval.  *)
check_cancelled_Skip(r) ==                                              \* mutant
  /\ task[r] = "armed"
  /\ task' = [task EXCEPT ![r] = "ready"]
  /\ UNCHANGED <<taskOnly, stopping, card, toPy, clearing, text>>
check_cancelled(r) ==
  /\ task[r] = "armed"
  /\ \/ /\ r \in cancelled
        /\ task' = [task EXCEPT ![r] = "abandoned"]
        /\ UNCHANGED card
     \/ /\ r \notin cancelled
        /\ task' = [task EXCEPT ![r] = "ready"]
        /\ UNCHANGED card
     \/ /\ r \notin cancelled
        /\ task' = [task EXCEPT ![r] = "waiting"]
        /\ approvals' = approvals \cup {r}
        /\ UNCHANGED decision
  /\ UNCHANGED <<taskOnly, stopping, toPy, clearing, text>>

(* The select between the user's answer and the cancel signal; when both    *)
(* are ready either may win.                                                *)
await_approval(r) ==
  /\ task[r] = "waiting"
  /\ \/ decision[r] = "yes" /\ task' = [task EXCEPT ![r] = "ready"]
     \/ decision[r] = "no" /\ task' = [task EXCEPT ![r] = "rejected"]
     \/ r \in fired /\ task' = [task EXCEPT ![r] = "abandoned"]
  /\ approvals' = approvals \ {r}
  /\ decision' = [decision EXCEPT ![r] = "none"]
  /\ UNCHANGED <<taskOnly, stopping, toPy, clearing, text>>

(* send_tool_result_if_active: the mark is read and the result queued under *)
(* one lock.                                                                *)
send_tool_result_if_active_Unchecked(r) ==
  toPy' = IF sender THEN Queued("TOOL_RESULT", r) ELSE toPy             \* mutant
send_tool_result_if_active(r) ==
  toPy' = IF r \notin cancelled /\ sender THEN Queued("TOOL_RESULT", r) ELSE toPy

(* The rejection is reported first and the signal cleared afterwards, when  *)
(* the sidecar may already be asking for the run's next tool.               *)
reject_tool(r) ==
  /\ task[r] = "rejected"
  /\ task' = [task EXCEPT ![r] = "none"]
  /\ clearing' = clearing \cup {r}
  /\ send_tool_result_if_active(r)
  /\ UNCHANGED <<taskOnly, stopping, card, text>>

clear_run_cancel_signal(r) ==
  /\ r \in clearing
  /\ clearing' = clearing \ {r}
  /\ ResolveSignal(r)
  /\ UNCHANGED <<taskOnly, cancelled, card, toPy, task, text>>

(* The select between the execution and the cancel signal polls its branches *)
(* in random order, so a signal that came before it may still lose.         *)
execute_tool(r) ==
  /\ task[r] \in {"ready", "executing"}
  /\ \/ task' = [task EXCEPT ![r] = IF @ = "ready" THEN "executing" ELSE "executed"]
     \/ r \in fired /\ task' = [task EXCEPT ![r] = "abandoned"]
  /\ UNCHANGED <<taskOnly, stopping, card, toPy, clearing, text>>

(* The execution returned: is_run_cancelled again, or the signal is cleared. *)
after_execution(r) ==
  /\ task[r] = "executed"
  /\ IF r \in cancelled
     THEN task' = [task EXCEPT ![r] = "abandoned"] /\ UNCHANGED <<signals, fired>>
     ELSE task' = [task EXCEPT ![r] = "storing"] /\ ResolveSignal(r)
  /\ UNCHANGED <<taskOnly, cancelled, card, toPy, clearing, text>>

(* The text so far, the call and its result are stored under the lock of    *)
(* active_runs.                                                             *)
store_tool_parts(r) ==
  /\ task[r] = "storing"
  /\ task' = [task EXCEPT ![r] = "replying"]
  /\ saved' = drain_accumulated(r)
  /\ traces' = [traces EXCEPT ![r] = IF active[r] = NoRun THEN @ ELSE @ + 1]
  /\ UNCHANGED <<taskOnly, stopping, card, toPy, clearing, active, heard>>

reply_tool_result(r) ==
  /\ task[r] = "replying"
  /\ task' = [task EXCEPT ![r] = "none"]
  /\ send_tool_result_if_active(r)
  /\ UNCHANGED <<taskOnly, stopping, card, clearing, text>>

-----------------------------------------------------------------------------
(* The WebSocket loop                                                       *)

loopOnly == <<commands, wires, toPy, sidecar>>

Takes(t) ==
  /\ loop = "reading" /\ toRust # <<>> /\ Head(toRust).type \in t
  /\ toRust' = Tail(toRust)

(* The message a fragment is added to: the registered one, else the         *)
(* session's last pending message, else none.                               *)
PendingOf(s) == {q \in Runs : SessionOf[q] = s /\ status[q] = "pending"}
LastPending(s) ==
  IF PendingOf(s) = {} THEN NoRun
  ELSE CHOOSE q \in PendingOf(s) : \A p \in PendingOf(s) : p <= q
TextTarget_LastPending(r) ==
  IF active[r] # NoRun THEN active[r] ELSE LastPending(SessionOf[r])    \* mutant
TextTarget(r) ==
  CASE active[r] # NoRun -> active[r]
    [] active[r] = NoRun /\ r \in pendingRuns -> r
    [] OTHER -> LastPending(SessionOf[r])

assistant_delta ==
  /\ Takes({"ASSISTANT_DELTA"})
  /\ LET r == Head(toRust).run IN
       /\ active' = [active EXCEPT ![r] = TextTarget(r)]
       /\ heard' = [heard EXCEPT ![r] = IF TextTarget(r) = NoRun THEN @ ELSE @ + 1]
  /\ UNCHANGED <<loopOnly, registry, stopping, card, task, clearing, loop, hand, saved,
                 traces, status>>

tool_call_request ==
  /\ Takes({"TOOL_CALL_REQUEST"})
  /\ task' = [task EXCEPT ![Head(toRust).run] = "asked"]
  /\ UNCHANGED <<loopOnly, registry, stopping, card, clearing, loop, hand, text, status>>

(* The tasks of these runs are aborted and awaited and every trace of a     *)
(* cancellation is dropped (clear_run_cancelled).                           *)
abort_tool_tasks(rs) ==
  /\ task' = [r \in Runs |-> IF r \in rs THEN "none" ELSE task[r]]
  /\ clearing' = clearing \ rs
  /\ cancelled' = cancelled \ rs
  /\ signals' = signals \ rs
  /\ fired' = fired \ rs
  /\ approvals' = approvals \ rs
  /\ decision' = [r \in Runs |-> IF r \in rs THEN "none" ELSE decision[r]]

(* RUN_FINISHED and RUN_ERROR begin alike.                                  *)
run_ends ==
  /\ Takes(Ends)
  /\ abort_tool_tasks({Head(toRust).run})
  /\ hand' = Head(toRust)
  /\ loop' = "ending"
  /\ UNCHANGED <<loopOnly, registry, text, status>>

(* What is still unsaved is stored and the message gets its final status;   *)
(* a finished run that produced nothing fails its pending message instead.  *)
HasOutput(r) == heard[r] > 0 \/ traces[r] > 0
FinalStatus(r, owner) ==
  CASE owner = NoRun -> status
    [] owner # NoRun /\ hand.type = "RUN_FINISHED" /\ HasOutput(r) ->
         [status EXCEPT ![owner] = "complete"]
    [] owner # NoRun /\ hand.type = "RUN_FINISHED" /\ ~HasOutput(r) ->
         fail_pending_assistant(status, {owner})
    [] owner # NoRun /\ hand.type = "RUN_ERROR" -> [status EXCEPT ![owner] = "failed"]
    [] OTHER -> [status EXCEPT ![owner] = "cancelled"]

end_run ==
  LET r == hand.run
      owner == ensure_run(r)[r] IN
  /\ loop = "ending"
  /\ loop' = "removing"
  /\ saved' = drain_accumulated(r)
  /\ active' = [active EXCEPT ![r] = NoRun]
  /\ status' = FinalStatus(r, owner)
  /\ UNCHANGED <<loopOnly, toRust, registry, stopping, card, task, clearing, hand, heard,
                 traces>>

remove_run ==
  /\ loop = "removing"
  /\ loop' = "unmapping"
  /\ pendingRuns' = without_run(hand.run)
  /\ UNCHANGED <<loopOnly, sessionRun, toRust, stopping, card, task, clearing, hand,
                 text, status>>

(* remove_session_run takes the session's entry, whichever run it names.    *)
remove_session_run ==
  /\ loop = "unmapping"
  /\ loop' = "reading"
  /\ hand' = NoMessage
  /\ sessionRun' = [sessionRun EXCEPT ![SessionOf[hand.run]] = NoRun]
  /\ UNCHANGED <<loopOnly, pendingRuns, toRust, stopping, card, task, clearing, text,
                 status>>

(* The connection is gone: tool tasks are aborted, both registries drained, *)
(* what was registered failed, and only then is the sender cleared.         *)
connection_lost ==
  /\ loop = "reading" /\ ~alive /\ toRust = <<>>
  /\ loop' = "drainSessions"
  /\ abort_tool_tasks({r \in Runs : task[r] # "none" \/ r \in clearing})
  /\ UNCHANGED <<loopOnly, registry, toRust, hand, text, status>>

drain_session_runs ==
  /\ loop = "drainSessions"
  /\ loop' = "drainRuns"
  /\ sessionRun' = [s \in Sessions |-> NoRun]
  /\ UNCHANGED <<loopOnly, pendingRuns, toRust, stopping, card, task, clearing, hand,
                 text, status>>

drain_runs ==
  /\ loop = "drainRuns"
  /\ loop' = "clearSender"
  /\ pendingRuns' = {}
  /\ status' = fail_pending_assistant(status, pendingRuns)
  /\ UNCHANGED <<loopOnly, sessionRun, toRust, stopping, card, task, clearing, hand, text>>

clear_active_sender ==
  /\ loop = "clearSender"
  /\ loop' = "closed"
  /\ sender' = FALSE
  /\ UNCHANGED <<commands, alive, faults, toPy, sidecar, registry, toRust,
                 stopping, card, task, clearing, hand, text, status>>

-----------------------------------------------------------------------------
(* The sidecar                                                              *)

sidecarOnly == <<commands, registry, stopping, card, wires, task, clearing, loop, hand,
                 text, status>>

Send(t, r) == toRust' = Append(toRust, Message(t, r))

(* A task cancelled before it enters the try block of run_agent_graph ends  *)
(* without a word; later the handler reports the cancellation, also when    *)
(* RUN_FINISHED is already written and its send still awaited.              *)
cancel_task_Silent(r) ==                                                \* mutant
  /\ py' = [py EXCEPT ![r] = IF @ \in {"preparing", "thinking", "tool", "finishing"}
                             THEN "done" ELSE @]
  /\ UNCHANGED toRust
cancel_task(r) ==
  \/ py[r] = "preparing" /\ py' = [py EXCEPT ![r] = "dropped"] /\ UNCHANGED toRust
  \/ /\ py[r] \in {"thinking", "tool", "finishing"}
     /\ py' = [py EXCEPT ![r] = "done"]
     /\ Send("CANCELLED", r)
  \/ py[r] \in {"none", "done", "dropped"} /\ UNCHANGED <<py, toRust>>

receive ==
  /\ alive /\ toPy # <<>>
  /\ toPy' = Tail(toPy)
  /\ LET m == Head(toPy) IN
       \/ /\ m.type = "RUN_REQUEST"
          /\ py' = [py EXCEPT ![m.run] = "preparing"]
          /\ UNCHANGED toRust
       \/ /\ m.type = "TOOL_RESULT"
          /\ py' = [py EXCEPT ![m.run] = IF @ = "tool" THEN "thinking" ELSE @]
          /\ UNCHANGED toRust
       \/ /\ m.type = "RUN_CANCEL"
          /\ cancel_task(m.run)
  /\ UNCHANGED <<sidecarOnly, tools>>

(* process_image_attachments and assemble_prompt, which may fail.           *)
prepare(r) ==
  /\ alive /\ py[r] = "preparing"
  /\ \/ py' = [py EXCEPT ![r] = "thinking"] /\ UNCHANGED toRust
     \/ py' = [py EXCEPT ![r] = "done"] /\ Send("RUN_ERROR", r)
  /\ UNCHANGED <<sidecarOnly, toPy, tools>>

(* One step of the graph: a fragment, a tool call, the end, or an exception. *)
Fragments(r) == heard[r] + Cardinality({i \in DOMAIN toRust : toRust[i] = Message("ASSISTANT_DELTA", r)})
graph_step(r) ==
  /\ alive /\ py[r] = "thinking"
  /\ \/ /\ Fragments(r) < MaxDeltas[r]
        /\ Send("ASSISTANT_DELTA", r)
        /\ UNCHANGED <<py, tools>>
     \/ /\ tools[r] < MaxTools[r]
        /\ tools' = [tools EXCEPT ![r] = @ + 1]
        /\ py' = [py EXCEPT ![r] = "tool"]
        /\ Send("TOOL_CALL_REQUEST", r)
     \/ /\ py' = [py EXCEPT ![r] = "finishing"]
        /\ Send("RUN_FINISHED", r)
        /\ UNCHANGED tools
     \/ /\ py' = [py EXCEPT ![r] = "done"]
        /\ Send("RUN_ERROR", r)
        /\ UNCHANGED tools
  /\ UNCHANGED <<sidecarOnly, toPy>>

(* The send of RUN_FINISHED returns; what follows (the title) is silent.    *)
finish(r) ==
  /\ alive /\ py[r] = "finishing"
  /\ py' = [py EXCEPT ![r] = "done"]
  /\ UNCHANGED <<sidecarOnly, toPy, toRust, tools>>

-----------------------------------------------------------------------------
(* The sidecar exits; the last messages it wrote may never arrive.          *)
sidecar_exit ==
  /\ alive /\ faults < MaxFaults
  /\ faults' = faults + 1
  /\ alive' = FALSE
  /\ toPy' = <<>>
  /\ \E n \in 0 .. Len(toRust) : toRust' = SubSeq(toRust, 1, n)
  /\ py' = [r \in Runs |-> IF py[r] = "none" THEN "none" ELSE "done"]
  /\ UNCHANGED <<commands, registry, stopping, card, sender, tools, task,
                 clearing, loop, hand, text, status>>

(* The application is killed and started again: memory is lost, the pending *)
(* messages are failed by recover_interrupted_assistants, a new sidecar     *)
(* connects.                                                                *)
recover_interrupted_assistants(old) == fail_pending_assistant(old, Runs)

restart ==
  /\ faults < MaxFaults
  /\ faults' = faults + 1
  /\ start' = [r \in Runs |-> IF start[r] = "none" THEN "none" ELSE "over"]
  /\ stop' = [r \in Runs |-> IF stop[r] \in {"no", "sent", "early"} THEN stop[r] ELSE "unsent"]
  /\ pendingRuns' = {} /\ sessionRun' = [s \in Sessions |-> NoRun]
  /\ cancelled' = {} /\ signals' = {} /\ fired' = {} /\ approvals' = {} /\ clearing' = {}
  /\ decision' = [r \in Runs |-> "none"] /\ task' = [r \in Runs |-> "none"]
  /\ sender' = TRUE /\ alive' = TRUE /\ toPy' = <<>> /\ toRust' = <<>>
  /\ py' = [r \in Runs |-> IF start[r] = "none" THEN "none" ELSE "done"]
  /\ loop' = "reading" /\ hand' = NoMessage
  /\ active' = [r \in Runs |-> NoRun]
  /\ status' = recover_interrupted_assistants(status)
  /\ UNCHANGED <<tools, heard, saved, traces>>

-----------------------------------------------------------------------------
CommandStep(r) ==
  \/ start_agent_run_or_mark_failed(r) \/ register_run(r) \/ set_session_run(r)
  \/ start_agent_run(r)
  \/ mark_run_cancelled(r) \/ take_run_cancel_signal(r) \/ send_run_cancel(r)

TaskStep(r) ==
  \/ set_run_cancel_signal(r) \/ check_cancelled(r) \/ await_approval(r)
  \/ reject_tool(r) \/ execute_tool(r) \/ after_execution(r)
  \/ store_tool_parts(r) \/ reply_tool_result(r)

LoopStep ==
  \/ assistant_delta \/ tool_call_request \/ run_ends \/ end_run \/ remove_run
  \/ remove_session_run \/ connection_lost \/ drain_session_runs \/ drain_runs
  \/ clear_active_sender

SidecarStep(r) == prepare(r) \/ graph_step(r) \/ finish(r)

Next ==
  \/ \E r \in Runs : \/ send_message(r) \/ CommandStep(r)
                     \/ \E answer \in {"yes", "no"} : approve_tool(r, answer)
                     \/ TaskStep(r) \/ clear_run_cancel_signal(r)
                     \/ SidecarStep(r)
  \/ \E s \in Sessions : cancel_run(s)
  \/ LoopStep \/ receive \/ sidecar_exit \/ restart

Spec == Init /\ [][Next]_vars

(* Commands, tasks, the loop and the sidecar are scheduled by runtimes that *)
(* run whatever is ready; tools and model calls end.  The user owes nothing. *)
Fairness ==
  /\ \A r \in Runs : /\ WF_vars(CommandStep(r)) /\ WF_vars(TaskStep(r))
                     /\ WF_vars(clear_run_cancel_signal(r)) /\ WF_vars(SidecarStep(r))
  /\ WF_vars(LoopStep) /\ WF_vars(receive)

FairSpec == Spec /\ Fairness

-----------------------------------------------------------------------------
(* Stop and tool requests race: cancel_run marks the run and then takes its *)
(* signal, the task registers its signal and then reads the mark.  Whichever *)
(* way they interleave, a task that got past the check and waits for the    *)
(* user or for its tool has been signalled once cancel_run took the signal. *)
StopReachesTask ==
  \A r \in Runs :
    stop[r] \in {"signalled", "sent", "early", "unsent"} /\ task[r] \in {"waiting", "ready", "executing"}
      => r \in fired

(* No result of a run is ever queued behind the cancellation of that run:   *)
(* it would hit a future the sidecar has already cancelled.                 *)
NoResultBehindCancel ==
  \A i, j \in DOMAIN toPy :
    toPy[i].type = "RUN_CANCEL" /\ toPy[j].type = "TOOL_RESULT" /\ toPy[i].run = toPy[j].run
      => j < i

(* A run's text only ever goes to the run's own message: the fallback to the *)
(* session's last pending message is never needed.                          *)
TextInOwnMessage == \A r \in Runs : active[r] \in {NoRun, r}

(* A message that ended complete or cancelled holds every fragment received. *)
TextSaved == \A r \in Runs : status[r] \in {"complete", "cancelled"} => saved[r] = heard[r]

(* The status of an assistant message is decided once.                      *)
Final == \A r \in Runs : status[r] \in Ended => status'[r] = status[r]
StatusFinal == [][Final]_vars

(* A message that stays pending belongs to a run waiting for the user's     *)
(* answer, or to one of the four cases that lose a run: cancelled before    *)
(* the sidecar's try block, cancelled before its request was sent, started  *)
(* while the loop was closing, or with a tool task cut off by the previous  *)
(* task's clear_run_cancel_signal.                                          *)
Lost(r) ==
  \/ py[r] = "dropped"
  \/ stop[r] = "early"
  \/ loop = "closed" /\ r \in pendingRuns
  \/ task[r] = "abandoned" /\ stop[r] = "no"
EndsUnlessLost ==
  \A r \in Runs : []<>(status[r] # "pending" \/ task[r] = "waiting" \/ Lost(r))

(* active_session_runs names the run in progress, so that it can be stopped. *)
RunningRunCanBeStopped ==
  \A r \in Runs :
    start[r] = "sent" /\ status[r] = "pending" /\ stop[r] = "no" /\ alive
      => sessionRun[SessionOf[r]] = r

(* A run whose RUN_CANCEL was sent gets its RUN_ERROR and ends.             *)
StoppedRunEnds == \A r \in Runs : stop[r] = "sent" ~> status[r] # "pending"

(* A stop is never overtaken: by a tool task, or by a result.               *)
StopSafe == TypeOK /\ StopReachesTask /\ NoResultBehindCancel

(* Every fragment is stored, in the message of its run.                     *)
TextKept == TextInOwnMessage /\ TextSaved
=============================================================================
