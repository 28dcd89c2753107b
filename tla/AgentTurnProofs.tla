--------------------------- MODULE AgentTurnProofs ---------------------------
(****************************************************************************)
(* Proofs about AgentTurn, for any sessions, runs, fragments, tool calls    *)
(* and faults.                                                              *)
(****************************************************************************)
EXTENDS AgentTurn, TLAPS

(* The inductive invariant.  Where send_message and the stop button are.    *)
Marked == {"marked", "signalled", "sent", "early", "unsent"}
Begun ==
  \A r \in Runs :
    /\ start[r] = "none" <=> status[r] = "none"
    /\ start[r] = "inserted" => status[r] = "pending"
    /\ start[r] \in {"none", "inserted"} => r \notin pendingRuns
    /\ start[r] \in {"none", "inserted", "registered"} => stop[r] = "no"
    /\ start[r] \in {"none", "inserted", "registered", "mapped"} => py[r] = "none"
    /\ start[r] \in {"registered", "mapped"} /\ loop \notin {"clearSender", "closed"}
         => r \in pendingRuns

(* The run a session names has not been stopped.                            *)
Named ==
  \A s \in Sessions, r \in Runs :
    sessionRun[s] = r => SessionOf[r] = s /\ stop[r] = "no" /\ start[r] \in {"mapped", "sent"}

(* Only a registered run whose request was sent occupies sidecar and tasks. *)
Working ==
  \A r \in Runs :
    /\ py[r] \in {"preparing", "thinking", "tool"} => alive /\ r \in pendingRuns
    /\ py[r] \notin {"none", "done"} => alive /\ start[r] = "sent"
    /\ task[r] # "none" \/ r \in clearing \/ active[r] # NoRun
         => py[r] # "none" /\ start[r] = "sent"

(* What the loop is at: a run that has ended says nothing more, and after   *)
(* the connection nothing arrives.                                          *)
Serving == {"reading", "ending", "removing", "unmapping"}
Ending == {"ending", "removing", "unmapping"}
Connected ==
  /\ ~alive => toPy = <<>>
  /\ loop \notin Serving => ~alive /\ toRust = <<>> /\ \A r \in Runs : task[r] = "none"
  /\ loop \in Ending =>
       /\ hand.run \in Runs /\ hand.type \in Ends
       /\ py[hand.run] \in {"finishing", "done"} /\ task[hand.run] = "none"
       /\ \A i \in DOMAIN toRust : toRust[i].type \notin Ends => toRust[i].run # hand.run
  /\ loop = "removing" => active[hand.run] = NoRun

(* What is on its way from the sidecar, where the end of a run comes last,  *)
Reported ==
  /\ \A i \in DOMAIN toRust :
       /\ start[toRust[i].run] = "sent"
       /\ toRust[i].type \in Ends => py[toRust[i].run] \in {"finishing", "done"}
       /\ toRust[i].type \notin Ends => py[toRust[i].run] # "none" /\ toRust[i].run \in pendingRuns
  /\ \A i, j \in DOMAIN toRust :
       toRust[i].type \in Ends /\ toRust[j].type \notin Ends /\ toRust[i].run = toRust[j].run
         => j < i

(* and to it.                                                               *)
Requested ==
  /\ \A i \in DOMAIN toPy :
       /\ toPy[i].type = "RUN_REQUEST" =>
            start[toPy[i].run] = "sent" /\ py[toPy[i].run] = "none" /\ toPy[i].run \in pendingRuns
       /\ toPy[i].type = "RUN_CANCEL" => stop[toPy[i].run] \in Marked
  /\ \A i, j \in DOMAIN toPy :
       toPy[i].type = "RUN_REQUEST" /\ toPy[j].type = "RUN_REQUEST" /\ toPy[i].run = toPy[j].run
         => i = j

(* A run that was marked as cancelled stays marked while it may use tools,  *)
(* and the task of a tool that passed the mark has a signal or has had it.  *)
Over(r) ==
  /\ py[r] \in {"finishing", "done"} /\ task[r] = "none"
  /\ \A i \in DOMAIN toRust : toRust[i].type = "TOOL_CALL_REQUEST" => toRust[i].run # r
Stopped ==
  \A r \in Runs :
    /\ stop[r] \in Marked => r \in cancelled \/ Over(r)
    /\ task[r] \in {"armed", "waiting", "ready", "executing"} => r \in signals \cup fired

(* A registered run owns a pending message, and what is heard outside an    *)
(* ActiveRun is saved.                                                      *)
Owned ==
  \A r \in Runs :
    /\ active[r] = r /\ loop \in Serving => r \in pendingRuns
    /\ r \in pendingRuns /\ ~(loop = "removing" /\ hand.run = r) => status[r] = "pending"
    /\ status[r] \in {"none", "pending"} /\ active[r] = NoRun => saved[r] = heard[r]

IInv ==
  /\ TypeOK /\ Begun /\ Named /\ Working /\ Connected /\ Reported /\ Requested /\ Stopped
  /\ Owned /\ StopReachesTask /\ NoResultBehindCancel /\ TextInOwnMessage /\ TextSaved

-----------------------------------------------------------------------------
(* Runs are numbers, and NoRun is none of them.                            *)
LEMMA Numbers == Runs \subseteq Nat /\ NoRun \notin Runs /\ SessionOf \in [Runs -> Sessions]
  BY RunsAssumption DEF Runs, NoRun

(* The invariant holds at first.                                           *)
LEMMA InitIInv == Init => IInv
<1> SUFFICES ASSUME Init PROVE IInv
  OBVIOUS
<1>1. TypeOK
  BY Numbers, BoundsAssumption DEF Init, TypeOK, NoMessage
<1>2. Begun /\ Working /\ Connected /\ Reported /\ Requested /\ Stopped /\ Owned
  BY Numbers DEF Init, Begun, Working, Connected, Reported, Requested, Stopped, Owned, Marked, Serving, Ending
<1>3. Named
  BY Numbers DEF Init, Named
<1>4. StopReachesTask /\ NoResultBehindCancel /\ TextInOwnMessage /\ TextSaved
  BY DEF Init, StopReachesTask, NoResultBehindCancel, TextInOwnMessage, TextSaved
<1> QED
  BY <1>1, <1>2, <1>3, <1>4 DEF IInv

-----------------------------------------------------------------------------
(* What the actions leave alone, per actor.                                 *)
Command(r) == send_message(r) \/ CommandStep(r)
Cancel == \E s \in Sessions : cancel_run(s)
ToolStep(r) == TaskStep(r) \/ clear_run_cancel_signal(r) \/ \E answer \in {"yes", "no"} : approve_tool(r, answer)

(* What the commands leave alone.                                          *)
LEMMA CommandFrame ==
  (\E r \in Runs : Command(r)) \/ Cancel =>
    UNCHANGED <<approvals, decision, sender, alive, faults, toRust, py, tools, task, clearing, loop, hand,
                active, heard, saved, traces>>
<1>1. ASSUME NEW r \in Runs, send_message(r) \/ start_agent_run_or_mark_failed(r) \/ register_run(r)
               \/ set_session_run(r) \/ start_agent_run(r)
      PROVE  UNCHANGED <<approvals, decision, sender, alive, faults, toRust, py, tools, task, clearing, loop,
                         hand, active, heard, saved, traces>>
  BY <1>1 DEF send_message, start_agent_run_or_mark_failed, register_run, set_session_run, start_agent_run,
              card, wires, sidecar, text
<1>2. ASSUME NEW r \in Runs, mark_run_cancelled(r) \/ take_run_cancel_signal(r) \/ send_run_cancel(r)
      PROVE  UNCHANGED <<approvals, decision, sender, alive, faults, toRust, py, tools, task, clearing, loop,
                         hand, active, heard, saved, traces>>
  BY <1>2 DEF mark_run_cancelled, take_run_cancel_signal, send_run_cancel, card, wires, sidecar, text
<1>3. Cancel => UNCHANGED <<approvals, decision, sender, alive, faults, toRust, py, tools, task, clearing,
                            loop, hand, active, heard, saved, traces>>
  BY DEF Cancel, cancel_run, card, wires, sidecar, text
<1> QED
  BY <1>1, <1>2, <1>3 DEF Command, CommandStep

(* What the tool tasks leave alone.                                        *)
LEMMA ToolFrame ==
  (\E r \in Runs : ToolStep(r)) =>
    UNCHANGED <<start, stop, pendingRuns, sessionRun, cancelled, sender, alive, faults, toRust, py, tools,
                loop, hand, status, heard>>
<1>1. ASSUME NEW r \in Runs, set_run_cancel_signal(r) \/ check_cancelled(r) \/ await_approval(r) \/ reject_tool(r)
      PROVE  UNCHANGED <<start, stop, pendingRuns, sessionRun, cancelled, sender, alive, faults, toRust, py,
                         tools, loop, hand, status, heard>>
  BY <1>1 DEF set_run_cancel_signal, check_cancelled, await_approval, reject_tool, taskOnly, commands, registry,
              stopping, wires, sidecar, text
<1>2. ASSUME NEW r \in Runs, execute_tool(r) \/ after_execution(r) \/ store_tool_parts(r) \/ reply_tool_result(r)
      PROVE  UNCHANGED <<start, stop, pendingRuns, sessionRun, cancelled, sender, alive, faults, toRust, py,
                         tools, loop, hand, status, heard>>
  BY <1>2 DEF execute_tool, after_execution, store_tool_parts, reply_tool_result, taskOnly, commands, registry,
              stopping, wires, sidecar, text
<1>3. ASSUME NEW r \in Runs, clear_run_cancel_signal(r) \/ \E answer \in {"yes", "no"} : approve_tool(r, answer)
      PROVE  UNCHANGED <<start, stop, pendingRuns, sessionRun, cancelled, sender, alive, faults, toRust, py,
                         tools, loop, hand, status, heard>>
  BY <1>3 DEF clear_run_cancel_signal, approve_tool, taskOnly, commands, registry, stopping, wires, sidecar, text
<1> QED
  BY <1>1, <1>2, <1>3 DEF ToolStep, TaskStep

Sidecar == receive \/ \E r \in Runs : SidecarStep(r)
(* What the sidecar leaves alone.                                          *)
LEMMA SidecarFrame ==
  Sidecar =>
    UNCHANGED <<start, stop, pendingRuns, sessionRun, cancelled, signals, fired, approvals, decision, sender,
                alive, faults, task, clearing, loop, hand, active, heard, saved, traces, status>>
  BY DEF Sidecar, receive, SidecarStep, prepare, graph_step, finish, sidecarOnly, commands, registry, stopping,
         card, wires, text

(* What the host loop leaves alone.                                        *)
LEMMA LoopFrame ==
  LoopStep => UNCHANGED <<start, stop, alive, faults, toPy, py, tools>>
<1>1. assistant_delta \/ tool_call_request \/ run_ends \/ end_run \/ remove_run
        => UNCHANGED <<start, stop, alive, faults, toPy, py, tools>>
  BY DEF assistant_delta, tool_call_request, run_ends, end_run, remove_run, loopOnly, commands, wires, sidecar
<1>2. remove_session_run \/ connection_lost \/ drain_session_runs \/ drain_runs \/ clear_active_sender
        => UNCHANGED <<start, stop, alive, faults, toPy, py, tools>>
  BY DEF remove_session_run, connection_lost, drain_session_runs, drain_runs, clear_active_sender, loopOnly,
         commands, wires, sidecar
<1> QED
  BY <1>1, <1>2 DEF LoopStep

(* A step, by the process that takes it.                                   *)
LEMMA Steps ==
  Next => \/ \E r \in Runs : Command(r)
          \/ Cancel
          \/ \E r \in Runs : ToolStep(r)
          \/ Sidecar \/ LoopStep \/ sidecar_exit \/ restart
  BY DEF Next, Command, Cancel, ToolStep, Sidecar

-----------------------------------------------------------------------------
(* Messages on the two wires.                                               *)
PyMessages == [type : {"RUN_REQUEST", "TOOL_RESULT", "RUN_CANCEL"}, run : Runs]
RustMessages == [type : {"ASSISTANT_DELTA", "TOOL_CALL_REQUEST"} \cup Ends, run : Runs]

(* A queue with one more message.                                          *)
LEMMA OneMore ==
  ASSUME NEW T, NEW s \in Seq(T), NEW m \in T
  PROVE  /\ Append(s, m) \in Seq(T) /\ DOMAIN Append(s, m) = DOMAIN s \cup {Len(s) + 1}
         /\ \A i \in DOMAIN s : Append(s, m)[i] = s[i] /\ i <= Len(s) /\ i \in Nat
         /\ Append(s, m)[Len(s) + 1] = m /\ Len(s) \in Nat
  OBVIOUS

(* A queue with one message less.                                          *)
LEMMA OneLess ==
  ASSUME NEW T, NEW s \in Seq(T), s # <<>>
  PROVE  /\ Tail(s) \in Seq(T) /\ Head(s) \in T /\ Head(s) = s[1] /\ 1 \in DOMAIN s
         /\ \A i \in DOMAIN Tail(s) : i \in Nat /\ i + 1 \in DOMAIN s /\ Tail(s)[i] = s[i + 1] /\ 1 <= i
  OBVIOUS

(* What is left of a queue whose end is lost.                              *)
LEMMA Prefix ==
  ASSUME NEW T, NEW s \in Seq(T), NEW n \in 0 .. Len(s)
  PROVE  /\ SubSeq(s, 1, n) \in Seq(T)
         /\ \A i \in DOMAIN SubSeq(s, 1, n) : i \in DOMAIN s /\ SubSeq(s, 1, n)[i] = s[i]
  OBVIOUS

(* The messages on the wire have their types.                              *)
LEMMA WireTypes ==
  TypeOK =>
    /\ toPy \in Seq(PyMessages) /\ toRust \in Seq(RustMessages)
    /\ \A i \in DOMAIN toPy : toPy[i] \in PyMessages /\ toPy[i].run \in Runs
    /\ \A i \in DOMAIN toRust : toRust[i] \in RustMessages /\ toRust[i].run \in Runs
<1> SUFFICES ASSUME TypeOK
    PROVE  /\ toPy \in Seq(PyMessages) /\ toRust \in Seq(RustMessages)
           /\ \A i \in DOMAIN toPy : toPy[i] \in PyMessages /\ toPy[i].run \in Runs
           /\ \A i \in DOMAIN toRust : toRust[i] \in RustMessages /\ toRust[i].run \in Runs
  OBVIOUS
<1>1. toPy \in Seq(PyMessages) /\ toRust \in Seq(RustMessages)
  BY DEF TypeOK, PyMessages, RustMessages
<1>2. \A m \in PyMessages \cup RustMessages : m.run \in Runs
  BY DEF PyMessages, RustMessages
<1>3. /\ \A i \in DOMAIN toPy : toPy[i] \in PyMessages
      /\ \A i \in DOMAIN toRust : toRust[i] \in RustMessages
  BY <1>1
<1> QED
  BY <1>1, <1>2, <1>3

(* So have the queues with a message to the sidecar,                       *)
LEMMA QueuedTypes ==
  ASSUME TypeOK, NEW r \in Runs, NEW t \in {"RUN_REQUEST", "TOOL_RESULT", "RUN_CANCEL"}
  PROVE  Queued(t, r) \in Seq(PyMessages)
<1>1. Message(t, r) \in PyMessages
  BY DEF Message, PyMessages
<1> QED
  BY <1>1, WireTypes, OneMore DEF Queued

(* and with a message to the host.                                         *)
LEMMA SentTypes ==
  ASSUME TypeOK, NEW r \in Runs, NEW t \in {"ASSISTANT_DELTA", "TOOL_CALL_REQUEST"} \cup Ends
  PROVE  Append(toRust, Message(t, r)) \in Seq(RustMessages)
  BY WireTypes DEF Message, RustMessages

(* A status after failures is a status.                                    *)
LEMMA FailedTypes ==
  ASSUME TypeOK, NEW rs
  PROVE  fail_pending_assistant(status, rs) \in [Runs -> {"none", "pending"} \cup Ended]
  BY DEF TypeOK, fail_pending_assistant, Ended

(* The text of a run on its way goes to the run's own message.              *)
LEMMA OwnText ==
  ASSUME IInv, NEW i \in DOMAIN toRust, toRust[i].type \notin Ends
  PROVE  TextTarget(toRust[i].run) = toRust[i].run /\ ensure_run(toRust[i].run)[toRust[i].run] = toRust[i].run
<1>1. toRust[i].run \in Runs
  BY WireTypes DEF IInv
<1>2. toRust[i].run \in pendingRuns /\ active[toRust[i].run] \in {NoRun, toRust[i].run}
  BY <1>1 DEF IInv, Reported, TextInOwnMessage
<1>3. active \in [Runs -> Runs \cup {NoRun}]
  BY DEF IInv, TypeOK
<1> QED
  BY <1>1, <1>2, <1>3, Numbers DEF TextTarget, ensure_run

CommandTypes ==
  /\ start \in [Runs -> {"none", "inserted", "registered", "mapped", "sent", "over"}]
  /\ stop \in [Runs -> {"no", "taken", "marked", "signalled", "sent", "early", "unsent"}]
  /\ pendingRuns \subseteq Runs
  /\ sessionRun \in [Sessions -> Runs \cup {NoRun}]
  /\ cancelled \subseteq Runs /\ signals \subseteq Runs /\ fired \subseteq Runs
  /\ toPy \in Seq(PyMessages)
  /\ status \in [Runs -> {"none", "pending"} \cup Ended]
OtherTypes ==
  /\ approvals \subseteq Runs /\ clearing \subseteq Runs
  /\ sender \in BOOLEAN /\ alive \in BOOLEAN
  /\ toRust \in Seq(RustMessages)
  /\ py \in [Runs -> {"none", "preparing", "thinking", "tool", "finishing", "done", "dropped"}]
  /\ task \in [Runs -> {"none", "asked", "armed", "waiting", "rejected", "ready",
                        "executing", "executed", "storing", "replying", "abandoned"}]
  /\ decision \in [Runs -> {"none", "yes", "no"}]
  /\ loop \in {"reading", "ending", "removing", "unmapping",
               "drainSessions", "drainRuns", "clearSender", "closed"}
  /\ hand \in [type : Ends \cup {"NONE"}, run : Runs \cup {NoRun}]
  /\ active \in [Runs -> Runs \cup {NoRun}]
  /\ tools \in [Runs -> Nat] /\ heard \in [Runs -> Nat] /\ saved \in [Runs -> Nat] /\ traces \in [Runs -> Nat]
  /\ faults \in 0 .. MaxFaults

(* The type invariant in two halves.                                       *)
LEMMA AllTypes == (TypeOK <=> CommandTypes /\ OtherTypes) /\ (TypeOK' <=> CommandTypes' /\ OtherTypes')
<1>1. TypeOK <=> CommandTypes /\ OtherTypes
  BY DEF TypeOK, CommandTypes, OtherTypes, PyMessages, RustMessages
<1> QED
  BY <1>1, PTL

(* Steps of the commands keep the types.                                   *)
LEMMA CommandTypeStep ==
  ASSUME IInv, (\E r \in Runs : Command(r)) \/ Cancel
  PROVE  TypeOK'
<1>1. CommandTypes /\ OtherTypes
  BY AllTypes DEF IInv
<1>2. OtherTypes'
  BY <1>1, CommandFrame DEF OtherTypes
<1>3. ASSUME NEW r \in Runs, Command(r) PROVE CommandTypes'
  <2>1. CASE send_message(r) \/ start_agent_run_or_mark_failed(r) \/ register_run(r) \/ set_session_run(r)
    <3>1. fail_pending_assistant(status, {r}) \in [Runs -> {"none", "pending"} \cup Ended]
      BY FailedTypes DEF IInv
    <3>2. UNCHANGED <<stop, toPy, signals, fired>>
      BY <2>1 DEF send_message, start_agent_run_or_mark_failed, register_run, set_session_run, stopping
    <3>3. /\ status' \in [Runs -> {"none", "pending"} \cup Ended]
          /\ start' \in [Runs -> {"none", "inserted", "registered", "mapped", "sent", "over"}]
      BY <1>1, <2>1, <3>1 DEF CommandTypes, send_message, start_agent_run_or_mark_failed, register_run, set_session_run
    <3>4. pendingRuns' \subseteq Runs /\ cancelled' \subseteq Runs /\ sessionRun' \in [Sessions -> Runs \cup {NoRun}]
      BY <1>1, <2>1 DEF CommandTypes, send_message, start_agent_run_or_mark_failed, register_run,
         set_session_run, registry, stopping
    <3> QED
      BY <1>1, <3>2, <3>3, <3>4 DEF CommandTypes
  <2>2. CASE start_agent_run(r)
    <3>1. fail_pending_assistant(status, {r}) \in [Runs -> {"none", "pending"} \cup Ended]
      BY FailedTypes DEF IInv
    <3>2. Queued("RUN_REQUEST", r) \in Seq(PyMessages)
      BY QueuedTypes DEF IInv
    <3> QED
      BY <1>1, <2>2, <3>1, <3>2 DEF CommandTypes, start_agent_run, without_run, stopping, registry
  <2>3. CASE mark_run_cancelled(r) \/ take_run_cancel_signal(r)
    BY <1>1, <2>3 DEF CommandTypes, mark_run_cancelled, take_run_cancel_signal, ResolveSignal, registry
  <2>4. CASE send_run_cancel(r)
    <3>1. Queued("RUN_CANCEL", r) \in Seq(PyMessages)
      BY QueuedTypes DEF IInv
    <3> QED
      BY <1>1, <2>4, <3>1 DEF CommandTypes, send_run_cancel, stopping, registry
  <2> QED
    BY <1>3, <2>1, <2>2, <2>3, <2>4 DEF Command, CommandStep
<1>4. CASE Cancel
  <2>1. PICK s \in Sessions : cancel_run(s)
    BY <1>4 DEF Cancel
  <2>2. sessionRun[s] \in Runs
    BY <1>1, <2>1 DEF CommandTypes, cancel_run
  <2>3. /\ UNCHANGED <<start, pendingRuns, cancelled, signals, fired, toPy, status>>
        /\ sessionRun' = [sessionRun EXCEPT ![s] = NoRun]
        /\ stop' = [stop EXCEPT ![sessionRun[s]] = "taken"]
    BY <2>1 DEF cancel_run, stopping
  <2>4. /\ sessionRun' \in [Sessions -> Runs \cup {NoRun}]
        /\ stop' \in [Runs -> {"no", "taken", "marked", "signalled", "sent", "early", "unsent"}]
    BY <1>1, <2>2, <2>3 DEF CommandTypes
  <2> QED
    BY <1>1, <1>2, <2>3, <2>4, AllTypes DEF CommandTypes
<1> QED
  BY <1>2, <1>3, <1>4, AllTypes

(* Steps of the tool tasks keep the types.                                 *)
LEMMA ToolTypeStep ==
  ASSUME IInv, NEW r \in Runs, ToolStep(r)
  PROVE  TypeOK'
<1>1. CommandTypes /\ OtherTypes
  BY AllTypes DEF IInv
<1>2. UNCHANGED <<start, stop, pendingRuns, sessionRun, cancelled, sender, alive, faults, toRust, py, tools,
                  loop, hand, status, heard>>
  BY ToolFrame
<1>3. toPy' \in Seq(PyMessages)
  <2>1. Queued("TOOL_RESULT", r) \in Seq(PyMessages)
    BY QueuedTypes DEF IInv
  <2>2. toPy' \in {toPy, Queued("TOOL_RESULT", r)}
    BY DEF ToolStep, TaskStep, set_run_cancel_signal, check_cancelled, await_approval, reject_tool, execute_tool,
       after_execution, store_tool_parts, reply_tool_result, clear_run_cancel_signal, approve_tool,
       send_tool_result_if_active
  <2> QED
    BY <1>1, <2>1, <2>2 DEF CommandTypes
<1>4. signals' \subseteq Runs /\ fired' \subseteq Runs
  BY <1>1 DEF CommandTypes, ToolStep, TaskStep, set_run_cancel_signal, check_cancelled, await_approval, reject_tool,
     execute_tool, after_execution, store_tool_parts, reply_tool_result, clear_run_cancel_signal, approve_tool,
     ResolveSignal, stopping
<1>5. /\ approvals' \subseteq Runs /\ clearing' \subseteq Runs /\ decision' \in [Runs -> {"none", "yes", "no"}]
      /\ task' \in [Runs -> {"none", "asked", "armed", "waiting", "rejected", "ready",
                             "executing", "executed", "storing", "replying", "abandoned"}]
  <2>1. CASE set_run_cancel_signal(r) \/ check_cancelled(r) \/ await_approval(r) \/ reject_tool(r)
    BY <1>1, <2>1 DEF OtherTypes, set_run_cancel_signal, check_cancelled, await_approval, reject_tool, card
  <2>2. CASE execute_tool(r) \/ after_execution(r) \/ store_tool_parts(r) \/ reply_tool_result(r)
    BY <1>1, <2>2 DEF OtherTypes, execute_tool, after_execution, store_tool_parts, reply_tool_result, card
  <2>3. CASE clear_run_cancel_signal(r)
    BY <1>1, <2>3 DEF OtherTypes, clear_run_cancel_signal, card
  <2>4. ASSUME NEW answer \in {"yes", "no"}, approve_tool(r, answer)
        PROVE  /\ approvals' \subseteq Runs /\ UNCHANGED <<clearing, task>>
               /\ decision' \in [Runs -> {"none", "yes", "no"}]
    BY <1>1, <2>4 DEF OtherTypes, approve_tool
  <2> QED
    BY <1>1, <2>1, <2>2, <2>3, <2>4 DEF ToolStep, TaskStep, OtherTypes
<1>6. active' \in [Runs -> Runs \cup {NoRun}] /\ saved' \in [Runs -> Nat] /\ traces' \in [Runs -> Nat]
  <2>1. CASE set_run_cancel_signal(r)
    BY <1>1, <2>1 DEF OtherTypes, set_run_cancel_signal, ensure_run
  <2>2. CASE store_tool_parts(r)
    BY <1>1, <2>2 DEF OtherTypes, store_tool_parts, drain_accumulated
  <2>3. CASE UNCHANGED <<active, saved, traces>>
    BY <1>1, <2>3 DEF OtherTypes
  <2> QED
    BY <2>1, <2>2, <2>3 DEF ToolStep, TaskStep, check_cancelled, await_approval, reject_tool, execute_tool,
       after_execution, reply_tool_result, clear_run_cancel_signal, approve_tool, text
<1>7. CommandTypes'
  BY <1>1, <1>2, <1>3, <1>4 DEF CommandTypes
<1>8. OtherTypes'
  BY <1>1, <1>2, <1>5, <1>6 DEF OtherTypes
<1> QED
  BY <1>7, <1>8, AllTypes

(* Steps of the sidecar keep the types.                                    *)
LEMMA SidecarTypeStep ==
  ASSUME IInv, Sidecar
  PROVE  TypeOK'
<1>1. CommandTypes /\ OtherTypes
  BY AllTypes DEF IInv
<1>2. UNCHANGED <<start, stop, pendingRuns, sessionRun, cancelled, signals, fired, approvals, decision, sender,
                  alive, faults, task, clearing, loop, hand, active, heard, saved, traces, status>>
  BY SidecarFrame
<1>3. ASSUME receive
      PROVE  /\ toPy' \in Seq(PyMessages) /\ toRust' \in Seq(RustMessages) /\ tools' = tools
             /\ py' \in [Runs -> {"none", "preparing", "thinking", "tool", "finishing", "done", "dropped"}]
  <2>1. toPy # <<>> /\ toPy' = Tail(toPy) /\ tools' = tools
    BY <1>3 DEF receive
  <2>2. Head(toPy) \in PyMessages /\ Tail(toPy) \in Seq(PyMessages)
    BY <1>1, <2>1, OneLess DEF CommandTypes
  <2>3. Head(toPy).run \in Runs
    BY <2>2 DEF PyMessages
  <2>4. Append(toRust, Message("CANCELLED", Head(toPy).run)) \in Seq(RustMessages)
    BY <2>3, SentTypes DEF IInv, Ends
  <2> QED
    BY ZenonT(60), <1>1, <1>3, <2>1, <2>2, <2>3, <2>4 DEF OtherTypes, receive, cancel_task, Send
<1>4. ASSUME NEW r \in Runs, SidecarStep(r)
      PROVE  /\ toPy' \in Seq(PyMessages) /\ toRust' \in Seq(RustMessages) /\ tools' \in [Runs -> Nat]
             /\ py' \in [Runs -> {"none", "preparing", "thinking", "tool", "finishing", "done", "dropped"}]
  <2>1. \A t \in {"ASSISTANT_DELTA", "TOOL_CALL_REQUEST", "RUN_FINISHED", "RUN_ERROR"} :
          Append(toRust, Message(t, r)) \in Seq(RustMessages)
    BY SentTypes DEF IInv, Ends
  <2>2. toPy' = toPy
    BY <1>4 DEF SidecarStep, prepare, graph_step, finish
  <2>3. CASE prepare(r) \/ finish(r)
    BY ZenonT(60), <1>1, <2>1, <2>2, <2>3 DEF CommandTypes, OtherTypes, prepare, finish, Send
  <2>4. CASE graph_step(r)
    <3>1. toRust' \in {Append(toRust, Message(t, r)) :
                        t \in {"ASSISTANT_DELTA", "TOOL_CALL_REQUEST", "RUN_FINISHED", "RUN_ERROR"}}
      BY <2>4 DEF graph_step, Send
    <3>2. /\ tools' = tools \/ tools' = [tools EXCEPT ![r] = @ + 1]
          /\ py' = py \/ \E c \in {"tool", "finishing", "done"} : py' = [py EXCEPT ![r] = c]
      BY <2>4 DEF graph_step
    <3>3. tools' \in [Runs -> Nat]
      <4>1. tools \in [Runs -> Nat]
        BY <1>1 DEF OtherTypes
      <4> QED
        BY <3>2, <4>1
    <3>4. py' \in [Runs -> {"none", "preparing", "thinking", "tool", "finishing", "done", "dropped"}]
      BY <1>1, <3>2 DEF OtherTypes
    <3>5. toRust' \in Seq(RustMessages)
      BY <2>1, <3>1
    <3> QED
      BY <1>1, <2>2, <3>3, <3>4, <3>5 DEF CommandTypes
  <2> QED
    BY <1>4, <2>3, <2>4 DEF SidecarStep
<1>5. toPy' \in Seq(PyMessages) /\ toRust' \in Seq(RustMessages) /\ tools' \in [Runs -> Nat]
      /\ py' \in [Runs -> {"none", "preparing", "thinking", "tool", "finishing", "done", "dropped"}]
  BY <1>1, <1>3, <1>4 DEF Sidecar, OtherTypes
<1> QED
  BY <1>1, <1>2, <1>5, AllTypes DEF CommandTypes, OtherTypes

(* The message at the head, and the sequence without it.                    *)
LEMMA TakesTypes ==
  ASSUME IInv, NEW t \in SUBSET {"ASSISTANT_DELTA", "TOOL_CALL_REQUEST", "RUN_FINISHED", "RUN_ERROR", "CANCELLED"},
         Takes(t)
  PROVE  /\ loop = "reading" /\ 1 \in DOMAIN toRust /\ Head(toRust) = toRust[1]
         /\ Head(toRust) \in RustMessages /\ Head(toRust).run \in Runs /\ Head(toRust).type \in t
         /\ toRust' = Tail(toRust) /\ toRust' \in Seq(RustMessages)
         /\ \A i \in DOMAIN toRust' : i \in Nat /\ i + 1 \in DOMAIN toRust /\ toRust'[i] = toRust[i + 1] /\ 1 <= i
<1>1. toRust \in Seq(RustMessages) /\ toRust # <<>> /\ toRust' = Tail(toRust)
  BY WireTypes DEF IInv, Takes
<1>2. Head(toRust) \in RustMessages
  BY <1>1, OneLess
<1>3. Head(toRust).run \in Runs
  BY <1>2 DEF RustMessages
<1> QED
  BY <1>1, <1>2, <1>3, OneLess DEF Takes

(* What a disconnect leaves of the tool tasks has its type.                *)
LEMMA AbortTypes ==
  ASSUME TypeOK, NEW rs, abort_tool_tasks(rs)
  PROVE  /\ cancelled' \subseteq Runs /\ signals' \subseteq Runs /\ fired' \subseteq Runs
         /\ approvals' \subseteq Runs /\ clearing' \subseteq Runs /\ decision' \in [Runs -> {"none", "yes", "no"}]
         /\ task' \in [Runs -> {"none", "asked", "armed", "waiting", "rejected", "ready",
                                "executing", "executed", "storing", "replying", "abandoned"}]
  BY DEF TypeOK, abort_tool_tasks

(* Steps of the host loop keep the types.                                  *)
LEMMA LoopTypeStep ==
  ASSUME IInv, LoopStep
  PROVE  TypeOK'
<1>1. CommandTypes /\ OtherTypes
  BY AllTypes DEF IInv
<1>2. UNCHANGED <<start, stop, alive, faults, toPy, py, tools>>
  BY LoopFrame
<1>3. CASE assistant_delta
  <2>1. Head(toRust) = toRust[1] /\ 1 \in DOMAIN toRust /\ Head(toRust).run \in Runs /\ toRust' \in Seq(RustMessages)
        /\ Head(toRust).type = "ASSISTANT_DELTA"
    BY <1>3, TakesTypes DEF assistant_delta
  <2>2. TextTarget(Head(toRust).run) = Head(toRust).run
    BY <2>1, OwnText DEF Ends
  <2>3. /\ active' = [active EXCEPT ![Head(toRust).run] = Head(toRust).run]
        /\ heard' = [heard EXCEPT ![Head(toRust).run] = @ + 1]
    BY <1>3, <2>1, <2>2, Numbers DEF assistant_delta
  <2>4. active' \in [Runs -> Runs \cup {NoRun}] /\ heard' \in [Runs -> Nat]
    BY <1>1, <2>1, <2>3 DEF OtherTypes
  <2>5. UNCHANGED <<pendingRuns, sessionRun, cancelled, signals, fired, approvals, decision, sender, task, clearing,
                    loop, hand, saved, traces, status>>
    BY <1>3 DEF assistant_delta, loopOnly, registry, stopping, card, wires
  <2> QED
    BY <1>1, <1>2, <2>1, <2>4, <2>5, AllTypes DEF CommandTypes, OtherTypes
<1>4. CASE tool_call_request
  <2>1. Head(toRust).run \in Runs /\ toRust' \in Seq(RustMessages)
    BY <1>4, TakesTypes DEF tool_call_request
  <2>2. UNCHANGED <<pendingRuns, sessionRun, cancelled, signals, fired, approvals, decision, sender, clearing,
                    loop, hand, active, heard, saved, traces, status>>
    BY <1>4 DEF tool_call_request, loopOnly, registry, stopping, card, wires, text
  <2> QED
    BY <1>1, <1>2, <1>4, <2>1, <2>2, AllTypes DEF CommandTypes, OtherTypes, tool_call_request
<1>5. CASE run_ends
  <2>1. Head(toRust) \in RustMessages /\ toRust' \in Seq(RustMessages) /\ Head(toRust).type \in Ends
    BY <1>5, TakesTypes DEF run_ends, Ends
  <2>2. hand' \in [type : Ends \cup {"NONE"}, run : Runs \cup {NoRun}] /\ loop' = "ending"
    BY <1>5, <2>1 DEF run_ends, RustMessages
  <2>3. UNCHANGED <<pendingRuns, sessionRun, sender, active, heard, saved, traces, status>>
    BY <1>5 DEF run_ends, loopOnly, registry, wires, text
  <2>4. abort_tool_tasks({Head(toRust).run})
    BY <1>5 DEF run_ends
  <2> QED
    BY <1>1, <1>2, <2>1, <2>2, <2>3, <2>4, AbortTypes, AllTypes DEF CommandTypes, OtherTypes
<1>6. CASE end_run
  <2>1. hand.run \in Runs /\ hand.type \in Ends
    BY <1>6 DEF IInv, Connected, Ending, end_run
  <2>2. ensure_run(hand.run)[hand.run] \in Runs \cup {NoRun}
    BY <1>1, <2>1 DEF OtherTypes, ensure_run
  <2>3. fail_pending_assistant(status, {ensure_run(hand.run)[hand.run]}) \in [Runs -> {"none", "pending"} \cup Ended]
    BY FailedTypes DEF IInv
  <2>4. status' \in [Runs -> {"none", "pending"} \cup Ended]
    <3>1. status' = FinalStatus(hand.run, ensure_run(hand.run)[hand.run])
      BY <1>6 DEF end_run
    <3> QED
      BY <1>1, <2>2, <2>3, <3>1 DEF FinalStatus, CommandTypes, Ended
  <2>5. saved' \in [Runs -> Nat] /\ active' \in [Runs -> Runs \cup {NoRun}] /\ loop' = "removing"
    BY <1>1, <1>6 DEF end_run, drain_accumulated, OtherTypes
  <2>6. UNCHANGED <<toRust, pendingRuns, sessionRun, cancelled, signals, fired, approvals, decision, sender, task,
                    clearing, hand, heard, traces>>
    BY <1>6 DEF end_run, loopOnly, registry, stopping, card, wires
  <2> QED
    BY <1>1, <1>2, <2>4, <2>5, <2>6, AllTypes DEF CommandTypes, OtherTypes
<1>7. CASE remove_run \/ remove_session_run
  <2>1. UNCHANGED <<toRust, cancelled, signals, fired, approvals, decision, sender, task,
                    clearing, active, saved, heard, traces, status>>
    BY <1>7 DEF remove_run, remove_session_run, loopOnly, stopping, card, wires, text
  <2>2. pendingRuns' \subseteq Runs /\ sessionRun' \in [Sessions -> Runs \cup {NoRun}]
    BY <1>1, <1>7 DEF remove_run, remove_session_run, without_run, CommandTypes
  <2>3. /\ loop' \in {"unmapping", "reading"}
        /\ hand' \in [type : Ends \cup {"NONE"}, run : Runs \cup {NoRun}]
    BY <1>1, <1>7 DEF remove_run, remove_session_run, NoMessage, OtherTypes
  <2> QED
    BY <1>1, <1>2, <2>1, <2>2, <2>3, AllTypes DEF CommandTypes, OtherTypes
<1>8. CASE connection_lost
  <2>1. UNCHANGED <<pendingRuns, sessionRun, toRust, sender, hand, active, saved, heard, traces, status>>
        /\ loop' = "drainSessions"
    BY <1>8 DEF connection_lost, loopOnly, registry, wires, text
  <2>2. abort_tool_tasks({r \in Runs : task[r] # "none" \/ r \in clearing})
    BY <1>8 DEF connection_lost
  <2> QED
    BY <1>1, <1>2, <2>1, <2>2, AbortTypes, AllTypes DEF CommandTypes, OtherTypes
<1>9. CASE drain_session_runs \/ drain_runs \/ clear_active_sender
  <2>1. UNCHANGED <<toRust, cancelled, signals, fired, approvals, decision, task, hand,
                    clearing, active, saved, heard, traces>>
    BY <1>9 DEF drain_session_runs, drain_runs, clear_active_sender, loopOnly, stopping, card, wires, text
  <2>2. fail_pending_assistant(status, pendingRuns) \in [Runs -> {"none", "pending"} \cup Ended]
    BY FailedTypes DEF IInv
  <2>3. /\ pendingRuns' \subseteq Runs /\ sessionRun' \in [Sessions -> Runs \cup {NoRun}]
        /\ status' \in [Runs -> {"none", "pending"} \cup Ended]
        /\ loop' \in {"drainRuns", "clearSender", "closed"} /\ sender' \in BOOLEAN
    BY ZenonT(60), <1>1, <1>9, <2>2 DEF drain_session_runs, drain_runs, clear_active_sender, registry, loopOnly, wires,
       CommandTypes, OtherTypes
  <2> QED
    BY <1>1, <1>2, <2>1, <2>3, AllTypes DEF CommandTypes, OtherTypes
<1> QED
  BY <1>3, <1>4, <1>5, <1>6, <1>7, <1>8, <1>9 DEF LoopStep

(* A sidecar that exits and a restart keep the types.                      *)
LEMMA FaultTypeStep ==
  ASSUME IInv, sidecar_exit \/ restart
  PROVE  TypeOK'
<1>1. CommandTypes /\ OtherTypes
  BY AllTypes DEF IInv
<1>2. faults' \in 0 .. MaxFaults
  BY <1>1, BoundsAssumption DEF OtherTypes, sidecar_exit, restart
<1>3. CASE sidecar_exit
  <2>1. UNCHANGED <<start, stop, pendingRuns, sessionRun, cancelled, signals, fired, approvals, decision, sender,
                    tools, task, clearing, loop, hand, active, heard, saved, traces, status>>
        /\ toPy' = <<>> /\ alive' = FALSE
    BY <1>3 DEF sidecar_exit, commands, registry, stopping, card, text
  <2>2. toRust' \in Seq(RustMessages)
    BY <1>1, <1>3, Prefix DEF sidecar_exit, OtherTypes
  <2>3. py' \in [Runs -> {"none", "preparing", "thinking", "tool", "finishing", "done", "dropped"}]
    BY <1>3 DEF sidecar_exit
  <2>4. CommandTypes'
    BY <1>1, <2>1 DEF CommandTypes
  <2>5. OtherTypes'
    BY <1>1, <1>2, <2>1, <2>2, <2>3 DEF OtherTypes
  <2> QED
    BY <2>4, <2>5, AllTypes
<1>4. CASE restart
  <2>1. fail_pending_assistant(status, Runs) \in [Runs -> {"none", "pending"} \cup Ended]
    BY FailedTypes DEF IInv
  <2>2. CommandTypes'
    BY <1>1, <1>4, <2>1 DEF restart, recover_interrupted_assistants, CommandTypes
  <2>3. OtherTypes'
    BY <1>1, <1>2, <1>4 DEF restart, OtherTypes, NoMessage
  <2> QED
    BY <2>2, <2>3, AllTypes
<1> QED
  BY <1>3, <1>4

(* Every step keeps the types.                                             *)
LEMMA TypeStep == IInv /\ Next => TypeOK'
  BY Steps, CommandTypeStep, ToolTypeStep, SidecarTypeStep, LoopTypeStep, FaultTypeStep

-----------------------------------------------------------------------------
(* Facts of the invariant that several proofs use.                          *)
LEMMA Facts ==
  ASSUME IInv
  PROVE  /\ start \in [Runs -> {"none", "inserted", "registered", "mapped", "sent", "over"}]
         /\ stop \in [Runs -> {"no", "taken", "marked", "signalled", "sent", "early", "unsent"}]
         /\ sessionRun \in [Sessions -> Runs \cup {NoRun}]
         /\ py \in [Runs -> {"none", "preparing", "thinking", "tool", "finishing", "done", "dropped"}]
         /\ status \in [Runs -> {"none", "pending"} \cup Ended]
         /\ active \in [Runs -> Runs \cup {NoRun}]
         /\ task \in [Runs -> {"none", "asked", "armed", "waiting", "rejected", "ready",
                               "executing", "executed", "storing", "replying", "abandoned"}]
         /\ toPy \in Seq(PyMessages) /\ toRust \in Seq(RustMessages)
         /\ loop \in {"reading", "ending", "removing", "unmapping",
                      "drainSessions", "drainRuns", "clearSender", "closed"}
         /\ pendingRuns \subseteq Runs
  BY DEF IInv, TypeOK, PyMessages, RustMessages

(* The message of the request at the head.                                  *)
LEMMA Received ==
  ASSUME IInv, receive
  PROVE  /\ toPy # <<>> /\ Head(toPy) = toPy[1] /\ 1 \in DOMAIN toPy /\ toPy' = Tail(toPy)
         /\ toPy[1] \in PyMessages /\ toPy[1].run \in Runs /\ alive
         /\ toPy[1].type \in {"RUN_REQUEST", "TOOL_RESULT", "RUN_CANCEL"}
         /\ toPy' \in Seq(PyMessages)
         /\ \A i \in DOMAIN toPy' : i \in Nat /\ i + 1 \in DOMAIN toPy /\ toPy'[i] = toPy[i + 1] /\ 1 <= i
<1>1. toPy \in Seq(PyMessages) /\ toPy # <<>> /\ toPy' = Tail(toPy) /\ alive
  BY Facts DEF receive
<1>2. toPy[1] \in PyMessages /\ 1 \in DOMAIN toPy /\ Head(toPy) = toPy[1]
  BY <1>1, OneLess
<1>3. toPy[1].run \in Runs /\ toPy[1].type \in {"RUN_REQUEST", "TOOL_RESULT", "RUN_CANCEL"}
  BY <1>2 DEF PyMessages
<1> QED
  BY <1>1, <1>2, <1>3, OneLess

(* How a step of the sidecar changes a run: where it goes, and what it says. *)
Moved(r, c) ==
  /\ alive /\ py' = [py EXCEPT ![r] = c]
  /\ \/ py[r] = "none" /\ c = "preparing" /\ start[r] = "sent" /\ r \in pendingRuns /\ toRust' = toRust
     \/ py[r] = c /\ toRust' = toRust
     \/ /\ py[r] \in {"preparing", "thinking", "tool", "finishing"}
        /\ c # "none" /\ (py[r] = "finishing" => c = "done")
        /\ \/ toRust' = toRust
           \/ c \in {"finishing", "done"} /\ \E t \in Ends : toRust' = Append(toRust, Message(t, r))
           \/ /\ py[r] = "thinking" /\ c \in {"thinking", "tool"}
              /\ \E t \in {"ASSISTANT_DELTA", "TOOL_CALL_REQUEST"} : toRust' = Append(toRust, Message(t, r))

(* A step of the sidecar moves one run.                                    *)
LEMMA SidecarMoves ==
  ASSUME IInv, Sidecar
  PROVE  \E r \in Runs : \E c \in {"none", "preparing", "thinking", "tool", "finishing", "done", "dropped"} : Moved(r, c)
<1>1. py \in [Runs -> {"none", "preparing", "thinking", "tool", "finishing", "done", "dropped"}]
  BY Facts
<1>2. CASE receive
  <2>1. toPy[1].run \in Runs /\ alive /\ Head(toPy) = toPy[1] /\ 1 \in DOMAIN toPy
    BY <1>2, Received
  <2>2. CASE toPy[1].type = "RUN_REQUEST" /\ py' = [py EXCEPT ![toPy[1].run] = "preparing"] /\ toRust' = toRust
    <3>1. py[toPy[1].run] = "none" /\ start[toPy[1].run] = "sent" /\ toPy[1].run \in pendingRuns
      BY <2>1, <2>2 DEF IInv, Requested
    <3> QED
      BY <2>1, <2>2, <3>1 DEF Moved
  <2>3. CASE py' = [py EXCEPT ![toPy[1].run] = IF @ = "tool" THEN "thinking" ELSE @] /\ toRust' = toRust
    <3>1. Moved(toPy[1].run, IF py[toPy[1].run] = "tool" THEN "thinking" ELSE py[toPy[1].run])
      BY <1>1, <2>1, <2>3 DEF Moved
    <3> QED
      BY <1>1, <2>1, <3>1
  <2>4. CASE cancel_task(toPy[1].run)
    <3>1. CASE py[toPy[1].run] = "preparing"
      <4>1. Moved(toPy[1].run, "dropped")
        BY <2>1, <2>4, <3>1 DEF Moved, cancel_task
      <4> QED
        BY <2>1, <4>1
    <3>2. CASE py[toPy[1].run] \in {"thinking", "tool", "finishing"}
      <4>1. Moved(toPy[1].run, "done")
        BY <2>1, <2>4, <3>2 DEF Moved, cancel_task, Send, Ends
      <4> QED
        BY <2>1, <4>1
    <3>3. CASE py[toPy[1].run] \in {"none", "done", "dropped"}
      <4>1. Moved(toPy[1].run, py[toPy[1].run])
        BY <1>1, <2>1, <2>4, <3>3 DEF Moved, cancel_task
      <4> QED
        BY <1>1, <2>1, <4>1
    <3> QED
      BY <1>1, <2>1, <3>1, <3>2, <3>3
  <2> QED
    BY <1>2, <2>1, <2>2, <2>3, <2>4 DEF receive
<1>3. ASSUME NEW r \in Runs, prepare(r)
      PROVE  Moved(r, "thinking") \/ Moved(r, "done")
  BY <1>1, <1>3 DEF prepare, Moved, Send, Ends
<1>4. ASSUME NEW r \in Runs, graph_step(r)
      PROVE  Moved(r, "thinking") \/ Moved(r, "tool") \/ Moved(r, "finishing") \/ Moved(r, "done")
  <2>1. alive /\ py[r] = "thinking"
    BY <1>4 DEF graph_step
  <2>2. CASE Send("ASSISTANT_DELTA", r) /\ UNCHANGED <<py, tools>>
    BY <1>1, <2>1, <2>2 DEF Moved, Send
  <2>3. CASE py' = [py EXCEPT ![r] = "tool"] /\ Send("TOOL_CALL_REQUEST", r)
    BY <2>1, <2>3 DEF Moved, Send
  <2>4. CASE py' = [py EXCEPT ![r] = "finishing"] /\ Send("RUN_FINISHED", r)
    BY <2>1, <2>4 DEF Moved, Send, Ends
  <2>5. CASE py' = [py EXCEPT ![r] = "done"] /\ Send("RUN_ERROR", r)
    BY <2>1, <2>5 DEF Moved, Send, Ends
  <2> QED
    BY <1>4, <2>2, <2>3, <2>4, <2>5 DEF graph_step
<1>5. ASSUME NEW r \in Runs, finish(r)
      PROVE  Moved(r, "done")
  BY <1>5 DEF finish, Moved
<1> QED
  BY <1>2, <1>3, <1>4, <1>5 DEF Sidecar, SidecarStep

(* The end of a run decides about its own message, and that is pending if   *)
(* the run is still registered.                                             *)
LEMMA RunEnd ==
  ASSUME IInv, end_run
  PROVE  /\ hand.run \in Runs /\ loop = "ending" /\ loop' = "removing" /\ UNCHANGED <<hand, pendingRuns, heard>>
         /\ active' = [active EXCEPT ![hand.run] = NoRun]
         /\ saved' = IF active[hand.run] = NoRun THEN saved ELSE [saved EXCEPT ![hand.run] = heard[hand.run]]
         /\ \A q \in Runs \ {hand.run} : status'[q] = status[q]
         /\ \/ status' = status /\ hand.run \notin pendingRuns /\ active[hand.run] = NoRun
            \/ hand.run \in pendingRuns /\ status[hand.run] = "pending" /\ status'[hand.run] \in Ended
<1>1. /\ hand.run \in Runs /\ hand.type \in Ends /\ loop = "ending" /\ loop' = "removing"
      /\ UNCHANGED <<hand, pendingRuns, heard>> /\ active' = [active EXCEPT ![hand.run] = NoRun]
      /\ saved' = IF active[hand.run] = NoRun THEN saved ELSE [saved EXCEPT ![hand.run] = heard[hand.run]]
      /\ status' = FinalStatus(hand.run, ensure_run(hand.run)[hand.run])
  BY DEF IInv, Connected, Ending, end_run, registry, drain_accumulated
<1>2. /\ active[hand.run] \in {NoRun, hand.run} /\ (active[hand.run] = hand.run => hand.run \in pendingRuns)
      /\ (hand.run \in pendingRuns => status[hand.run] = "pending")
  BY <1>1 DEF IInv, TextInOwnMessage, Owned, Serving
<1>3. CASE hand.run \in pendingRuns
  <2>1. ensure_run(hand.run)[hand.run] = hand.run
    BY <1>1, <1>2, <1>3, Facts DEF ensure_run
  <2>2. status' = FinalStatus(hand.run, hand.run) /\ hand.run # NoRun
    BY <1>1, <2>1, Numbers
  <2>3. status'[hand.run] \in Ended /\ \A q \in Runs \ {hand.run} : status'[q] = status[q]
    BY <1>1, <1>2, <1>3, <2>2, Facts DEF FinalStatus, fail_pending_assistant, Ended, Ends
  <2> QED
    BY <1>1, <1>2, <1>3, <2>3
<1>4. CASE hand.run \notin pendingRuns
  <2>1. active[hand.run] = NoRun /\ ensure_run(hand.run) = active
    BY <1>2, <1>4 DEF ensure_run
  <2>2. status' = status
    BY <1>1, <2>1 DEF FinalStatus
  <2> QED
    BY <1>1, <1>4, <2>1, <2>2
<1> QED
  BY <1>3, <1>4

-----------------------------------------------------------------------------
(* Every step keeps what ties a command to the registries,                 *)
LEMMA BegunStep == IInv /\ Next => Begun'
<1> SUFFICES ASSUME IInv, Next PROVE Begun'
  OBVIOUS
<1>0. Begun
  BY DEF IInv
<1>1. ASSUME NEW r \in Runs, Command(r) PROVE Begun'
  <2>1. UNCHANGED <<py, loop>>
    BY <1>1, CommandFrame
  <2>2. CASE send_message(r)
    BY <1>0, <2>1, <2>2, Facts DEF Begun, send_message, registry
  <2>3. CASE start_agent_run_or_mark_failed(r)
    BY <1>0, <2>1, <2>3, Facts DEF Begun, start_agent_run_or_mark_failed, registry, fail_pending_assistant
  <2>4. CASE register_run(r)
    BY <1>0, <2>1, <2>4, Facts DEF Begun, register_run
  <2>5. CASE set_session_run(r)
    BY <1>0, <2>1, <2>5, Facts DEF Begun, set_session_run
  <2>6. CASE start_agent_run(r)
    BY <1>0, <2>1, <2>6, Facts DEF Begun, start_agent_run, registry, fail_pending_assistant, without_run
  <2>7. CASE mark_run_cancelled(r) \/ take_run_cancel_signal(r) \/ send_run_cancel(r)
    BY <1>0, <2>1, <2>7, Facts DEF Begun, mark_run_cancelled, take_run_cancel_signal, send_run_cancel, registry
  <2> QED
    BY <1>1, <2>2, <2>3, <2>4, <2>5, <2>6, <2>7 DEF Command, CommandStep
<1>2. CASE Cancel
  <2>1. PICK s \in Sessions : cancel_run(s)
    BY <1>2 DEF Cancel
  <2>2. sessionRun[s] \in Runs /\ start[sessionRun[s]] \in {"mapped", "sent"}
    BY <2>1, Facts DEF IInv, Named, cancel_run
  <2>3. UNCHANGED <<py, loop, start, pendingRuns, status>> /\ stop' = [stop EXCEPT ![sessionRun[s]] = "taken"]
    BY <1>2, <2>1, CommandFrame DEF cancel_run
  <2> QED
    BY <1>0, <2>2, <2>3, Facts DEF Begun
<1>3. ASSUME NEW r \in Runs, ToolStep(r) PROVE Begun'
  BY <1>0, <1>3, ToolFrame DEF Begun
<1>4. CASE Sidecar
  <2>1. PICK r \in Runs : \E c \in {"none", "preparing", "thinking", "tool", "finishing", "done", "dropped"} : Moved(r, c)
    BY <1>4, SidecarMoves
  <2>2. PICK c \in {"none", "preparing", "thinking", "tool", "finishing", "done", "dropped"} : Moved(r, c)
    BY <2>1
  <2>3. py' = [py EXCEPT ![r] = c] /\ (c = py[r] \/ start[r] = "sent")
    BY <2>2 DEF Moved, IInv, Working
  <2>4. UNCHANGED <<start, stop, pendingRuns, loop, status>>
    BY <1>4, SidecarFrame
  <2> QED
    BY <1>0, <2>3, <2>4, Facts DEF Begun
<1>5. CASE LoopStep
  <2>1. UNCHANGED <<start, stop, py>>
    BY <1>5, LoopFrame
  <2>2. CASE assistant_delta \/ tool_call_request \/ run_ends
    BY <1>0, <2>1, <2>2 DEF Begun, assistant_delta, tool_call_request, run_ends, Takes, registry
  <2>3. CASE end_run
    <3>1. hand.run \in Runs /\ start[hand.run] \notin {"none", "inserted", "registered", "mapped"}
          /\ UNCHANGED pendingRuns /\ loop = "ending" /\ loop' = "removing"
      BY <1>0, <2>3, Facts DEF IInv, Connected, Ending, end_run, Begun, registry
    <3>2. /\ \A r \in Runs \ {hand.run} : status'[r] = status[r]
          /\ status'[hand.run] = status[hand.run] \/ status'[hand.run] \in Ended
      BY <2>3, RunEnd
    <3> QED
      BY <1>0, <2>1, <3>1, <3>2, Facts DEF Begun, Ended
  <2>4. CASE remove_run \/ remove_session_run
    <3>1. hand.run \in Runs /\ start[hand.run] \notin {"none", "inserted", "registered", "mapped"}
      BY <1>0, <2>4, Facts DEF IInv, Connected, Ending, remove_run, remove_session_run, Begun
    <3>2. pendingRuns' \in {pendingRuns, pendingRuns \ {hand.run}} /\ UNCHANGED status
          /\ loop' \in {"unmapping", "reading"} /\ loop \in {"removing", "unmapping"}
      BY <2>4 DEF remove_run, remove_session_run, without_run
    <3> QED
      BY <1>0, <2>1, <3>1, <3>2 DEF Begun
  <2>5. CASE connection_lost \/ drain_session_runs \/ drain_runs \/ clear_active_sender
    BY <1>0, <2>1, <2>5, Facts DEF Begun, connection_lost, drain_session_runs, drain_runs, clear_active_sender, registry,
       fail_pending_assistant
  <2> QED
    BY <1>5, <2>2, <2>3, <2>4, <2>5 DEF LoopStep
<1>6. CASE sidecar_exit
  BY <1>0, <1>6, Facts DEF Begun, sidecar_exit, commands, registry
<1>7. CASE restart
  BY <1>0, <1>7, Facts DEF Begun, restart, recover_interrupted_assistants, fail_pending_assistant
<1> QED
  BY <1>1, <1>2, <1>3, <1>4, <1>5, <1>6, <1>7, Steps

(* the runs that the registries name,                                      *)
LEMMA NamedStep == IInv /\ Next => Named'
<1> SUFFICES ASSUME IInv, Next PROVE Named'
  OBVIOUS
<1>0. Named /\ Begun
  BY DEF IInv
<1>1. ASSUME NEW r \in Runs, Command(r) PROVE Named'
  <2>1. CASE send_message(r) \/ start_agent_run_or_mark_failed(r) \/ register_run(r)
    BY <1>0, <2>1, Facts DEF Named, send_message, start_agent_run_or_mark_failed, register_run, registry
  <2>2. CASE set_session_run(r)
    <3>1. /\ start' = [start EXCEPT ![r] = "mapped"] /\ stop' = stop /\ stop[r] = "no" /\ start[r] = "registered"
          /\ sessionRun' = [sessionRun EXCEPT ![SessionOf[r]] = r]
      BY <1>0, <2>2 DEF Begun, set_session_run
    <3> QED
      BY <1>0, <3>1, Facts, Numbers DEF Named
  <2>3. CASE start_agent_run(r)
    <3>1. start[r] = "mapped" /\ stop' = stop
      BY <2>3 DEF start_agent_run
    <3>2. CASE start' = [start EXCEPT ![r] = "sent"] /\ sessionRun' = sessionRun
      BY <1>0, <3>1, <3>2, Facts DEF Named
    <3>3. CASE start' = [start EXCEPT ![r] = "over"] /\ sessionRun' = [sessionRun EXCEPT ![SessionOf[r]] = NoRun]
      <4>1. ASSUME NEW s \in Sessions, NEW q \in Runs, sessionRun'[s] = q
            PROVE  sessionRun[s] = q /\ q # r
        BY <1>0, <3>3, <4>1, Facts, Numbers DEF Named
      <4> QED
        BY <1>0, <3>1, <3>3, <4>1, Facts DEF Named
    <3> QED
      BY <2>3, <3>2, <3>3 DEF start_agent_run, registry
  <2>4. CASE mark_run_cancelled(r) \/ take_run_cancel_signal(r) \/ send_run_cancel(r)
    BY <1>0, <2>4, Facts DEF Named, mark_run_cancelled, take_run_cancel_signal, send_run_cancel, registry
  <2> QED
    BY <1>1, <2>1, <2>2, <2>3, <2>4 DEF Command, CommandStep
<1>2. CASE Cancel
  <2>1. PICK s \in Sessions : cancel_run(s)
    BY <1>2 DEF Cancel
  <2>2. sessionRun[s] \in Runs /\ SessionOf[sessionRun[s]] = s
    BY <2>1, Facts DEF IInv, Named, cancel_run
  <2>3. start' = start /\ stop' = [stop EXCEPT ![sessionRun[s]] = "taken"] /\ sessionRun' = [sessionRun EXCEPT ![s] = NoRun]
    BY <2>1 DEF cancel_run
  <2>4. ASSUME NEW t \in Sessions, NEW q \in Runs, sessionRun'[t] = q
        PROVE  sessionRun[t] = q /\ t # s /\ SessionOf[q] = t
    BY <1>0, <2>3, <2>4, Facts, Numbers DEF Named
  <2> QED
    BY <1>0, <2>2, <2>3, <2>4, Facts DEF Named
<1>3. ASSUME NEW r \in Runs, ToolStep(r) PROVE Named'
  BY <1>0, <1>3, ToolFrame DEF Named
<1>4. CASE Sidecar
  BY <1>0, <1>4, SidecarFrame DEF Named
<1>5. CASE LoopStep
  <2>1. UNCHANGED <<start, stop>>
    BY <1>5, LoopFrame
  <2>2. \A s \in Sessions : sessionRun'[s] \in {sessionRun[s], NoRun}
    <3>1. CASE assistant_delta \/ tool_call_request \/ run_ends \/ end_run \/ remove_run \/ connection_lost
      BY <3>1 DEF assistant_delta, tool_call_request, run_ends, end_run, remove_run, connection_lost, registry
    <3>2. CASE remove_session_run \/ drain_session_runs \/ drain_runs \/ clear_active_sender
      BY <3>2, Facts DEF remove_session_run, drain_session_runs, drain_runs, clear_active_sender, registry
    <3> QED
      BY <1>5, <3>1, <3>2 DEF LoopStep
  <2> QED
    BY <1>0, <2>1, <2>2, Numbers DEF Named
<1>6. CASE sidecar_exit
  BY <1>0, <1>6 DEF Named, sidecar_exit, commands, registry
<1>7. CASE restart
  BY <1>7, Numbers DEF Named, restart
<1> QED
  BY <1>1, <1>2, <1>3, <1>4, <1>5, <1>6, <1>7, Steps

(* the tasks of a run that works,                                          *)
LEMMA WorkingStep == IInv /\ Next => Working'
<1> SUFFICES ASSUME IInv, Next PROVE Working'
  OBVIOUS
<1>0. Working /\ Begun
  BY DEF IInv
<1>1. ASSUME NEW r \in Runs, Command(r) PROVE Working'
  <2>1. UNCHANGED <<py, alive, task, clearing, active>>
    BY <1>1, CommandFrame
  <2>2. /\ \/ start' = start
           \/ /\ start[r] # "sent"
              /\ \E c \in {"inserted", "over", "registered", "mapped", "sent"} : start' = [start EXCEPT ![r] = c]
        /\ py[r] # "none" => pendingRuns' \in {pendingRuns, pendingRuns \cup {r}}
        /\ \A q \in Runs \ {r} : q \in pendingRuns => q \in pendingRuns'
    <3>1. CASE send_message(r) \/ start_agent_run_or_mark_failed(r) \/ register_run(r) \/ set_session_run(r)
      BY <3>1 DEF send_message, start_agent_run_or_mark_failed, register_run, set_session_run, registry
    <3>2. CASE start_agent_run(r)
      BY <1>0, <3>2 DEF start_agent_run, registry, without_run, Begun
    <3>3. CASE mark_run_cancelled(r) \/ take_run_cancel_signal(r) \/ send_run_cancel(r)
      BY <3>3 DEF mark_run_cancelled, take_run_cancel_signal, send_run_cancel, registry
    <3> QED
      BY <1>1, <3>1, <3>2, <3>3 DEF Command, CommandStep
  <2> QED
    BY <1>0, <2>1, <2>2, Facts DEF Working
<1>2. CASE Cancel
  <2>1. UNCHANGED <<py, alive, task, clearing, active, start, pendingRuns>>
    BY <1>2, CommandFrame DEF Cancel, cancel_run
  <2> QED
    BY <1>0, <2>1 DEF Working
<1>3. ASSUME NEW r \in Runs, ToolStep(r) PROVE Working'
  <2>1. UNCHANGED <<start, pendingRuns, py, alive>>
    BY <1>3, ToolFrame
  <2>2. CASE \E answer \in {"yes", "no"} : approve_tool(r, answer)
    <3>1. UNCHANGED <<task, clearing, active>>
      BY <2>2 DEF approve_tool, text
    <3> QED
      BY <1>0, <2>1, <3>1 DEF Working
  <2>3. CASE TaskStep(r) \/ clear_run_cancel_signal(r)
    <3>1. py[r] # "none" /\ start[r] = "sent"
      BY <1>0, <2>3 DEF Working, TaskStep, set_run_cancel_signal, check_cancelled, await_approval, reject_tool,
         execute_tool, after_execution, store_tool_parts, reply_tool_result, clear_run_cancel_signal
    <3>2. \A q \in Runs \ {r} : task'[q] = task[q]
      BY <2>3, Facts DEF TaskStep, set_run_cancel_signal, check_cancelled, await_approval, reject_tool,
         execute_tool, after_execution, store_tool_parts, reply_tool_result, clear_run_cancel_signal
    <3>3. \A q \in Runs \ {r} : q \in clearing' => q \in clearing
      BY <2>3 DEF TaskStep, set_run_cancel_signal, check_cancelled, await_approval, reject_tool,
         execute_tool, after_execution, store_tool_parts, reply_tool_result, clear_run_cancel_signal
    <3>4. \A q \in Runs \ {r} : active'[q] = active[q]
      BY <2>3, Facts DEF TaskStep, set_run_cancel_signal, check_cancelled, await_approval, reject_tool, ensure_run,
         execute_tool, after_execution, store_tool_parts, reply_tool_result, clear_run_cancel_signal, text
    <3> QED
      BY <1>0, <2>1, <3>1, <3>2, <3>3, <3>4 DEF Working
  <2> QED
    BY <1>3, <2>2, <2>3 DEF ToolStep
<1>4. CASE Sidecar
  <2>1. PICK r \in Runs : \E c \in {"none", "preparing", "thinking", "tool", "finishing", "done", "dropped"} : Moved(r, c)
    BY <1>4, SidecarMoves
  <2>2. PICK c \in {"none", "preparing", "thinking", "tool", "finishing", "done", "dropped"} : Moved(r, c)
    BY <2>1
  <2>3. UNCHANGED <<start, pendingRuns, alive, task, clearing, active>>
    BY <1>4, SidecarFrame
  <2>4. /\ py' = [py EXCEPT ![r] = c] /\ alive
        /\ \/ c = py[r]
           \/ py[r] = "none" /\ c = "preparing" /\ start[r] = "sent" /\ r \in pendingRuns
           \/ py[r] \in {"preparing", "thinking", "tool", "finishing"} /\ (py[r] = "finishing" => c = "done")
    BY <2>2 DEF Moved
  <2>5. c # "none" \/ py[r] = "none"
    BY <2>2, <2>4 DEF Moved
  <2> QED
    BY <1>0, <2>3, <2>4, <2>5, Facts DEF Working
<1>5. CASE LoopStep
  <2>1. UNCHANGED <<start, py, alive>>
    BY <1>5, LoopFrame
  <2>2. CASE assistant_delta \/ tool_call_request
    <3>1. 1 \in DOMAIN toRust /\ Head(toRust) = toRust[1] /\ toRust[1].type \notin Ends /\ toRust[1].run \in Runs
      <4>1. CASE assistant_delta
        BY <4>1, TakesTypes DEF assistant_delta, Ends
      <4>2. CASE tool_call_request
        BY <4>2, TakesTypes DEF tool_call_request, Ends
      <4> QED
        BY <2>2, <4>1, <4>2
    <3>2. py[toRust[1].run] # "none" /\ start[toRust[1].run] = "sent"
      BY <3>1 DEF IInv, Reported
    <3>3. \A q \in Runs \ {toRust[1].run} : task'[q] = task[q] /\ active'[q] = active[q]
      BY <2>2, <3>1, Facts DEF assistant_delta, tool_call_request, text
    <3>4. UNCHANGED <<clearing, pendingRuns>>
      BY <2>2 DEF assistant_delta, tool_call_request, registry
    <3> QED
      BY <1>0, <2>1, <3>1, <3>2, <3>3, <3>4 DEF Working
  <2>3. CASE run_ends \/ connection_lost
    <3>1. \A q \in Runs : task'[q] \in {task[q], "none"} /\ (q \in clearing' => q \in clearing)
      BY <2>3 DEF run_ends, connection_lost, abort_tool_tasks
    <3>2. UNCHANGED <<active, pendingRuns>>
      BY <2>3 DEF run_ends, connection_lost, text, registry
    <3> QED
      BY <1>0, <2>1, <3>1, <3>2 DEF Working
  <2>4. CASE end_run
    <3>1. UNCHANGED <<task, clearing, pendingRuns>> /\ \A q \in Runs : active'[q] \in {active[q], NoRun}
      BY <2>4, Facts DEF end_run, registry
    <3> QED
      BY <1>0, <2>1, <3>1 DEF Working
  <2>5. CASE remove_run
    <3>1. py[hand.run] \in {"finishing", "done"} /\ pendingRuns' = pendingRuns \ {hand.run} /\ UNCHANGED <<task, clearing, active>>
      BY <2>5 DEF remove_run, without_run, IInv, Connected, Ending, text
    <3> QED
      BY <1>0, <2>1, <3>1 DEF Working
  <2>6. CASE remove_session_run \/ drain_session_runs \/ clear_active_sender
    <3>1. UNCHANGED <<task, clearing, active, pendingRuns>>
      BY <2>6 DEF remove_session_run, drain_session_runs, clear_active_sender, registry, text
    <3> QED
      BY <1>0, <2>1, <3>1 DEF Working
  <2>7. CASE drain_runs
    <3>1. UNCHANGED <<task, clearing, active>> /\ ~alive
      BY <2>7 DEF drain_runs, text, IInv, Connected, Serving
    <3> QED
      BY <1>0, <2>1, <3>1 DEF Working
  <2> QED
    BY <1>5, <2>2, <2>3, <2>4, <2>5, <2>6, <2>7 DEF LoopStep
<1>6. CASE sidecar_exit
  BY <1>0, <1>6, Facts DEF Working, sidecar_exit, commands, registry, text
<1>7. CASE restart
  BY <1>0, <1>7, Facts DEF Working, restart
<1> QED
  BY <1>1, <1>2, <1>3, <1>4, <1>5, <1>6, <1>7, Steps

(* the connection of the sidecar,                                          *)
LEMMA ConnectedStep == IInv /\ Next => Connected'
<1> SUFFICES ASSUME IInv, Next PROVE Connected'
  OBVIOUS
<1>0. Connected /\ Working /\ Begun
  BY DEF IInv
<1>1. CASE (\E r \in Runs : Command(r)) \/ Cancel
  <2>1. UNCHANGED <<alive, toRust, py, task, loop, hand, active>>
    BY <1>1, CommandFrame
  <2>2. ~alive => toPy' = toPy
    BY <1>1 DEF Command, CommandStep, Cancel, cancel_run, send_message, start_agent_run_or_mark_failed, register_run,
       set_session_run, start_agent_run, mark_run_cancelled, take_run_cancel_signal, send_run_cancel, Queued
  <2> QED
    BY <1>0, <2>1, <2>2 DEF Connected
<1>2. ASSUME NEW r \in Runs, ToolStep(r) PROVE Connected'
  <2>1. UNCHANGED <<alive, toRust, py, loop, hand>>
    BY <1>2, ToolFrame
  <2>2. CASE \E answer \in {"yes", "no"} : approve_tool(r, answer)
    <3>1. UNCHANGED <<task, active, toPy>>
      BY <2>2 DEF approve_tool, text
    <3> QED
      BY <1>0, <2>1, <3>1 DEF Connected
  <2>3. CASE clear_run_cancel_signal(r)
    <3>1. UNCHANGED <<task, active, toPy>>
      BY <2>3 DEF clear_run_cancel_signal, text
    <3> QED
      BY <1>0, <2>1, <3>1 DEF Connected
  <2>4. CASE TaskStep(r)
    <3>1. task[r] # "none"
      BY <2>4 DEF TaskStep, set_run_cancel_signal, check_cancelled, await_approval, reject_tool,
         execute_tool, after_execution, store_tool_parts, reply_tool_result
    <3>2. loop \in Serving /\ (loop \in Ending => hand.run # r)
      BY <1>0, <3>1 DEF Connected
    <3>3. \A q \in Runs \ {r} : task'[q] = task[q]
      BY <2>4, Facts DEF TaskStep, set_run_cancel_signal, check_cancelled, await_approval, reject_tool,
         execute_tool, after_execution, store_tool_parts, reply_tool_result
    <3>4. \A q \in Runs \ {r} : active'[q] = active[q]
      BY <2>4, Facts DEF TaskStep, set_run_cancel_signal, check_cancelled, await_approval, reject_tool, ensure_run,
         execute_tool, after_execution, store_tool_parts, reply_tool_result, text
    <3>5. ~alive => toPy' = toPy
      BY <2>4 DEF TaskStep, set_run_cancel_signal, check_cancelled, await_approval, reject_tool, Queued,
         execute_tool, after_execution, store_tool_parts, reply_tool_result, send_tool_result_if_active
    <3> QED
      BY <1>0, <2>1, <3>2, <3>3, <3>4, <3>5 DEF Connected, Ending
  <2> QED
    BY <1>2, <2>2, <2>3, <2>4 DEF ToolStep
<1>3. CASE Sidecar
  <2>1. PICK r \in Runs : \E c \in {"none", "preparing", "thinking", "tool", "finishing", "done", "dropped"} : Moved(r, c)
    BY <1>3, SidecarMoves
  <2>2. PICK c \in {"none", "preparing", "thinking", "tool", "finishing", "done", "dropped"} : Moved(r, c)
    BY <2>1
  <2>3. UNCHANGED <<alive, task, loop, hand, active>> /\ alive
    BY <1>3, <2>2, SidecarFrame DEF Moved
  <2>4. loop \in Serving
    BY <1>0, <2>3 DEF Connected
  <2>5. ASSUME loop \in Ending
        PROVE  /\ hand.run \in Runs /\ hand.type \in Ends /\ py'[hand.run] \in {"finishing", "done"} /\ task[hand.run] = "none"
               /\ \A i \in DOMAIN toRust' : toRust'[i].type \notin Ends => toRust'[i].run # hand.run
    <3>1. hand.run \in Runs /\ hand.type \in Ends /\ py[hand.run] \in {"finishing", "done"} /\ task[hand.run] = "none"
          /\ \A i \in DOMAIN toRust : toRust[i].type \notin Ends => toRust[i].run # hand.run
      BY <1>0, <2>5 DEF Connected
    <3>2. py'[hand.run] \in {"finishing", "done"}
      BY <2>2, <3>1, Facts DEF Moved
    <3>3. CASE toRust' = toRust
      BY <3>1, <3>2, <3>3
    <3>4. CASE \E t \in Ends : toRust' = Append(toRust, Message(t, r))
      <4>1. PICK t \in Ends : toRust' = Append(toRust, Message(t, r))
        BY <3>4
      <4>2. Message(t, r) \in RustMessages /\ Message(t, r).type \in Ends
        BY <4>1 DEF Message, RustMessages
      <4> QED
        BY <3>1, <3>2, <4>1, <4>2, OneMore, Facts
    <3>5. CASE py[r] = "thinking" /\ \E t \in {"ASSISTANT_DELTA", "TOOL_CALL_REQUEST"} : toRust' = Append(toRust, Message(t, r))
      <4>1. PICK t \in {"ASSISTANT_DELTA", "TOOL_CALL_REQUEST"} : toRust' = Append(toRust, Message(t, r))
        BY <3>5
      <4>2. Message(t, r) \in RustMessages /\ Message(t, r).run = r /\ r # hand.run
        BY <3>1, <3>5, <4>1 DEF Message, RustMessages
      <4> QED
        BY <3>1, <3>2, <4>1, <4>2, OneMore, Facts
    <3> QED
      BY <2>2, <3>3, <3>4, <3>5 DEF Moved
  <2> QED
    BY <1>0, <2>3, <2>4, <2>5 DEF Connected
<1>4. CASE LoopStep
  <2>1. UNCHANGED <<alive, toPy, py>>
    BY <1>4, LoopFrame
  <2>2. CASE assistant_delta \/ tool_call_request
    <3>1. loop' = "reading"
      BY <2>2 DEF assistant_delta, tool_call_request, Takes
    <3> QED
      BY <1>0, <2>1, <3>1 DEF Connected, Serving, Ending
  <2>3. CASE run_ends
    <3>1. /\ 1 \in DOMAIN toRust /\ Head(toRust) = toRust[1] /\ toRust[1].type \in Ends /\ toRust[1].run \in Runs
          /\ \A i \in DOMAIN toRust' : i \in Nat /\ i + 1 \in DOMAIN toRust /\ toRust'[i] = toRust[i + 1] /\ 1 <= i
      BY <2>3, TakesTypes DEF run_ends, Ends
    <3>2. py[toRust[1].run] \in {"finishing", "done"}
      BY <3>1 DEF IInv, Reported
    <3>3. ASSUME NEW i \in DOMAIN toRust', toRust'[i].type \notin Ends, toRust'[i].run = toRust[1].run PROVE FALSE
      <4>1. i \in Nat /\ i + 1 \in DOMAIN toRust /\ toRust'[i] = toRust[i + 1] /\ 1 <= i
        BY <3>1, <3>3
      <4>2. i + 1 < 1
        BY <3>1, <3>3, <4>1 DEF IInv, Reported
      <4> QED
        BY <4>1, <4>2
    <3>4. hand' = toRust[1] /\ loop' = "ending" /\ task'[toRust[1].run] = "none"
      BY <2>3, <3>1 DEF run_ends, abort_tool_tasks
    <3> QED
      BY <1>0, <2>1, <3>1, <3>2, <3>3, <3>4 DEF Connected, Serving, Ending
  <2>4. CASE end_run
    <3>1. loop = "ending" /\ loop' = "removing" /\ UNCHANGED <<hand, task, toRust>> /\ hand.run \in Runs
      BY <1>0, <2>4 DEF end_run, Connected, Ending
    <3>2. active'[hand.run] = NoRun
      BY <2>4, <3>1, Facts DEF end_run
    <3> QED
      BY <1>0, <2>1, <3>1, <3>2 DEF Connected, Serving, Ending
  <2>5. CASE remove_run
    <3>1. loop = "removing" /\ loop' = "unmapping" /\ UNCHANGED <<hand, task, toRust, active>>
      BY <2>5 DEF remove_run, text
    <3> QED
      BY <1>0, <2>1, <3>1 DEF Connected, Serving, Ending
  <2>6. CASE remove_session_run
    <3>1. loop' = "reading"
      BY <2>6 DEF remove_session_run
    <3> QED
      BY <1>0, <2>1, <3>1 DEF Connected, Serving, Ending
  <2>7. CASE connection_lost
    <3>1. ~alive /\ toRust = <<>> /\ toRust' = toRust /\ loop' = "drainSessions"
      BY <2>7 DEF connection_lost
    <3>2. \A r \in Runs : task'[r] = "none"
      BY <2>7 DEF connection_lost, abort_tool_tasks
    <3> QED
      BY <1>0, <2>1, <3>1, <3>2 DEF Connected, Serving, Ending
  <2>8. CASE drain_session_runs \/ drain_runs \/ clear_active_sender
    <3>1. loop \notin Serving /\ loop' \in {"drainRuns", "clearSender", "closed"} /\ UNCHANGED <<task, toRust>>
      BY <2>8 DEF drain_session_runs, drain_runs, clear_active_sender, Serving
    <3> QED
      BY <1>0, <2>1, <3>1 DEF Connected, Serving, Ending
  <2> QED
    BY <1>4, <2>2, <2>3, <2>4, <2>5, <2>6, <2>7, <2>8 DEF LoopStep
<1>5. CASE sidecar_exit
  <2>1. UNCHANGED <<task, loop, hand, active>> /\ toPy' = <<>> /\ alive' = FALSE /\ alive
    BY <1>5 DEF sidecar_exit, text
  <2>2. PICK n \in 0 .. Len(toRust) : toRust' = SubSeq(toRust, 1, n)
    BY <1>5 DEF sidecar_exit
  <2>3. \A i \in DOMAIN toRust' : i \in DOMAIN toRust /\ toRust'[i] = toRust[i]
    BY <2>2, Prefix, Facts
  <2>4. \A r \in Runs : py[r] \in {"finishing", "done"} => py'[r] = "done"
    BY <1>5 DEF sidecar_exit
  <2> QED
    BY <1>0, <2>1, <2>3, <2>4 DEF Connected
<1>6. CASE restart
  BY <1>6 DEF restart, Connected, Serving, Ending
<1> QED
  BY <1>1, <1>2, <1>3, <1>4, <1>5, <1>6, Steps

(* A run does not leave the registry or the sidecar while it still speaks.  *)
LEMMA ReportedStep == IInv /\ Next => Reported'
<1> SUFFICES ASSUME IInv, Next PROVE Reported'
  OBVIOUS
<1>0. Reported /\ Working /\ Begun /\ Connected
  BY DEF IInv
<1>1. \A i \in DOMAIN toRust : toRust[i].run \in Runs
  BY WireTypes DEF IInv
<1>2. ASSUME NEW r \in Runs, Command(r) PROVE Reported'
  <2>1. UNCHANGED <<toRust, py>>
    BY <1>2, CommandFrame
  <2>2. CASE start_agent_run(r)
    <3>1. start[r] = "mapped"
      BY <2>2 DEF start_agent_run
    <3>2. \A q \in Runs : start[q] = "sent" => start'[q] = "sent"
      BY <2>2, <3>1, Facts DEF start_agent_run
    <3>3. \A q \in pendingRuns : q # r => q \in pendingRuns'
      BY <2>2 DEF start_agent_run, registry, without_run
    <3> QED
      BY <1>0, <1>1, <2>1, <3>1, <3>2, <3>3 DEF Reported
  <2>3. CASE ~start_agent_run(r)
    <3>1. \A q \in Runs : start[q] = "sent" => start'[q] = "sent"
      BY <1>2, <2>3, Facts DEF Command, CommandStep, send_message, start_agent_run_or_mark_failed, register_run,
         set_session_run, mark_run_cancelled, take_run_cancel_signal, send_run_cancel
    <3>2. pendingRuns \subseteq pendingRuns'
      BY <1>2, <2>3 DEF Command, CommandStep, send_message, start_agent_run_or_mark_failed, register_run,
         set_session_run, mark_run_cancelled, take_run_cancel_signal, send_run_cancel, registry
    <3> QED
      BY <1>0, <1>1, <2>1, <3>1, <3>2 DEF Reported
  <2> QED
    BY <2>2, <2>3
<1>3. CASE Cancel
  <2>1. UNCHANGED <<toRust, py, start, pendingRuns>>
    BY <1>3, CommandFrame DEF Cancel, cancel_run
  <2> QED
    BY <1>0, <2>1 DEF Reported
<1>4. ASSUME NEW r \in Runs, ToolStep(r) PROVE Reported'
  BY <1>0, <1>4, ToolFrame DEF Reported
<1>5. CASE Sidecar
  <2>1. PICK r \in Runs : \E c \in {"none", "preparing", "thinking", "tool", "finishing", "done", "dropped"} : Moved(r, c)
    BY <1>5, SidecarMoves
  <2>2. PICK c \in {"none", "preparing", "thinking", "tool", "finishing", "done", "dropped"} : Moved(r, c)
    BY <2>1
  <2>3. UNCHANGED <<start, pendingRuns>>
    BY <1>5, SidecarFrame
  <2>4. /\ \A q \in Runs : py[q] # "none" => py'[q] # "none"
        /\ \A q \in Runs : py[q] \in {"finishing", "done"} => py'[q] \in {"finishing", "done"}
        /\ py'[r] = c
    BY <2>2, Facts DEF Moved
  <2>5. CASE toRust' = toRust
    BY <1>0, <1>1, <2>3, <2>4, <2>5 DEF Reported
  <2>6. CASE /\ py[r] \in {"preparing", "thinking", "tool", "finishing"} /\ c \in {"finishing", "done"}
             /\ \E t \in Ends : toRust' = Append(toRust, Message(t, r))
    <3>1. PICK t \in Ends : toRust' = Append(toRust, Message(t, r))
      BY <2>6
    <3>2. Message(t, r) \in RustMessages /\ Message(t, r).type \in Ends /\ Message(t, r).run = r
      BY <3>1 DEF Message, RustMessages
    <3>3. start[r] = "sent"
      BY <1>0, <2>6 DEF Working
    <3>4. /\ DOMAIN toRust' = DOMAIN toRust \cup {Len(toRust) + 1} /\ toRust'[Len(toRust) + 1] = Message(t, r)
          /\ \A i \in DOMAIN toRust : toRust'[i] = toRust[i] /\ i < Len(toRust) + 1
      BY <3>1, <3>2, OneMore, Facts
    <3> QED
      BY <1>0, <1>1, <2>3, <2>4, <2>6, <3>2, <3>3, <3>4 DEF Reported
  <2>7. CASE /\ py[r] = "thinking" /\ c \in {"thinking", "tool"}
             /\ \E t \in {"ASSISTANT_DELTA", "TOOL_CALL_REQUEST"} : toRust' = Append(toRust, Message(t, r))
    <3>1. PICK t \in {"ASSISTANT_DELTA", "TOOL_CALL_REQUEST"} : toRust' = Append(toRust, Message(t, r))
      BY <2>7
    <3>2. Message(t, r) \in RustMessages /\ Message(t, r).type \notin Ends /\ Message(t, r).run = r
      BY <3>1 DEF Message, RustMessages, Ends
    <3>3. start[r] = "sent" /\ r \in pendingRuns
      BY <1>0, <2>7 DEF Working
    <3>4. /\ DOMAIN toRust' = DOMAIN toRust \cup {Len(toRust) + 1} /\ toRust'[Len(toRust) + 1] = Message(t, r)
          /\ \A i \in DOMAIN toRust : toRust'[i] = toRust[i] /\ i < Len(toRust) + 1
      BY <3>1, <3>2, OneMore, Facts
    <3>5. \A i \in DOMAIN toRust : toRust[i].type \in Ends => toRust[i].run # r
      BY <1>0, <2>7 DEF Reported
    <3> QED
      BY <1>0, <1>1, <2>3, <2>4, <2>7, <3>2, <3>3, <3>4, <3>5 DEF Reported
  <2> QED
    BY <2>2, <2>5, <2>6, <2>7 DEF Moved
<1>6. CASE LoopStep
  <2>1. UNCHANGED <<start, py>>
    BY <1>6, LoopFrame
  <2>2. CASE assistant_delta \/ tool_call_request \/ run_ends
    <3>1. \A i \in DOMAIN toRust' : i \in Nat /\ i + 1 \in DOMAIN toRust /\ toRust'[i] = toRust[i + 1]
      <4>1. CASE assistant_delta
        BY <4>1, TakesTypes DEF assistant_delta
      <4>2. CASE tool_call_request
        BY <4>2, TakesTypes DEF tool_call_request
      <4>3. CASE run_ends
        BY <4>3, TakesTypes DEF run_ends, Ends
      <4> QED
        BY <2>2, <4>1, <4>2, <4>3
    <3>2. pendingRuns' = pendingRuns
      BY <2>2 DEF assistant_delta, tool_call_request, run_ends, registry
    <3>3. ASSUME NEW i \in DOMAIN toRust', NEW j \in DOMAIN toRust', toRust'[i].type \in Ends,
                 toRust'[j].type \notin Ends, toRust'[i].run = toRust'[j].run
          PROVE  j < i
      <4>1. j + 1 < i + 1
        BY <1>0, <3>1, <3>3 DEF Reported
      <4> QED
        BY <3>1, <4>1
    <3> QED
      BY <1>0, <2>1, <3>1, <3>2, <3>3 DEF Reported
  <2>3. CASE end_run \/ remove_session_run \/ drain_session_runs \/ clear_active_sender \/ connection_lost
    <3>1. UNCHANGED <<toRust, pendingRuns>>
      BY <2>3 DEF end_run, remove_session_run, drain_session_runs, clear_active_sender, connection_lost, registry
    <3> QED
      BY <1>0, <2>1, <3>1 DEF Reported
  <2>4. CASE remove_run
    <3>1. toRust' = toRust /\ pendingRuns' = pendingRuns \ {hand.run} /\ loop = "removing"
      BY <2>4 DEF remove_run, without_run
    <3>2. \A i \in DOMAIN toRust : toRust[i].type \notin Ends => toRust[i].run # hand.run
      BY <1>0, <3>1 DEF Connected, Ending
    <3> QED
      BY <1>0, <2>1, <3>1, <3>2 DEF Reported
  <2>5. CASE drain_runs
    <3>1. toRust' = <<>>
      BY <1>0, <2>5 DEF drain_runs, Connected, Serving
    <3> QED
      BY <3>1 DEF Reported
  <2> QED
    BY <1>6, <2>2, <2>3, <2>4, <2>5 DEF LoopStep
<1>7. CASE sidecar_exit
  <2>1. UNCHANGED <<start, pendingRuns>>
    BY <1>7 DEF sidecar_exit, commands, registry
  <2>2. PICK n \in 0 .. Len(toRust) : toRust' = SubSeq(toRust, 1, n)
    BY <1>7 DEF sidecar_exit
  <2>3. \A i \in DOMAIN toRust' : i \in DOMAIN toRust /\ toRust'[i] = toRust[i]
    BY <2>2, Prefix, Facts
  <2>4. \A r \in Runs : py[r] # "none" => py'[r] = "done"
    BY <1>7 DEF sidecar_exit
  <2> QED
    BY <1>0, <1>1, <2>1, <2>3, <2>4 DEF Reported
<1>8. CASE restart
  BY <1>8 DEF restart, Reported
<1> QED
  BY <1>2, <1>3, <1>4, <1>5, <1>6, <1>7, <1>8, Steps

(* the requests on the wire,                                               *)
LEMMA RequestedStep == IInv /\ Next => Requested'
<1> SUFFICES ASSUME IInv, Next PROVE Requested'
  OBVIOUS
<1>0. Requested /\ Working /\ Begun /\ Connected
  BY DEF IInv
<1>1. \A i \in DOMAIN toPy : toPy[i].run \in Runs
  BY WireTypes DEF IInv
<1>2. ASSUME NEW r \in Runs, Command(r) PROVE Requested'
  <2>1. py' = py
    BY <1>2, CommandFrame
  <2>2. CASE start_agent_run(r)
    <3>1. start[r] = "mapped" /\ stop' = stop /\ py[r] = "none"
      BY <1>0, <2>2 DEF start_agent_run, Begun
    <3>2. \A i \in DOMAIN toPy : toPy[i].type = "RUN_REQUEST" => toPy[i].run # r
      BY <1>0, <3>1 DEF Requested
    <3>3. CASE start' = [start EXCEPT ![r] = "over"] /\ pendingRuns' = pendingRuns \ {r} /\ toPy' = toPy
      BY <1>0, <1>1, <2>1, <3>1, <3>2, <3>3, Facts DEF Requested
    <3>4. CASE start' = [start EXCEPT ![r] = "sent"] /\ toPy' = Queued("RUN_REQUEST", r) /\ pendingRuns' = pendingRuns
      <4>1. CASE ~alive
        <5>1. toPy' = <<>>
          BY <1>0, <3>4, <4>1 DEF Queued, Connected
        <5> QED
          BY <5>1 DEF Requested
      <4>2. CASE alive
        <5>1. r \in pendingRuns
          BY <1>0, <3>1, <4>2 DEF Begun, Connected, Serving
        <5>2. Message("RUN_REQUEST", r) \in PyMessages
          BY DEF Message, PyMessages
        <5>3. /\ DOMAIN toPy' = DOMAIN toPy \cup {Len(toPy) + 1} /\ toPy'[Len(toPy) + 1] = Message("RUN_REQUEST", r)
              /\ \A i \in DOMAIN toPy : toPy'[i] = toPy[i]
          BY <3>4, <4>2, <5>2, OneMore, Facts DEF Queued
        <5>4. Message("RUN_REQUEST", r).run = r /\ Message("RUN_REQUEST", r).type = "RUN_REQUEST"
          BY DEF Message
        <5>5. start'[r] = "sent" /\ \A q \in Runs : start[q] = "sent" => start'[q] = "sent"
          BY <3>4, Facts
        <5>6. ASSUME NEW i \in DOMAIN toPy'
              PROVE  /\ toPy'[i].type = "RUN_REQUEST" =>
                          /\ start'[toPy'[i].run] = "sent" /\ py[toPy'[i].run] = "none"
                          /\ toPy'[i].run \in pendingRuns
                     /\ toPy'[i].type = "RUN_CANCEL" => stop[toPy'[i].run] \in Marked
          <6>1. CASE i \in DOMAIN toPy
            BY <1>0, <1>1, <5>3, <5>5, <6>1 DEF Requested
          <6>2. CASE i = Len(toPy) + 1
            BY <3>1, <5>1, <5>3, <5>4, <5>5, <6>2
          <6> QED
            BY <5>3, <6>1, <6>2
        <5>7. ASSUME NEW i \in DOMAIN toPy', NEW j \in DOMAIN toPy', toPy'[i].type = "RUN_REQUEST",
                     toPy'[j].type = "RUN_REQUEST", toPy'[i].run = toPy'[j].run
              PROVE  i = j
          BY <1>0, <3>2, <5>3, <5>4, <5>7 DEF Requested
        <5> QED
          BY <2>1, <3>1, <3>4, <5>6, <5>7 DEF Requested
      <4> QED
        BY <4>1, <4>2
    <3> QED
      BY <2>2, <3>3, <3>4 DEF start_agent_run, registry, without_run
  <2>3. CASE send_run_cancel(r)
    <3>1. stop[r] = "signalled" /\ UNCHANGED <<start, pendingRuns>>
          /\ \E c \in {"early", "sent", "unsent"} : stop' = [stop EXCEPT ![r] = c]
      BY <2>3 DEF send_run_cancel, registry
    <3>2. \A q \in Runs : stop[q] \in Marked => stop'[q] \in Marked
      BY <3>1, Facts DEF Marked
    <3>3. CASE toPy' = toPy
      BY <1>0, <1>1, <2>1, <3>1, <3>2, <3>3 DEF Requested
    <3>4. CASE toPy' = Append(toPy, Message("RUN_CANCEL", r))
      <4>1. Message("RUN_CANCEL", r) \in PyMessages
        BY DEF Message, PyMessages
      <4>2. /\ DOMAIN toPy' = DOMAIN toPy \cup {Len(toPy) + 1} /\ toPy'[Len(toPy) + 1] = Message("RUN_CANCEL", r)
            /\ \A i \in DOMAIN toPy : toPy'[i] = toPy[i]
        BY <3>4, <4>1, OneMore, Facts
      <4>3. Message("RUN_CANCEL", r).run = r /\ Message("RUN_CANCEL", r).type = "RUN_CANCEL"
        BY DEF Message
      <4>4. stop'[r] \in Marked
        BY <3>1, Facts DEF Marked
      <4> QED
        BY <1>0, <1>1, <2>1, <3>1, <3>2, <4>2, <4>3, <4>4 DEF Requested
    <3> QED
      BY <2>3, <3>3, <3>4 DEF send_run_cancel, Queued
  <2>4. CASE ~start_agent_run(r) /\ ~send_run_cancel(r)
    <3>1. \A q \in Runs : start[q] = "sent" => start'[q] = "sent"
      BY <1>2, <2>4, Facts DEF Command, CommandStep, send_message, start_agent_run_or_mark_failed, register_run,
         set_session_run, mark_run_cancelled, take_run_cancel_signal
    <3>2. pendingRuns \subseteq pendingRuns' /\ toPy' = toPy
      BY <1>2, <2>4 DEF Command, CommandStep, send_message, start_agent_run_or_mark_failed, register_run,
         set_session_run, mark_run_cancelled, take_run_cancel_signal, registry
    <3>3. \A q \in Runs : stop[q] \in Marked => stop'[q] \in Marked
      BY <1>2, <2>4, Facts DEF Command, CommandStep, send_message, start_agent_run_or_mark_failed, register_run,
         set_session_run, mark_run_cancelled, take_run_cancel_signal, Marked
    <3> QED
      BY <1>0, <1>1, <2>1, <3>1, <3>2, <3>3 DEF Requested
  <2> QED
    BY <2>2, <2>3, <2>4
<1>3. CASE Cancel
  <2>1. PICK s \in Sessions : cancel_run(s)
    BY <1>3 DEF Cancel
  <2>2. UNCHANGED <<toPy, py, start, pendingRuns>> /\ stop' = [stop EXCEPT ![sessionRun[s]] = "taken"]
    BY <1>3, <2>1, CommandFrame DEF cancel_run
  <2>3. sessionRun[s] \in Runs /\ stop[sessionRun[s]] = "no"
    BY <2>1, Facts DEF IInv, Named, cancel_run
  <2>4. \A q \in Runs : stop[q] \in Marked => stop'[q] \in Marked
    BY <2>2, <2>3, Facts DEF Marked
  <2> QED
    BY <1>0, <1>1, <2>2, <2>4 DEF Requested
<1>4. ASSUME NEW r \in Runs, ToolStep(r) PROVE Requested'
  <2>1. UNCHANGED <<start, stop, pendingRuns, py>>
    BY <1>4, ToolFrame
  <2>2. toPy' = toPy \/ toPy' = Append(toPy, Message("TOOL_RESULT", r))
    BY <1>4 DEF ToolStep, TaskStep, set_run_cancel_signal, check_cancelled, await_approval, reject_tool, execute_tool,
       after_execution, store_tool_parts, reply_tool_result, clear_run_cancel_signal, approve_tool,
       send_tool_result_if_active, Queued
  <2>3. CASE toPy' = toPy
    BY <1>0, <2>1, <2>3 DEF Requested
  <2>4. CASE toPy' = Append(toPy, Message("TOOL_RESULT", r))
    <3>1. Message("TOOL_RESULT", r) \in PyMessages /\ Message("TOOL_RESULT", r).type = "TOOL_RESULT"
      BY DEF Message, PyMessages
    <3>2. /\ DOMAIN toPy' = DOMAIN toPy \cup {Len(toPy) + 1} /\ toPy'[Len(toPy) + 1] = Message("TOOL_RESULT", r)
          /\ \A i \in DOMAIN toPy : toPy'[i] = toPy[i]
      BY <2>4, <3>1, OneMore, Facts
    <3> QED
      BY <1>0, <2>1, <3>1, <3>2 DEF Requested
  <2> QED
    BY <2>2, <2>3, <2>4
<1>5. CASE receive
  <2>1. /\ toPy[1].run \in Runs /\ 1 \in DOMAIN toPy /\ Head(toPy) = toPy[1]
        /\ \A i \in DOMAIN toPy' : i \in Nat /\ i + 1 \in DOMAIN toPy /\ toPy'[i] = toPy[i + 1] /\ 1 <= i
    BY <1>5, Received
  <2>2. UNCHANGED <<start, stop, pendingRuns>>
    BY <1>5, SidecarFrame DEF Sidecar
  <2>3. \A q \in Runs : py[q] = "none" /\ py'[q] # "none" => q = toPy[1].run /\ toPy[1].type = "RUN_REQUEST"
    BY <1>5, <2>1, Facts DEF receive, cancel_task
  <2>4. ASSUME NEW i \in DOMAIN toPy', toPy'[i].type = "RUN_REQUEST", toPy[1].type = "RUN_REQUEST"
        PROVE  toPy'[i].run # toPy[1].run
    <3>1. i + 1 # 1
      BY <2>1, <2>4
    <3> QED
      BY <1>0, <2>1, <2>4, <3>1 DEF Requested
  <2>5. ASSUME NEW i \in DOMAIN toPy', NEW j \in DOMAIN toPy', toPy'[i].type = "RUN_REQUEST", toPy'[j].type = "RUN_REQUEST",
               toPy'[i].run = toPy'[j].run
        PROVE  i = j
    <3>1. i + 1 = j + 1
      BY <1>0, <2>1, <2>5 DEF Requested
    <3> QED
      BY <2>1, <3>1
  <2> QED
    BY <1>0, <1>1, <2>1, <2>2, <2>3, <2>4, <2>5 DEF Requested
<1>6. ASSUME NEW r \in Runs, SidecarStep(r) PROVE Requested'
  <2>1. UNCHANGED <<start, stop, pendingRuns>>
    BY <1>6, SidecarFrame DEF Sidecar
  <2>2. toPy' = toPy /\ \A q \in Runs : py[q] = "none" => py'[q] = "none"
    BY <1>6, Facts DEF SidecarStep, prepare, graph_step, finish
  <2> QED
    BY <1>0, <1>1, <2>1, <2>2 DEF Requested
<1>7. CASE LoopStep
  <2>1. UNCHANGED <<start, stop, toPy, py>>
    BY <1>7, LoopFrame
  <2>2. CASE remove_run
    <3>1. pendingRuns' = pendingRuns \ {hand.run} /\ py[hand.run] # "none"
      BY <1>0, <2>2 DEF remove_run, without_run, Connected, Ending
    <3> QED
      BY <1>0, <2>1, <3>1 DEF Requested
  <2>3. CASE drain_runs
    <3>1. toPy' = <<>>
      BY <1>0, <2>1, <2>3 DEF drain_runs, Connected, Serving
    <3> QED
      BY <3>1 DEF Requested
  <2>4. CASE ~remove_run /\ ~drain_runs
    <3>1. pendingRuns' = pendingRuns
      BY <1>7, <2>4 DEF LoopStep, assistant_delta, tool_call_request, run_ends, end_run, remove_session_run,
         connection_lost, drain_session_runs, clear_active_sender, registry
    <3> QED
      BY <1>0, <2>1, <3>1 DEF Requested
  <2> QED
    BY <2>2, <2>3, <2>4
<1>8. CASE sidecar_exit \/ restart
  <2>1. toPy' = <<>>
    BY <1>8 DEF sidecar_exit, restart
  <2> QED
    BY <2>1 DEF Requested
<1> QED
  BY <1>2, <1>3, <1>4, <1>5, <1>6, <1>7, <1>8, Steps DEF Sidecar

-----------------------------------------------------------------------------
(* A run that is over stays over: it asks for no more tools.                *)
LEMMA StoppedStep == IInv /\ Next => Stopped'
<1> SUFFICES ASSUME IInv, Next PROVE Stopped'
  OBVIOUS
<1>0. Stopped /\ Working /\ Begun /\ Connected /\ Reported
  BY DEF IInv
<1>1. \A i \in DOMAIN toRust : toRust[i].run \in Runs
  BY WireTypes DEF IInv
<1>2. ASSUME NEW r \in Runs, Command(r) PROVE Stopped'
  <2>1. UNCHANGED <<toRust, py, task>>
    BY <1>2, CommandFrame
  <2>2. CASE set_session_run(r)
    <3>1. stop[r] = "no" /\ UNCHANGED <<stop, signals, fired>> /\ cancelled' = cancelled \ {r}
      BY <1>0, <2>2 DEF set_session_run, Begun
    <3> QED
      BY <1>0, <2>1, <3>1 DEF Stopped, Over, Marked
  <2>3. CASE mark_run_cancelled(r)
    <3>1. UNCHANGED <<signals, fired>> /\ cancelled' = cancelled \cup {r} /\ stop' = [stop EXCEPT ![r] = "marked"]
      BY <2>3 DEF mark_run_cancelled
    <3> QED
      BY <1>0, <2>1, <3>1, Facts DEF Stopped, Over
  <2>4. CASE take_run_cancel_signal(r)
    <3>1. cancelled' = cancelled /\ stop' = [stop EXCEPT ![r] = "signalled"] /\ stop[r] = "marked"
          /\ signals \cup fired \subseteq signals' \cup fired'
      BY <2>4 DEF take_run_cancel_signal, ResolveSignal
    <3> QED
      BY <1>0, <2>1, <3>1, Facts DEF Stopped, Over, Marked
  <2>5. CASE send_run_cancel(r)
    <3>1. UNCHANGED <<cancelled, signals, fired>> /\ stop[r] = "signalled"
          /\ \A q \in Runs \ {r} : stop'[q] = stop[q]
      BY <2>5, Facts DEF send_run_cancel, stopping
    <3> QED
      BY <1>0, <2>1, <3>1, Facts DEF Stopped, Over, Marked
  <2>6. CASE send_message(r) \/ start_agent_run_or_mark_failed(r) \/ register_run(r) \/ start_agent_run(r)
    <3>1. UNCHANGED <<stop, cancelled, signals, fired>>
      BY <2>6 DEF send_message, start_agent_run_or_mark_failed, register_run, start_agent_run, stopping
    <3> QED
      BY <1>0, <2>1, <3>1 DEF Stopped, Over
  <2> QED
    BY <1>2, <2>2, <2>3, <2>4, <2>5, <2>6 DEF Command, CommandStep
<1>3. CASE Cancel
  <2>1. PICK s \in Sessions : cancel_run(s)
    BY <1>3 DEF Cancel
  <2>2. UNCHANGED <<toRust, py, task, cancelled, signals, fired>> /\ stop' = [stop EXCEPT ![sessionRun[s]] = "taken"]
    BY <1>3, <2>1, CommandFrame DEF cancel_run, stopping
  <2> QED
    BY <1>0, <2>2, Facts DEF Stopped, Over, Marked
<1>4. ASSUME NEW r \in Runs, ToolStep(r) PROVE Stopped'
  <2>1. UNCHANGED <<stop, cancelled, toRust, py>>
    BY <1>4, ToolFrame
  <2>2. \A q \in Runs \ {r} : task'[q] = task[q] /\ (q \in signals \cup fired => q \in signals' \cup fired')
    <3>1. CASE set_run_cancel_signal(r) \/ check_cancelled(r) \/ await_approval(r) \/ reject_tool(r)
      BY <3>1, Facts DEF set_run_cancel_signal, check_cancelled, await_approval, reject_tool, stopping
    <3>2. CASE execute_tool(r) \/ after_execution(r) \/ store_tool_parts(r) \/ reply_tool_result(r)
      BY <3>2, Facts DEF execute_tool, after_execution, store_tool_parts, reply_tool_result, stopping, ResolveSignal
    <3>3. CASE clear_run_cancel_signal(r) \/ \E answer \in {"yes", "no"} : approve_tool(r, answer)
      BY <3>3 DEF clear_run_cancel_signal, approve_tool, stopping, ResolveSignal
    <3> QED
      BY <1>4, <3>1, <3>2, <3>3 DEF ToolStep, TaskStep
  <2>3. task[r] = "none" => task'[r] = "none"
    BY <1>4 DEF ToolStep, TaskStep, set_run_cancel_signal, check_cancelled, await_approval, reject_tool,
       execute_tool, after_execution, store_tool_parts, reply_tool_result, clear_run_cancel_signal, approve_tool
  <2>4. task'[r] \in {"armed", "waiting", "ready", "executing"} => r \in signals' \cup fired'
    <3>1. CASE set_run_cancel_signal(r)
      BY <3>1 DEF set_run_cancel_signal
    <3>2. CASE check_cancelled(r) \/ await_approval(r) \/ execute_tool(r)
      BY <1>0, <3>2, Facts DEF Stopped, check_cancelled, await_approval, execute_tool, stopping
    <3>3. CASE reject_tool(r) \/ after_execution(r) \/ store_tool_parts(r) \/ reply_tool_result(r)
      BY <3>3, Facts DEF reject_tool, after_execution, store_tool_parts, reply_tool_result
    <3>4. CASE clear_run_cancel_signal(r) \/ \E answer \in {"yes", "no"} : approve_tool(r, answer)
      BY <1>0, <3>4 DEF Stopped, clear_run_cancel_signal, approve_tool, stopping, ResolveSignal
    <3> QED
      BY <1>4, <3>1, <3>2, <3>3, <3>4 DEF ToolStep, TaskStep
  <2> QED
    BY <1>0, <2>1, <2>2, <2>3, <2>4 DEF Stopped, Over
<1>5. CASE Sidecar
  <2>1. PICK r \in Runs : \E c \in {"none", "preparing", "thinking", "tool", "finishing", "done", "dropped"} : Moved(r, c)
    BY <1>5, SidecarMoves
  <2>2. PICK c \in {"none", "preparing", "thinking", "tool", "finishing", "done", "dropped"} : Moved(r, c)
    BY <2>1
  <2>3. UNCHANGED <<stop, cancelled, signals, fired, task>>
    BY <1>5, SidecarFrame
  <2>4. ASSUME NEW q \in Runs, Over(q) PROVE Over(q)'
    <3>1. py'[q] \in {"finishing", "done"}
      BY <2>2, <2>4, Facts DEF Moved, Over
    <3>2. CASE toRust' = toRust
      BY <2>3, <2>4, <3>1, <3>2 DEF Over
    <3>3. CASE \E t \in Ends : toRust' = Append(toRust, Message(t, r))
      <4>1. PICK t \in Ends : toRust' = Append(toRust, Message(t, r))
        BY <3>3
      <4>2. Message(t, r) \in RustMessages /\ Message(t, r).type # "TOOL_CALL_REQUEST"
        BY <4>1 DEF Message, RustMessages, Ends
      <4> QED
        BY <2>3, <2>4, <3>1, <4>1, <4>2, OneMore, Facts DEF Over
    <3>4. CASE py[r] = "thinking" /\ \E t \in {"ASSISTANT_DELTA", "TOOL_CALL_REQUEST"} : toRust' = Append(toRust, Message(t, r))
      <4>1. PICK t \in {"ASSISTANT_DELTA", "TOOL_CALL_REQUEST"} : toRust' = Append(toRust, Message(t, r))
        BY <3>4
      <4>2. Message(t, r) \in RustMessages /\ Message(t, r).run = r /\ r # q
        BY <2>4, <3>4, <4>1 DEF Message, RustMessages, Over
      <4> QED
        BY <2>3, <2>4, <3>1, <4>1, <4>2, OneMore, Facts DEF Over
    <3> QED
      BY <2>2, <3>2, <3>3, <3>4 DEF Moved
  <2> QED
    BY <1>0, <2>3, <2>4 DEF Stopped
<1>6. CASE LoopStep
  <2>1. UNCHANGED <<stop, py>>
    BY <1>6, LoopFrame
  <2>2. CASE assistant_delta
    <3>1. \A i \in DOMAIN toRust' : i + 1 \in DOMAIN toRust /\ toRust'[i] = toRust[i + 1]
      BY <2>2, TakesTypes DEF assistant_delta
    <3>2. UNCHANGED <<task, cancelled, signals, fired>>
      BY <2>2 DEF assistant_delta, stopping
    <3> QED
      BY <1>0, <2>1, <3>1, <3>2 DEF Stopped, Over
  <2>3. CASE tool_call_request
    <3>1. /\ \A i \in DOMAIN toRust' : i + 1 \in DOMAIN toRust /\ toRust'[i] = toRust[i + 1]
          /\ toRust[1].type = "TOOL_CALL_REQUEST" /\ Head(toRust) = toRust[1] /\ 1 \in DOMAIN toRust
      BY <2>3, TakesTypes DEF tool_call_request
    <3>2. UNCHANGED <<cancelled, signals, fired>> /\ task' = [task EXCEPT ![toRust[1].run] = "asked"]
      BY <2>3, <3>1 DEF tool_call_request, stopping
    <3>3. \A q \in Runs : Over(q) => q # toRust[1].run
      BY <3>1 DEF Over
    <3> QED
      BY <1>0, <2>1, <3>1, <3>2, <3>3, Facts DEF Stopped, Over
  <2>4. CASE run_ends
    <3>1. PICK r \in Runs :
            /\ 1 \in DOMAIN toRust /\ toRust[1].run = r /\ toRust[1].type \in Ends
            /\ \A i \in DOMAIN toRust' : i \in Nat /\ 1 <= i /\ i + 1 \in DOMAIN toRust /\ toRust'[i] = toRust[i + 1]
            /\ abort_tool_tasks({r})
      BY <2>4, TakesTypes DEF run_ends, Ends
    <3>2. py'[r] \in {"finishing", "done"} /\ task'[r] = "none"
      BY <1>0, <2>1, <3>1 DEF Reported, abort_tool_tasks
    <3>3. ASSUME NEW i \in DOMAIN toRust', toRust'[i].type = "TOOL_CALL_REQUEST", toRust'[i].run = r PROVE FALSE
      <4>1. i \in Nat /\ 1 <= i /\ i + 1 \in DOMAIN toRust /\ toRust'[i] = toRust[i + 1]
        BY <3>1, <3>3
      <4>2. toRust[i + 1].type \notin Ends
        BY <3>3, <4>1 DEF Ends
      <4>3. i + 1 < 1
        BY <1>0, <3>1, <3>3, <4>1, <4>2 DEF Reported
      <4> QED
        BY <4>1, <4>3
    <3>4. Over(r)'
      BY <3>2, <3>3 DEF Over
    <3>5. ASSUME NEW q \in Runs, q # r
          PROVE  /\ task'[q] = task[q] /\ (Over(q) => Over(q)')
                 /\ (q \in cancelled => q \in cancelled') /\ (q \in signals \cup fired => q \in signals' \cup fired')
      BY <2>1, <3>1, <3>5 DEF Over, abort_tool_tasks
    <3> QED
      BY <1>0, <2>1, <3>2, <3>4, <3>5 DEF Stopped
  <2>5. CASE connection_lost
    <3>1. /\ ~alive /\ toRust = <<>> /\ toRust' = toRust
          /\ abort_tool_tasks({r \in Runs : task[r] # "none" \/ r \in clearing})
      BY <2>5 DEF connection_lost
    <3>2. \A q \in Runs : task'[q] = "none"
      BY <3>1 DEF abort_tool_tasks
    <3>3. ASSUME NEW q \in Runs PROVE (q \in cancelled => q \in cancelled' \/ Over(q)') /\ (Over(q) => Over(q)')
      <4>1. task[q] # "none" \/ q \in clearing => py'[q] \in {"finishing", "done"}
        BY <1>0, <2>1, <3>1, Facts DEF Working
      <4>2. task[q] # "none" \/ q \in clearing => Over(q)'
        BY <3>1, <3>2, <4>1 DEF Over
      <4>3. Over(q) => Over(q)'
        BY <2>1, <3>1, <3>2 DEF Over
      <4> QED
        BY <3>1, <4>2, <4>3 DEF abort_tool_tasks
    <3> QED
      BY <1>0, <2>1, <3>2, <3>3 DEF Stopped
  <2>6. CASE end_run \/ remove_run \/ remove_session_run \/ drain_session_runs \/ drain_runs \/ clear_active_sender
    <3>1. UNCHANGED <<task, toRust, cancelled, signals, fired>>
      BY <2>6 DEF end_run, remove_run, remove_session_run, drain_session_runs, drain_runs, clear_active_sender, stopping
    <3> QED
      BY <1>0, <2>1, <3>1 DEF Stopped, Over
  <2> QED
    BY <1>6, <2>2, <2>3, <2>4, <2>5, <2>6 DEF LoopStep
<1>7. CASE sidecar_exit
  <2>1. UNCHANGED <<stop, cancelled, signals, fired, task>>
    BY <1>7 DEF sidecar_exit, commands, stopping
  <2>2. PICK n \in 0 .. Len(toRust) : toRust' = SubSeq(toRust, 1, n)
    BY <1>7 DEF sidecar_exit
  <2>3. \A i \in DOMAIN toRust' : i \in DOMAIN toRust /\ toRust'[i] = toRust[i]
    BY <2>2, Prefix, Facts
  <2>4. \A q \in Runs : py[q] \in {"finishing", "done"} => py'[q] = "done"
    BY <1>7 DEF sidecar_exit
  <2> QED
    BY <1>0, <2>1, <2>3, <2>4 DEF Stopped, Over
<1>8. CASE restart
  <2>1. ASSUME NEW q \in Runs, stop'[q] \in Marked PROVE Over(q)'
    <3>1. start[q] # "none"
      BY <1>0, <1>8, <2>1 DEF restart, Begun, Marked
    <3> QED
      BY <1>8, <3>1 DEF restart, Over
  <2> QED
    BY <1>8, <2>1 DEF Stopped, restart
<1> QED
  BY <1>2, <1>3, <1>4, <1>5, <1>6, <1>7, <1>8, Steps

-----------------------------------------------------------------------------
(* and the text of each run.                                               *)
LEMMA OwnedStep == IInv /\ Next => Owned' /\ TextInOwnMessage' /\ TextSaved'
<1> SUFFICES ASSUME IInv, Next PROVE Owned' /\ TextInOwnMessage' /\ TextSaved'
  OBVIOUS
<1> DEFINE Kept == Owned' /\ TextInOwnMessage' /\ TextSaved'
<1>0. Owned /\ TextInOwnMessage /\ TextSaved /\ Working /\ Begun /\ Connected /\ Reported
  BY DEF IInv
<1>1. ASSUME NEW r \in Runs, Command(r) PROVE Kept
  <2>1. UNCHANGED <<loop, hand, active, saved, heard>>
    BY <1>1, CommandFrame
  <2>2. CASE send_message(r)
    <3>1. status' = [status EXCEPT ![r] = "pending"] /\ status[r] = "none" /\ pendingRuns' = pendingRuns /\ r \notin pendingRuns
      BY <1>0, <2>2 DEF send_message, Begun, registry
    <3> QED
      BY <1>0, <2>1, <3>1, Facts DEF Owned, TextInOwnMessage, TextSaved
  <2>3. CASE start_agent_run_or_mark_failed(r)
    <3>1. status' = fail_pending_assistant(status, {r}) /\ pendingRuns' = pendingRuns /\ r \notin pendingRuns
      BY <1>0, <2>3 DEF start_agent_run_or_mark_failed, Begun, registry
    <3>2. \A q \in Runs : status'[q] = status[q] \/ (q = r /\ status'[q] = "failed")
      BY <3>1 DEF fail_pending_assistant
    <3> QED
      BY <1>0, <2>1, <3>1, <3>2 DEF Owned, TextInOwnMessage, TextSaved
  <2>4. CASE register_run(r)
    <3>1. status' = status /\ status[r] = "pending" /\ pendingRuns' = pendingRuns \cup {r}
      BY <1>0, <2>4 DEF register_run, Begun
    <3> QED
      BY <1>0, <2>1, <3>1 DEF Owned, TextInOwnMessage, TextSaved
  <2>5. CASE start_agent_run(r) /\ status' = fail_pending_assistant(status, {r})
    <3>1. pendingRuns' = pendingRuns \ {r} \/ UNCHANGED <<pendingRuns, status>>
      BY <2>5 DEF start_agent_run, without_run, registry
    <3>2. active[r] = NoRun
      BY <1>0, <2>5 DEF Working, Begun, start_agent_run
    <3>3. \A q \in Runs : status'[q] = status[q] \/ (q = r /\ status'[q] = "failed")
      BY <2>5 DEF fail_pending_assistant
    <3> QED
      BY <1>0, <2>1, <3>1, <3>2, <3>3, Numbers DEF Owned, TextInOwnMessage, TextSaved
  <2>6. CASE UNCHANGED <<pendingRuns, status>>
    BY <1>0, <2>1, <2>6 DEF Owned, TextInOwnMessage, TextSaved
  <2> QED
    BY <1>1, <2>2, <2>3, <2>4, <2>5, <2>6 DEF Command, CommandStep, set_session_run, start_agent_run, mark_run_cancelled,
       take_run_cancel_signal, send_run_cancel, registry
<1>2. CASE Cancel
  <2>1. UNCHANGED <<loop, hand, active, saved, heard, pendingRuns, status>>
    BY <1>2, CommandFrame DEF Cancel, cancel_run
  <2> QED
    BY <1>0, <2>1 DEF Owned, TextInOwnMessage, TextSaved
<1>3. ASSUME NEW r \in Runs, ToolStep(r) PROVE Kept
  <2>1. UNCHANGED <<loop, hand, heard, pendingRuns, status>>
    BY <1>3, ToolFrame
  <2>2. CASE set_run_cancel_signal(r)
    <3>1. active' = ensure_run(r) /\ saved' = saved
      BY <2>2 DEF set_run_cancel_signal
    <3>2. active' = active \/ (active' = [active EXCEPT ![r] = r] /\ r \in pendingRuns)
      BY <3>1 DEF ensure_run
    <3>3. TextInOwnMessage'
      BY <1>0, <3>2, Facts DEF TextInOwnMessage
    <3>4. TextSaved'
      BY <1>0, <2>1, <3>1 DEF TextSaved
    <3>5. Owned'
      BY <1>0, <2>1, <3>1, <3>2, Facts, Numbers DEF Owned
    <3> QED
      BY <3>3, <3>4, <3>5
  <2>3. CASE store_tool_parts(r)
    <3>1. active' = active /\ saved' \in {saved, [saved EXCEPT ![r] = heard[r]]}
      BY <2>3 DEF store_tool_parts, drain_accumulated
    <3>2. saved \in [Runs -> Nat]
      BY DEF IInv, TypeOK
    <3> QED
      BY <1>0, <2>1, <3>1, <3>2 DEF Owned, TextInOwnMessage, TextSaved
  <2>4. CASE UNCHANGED <<active, saved>>
    BY <1>0, <2>1, <2>4 DEF Owned, TextInOwnMessage, TextSaved
  <2> QED
    BY <1>3, <2>2, <2>3, <2>4 DEF ToolStep, TaskStep, check_cancelled, await_approval, reject_tool, execute_tool,
       after_execution, reply_tool_result, clear_run_cancel_signal, approve_tool, text
<1>4. CASE Sidecar
  BY <1>0, <1>4, SidecarFrame DEF Owned, TextInOwnMessage, TextSaved
<1>5. CASE LoopStep
  <2>1. CASE assistant_delta
    <3>1. PICK r \in Runs : r = toRust[1].run /\ 1 \in DOMAIN toRust /\ Head(toRust) = toRust[1]
                            /\ toRust[1].type \notin Ends /\ loop = "reading"
      BY <2>1, TakesTypes DEF assistant_delta, Ends
    <3>2. TextTarget(r) = r /\ r \in pendingRuns
      BY <1>0, <3>1, OwnText DEF Reported
    <3>3. /\ active' = [active EXCEPT ![r] = r] /\ heard' = [heard EXCEPT ![r] = @ + 1]
          /\ UNCHANGED <<loop, hand, saved, pendingRuns, status>>
      BY <2>1, <3>1, <3>2, Numbers DEF assistant_delta, registry
    <3>4. status[r] = "pending" /\ heard \in [Runs -> Nat]
      BY <1>0, <3>1, <3>2 DEF Owned, IInv, TypeOK
    <3> QED
      BY <1>0, <3>1, <3>2, <3>3, <3>4, Facts, Numbers DEF Owned, TextInOwnMessage, TextSaved, Ended
  <2>2. CASE tool_call_request \/ run_ends \/ connection_lost
    <3>1. UNCHANGED <<active, saved, heard, pendingRuns, status>>
      BY <2>2 DEF tool_call_request, run_ends, connection_lost, text, registry
    <3>2. loop = "reading" /\ loop' # "removing"
      BY <2>2 DEF tool_call_request, run_ends, connection_lost, Takes
    <3> QED
      BY <1>0, <3>1, <3>2 DEF Owned, TextInOwnMessage, TextSaved, Serving
  <2>3. CASE end_run
    <3>1. saved \in [Runs -> Nat] /\ heard \in [Runs -> Nat]
      BY DEF IInv, TypeOK
    <3>2. \A q \in Runs : saved'[q] \in {saved[q], heard[q]}
      BY <2>3, <3>1, RunEnd
    <3>3. saved'[hand.run] = heard[hand.run] \/ status' = status
      BY <1>0, <2>3, <3>1, RunEnd DEF Owned
    <3>4. TextSaved'
      BY <1>0, <2>3, <3>2, <3>3, RunEnd DEF TextSaved
    <3>5. Owned'
      <4>1. ASSUME NEW q \in Runs, q # hand.run
            PROVE  /\ active'[q] = q /\ loop' \in Serving => q \in pendingRuns'
                   /\ q \in pendingRuns' /\ ~(loop' = "removing" /\ hand'.run = q) => status'[q] = "pending"
                   /\ status'[q] \in {"none", "pending"} /\ active'[q] = NoRun => saved'[q] = heard'[q]
        BY <1>0, <2>3, <3>2, <4>1, RunEnd, Facts DEF Owned, Serving
      <4>2. status'[hand.run] \in {"none", "pending"} => saved'[hand.run] = heard'[hand.run]
        BY <1>0, <2>3, <3>2, RunEnd DEF Owned, Ended
      <4>3. active'[hand.run] = NoRun /\ loop' = "removing" /\ hand' = hand /\ hand.run # NoRun
        BY <2>3, RunEnd, Facts, Numbers
      <4> QED
        BY <4>1, <4>2, <4>3 DEF Owned
    <3>6. TextInOwnMessage'
      BY <1>0, <2>3, RunEnd, Facts DEF TextInOwnMessage
    <3> QED
      BY <3>4, <3>5, <3>6
  <2>4. CASE remove_run
    <3>1. /\ UNCHANGED <<active, saved, heard, status, hand>> /\ loop = "removing" /\ loop' = "unmapping"
          /\ pendingRuns' = pendingRuns \ {hand.run}
      BY <2>4 DEF remove_run, text, without_run
    <3>2. active[hand.run] = NoRun
      BY <1>0, <3>1 DEF Connected
    <3> QED
      BY <1>0, <3>1, <3>2, Numbers DEF Owned, TextInOwnMessage, TextSaved, Serving
  <2>5. CASE remove_session_run \/ drain_session_runs \/ clear_active_sender
    <3>1. UNCHANGED <<active, saved, heard, status, pendingRuns>>
      BY <2>5 DEF remove_session_run, drain_session_runs, clear_active_sender, text, registry
    <3>2. /\ loop # "removing" /\ loop' # "removing" /\ (loop' \in Serving => loop \in Serving)
      BY <2>5 DEF remove_session_run, drain_session_runs, clear_active_sender, Serving
    <3> QED
      BY <1>0, <3>1, <3>2 DEF Owned, TextInOwnMessage, TextSaved
  <2>6. CASE drain_runs
    <3>1. UNCHANGED <<active, saved, heard>> /\ pendingRuns' = {} /\ loop' \notin Serving
      BY <2>6 DEF drain_runs, text, Serving
    <3>2. \A q \in Runs : status'[q] \in {status[q], "failed"}
      BY <2>6 DEF drain_runs, fail_pending_assistant
    <3> QED
      BY <1>0, <3>1, <3>2 DEF Owned, TextInOwnMessage, TextSaved
  <2> QED
    BY <1>5, <2>1, <2>2, <2>3, <2>4, <2>5, <2>6 DEF LoopStep
<1>6. CASE sidecar_exit
  <2>1. UNCHANGED <<loop, hand, active, saved, heard, pendingRuns, status>>
    BY <1>6 DEF sidecar_exit, text, registry
  <2> QED
    BY <1>0, <2>1 DEF Owned, TextInOwnMessage, TextSaved
<1>7. CASE restart
  <2>1. UNCHANGED <<saved, heard>> /\ pendingRuns' = {} /\ active' = [r \in Runs |-> NoRun]
    BY <1>7 DEF restart
  <2>2. \A q \in Runs : status'[q] \notin {"pending"} /\ (status'[q] = status[q] \/ status'[q] = "failed")
    BY <1>7, Facts DEF restart, recover_interrupted_assistants, fail_pending_assistant
  <2>3. \A q \in Runs : status'[q] = "none" => saved[q] = heard[q]
    <3>1. ASSUME NEW q \in Runs, status'[q] = "none" PROVE status[q] = "none"
      BY <2>2, <3>1
    <3>2. ASSUME NEW q \in Runs, status[q] = "none" PROVE active[q] = NoRun
      <4>1. active[q] # NoRun => active[q] = q /\ py[q] # "none"
        BY <1>0 DEF TextInOwnMessage, Working
      <4> QED
        BY <1>0, <3>2, <4>1 DEF Begun
    <3> QED
      BY <1>0, <3>1, <3>2 DEF Owned
  <2> QED
    BY <1>0, <2>1, <2>2, <2>3, Numbers DEF Owned, TextInOwnMessage, TextSaved
<1> QED
  BY <1>1, <1>2, <1>3, <1>4, <1>5, <1>6, <1>7, Steps

-----------------------------------------------------------------------------
(* A task passes the mark only while its run is unmarked, and then taking   *)
(* the signal reaches it.                                                   *)
LEMMA StopReachesStep == IInv /\ Next => StopReachesTask'
<1> SUFFICES ASSUME IInv, Next PROVE StopReachesTask'
  OBVIOUS
<1> DEFINE Past == {"signalled", "sent", "early", "unsent"}
           Exposed == {"waiting", "ready", "executing"}
<1>0. StopReachesTask /\ Stopped /\ Connected
  BY DEF IInv
<1>1. ASSUME NEW r \in Runs, Command(r) PROVE StopReachesTask'
  <2>1. UNCHANGED task
    BY <1>1, CommandFrame
  <2>2. \A q \in Runs \ {r} : stop'[q] = stop[q] /\ (q \in fired => q \in fired')
    BY <1>1, Facts DEF Command, CommandStep, send_message, start_agent_run_or_mark_failed, register_run,
       set_session_run, start_agent_run, mark_run_cancelled, take_run_cancel_signal, send_run_cancel, ResolveSignal, stopping
  <2>3. stop'[r] \in Past /\ task[r] \in Exposed => r \in fired'
    <3>1. CASE take_run_cancel_signal(r)
      <4>1. task[r] \in Exposed => r \in signals \cup fired
        BY <1>0 DEF Stopped
      <4> QED
        BY <3>1, <4>1 DEF take_run_cancel_signal, ResolveSignal
    <3>2. CASE send_run_cancel(r)
      <4>1. stop[r] = "signalled" /\ fired' = fired
        BY <3>2 DEF send_run_cancel, stopping
      <4> QED
        BY <1>0, <4>1 DEF StopReachesTask
    <3>3. CASE mark_run_cancelled(r)
      BY <3>3, Facts DEF mark_run_cancelled
    <3>4. CASE send_message(r) \/ start_agent_run_or_mark_failed(r) \/ register_run(r) \/ set_session_run(r) \/ start_agent_run(r)
      <4>1. UNCHANGED <<stop, fired>>
        BY <3>4 DEF send_message, start_agent_run_or_mark_failed, register_run, set_session_run, start_agent_run, stopping
      <4> QED
        BY <1>0, <4>1 DEF StopReachesTask
    <3> QED
      BY <1>1, <3>1, <3>2, <3>3, <3>4 DEF Command, CommandStep
  <2> QED
    BY <1>0, <2>1, <2>2, <2>3 DEF StopReachesTask
<1>2. CASE Cancel
  <2>1. PICK s \in Sessions : cancel_run(s)
    BY <1>2 DEF Cancel
  <2>2. UNCHANGED <<task, fired>> /\ stop' = [stop EXCEPT ![sessionRun[s]] = "taken"]
    BY <1>2, <2>1, CommandFrame DEF cancel_run, stopping
  <2> QED
    BY <1>0, <2>2, Facts DEF StopReachesTask
<1>3. ASSUME NEW r \in Runs, ToolStep(r) PROVE StopReachesTask'
  <2>1. UNCHANGED <<stop, cancelled>>
    BY <1>3, ToolFrame
  <2>2. \A q \in Runs \ {r} : task'[q] = task[q] /\ (q \in fired => q \in fired')
    <3>1. CASE set_run_cancel_signal(r) \/ check_cancelled(r) \/ await_approval(r) \/ reject_tool(r)
      BY <3>1, Facts DEF set_run_cancel_signal, check_cancelled, await_approval, reject_tool, stopping
    <3>2. CASE execute_tool(r) \/ after_execution(r) \/ store_tool_parts(r) \/ reply_tool_result(r)
      BY <3>2, Facts DEF execute_tool, after_execution, store_tool_parts, reply_tool_result, stopping, ResolveSignal
    <3>3. CASE clear_run_cancel_signal(r) \/ \E answer \in {"yes", "no"} : approve_tool(r, answer)
      BY <3>3 DEF clear_run_cancel_signal, approve_tool, stopping, ResolveSignal
    <3> QED
      BY <1>3, <3>1, <3>2, <3>3 DEF ToolStep, TaskStep
  <2>3. stop[r] \in Past /\ task'[r] \in Exposed => r \in fired'
    <3>1. CASE check_cancelled(r)
      <4>1. stop[r] \in Past /\ task'[r] \in Exposed => FALSE
        BY <1>0, <3>1, Facts DEF Stopped, Over, Marked, check_cancelled
      <4> QED
        BY <4>1
    <3>2. CASE await_approval(r) \/ execute_tool(r)
      BY <1>0, <3>2, Facts DEF StopReachesTask, await_approval, execute_tool, stopping
    <3>3. CASE set_run_cancel_signal(r) \/ reject_tool(r) \/ after_execution(r) \/ store_tool_parts(r) \/ reply_tool_result(r)
      BY <3>3, Facts DEF set_run_cancel_signal, reject_tool, after_execution, store_tool_parts, reply_tool_result
    <3>4. CASE clear_run_cancel_signal(r) \/ \E answer \in {"yes", "no"} : approve_tool(r, answer)
      BY <1>0, <3>4 DEF StopReachesTask, clear_run_cancel_signal, approve_tool, stopping, ResolveSignal
    <3> QED
      BY <1>3, <3>1, <3>2, <3>3, <3>4 DEF ToolStep, TaskStep
  <2> QED
    BY <1>0, <2>1, <2>2, <2>3 DEF StopReachesTask
<1>4. CASE Sidecar
  BY <1>0, <1>4, SidecarFrame DEF StopReachesTask
<1>5. CASE LoopStep
  <2>1. stop' = stop
    BY <1>5, LoopFrame
  <2>2. \A q \in Runs : task'[q] \in {"none", "asked"} \/ (task'[q] = task[q] /\ (q \in fired => q \in fired'))
    <3>1. CASE tool_call_request
      BY <3>1, Facts DEF tool_call_request, stopping
    <3>2. CASE run_ends \/ connection_lost
      BY ZenonT(60), <3>2, Facts DEF run_ends, connection_lost, abort_tool_tasks
    <3>3. CASE assistant_delta \/ end_run \/ remove_run \/ remove_session_run \/ drain_session_runs \/ drain_runs \/ clear_active_sender
      BY <3>3 DEF assistant_delta, end_run, remove_run, remove_session_run, drain_session_runs, drain_runs, clear_active_sender, stopping
    <3> QED
      BY <1>5, <3>1, <3>2, <3>3 DEF LoopStep
  <2> QED
    BY <1>0, <2>1, <2>2 DEF StopReachesTask
<1>6. CASE sidecar_exit
  BY <1>0, <1>6 DEF StopReachesTask, sidecar_exit, commands, stopping
<1>7. CASE restart
  BY <1>7 DEF StopReachesTask, restart
<1> QED
  BY <1>1, <1>2, <1>3, <1>4, <1>5, <1>6, <1>7, Steps

(* A run is marked before its cancellation is queued, and a task with a     *)
(* result looks at the mark when it queues it.                              *)
LEMMA NoResultStep == IInv /\ Next => NoResultBehindCancel'
<1> SUFFICES ASSUME IInv, Next PROVE NoResultBehindCancel'
  OBVIOUS
<1>0. NoResultBehindCancel /\ Stopped /\ Requested
  BY DEF IInv
<1>1. CASE toPy' = toPy \/ toPy' = <<>>
  BY <1>0, <1>1 DEF NoResultBehindCancel
<1>2. ASSUME NEW r \in Runs, NEW t \in {"RUN_REQUEST", "RUN_CANCEL"}, toPy' = Append(toPy, Message(t, r))
      PROVE  NoResultBehindCancel'
  <2>1. Message(t, r) \in PyMessages /\ Message(t, r).type # "TOOL_RESULT"
    BY DEF Message, PyMessages
  <2>2. /\ DOMAIN toPy' = DOMAIN toPy \cup {Len(toPy) + 1} /\ toPy'[Len(toPy) + 1] = Message(t, r)
        /\ \A i \in DOMAIN toPy : toPy'[i] = toPy[i] /\ i < Len(toPy) + 1
    BY <1>2, <2>1, OneMore, Facts
  <2> QED
    BY <1>0, <2>1, <2>2 DEF NoResultBehindCancel
<1>3. ASSUME NEW r \in Runs, task[r] # "none", r \notin cancelled, toPy' = Append(toPy, Message("TOOL_RESULT", r))
      PROVE  NoResultBehindCancel'
  <2>1. Message("TOOL_RESULT", r) \in PyMessages /\ Message("TOOL_RESULT", r).type = "TOOL_RESULT"
        /\ Message("TOOL_RESULT", r).run = r
    BY DEF Message, PyMessages
  <2>2. /\ DOMAIN toPy' = DOMAIN toPy \cup {Len(toPy) + 1} /\ toPy'[Len(toPy) + 1] = Message("TOOL_RESULT", r)
        /\ \A i \in DOMAIN toPy : toPy'[i] = toPy[i]
    BY <1>3, <2>1, OneMore, Facts
  <2>3. stop[r] \notin Marked
    BY <1>0, <1>3 DEF Stopped, Over
  <2>4. \A i \in DOMAIN toPy : toPy[i].type = "RUN_CANCEL" => toPy[i].run # r
    BY <1>0, <2>3 DEF Requested
  <2> QED
    BY <1>0, <2>1, <2>2, <2>4 DEF NoResultBehindCancel
<1>4. CASE receive
  <2>1. \A i \in DOMAIN toPy' : i \in Nat /\ i + 1 \in DOMAIN toPy /\ toPy'[i] = toPy[i + 1]
    BY <1>4, Received
  <2>2. ASSUME NEW i \in DOMAIN toPy', NEW j \in DOMAIN toPy', toPy'[i].type = "RUN_CANCEL", toPy'[j].type = "TOOL_RESULT",
               toPy'[i].run = toPy'[j].run
        PROVE  j < i
    <3>1. j + 1 < i + 1
      BY <1>0, <2>1, <2>2 DEF NoResultBehindCancel
    <3> QED
      BY <2>1, <3>1
  <2> QED
    BY <2>2 DEF NoResultBehindCancel
<1>5. ASSUME NEW r \in Runs, Command(r) PROVE NoResultBehindCancel'
  <2>1. CASE start_agent_run(r)
    <3>1. toPy' = toPy \/ toPy' = Append(toPy, Message("RUN_REQUEST", r))
      BY <2>1 DEF start_agent_run, Queued
    <3> QED
      BY <1>1, <1>2, <3>1
  <2>2. CASE send_run_cancel(r)
    <3>1. toPy' = toPy \/ toPy' = Append(toPy, Message("RUN_CANCEL", r))
      BY <2>2 DEF send_run_cancel, Queued
    <3> QED
      BY <1>1, <1>2, <3>1
  <2>3. CASE ~start_agent_run(r) /\ ~send_run_cancel(r)
    BY <1>1, <1>5, <2>3 DEF Command, CommandStep, send_message, start_agent_run_or_mark_failed, register_run,
       set_session_run, mark_run_cancelled, take_run_cancel_signal
  <2> QED
    BY <2>1, <2>2, <2>3
<1>6. ASSUME NEW r \in Runs, ToolStep(r) PROVE NoResultBehindCancel'
  <2>1. CASE reject_tool(r) \/ reply_tool_result(r)
    <3>1. task[r] # "none" /\ (toPy' = toPy \/ (r \notin cancelled /\ toPy' = Append(toPy, Message("TOOL_RESULT", r))))
      BY <2>1 DEF reject_tool, reply_tool_result, send_tool_result_if_active, Queued
    <3> QED
      BY <1>1, <1>3, <3>1
  <2>2. CASE ~reject_tool(r) /\ ~reply_tool_result(r)
    BY <1>1, <1>6, <2>2 DEF ToolStep, TaskStep, set_run_cancel_signal, check_cancelled, await_approval, execute_tool,
       after_execution, store_tool_parts, clear_run_cancel_signal, approve_tool
  <2> QED
    BY <2>1, <2>2
<1>7. CASE Cancel \/ LoopStep \/ sidecar_exit \/ restart
  BY <1>1, <1>7, LoopFrame DEF Cancel, cancel_run, sidecar_exit, restart
<1>8. ASSUME NEW r \in Runs, SidecarStep(r) PROVE NoResultBehindCancel'
  BY <1>1, <1>8 DEF SidecarStep, prepare, graph_step, finish
<1> QED
  BY <1>4, <1>5, <1>6, <1>7, <1>8, Steps DEF Sidecar

-----------------------------------------------------------------------------
(* A step that changes nothing keeps the invariant.                        *)
LEMMA StutterIInv == IInv /\ UNCHANGED vars => IInv'
<1> SUFFICES ASSUME IInv, UNCHANGED vars PROVE IInv'
  OBVIOUS
<1>1. UNCHANGED <<start, stop, pendingRuns, sessionRun, cancelled, signals, fired, approvals, decision, sender, alive,
                  faults, toPy, toRust, py, tools, task, clearing, loop, hand, active, heard, saved, traces, status>>
  BY DEF vars, commands, registry, stopping, card, wires, sidecar, text
<1>2. TypeOK'
  BY <1>1 DEF IInv, TypeOK
<1>3. Begun' /\ Named' /\ Working' /\ Connected'
  BY <1>1 DEF IInv, Begun, Named, Working, Connected
<1>4. Reported' /\ Requested'
  BY <1>1 DEF IInv, Reported, Requested
<1>5. Stopped' /\ Owned'
  BY <1>1 DEF IInv, Stopped, Over, Owned
<1>6. StopReachesTask' /\ NoResultBehindCancel' /\ TextInOwnMessage' /\ TextSaved'
  BY <1>1 DEF IInv, StopReachesTask, NoResultBehindCancel, TextInOwnMessage, TextSaved
<1> QED
  BY <1>2, <1>3, <1>4, <1>5, <1>6 DEF IInv

(* Every state satisfies the inductive invariant.                           *)
THEOREM Invariant == Spec => []IInv
<1>1. IInv /\ Next => IInv'
  BY TypeStep, BegunStep, NamedStep, WorkingStep, ConnectedStep, ReportedStep, RequestedStep, StoppedStep, OwnedStep,
     StopReachesStep, NoResultStep DEF IInv
<1>2. IInv /\ [Next]_vars => IInv'
  BY <1>1, StutterIInv
<1> QED
  BY <1>2, InitIInv, PTL DEF Spec

(* Stop is never overtaken: a task that got past the mark is signalled      *)
(* (set_run_cancel_signal, cancel_run), and no tool result is queued behind *)
(* its run's cancellation (send_tool_result_if_active).                     *)
THEOREM StopCorrect == Spec => []StopSafe
<1>1. IInv => StopSafe
  BY DEF IInv, StopSafe
<1> QED
  BY <1>1, Invariant, PTL

(* What a run says goes to its own message, and a message that ended        *)
(* complete or cancelled holds all of it (ensure_run, drain_accumulated).   *)
THEOREM TextCorrect == Spec => []TextKept
<1>1. IInv => TextKept
  BY DEF IInv, TextKept
<1> QED
  BY <1>1, Invariant, PTL

(* A step changes the status of a pending message, or of none.              *)
LEMMA StepFinal == IInv /\ [Next]_vars => Final
<1> SUFFICES ASSUME IInv, [Next]_vars, NEW q \in Runs, status[q] \in Ended PROVE status'[q] = status[q]
  BY DEF Final
<1>0. status[q] \notin {"none", "pending"}
  BY DEF Ended
<1>1. ASSUME NEW r \in Runs, Command(r) PROVE status'[q] = status[q]
  <2>1. CASE send_message(r)
    <3>1. status[r] = "none"
      BY <2>1 DEF send_message, IInv, Begun
    <3> QED
      BY <1>0, <2>1, <3>1, Facts DEF send_message
  <2>2. CASE ~send_message(r)
    BY <1>0, <1>1, <2>2 DEF Command, CommandStep, start_agent_run_or_mark_failed, register_run, set_session_run,
       start_agent_run, mark_run_cancelled, take_run_cancel_signal, send_run_cancel, fail_pending_assistant
  <2> QED
    BY <2>1, <2>2
<1>2. CASE end_run
  BY <1>0, <1>2, RunEnd
<1>3. CASE LoopStep /\ ~end_run
  BY <1>0, <1>3 DEF LoopStep, assistant_delta, tool_call_request, run_ends, remove_run, remove_session_run,
     connection_lost, drain_session_runs, drain_runs, clear_active_sender, fail_pending_assistant
<1>4. CASE Cancel \/ sidecar_exit
  BY <1>4 DEF Cancel, cancel_run, sidecar_exit
<1>5. CASE restart
  BY <1>0, <1>5 DEF restart, recover_interrupted_assistants, fail_pending_assistant
<1>6. CASE Sidecar \/ \E r \in Runs : ToolStep(r)
  BY <1>6, SidecarFrame, ToolFrame
<1>7. CASE UNCHANGED vars
  BY <1>7 DEF vars
<1> QED
  BY <1>1, <1>2, <1>3, <1>4, <1>5, <1>6, <1>7, Steps

(* The status of an assistant message is decided once, whatever ends,       *)
(* fails, stops or restarts the run (fail_pending_assistant, end of run).   *)
THEOREM StatusCorrect == Spec => StatusFinal
<1>1. IInv /\ [Next]_vars => [Final]_vars
  BY StepFinal
<1> QED
  BY <1>1, Invariant, PTL DEF Spec, StatusFinal
=============================================================================
