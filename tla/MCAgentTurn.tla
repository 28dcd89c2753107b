----------------------------- MODULE MCAgentTurn -----------------------------
(****************************************************************************)
(* A small instance of AgentTurn: the runs follow each other in one session. *)
(****************************************************************************)
EXTENDS AgentTurn

CONSTANTS session, Deltas, Tools  \* fragments and tool calls of the first run

MCSessionOf == [r \in Runs |-> session]
MCMaxDeltas == [r \in Runs |-> IF r = 1 THEN Deltas ELSE 0]
MCMaxTools == [r \in Runs |-> IF r = 1 THEN Tools ELSE 0]

\* The second run is sent or the first one calls a second tool, not both: the one is
\* the user's choice and the other the model's, so no fairness is cut short.
Small == tools[1] < 2 \/ start[2] = "none"
SmallSpec == Init /\ [][Next /\ Small']_vars /\ Fairness
=============================================================================
