----------------------------- MODULE MCReplica -----------------------------
(***************************************************************************)
(* What reaches a device from others, for TLC: the replica of a session    *)
(* with two messages and the agent it belongs to (SyncReplica) and the     *)
(* artifacts of documents and books (ArtifactSync), and beside them, as    *)
(* parts that share no state, rows that refer to each other, what a        *)
(* payload has to pass, the stamps on changes, and the merge of two        *)
(* payloads.                                                               *)
(*                                                                         *)
(* Artifacts: two devices that publish a book, and one device after the    *)
(* other; two devices that publish a second version of a document at the   *)
(* same time; a second version replicated, with cleanup on either device.  *)
(***************************************************************************)
EXTENDS SyncReplica, ArtifactSync, TLC

CONSTANTS
  Parts,
  agent, session, message,
  d1, d2,
  Texts, QuoteBytes, NoteBytes, TitleChars, ContextLimit, Instants, Tick, MaxWrites,
  Nodes, MaxWall, MaxCounter, MaxChanges,
  Values, Inputs,
  Cases, MaxRowChanges

VARIABLES
  part,
  payload, written, accepted, theirs, stuck,
  last_hlc, stamped, known,
  type, base, mine, other, order, here, there,
  case, published, current, dev, disputed, stray, surviving, rowChanges

Payloads == INSTANCE PayloadChecks WITH kind <- payload
Clock    == INSTANCE HybridClock WITH changes <- stamped
Fields   == INSTANCE FieldMerge WITH entity <- type
Carried  == INSTANCE RemoteRows WITH log <- published, server <- current, changes <- rowChanges,
                                    MaxChanges <- MaxRowChanges

ASSUME PayloadAssumption == Payloads!LimitsAssumption
ASSUME ClockAssumption == Clock!ClockAssumption
ASSUME InputsAssumption == Fields!InputsAssumption

payloadVars == <<payload, written, accepted, theirs, stuck>>
clockVars == <<last_hlc, stamped, known>>
mergeVars == <<type, base, mine, other, order, here, there>>
rowVars == <<case, published, current, dev, disputed, stray, surviving, rowChanges>>

MCEntities == {agent, session, message}
MCParent == agent :> NoEntity @@ session :> agent @@ message :> session
MCRank == agent :> 1 @@ session :> 2 @@ message :> 3

Case(of, shared, builds, publish, replicate, collect, editors) ==
    [kind |-> of, shared |-> shared, builds |-> builds, maker |-> d1, publish |-> publish,
     replicate |-> replicate, clean |-> collect, edit |-> editors]

MCScenarios == {
    Case("reading_epub", FALSE, 1, {d1, d2}, {}, {}, {}),
    Case("reading_epub", FALSE, 1, {d1}, {d2}, {}, {}),
    Case("knowledge_vectors", TRUE, 1, {d1, d2}, {}, {}, {d1, d2}),
    Case("knowledge_vectors", FALSE, 1, {d1}, {d2}, {}, {d2}),
    Case("knowledge_vectors", TRUE, 1, {d1}, {d2}, {d2}, {d1}),
    Case("knowledge_vectors", TRUE, 2, {d1}, {}, {d1}, {d1})}

MCTexts == [chars : {0, 1, 3, 4}, width : {1, 3}]

\* Payloads in which one field differs from the common one.
Common == [title |-> 1, summary |-> 1, content |-> <<1, 1>>, created_at |-> 1]
MCInputs ==
    UNION {{[Common EXCEPT !.title = v], [Common EXCEPT !.summary = v], [Common EXCEPT !.created_at = v]}
             \cup {[Common EXCEPT !.content = <<v, w>>] : w \in Values} : v \in Values}

\* Rows of every kind that refers to another: a message of a session, a session in
\* a workspace, an exception of an event, a series of tasks each generated from
\* another, a subtask, and a book that either device imports.  Some rows only the
\* first device makes.
NoRows(n) == [r \in 1 .. n |-> {}]
RowCase(kinds, needs, home, twins, makers) ==
    [kind |-> kinds, needs |-> needs, home |-> home, twins |-> twins, makers |-> makers]

MCTalk == RowCase(<<"session", "message">>, <<{}, {1}>>, <<0, 0>>, NoRows(2), <<{d1}, Devices>>)

MCCases ==
    {MCTalk,
     RowCase(<<"workspace", "session">>, NoRows(2), <<0, 1>>, NoRows(2), <<{d1}, Devices>>),
     RowCase(<<"event", "exception">>, <<{}, {1}>>, <<0, 0>>, NoRows(2), <<{d1}, Devices>>),
     RowCase(<<"task", "task", "task">>, <<{}, {3}, {1}>>, <<0, 0, 0>>, NoRows(3), <<{d1}, Devices, Devices>>),
     RowCase(<<"task", "task">>, NoRows(2), <<2, 0>>, NoRows(2), <<Devices, {d1}>>),
     RowCase(<<"book", "book">>, NoRows(2), <<0, 0>>, <<{2}, {1}>>, <<{d1}, {d2}>>)}
MCTalkOnly == {MCTalk}

ReplicaInit ==
    /\ part \in Parts
    /\ part # "objects" => scenario = CHOOSE s \in Scenarios : s.shared /\ s.clean = {}
    /\ part # "payloads" => payload = "task"
    /\ part # "merge" => base = Common /\ mine = Common /\ other = Common /\ type = "agent"
    /\ part # "rows" => case = CHOOSE c \in Cases : TRUE
    /\ Init /\ ObjectsInit /\ Payloads!Init /\ Clock!Init /\ Fields!Init /\ Carried!Init
    /\ type # "session" => order = "Equal"   \* only titles of sessions are ordered

ReplicaNext ==
    /\ UNCHANGED part
    /\ \/ part = "replica" /\ Next /\ UNCHANGED <<objectVars, payloadVars, clockVars, mergeVars, rowVars>>
       \/ part = "objects" /\ ObjectsNext /\ UNCHANGED <<vars, payloadVars, clockVars, mergeVars, rowVars>>
       \/ part = "payloads" /\ Payloads!Next /\ UNCHANGED <<vars, objectVars, clockVars, mergeVars, rowVars>>
       \/ part = "clock" /\ Clock!Next /\ UNCHANGED <<vars, objectVars, payloadVars, mergeVars, rowVars>>
       \/ part = "merge" /\ Fields!Merge /\ UNCHANGED <<vars, objectVars, payloadVars, clockVars, rowVars>>
       \/ part = "rows" /\ Carried!Next /\ UNCHANGED <<vars, objectVars, payloadVars, clockVars, mergeVars>>

\* The fairness of SyncReplica.
ReplicaSpec ==
    /\ ReplicaInit /\ [][ReplicaNext]_<<part, vars, objectVars, payloadVars, clockVars, mergeVars, rowVars>>
    /\ WF_vars(part = "replica" /\ run_locked)
    /\ WF_vars(part = "replica" /\ Device)
    /\ WF_vars(part = "replica" /\ \E c \in acks : ack(c))

\* A device that is left alone catches up, unless a row has lost its parent (see
\* SyncReplica).
ReplicaCatchesUp == part = "replica" => CaughtUpUnlessOrphaned

\* What refers to what arrives, or there is a known reason why not; then all
\* devices show the gateway's rows (see RemoteRows).
RowsCarried == part = "rows" => Carried!TypeOK /\ Carried!RowsSafe

\* Pages can be applied (see RemoteRows).
RowsNeverBlocked == Carried!NeverBlocked

\* Another device is stopped by known payloads only, a change is stamped after
\* all its device had seen, and two devices merge alike (see PayloadChecks,
\* HybridClock and FieldMerge).
ChangesSafe ==
    /\ part = "payloads" => Payloads!TypeOK /\ Payloads!PayloadsSafe
    /\ part = "clock" => Clock!TypeOK /\ Clock!CausesFirst /\ Clock!StampsDiffer
    /\ part = "merge" => Fields!TypeOK /\ Fields!MergesSafe
=============================================================================
