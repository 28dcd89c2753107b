------------------------------- MODULE SyncPush -------------------------------
(****************************************************************************)
(* The push endpoint of the synchronisation Worker                          *)
(* (workers/sync-api/src/routes/sync.ts, function push) over the tables     *)
(* sync_changes and sync_entities of one owner.                             *)
(*                                                                          *)
(* The handler awaits the database three times: it reads the changes it has *)
(* already stored, then the revisions of the entities named, judges the     *)
(* batch in memory against what it read, and runs one transaction with two  *)
(* statements per change it judged applicable.  Other invocations of the    *)
(* handler (other devices, or the same device retrying a request that timed *)
(* out) interleave at each await.  Each Slot is one invocation.             *)
(*                                                                          *)
(* NULL base revisions and absent entity rows are the revision 0; positions *)
(* of log are server_seq values (AUTOINCREMENT; one owner).  A change's     *)
(* `content' stands for every other column matchesExisting compares.        *)
(****************************************************************************)
EXTENDS Naturals, Sequences, FiniteSets

CONSTANTS
  Devices, Entities, ChangeIds, Contents,
  Changes,      \* every change a device of this owner may send
  Slots,        \* concurrent invocations of the handler
  NoSlot,       \* no transaction is open
  NoId,         \* the latest_change_id of an absent row
  MaxBatch      \* changes in one request (MAX_PUSH_CHANGES)

ChangeType == [id : ChangeIds, device : Devices, entity : Entities,
               base : Nat, content : Contents]

ASSUME ChangesAssumption == Changes \subseteq ChangeType
ASSUME NoSlotAssumption == NoSlot \notin Slots
ASSUME NoIdAssumption == NoId \notin ChangeIds
ASSUME MaxBatchAssumption == MaxBatch \in Nat \ {0}

VARIABLES
  log,          \* committed rows of sync_changes
  row,          \* committed rows of sync_entities
  txSlot,       \* the slot whose transaction is open, or NoSlot
  txLog, txRow, \* the two tables as that transaction sees them
  pc, batch,    \* per slot, where the handler is and the changes it was sent,
  reply         \* and what it has decided about each of them

tables == <<log, row>>
transaction == <<txSlot, txLog, txRow>>
request == <<pc, batch, reply>>
vars == <<tables, transaction, request>>

Log == INSTANCE SyncLog

StoredType == [id : ChangeIds, device : Devices, entity : Entities,
               base : Nat, content : Contents, rev : Nat]
RowType == [rev : Nat, latest : ChangeIds \cup {NoId}, seq : Nat]
VerdictType == [verdict : {"open", "accepted", "conflict"}, seq : Nat, rev : Nat]

AbsentRow == [rev |-> 0, latest |-> NoId, seq |-> 0]
Open == [verdict |-> "open", seq |-> 0, rev |-> 0]
Accepted(seq, rev) == [verdict |-> "accepted", seq |-> seq, rev |-> rev]
Conflict_OffByOne(rev) == [verdict |-> "conflict", seq |-> 0, rev |-> rev - 1]   \* mutant
Conflict(rev) == [verdict |-> "conflict", seq |-> 0, rev |-> rev]

-----------------------------------------------------------------------------
(* Reading the tables                                                       *)

IsStoredAt(l, c, n) == n \in DOMAIN l /\ l[n].id = c.id
IsStored(l, c) == \E n \in DOMAIN l : IsStoredAt(l, c, n)

Stored(c, rev) == [id |-> c.id, device |-> c.device, entity |-> c.entity,
                   base |-> c.base, content |-> c.content, rev |-> rev]
matchesExisting(c, stored) == stored = Stored(c, stored.rev)

(* What a change that was stored before is answered.                        *)
previousReply_Base(n) == Accepted(n, log[n].base)                       \* mutant
previousReply(n) == Accepted(n, log[n].rev)

(* A batch holds changes of the authenticated device only and never repeats *)
(* a change id; any other request is answered 400 or 401 and reads nothing. *)
Batches(d) ==
  {b \in UNION {[1 .. n -> {c \in Changes : c.device = d}] : n \in 1 .. MaxBatch} :
     \A i, j \in DOMAIN b : b[i].id = b[j].id => i = j}

OpenItems(s) == {i \in DOMAIN batch[s] : reply[s][i].verdict = "open"}

(* The change whose two statements the open transaction runs next.          *)
IsNextItem_First(s, i) == i = 1 /\ i \in OpenItems(s)                     \* mutant
IsNextItem(s, i) == i \in OpenItems(s) /\ \A j \in OpenItems(s) : i <= j

-----------------------------------------------------------------------------
Init ==
  /\ log = <<>> /\ txLog = <<>>
  /\ row = [e \in Entities |-> AbsentRow] /\ txRow = [e \in Entities |-> AbsentRow]
  /\ txSlot = NoSlot
  /\ pc = [s \in Slots |-> "idle"]
  /\ batch = [s \in Slots |-> <<>>]
  /\ reply = [s \in Slots |-> <<>>]

(* What the lookup makes of the i-th change of b: accepted with the sequence *)
(* number and revision it was given the first time, or still open.          *)
LookedUp(b, i, verdict) ==
  IF IsStored(log, b[i])
  THEN \E n \in DOMAIN log : IsStoredAt(log, b[i], n) /\ verdict = previousReply(n)
  ELSE verdict = Open

(* The request is parsed and selectExistingChanges answers.  A known id with *)
(* other content is answered 400.                                           *)
selectExistingChanges(s) ==
  /\ pc[s] = "idle"
  /\ \E d \in Devices : \E b \in Batches(d) :
       IF \E i \in DOMAIN b : \E n \in DOMAIN log :
            IsStoredAt(log, b[i], n) /\ ~matchesExisting(b[i], log[n])
       THEN pc' = [pc EXCEPT ![s] = "rejected"] /\ UNCHANGED <<batch, reply>>
       ELSE \E verdicts \in [DOMAIN b -> {Open} \cup {previousReply(n) : n \in DOMAIN log}] :
              /\ \A i \in DOMAIN b : LookedUp(b, i, verdicts[i])
              /\ pc' = [pc EXCEPT ![s] = "states"]
              /\ batch' = [batch EXCEPT ![s] = b]
              /\ reply' = [reply EXCEPT ![s] = verdicts]
  /\ UNCHANGED <<tables, transaction>>

(* The revision the in-memory map `states' holds for the i-th change of the *)
(* batch when the earlier changes in `chosen' were found applicable.        *)
SeenRevision(s, i, chosen) ==
  row[batch[s][i].entity].rev
    + Cardinality({j \in chosen : j < i /\ batch[s][j].entity = batch[s][i].entity})

canApply(c, revision) == c.base = revision

(* selectEntityStates answers and the fresh changes are judged one after    *)
(* the other.  `chosen' is the one subset that agrees with that loop.       *)
selectEntityStates(s) ==
  /\ pc[s] = "states"
  /\ \E chosen \in SUBSET OpenItems(s) :
       /\ \A i \in OpenItems(s) :
            i \in chosen <=> canApply(batch[s][i], SeenRevision(s, i, chosen))
       /\ pc' = [pc EXCEPT ![s] = IF chosen = {} THEN "done" ELSE "judged"]
       /\ reply' = [reply EXCEPT ![s] =
            [i \in DOMAIN batch[s] |-> IF i \in OpenItems(s) \ chosen
                                       THEN Conflict(SeenRevision(s, i, chosen))
                                       ELSE reply[s][i]]]
  /\ UNCHANGED <<tables, transaction, batch>>

(* database.batch: the statements of all applicable changes run in one      *)
(* transaction, one transaction at a time.                                  *)
beginBatch(s) ==
  /\ pc[s] = "judged"
  /\ txSlot = NoSlot
  /\ txSlot' = s
  /\ pc' = [pc EXCEPT ![s] = "applying"]
  /\ UNCHANGED <<tables, txLog, txRow, batch, reply>>

(* makeEntityStatement: insert the row when there is none and the change    *)
(* expects none, or update it when its revision still is the change's base. *)
makeEntityStatement_NoCompare(rows, c) ==                                \* mutant
  [rows EXCEPT ![c.entity] = [rev |-> @.rev + 1, latest |-> c.id, seq |-> @.seq]]

makeEntityStatement(rows, c) ==
  IF c.base = rows[c.entity].rev
  THEN [rows EXCEPT ![c.entity] = [rev |-> c.base + 1, latest |-> c.id, seq |-> @.seq]]
  ELSE rows

(* makeChangeStatement selects from the row only if it is this change's.    *)
selectsRow(rows, c) == rows[c.entity].latest = c.id

(* UNIQUE(owner_id, change_id).                                             *)
violatesUnique_Never(l, c) == FALSE                                     \* mutant
violatesUnique(l, c) == IsStored(l, c)

(* The trigger sync_changes_set_entity_server_seq.                          *)
setEntityServerSeq_Missing(rows, c, seq) == rows                        \* mutant
setEntityServerSeq(rows, c, seq) ==
  [rows EXCEPT ![c.entity] = [rev |-> @.rev, latest |-> @.latest, seq |-> seq]]

(* The open transaction is undone.                                          *)
rollback == txSlot' = NoSlot /\ txLog' = log /\ txRow' = row

(* The reply item of the statement that just ran.                           *)
decide(s, i, verdict) == reply' = [reply EXCEPT ![s] = [@ EXCEPT ![i] = verdict]]

(* The change is appended; the trigger stores its position in the row.      *)
insertChange(s) ==
  /\ txSlot = s
  /\ \E i \in OpenItems(s) :
       LET c == batch[s][i]
           rows == makeEntityStatement(txRow, c)
           rev == rows[c.entity].rev
       IN /\ IsNextItem(s, i)
          /\ selectsRow(rows, c)
          /\ ~violatesUnique(txLog, c)
          /\ txLog' = Append(txLog, Stored(c, rev))
          /\ txRow' = setEntityServerSeq(rows, c, Len(txLog) + 1)
          /\ decide(s, i, Accepted(Len(txLog) + 1, rev))
  /\ UNCHANGED <<tables, txSlot, pc, batch>>

(* Another invocation moved the row since it was read: neither statement    *)
(* changes anything, and the change is reported with no current revision.   *)
insertNothing(s) ==
  /\ txSlot = s
  /\ \E i \in OpenItems(s) :
       LET c == batch[s][i]
           rows == makeEntityStatement(txRow, c)
       IN /\ IsNextItem(s, i)
          /\ ~selectsRow(rows, c)
          /\ txRow' = rows
          /\ decide(s, i, Conflict(0))
  /\ UNCHANGED <<tables, txSlot, txLog, pc, batch>>

(* UNIQUE(owner_id, change_id) fails: the whole transaction is undone and   *)
(* the request answered 5xx.                                                *)
uniqueViolation(s) ==
  /\ txSlot = s
  /\ \E i \in OpenItems(s) :
       LET c == batch[s][i]
       IN /\ IsNextItem(s, i)
          /\ selectsRow(makeEntityStatement(txRow, c), c)
          /\ violatesUnique(txLog, c)
  /\ rollback
  /\ pc' = [pc EXCEPT ![s] = "failed"]
  /\ UNCHANGED <<tables, batch, reply>>

commitBatch(s) ==
  /\ txSlot = s
  /\ OpenItems(s) = {}
  /\ log' = txLog
  /\ row' = txRow
  /\ txSlot' = NoSlot
  /\ pc' = [pc EXCEPT ![s] = "done"]
  /\ UNCHANGED <<txLog, txRow, batch, reply>>

(* The reply leaves, or is lost with the connection.                        *)
respond(s) ==
  /\ pc[s] \in {"done", "failed", "rejected"}
  /\ pc' = [pc EXCEPT ![s] = "idle"]
  /\ batch' = [batch EXCEPT ![s] = <<>>]
  /\ reply' = [reply EXCEPT ![s] = <<>>]
  /\ UNCHANGED <<tables, transaction>>

(* The invocation or the database fails; an open transaction is undone.     *)
crash(s) ==
  /\ pc[s] \in {"states", "judged", "applying"}
  /\ pc' = [pc EXCEPT ![s] = "failed"]
  /\ IF txSlot = s THEN rollback ELSE UNCHANGED transaction
  /\ UNCHANGED <<tables, batch, reply>>

Transact(s) == insertChange(s) \/ insertNothing(s) \/ uniqueViolation(s) \/ commitBatch(s)

Handle(s) ==
  \/ selectExistingChanges(s) \/ selectEntityStates(s) \/ beginBatch(s)
  \/ Transact(s) \/ respond(s) \/ crash(s)

Next == \E s \in Slots : Handle(s)

Spec == Init /\ [][Next]_vars

(* The event loop resumes a handler whose await has been answered, and the  *)
(* database runs the transactions queued for it in order, so that a batch   *)
(* whose turn keeps coming is eventually begun.                             *)
Fairness ==
  \A s \in Slots :
    /\ WF_vars(selectEntityStates(s))
    /\ SF_vars(beginBatch(s))
    /\ WF_vars(Transact(s))

FairSpec == Spec /\ Fairness
-----------------------------------------------------------------------------
(* Properties                                                               *)

TypeOK ==
  /\ log \in Seq(StoredType) /\ txLog \in Seq(StoredType)
  /\ row \in [Entities -> RowType] /\ txRow \in [Entities -> RowType]
  /\ txSlot \in Slots \cup {NoSlot}
  /\ pc \in [Slots -> {"idle", "states", "judged", "applying", "done", "failed", "rejected"}]
  /\ batch \in [Slots -> Seq(Changes)]
  /\ reply \in [Slots -> Seq(VerdictType)]
  /\ \A s \in Slots : DOMAIN reply[s] = DOMAIN batch[s]

(* However invocations interleave, every change in sync_changes was built on *)
(* the latest revision of its entity at that point, revisions of an entity  *)
(* are 1, 2, 3, ... without gap, and no change id occurs twice (sync.ts,    *)
(* the CAS in makeEntityStatement and UNIQUE(owner_id, change_id)).         *)
RevisionChain == Log!WellFormed(log)

(* sync_entities, which bootstrap reads, never disagrees with sync_changes, *)
(* which pull reads: a row carries the revision, change id and server_seq   *)
(* of the last change stored for its entity, and there is no row without one.*)
RowsDescribe(l, rows) ==
  \A e \in Entities :
    IF Log!PositionsOf(l, e) = {}
    THEN rows[e] = AbsentRow
    ELSE /\ rows[e].seq \in Log!PositionsOf(l, e)
         /\ \A i \in Log!PositionsOf(l, e) : i <= rows[e].seq
         /\ l[rows[e].seq].rev = rows[e].rev
         /\ l[rows[e].seq].id = rows[e].latest

RowIsLastChange == RowsDescribe(log, row)

(* A reply tells the truth: when the handler answers, every change it       *)
(* reports accepted is committed at the server_seq and with the resulting   *)
(* revision it reports, also when another invocation stored it.             *)
AcceptedIn(l, b, r) ==
  \A i \in DOMAIN b : r[i].verdict = "accepted" =>
    /\ IsStoredAt(l, b[i], r[i].seq)
    /\ l[r[i].seq].rev = r[i].rev

RepliesMatchLog == \A s \in Slots : pc[s] = "done" => AcceptedIn(log, batch[s], reply[s])

(* The handler implements the gateway's promise: the log only grows, by     *)
(* whole batches that keep it well formed.                                  *)
ImplementsLog == Log!Spec

(* No invocation is lost behind the others' transactions: a request whose   *)
(* changes were looked up is eventually answered or has failed.             *)
EventuallyAnswered ==
  \A s \in Slots : pc[s] = "states" ~> pc[s] \in {"done", "failed"}

(* Replaying a change is idempotent: a change that is already stored is     *)
(* never reported as a conflict (the test "replays a change idempotently    *)
(* without duplicating rows").                                              *)
ReplayNeverConflicts ==
  \A s \in Slots : pc[s] = "done" =>
    \A i \in DOMAIN batch[s] : reply[s][i].verdict = "conflict" =>
      \A n \in DOMAIN log : log[n] # Stored(batch[s][i], log[n].rev)

(* What makes RevisionChain and RepliesMatchLog inductive: the tables as an *)
(* open transaction sees them have the same properties and extend the       *)
(* committed ones, they are the committed ones when none is open, and what  *)
(* an invocation has promised so far is in the tables it works on.          *)
TransactionInv ==
  /\ Log!WellFormed(txLog) /\ RowsDescribe(txLog, txRow)
  /\ Log!Extends(txLog, log)
  /\ txSlot = NoSlot => txLog = log /\ txRow = row

PromiseInv ==
  \A s \in Slots :
    /\ pc[s] = "applying" <=> txSlot = s
    /\ pc[s] \in {"states", "judged", "done"} => AcceptedIn(log, batch[s], reply[s])
    /\ pc[s] = "applying" => AcceptedIn(txLog, batch[s], reply[s])

IInv == TypeOK /\ RevisionChain /\ RowIsLastChange /\ TransactionInv /\ PromiseInv
=============================================================================
