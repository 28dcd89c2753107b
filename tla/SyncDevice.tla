------------------------------- MODULE SyncDevice ------------------------------
(****************************************************************************)
(* How a device publishes its own edits and takes in those of others: the   *)
(* outbox, the entity state, the conflicts and the business rows of         *)
(* src-tauri/src/db/repo/sync.rs, driven by the sync engine                 *)
(* (src-tauri/src/sync/engine.rs: push_pending, pull_remote), against the   *)
(* gateway of module SyncPush, whose push is one step here.                 *)
(*                                                                          *)
(* A payload is the set of edits it takes account of: an edit sets a field  *)
(* of its own, or the field of another edit (then a three-way merge of the  *)
(* two may fail, or in a session follow the later stamp).  The empty set    *)
(* stands for a payload that does not exist.                                *)
(* Pages of a pull hold one change here: what happens in a run with longer  *)
(* pages happens in one of these, which can be interrupted in more places.  *)
(****************************************************************************)
EXTENDS Naturals, Sequences, FiniteSets

CONSTANTS
  Entities,
  Own,          \* the entities created on this device
  Sessions,     \* those that are sessions
  Bulky,        \* the edits with a large payload
  BulkLimit,    \* how many of them fit into MAX_REQUEST_BYTES
  PushLimit,    \* MAX_PUSH_CHANGES
  MaxBatches,   \* MAX_BATCHES_PER_RUN
  Races,        \* whether another push may overtake one inside the gateway
  MaxEdits,     \* bound: edits on this device
  MaxCommits,   \* bound: changes committed by other devices
  MaxFaults     \* bound: lost requests and replies, crashes

ASSUME OwnAssumption == Own \subseteq Entities /\ Sessions \subseteq Entities
ASSUME LimitAssumption == PushLimit \in Nat \ {0} /\ MaxBatches \in Nat \ {0} /\ BulkLimit \in Nat
ASSUME RacesAssumption == Races \in BOOLEAN
ASSUME BoundAssumption == MaxEdits \in Nat /\ MaxCommits \in Nat /\ MaxFaults \in Nat

VARIABLES
  log,          \* server: accepted changes
  row,          \* server: revision and payload of each entity
  requests,     \* push requests on their way: their changes, in which
                \* attempt they were sent, and the length of log then
  outbox,       \* device: sync_outbox in the order of created_at, rowid;
  status,       \* device: ... and the status of each of its rows
  state,        \* device: sync_entity_state, remote_revision and base_payload
  local,        \* device: the business rows
  conflict,     \* device: the pending row of sync_conflicts of each entity
  cursor,       \* device: last_pull_cursor
  pc, rounds,   \* device: where the run is, batches it has pushed
  reply,        \* device: the answer to its push that has arrived
  mine, others, \* the edits made on this device, and on others
  waived,       \* the edits a user has decided against, or in a session a later one
  exposed,      \* whether a batch ever held two changes of an entity, or an
                \* answer named no current revision
  faults        \* bound

server == <<log, row>>
database == <<outbox, status, state, local, conflict, cursor>>
run == <<pc, rounds, reply>>
ghost == <<mine, others, waived, exposed>>
vars == <<server, requests, database, run, ghost, faults>>

Unsynced == {"pending", "in_flight", "conflict", "dead_letter"}
NoConflict == [phase |-> "none", rev |-> 0, base |-> {}, local |-> {}, remote |-> {}]
NoReply == [kind |-> "none", accepted |-> {}, conflicts |-> {}]

-----------------------------------------------------------------------------
(* The outbox                                                               *)

Rows(e) == {i \in DOMAIN outbox : outbox[i].entity = e}
RowsIn(st, e, statuses) == {i \in Rows(e) : st[i] \in statuses}
Latest(S) == CHOOSE i \in S : \A j \in S : j <= i
InFlight == {i \in DOMAIN outbox : status[i] = "in_flight"}

(* Sets the status of the rows in S.                                        *)
Marked(st, S, s) == [i \in DOMAIN st |-> IF i \in S THEN s ELSE st[i]]

(* planned_base_revision: one more than the base of the latest change that  *)
(* is on its way, or else the revision the device knows.                    *)
planned_base_revision(st, known, e) ==
  LET queued == RowsIn(st, e, {"pending", "in_flight"})
  IN IF queued = {} THEN known ELSE outbox[Latest(queued)].base + 1

(* enqueue_projection, in the transaction st and known are the state of.    *)
enqueue_projection(st, known, e, content, edit) ==
  /\ outbox' = Append(outbox, [entity |-> e, content |-> content, edit |-> edit,
                               base |-> planned_base_revision(st, known, e)])
  /\ status' = Append(st, "pending")

(* A change may be claimed when no earlier change of its entity is stuck or *)
(* on its way; an earlier pending one does not hold it back.                *)
Claimable_NoBlocker == {i \in DOMAIN outbox : status[i] = "pending"}    \* mutant
Claimable ==
  {i \in DOMAIN outbox :
     /\ status[i] = "pending"
     /\ \A j \in RowsIn(status, outbox[i].entity, {"conflict", "dead_letter", "in_flight"}) :
          j > i}

(* The first PushLimit of them, whatever their size.                        *)
Claimed_Unlimited == Claimable                                          \* mutant
Claimed == {i \in Claimable : Cardinality({j \in Claimable : j <= i}) <= PushLimit}

-----------------------------------------------------------------------------
Init ==
  /\ log = <<>> /\ row = [e \in Entities |-> [rev |-> 0, content |-> {}]]
  /\ requests = {}
  /\ outbox = <<>> /\ status = <<>>
  /\ state = [e \in Entities |-> [rev |-> 0, base |-> {}]]
  /\ local = [e \in Entities |-> {}]
  /\ conflict = [e \in Entities |-> NoConflict]
  /\ cursor = 0
  /\ pc = "idle" /\ rounds = 0 /\ reply = NoReply
  /\ mine = {} /\ others = {} /\ waived = {} /\ exposed = FALSE
  /\ faults = 0

NewEdit == Cardinality(mine \cup others) + 1

(* The user changes a row: the row and its outbox entry in one transaction. *)
edit(e) ==
  /\ Cardinality(mine) < MaxEdits
  /\ local[e] # {} \/ e \in Own
  /\ local' = [local EXCEPT ![e] = @ \cup {NewEdit}]
  /\ enqueue_projection(status, state[e].rev, e, local[e] \cup {NewEdit}, NewEdit)
  /\ mine' = mine \cup {NewEdit}
  /\ UNCHANGED <<server, requests, state, conflict, cursor, run, others, waived, exposed, faults>>

(* A change of another device is accepted.                                  *)
Commit(e) ==
  /\ Cardinality(others) < MaxCommits
  /\ row[e].rev > 0 \/ e \notin Own
  /\ LET content == row[e].content \cup {NewEdit}
     IN /\ log' = Append(log, [entity |-> e, rev |-> row[e].rev + 1,
                               content |-> content, id |-> 0])
        /\ row' = [row EXCEPT ![e] = [rev |-> row[e].rev + 1, content |-> content]]
  /\ others' = others \cup {NewEdit}
  /\ UNCHANGED <<requests, database, run, mine, waived, exposed, faults>>

-----------------------------------------------------------------------------
(* A run begins, unless one is going on.                                    *)
run_locked ==
  /\ pc = "idle"
  /\ pc' = "push" /\ rounds' = 0 /\ reply' = NoReply
  /\ UNCHANGED <<server, requests, database, ghost, faults>>

(* push_pending with a batch: claim_pending in one transaction, and the     *)
(* request leaves.                                                          *)
claim_pending ==
  /\ pc = "push" /\ rounds < MaxBatches /\ Claimed # {}
  /\ status' = Marked(status, Claimed, "in_flight")
  /\ requests' = requests \cup {[ids |-> Claimed, sent |-> faults, at |-> Len(log)]}
  /\ rounds' = rounds + 1
  /\ pc' = "pushing"
  /\ exposed' = (exposed \/ \E i, j \in Claimed : i # j /\ outbox[i].entity = outbox[j].entity)
  /\ UNCHANGED <<server, outbox, state, local, conflict, cursor, reply, mine, others, waived, faults>>

(* push_pending is done: nothing to claim, or the bound of the run.         *)
pushedAll ==
  /\ pc = "push" /\ (rounds = MaxBatches \/ Claimed = {})
  /\ pc' = "pull"
  /\ UNCHANGED <<server, requests, database, rounds, reply, ghost, faults>>

(* The gateway and one change of a batch: stored before, or applied to the  *)
(* revision it was built on, or a conflict.                                 *)
isStored(l, i) == \E n \in DOMAIN l : l[n].id = i

pushOne(t, i, missed) ==
  LET c == outbox[i]
      rev == t.row[c.entity].rev + 1
  IN IF isStored(t.log, i) /\ i \notin missed
     THEN [t EXCEPT !.accepted = @ \cup {[id |-> i, rev |-> c.base + 1]}]
     ELSE IF c.base = t.row[c.entity].rev
     THEN [log |-> Append(t.log, [entity |-> c.entity, rev |-> rev,
                                  content |-> c.content, id |-> i]),
           row |-> [t.row EXCEPT ![c.entity] = [rev |-> rev, content |-> c.content]],
           accepted |-> t.accepted \cup {[id |-> i, rev |-> rev]},
           conflicts |-> t.conflicts]
     ELSE [t EXCEPT !.conflicts = @ \cup {[id |-> i, rev |-> t.row[c.entity].rev]}]

(* The changes of a batch one after the other.                              *)
pushAll(ids, missed) ==
  LET t[n \in 0 .. Len(outbox)] ==
        IF n = 0 THEN [log |-> log, row |-> row, accepted |-> {}, conflicts |-> {}]
        ELSE IF n \in ids THEN pushOne(t[n - 1], n, missed) ELSE t[n - 1]
  IN t[Len(outbox)]

(* Handlers overlap (module SyncPush): the handler of request q may miss    *)
(* that a change was stored after q was sent, by an earlier attempt, and it *)
(* names no current revision in a conflict over a row that moved after that.*)
Missable(q) == {i \in q.ids : \E n \in DOMAIN log : n > q.at /\ log[n].id = i}
Raced(q, conflicts) ==
  {c \in conflicts : Races /\ \E n \in DOMAIN log :
                       n > q.at /\ log[n].entity = outbox[c.id].entity}
Reported(conflicts, raced) ==
  {[id |-> c.id, rev |-> IF c \in raced THEN 0 ELSE c.rev] : c \in conflicts}

TooLarge(b) == Cardinality({i \in b : outbox[i].edit \in Bulky}) > BulkLimit

(* push: the gateway handles a request, and answers if the device still     *)
(* waits for it.  A request that is too large is refused as a whole (413).  *)
push(q, missed) ==
  /\ requests' = requests \ {q}
  /\ LET t == pushAll(q.ids, missed)
         refused == TooLarge(q.ids)
         awaited == pc = "pushing" /\ q.ids = InFlight /\ q.sent = faults
     IN /\ IF refused THEN UNCHANGED server ELSE log' = t.log /\ row' = t.row
        /\ pc' = IF awaited THEN "answered" ELSE pc
        /\ \/ ~awaited /\ UNCHANGED <<reply, exposed>>
           \/ /\ awaited /\ refused /\ UNCHANGED exposed
              /\ reply' = [NoReply EXCEPT !.kind = "refused"]
           \/ /\ awaited /\ ~refused
              /\ \E raced \in SUBSET Raced(q, t.conflicts) :
                   /\ reply' = [kind |-> "ok", accepted |-> t.accepted,
                                conflicts |-> Reported(t.conflicts, raced)]
                   /\ exposed' = (exposed \/ raced # {})
  /\ UNCHANGED <<database, rounds, mine, others, waived, faults>>

(* upsert_local_conflict: the conflict of an entity holds its latest        *)
(* unsynced change; what the device knew when it began is the merge base.   *)
localConflict(e, st, known, rev) ==
  LET change == outbox[Latest(RowsIn(st, e, Unsynced))].content
  IN IF conflict[e].phase = "none"
     THEN [phase |-> "waiting", rev |-> rev, base |-> known.base,
           local |-> change, remote |-> {}]
     ELSE [conflict[e] EXCEPT !.rev = IF rev = 0 THEN @ ELSE rev, !.local = change]

acceptedState_Local(a) == [rev |-> a.rev, base |-> local[outbox[a.id].entity]]   \* mutant
acceptedState(a) == [rev |-> a.rev, base |-> outbox[a.id].content]

(* apply_push_result: what was accepted is the known remote state, whatever *)
(* has become of the outbox row; what was not becomes a conflict that waits *)
(* for the other device's payload to be pulled.                             *)
apply_push_result ==
  /\ pc = "answered" /\ reply.kind = "ok"
  /\ LET ok == {a.id : a \in reply.accepted}
         ko == {c.id : c \in reply.conflicts}
         st == Marked(Marked(status, ok \cap InFlight, "synced"), ko \cap InFlight, "conflict")
         AcceptedOf(e) == {a \in reply.accepted : outbox[a.id].entity = e}
         LastOf(e) == CHOOSE a \in AcceptedOf(e) : \A b \in AcceptedOf(e) : b.id <= a.id
         RefusedOf(e) == {c \in reply.conflicts : outbox[c.id].entity = e}
         LastRefused(e) == CHOOSE c \in RefusedOf(e) : \A d \in RefusedOf(e) : d.id <= c.id
         known == [e \in Entities |->
                     IF AcceptedOf(e) = {} THEN state[e]
                     ELSE acceptedState(LastOf(e))]
     IN /\ status' = st
        /\ state' = known
        /\ conflict' = [e \in Entities |->
                          IF RefusedOf(e) = {} THEN conflict[e]
                          ELSE localConflict(e, st, known[e], LastRefused(e).rev)]
  /\ pc' = "push" /\ reply' = NoReply
  /\ UNCHANGED <<server, requests, outbox, local, cursor, rounds, ghost, faults>>

(* mark_dead_letter: a permanent failure condemns the batch and ends the run.*)
mark_dead_letter ==
  /\ pc = "answered" /\ reply.kind = "refused"
  /\ status' = Marked(status, InFlight, "dead_letter")
  /\ pc' = "idle" /\ reply' = NoReply
  /\ UNCHANGED <<server, requests, outbox, state, local, conflict, cursor, rounds, ghost, faults>>

-----------------------------------------------------------------------------
(* Taking in the change g that the page holds                               *)

(* merge_entity: a field follows the side that changed it.                  *)
merge_LocalWins(base, mineIs, theirs) == mineIs                         \* mutant
merge(base, mineIs, theirs) ==
  (mineIs \cap theirs) \cup (mineIs \ base) \cup (theirs \ base)

(* Without a base only equal payloads merge, and sessions.                  *)
Mergeable(e, c) == c.local = c.remote \/ c.base # {} \/ e \in Sessions

(* A field of a session that both sides have changed follows the side with  *)
(* the later stamp, the same one for all such fields, and the edits of the  *)
(* other are given up; without a base these are all fields the two differ   *)
(* in.  A side that has changed nothing the other had not seen loses none:  *)
(* its stamp is the earlier one.  (The local side may also have changed a   *)
(* field back, where the user had kept it; of the others each change brings *)
(* an edit.)                                                                *)
Outvoted(e, c) ==
  LET ours == c.local \ (c.base \cup c.remote)
      theirs == c.remote \ (c.base \cup c.local)
      clash == theirs # {} /\ (ours # {} \/ ~ (c.base \subseteq c.local))
  IN IF e \notin Sessions \/ ~clash THEN {{}}
     ELSE IF c.base = {} THEN {ours, theirs}
     ELSE (SUBSET ours) \cup (SUBSET theirs)

(* record_remote_conflict, and then either try_auto_resolve_conflict merges *)
(* (all unsynced changes give way to one merged change), or the conflict is *)
(* left for the user: its fields clash, or its type is never merged.        *)
recordRemote(e, g, st, known) ==
  LET c == [localConflict(e, st, state[e], g.rev) EXCEPT !.phase = "ready", !.remote = g.content]
      cleared == Marked(st, RowsIn(st, e, Unsynced), "synced")
  IN \/ /\ status' = st
        /\ conflict' = [conflict EXCEPT ![e] = c]
        /\ UNCHANGED <<outbox, local, waived>>
     \/ /\ Mergeable(e, c)
        /\ \E outvoted \in Outvoted(e, c) :
             LET merged == merge(c.base, c.local, c.remote) \ outvoted
             IN /\ local' = [local EXCEPT ![e] = merged]
                /\ enqueue_projection(cleared, known, e, merged, 0)
                /\ waived' = waived \cup outvoted
        /\ conflict' = [conflict EXCEPT ![e] = NoConflict]

(* A revision the device has already, e.g. its own: it may bring the remote *)
(* side of a conflict that waits for it.                                    *)
hydrates(e, g) == conflict[e].phase = "waiting" /\ conflict[e].rev \in {0, g.rev}
applyKnown(e, g) ==
  /\ UNCHANGED state
  /\ IF hydrates(e, g)
     THEN recordRemote(e, g, status, state[e].rev)
     ELSE UNCHANGED <<outbox, status, local, conflict, waived>>

(* A new revision of an entity with unsynced changes is a conflict; without *)
(* any it replaces the row.                                                 *)
applyNew_RevisionOnly(e, g) ==                                          \* mutant
  /\ state' = [state EXCEPT ![e] = [rev |-> g.rev, base |-> g.content]]
  /\ IF RowsIn(status, e, Unsynced) = {}
     THEN UNCHANGED <<local, outbox, status, conflict, waived>>
     ELSE recordRemote(e, g, Marked(status, RowsIn(status, e, {"pending", "in_flight"}), "conflict"), g.rev)
applyNew_Overwrite(e, g) ==                                             \* mutant
  /\ state' = [state EXCEPT ![e] = [rev |-> g.rev, base |-> g.content]]
  /\ local' = [local EXCEPT ![e] = g.content]
  /\ UNCHANGED <<outbox, status, conflict, waived>>
applyNew(e, g) ==
  /\ state' = [state EXCEPT ![e] = [rev |-> g.rev, base |-> g.content]]
  /\ IF RowsIn(status, e, Unsynced) = {}
     THEN /\ local' = [local EXCEPT ![e] = g.content]
          /\ UNCHANGED <<outbox, status, conflict, waived>>
     ELSE recordRemote(e, g, Marked(status, RowsIn(status, e, {"pending", "in_flight"}), "conflict"), g.rev)

apply_remote_entity_Always(g) == applyNew(g.entity, g)                   \* mutant
apply_remote_entity(g) ==
  IF state[g.entity].rev >= g.rev THEN applyKnown(g.entity, g) ELSE applyNew(g.entity, g)

(* pull_remote and apply_pull_page: rows and cursor in one transaction.     *)
(* After the last page the run is over.                                     *)
apply_pull_page ==
  /\ pc = "pull" /\ cursor < Len(log)
  /\ apply_remote_entity(log[cursor + 1])
  /\ cursor' = cursor + 1
  /\ UNCHANGED <<server, requests, run, mine, others, exposed, faults>>

pulledAll ==
  /\ pc = "pull" /\ cursor = Len(log)
  /\ pc' = "idle"
  /\ UNCHANGED <<server, requests, database, rounds, reply, ghost, faults>>

-----------------------------------------------------------------------------
(* resolve_conflict: the user decides for one side of a conflict whose two  *)
(* sides are known.  All unsynced changes of the entity give way.           *)
Superseded_Queued(e) ==                                                 \* mutant
  Marked(status, RowsIn(status, e, {"pending", "in_flight"}), "synced")
Superseded(e) == Marked(status, RowsIn(status, e, Unsynced), "synced")

keep_local(e) ==
  /\ conflict[e].phase = "ready"
  /\ local' = [local EXCEPT ![e] = conflict[e].local]
  /\ enqueue_projection(Superseded(e), state[e].rev, e, conflict[e].local, 0)
  /\ waived' = waived \cup (conflict[e].remote \ conflict[e].local)
  /\ conflict' = [conflict EXCEPT ![e] = NoConflict]
  /\ UNCHANGED <<server, requests, state, cursor, run, mine, others, exposed, faults>>

keep_remote(e) ==
  /\ conflict[e].phase = "ready"
  /\ local' = [local EXCEPT ![e] = conflict[e].remote]
  /\ status' = Superseded(e)
  /\ waived' = waived \cup (conflict[e].local \ conflict[e].remote)
  /\ conflict' = [conflict EXCEPT ![e] = NoConflict]
  /\ UNCHANGED <<server, requests, outbox, state, cursor, run, mine, others, exposed, faults>>

-----------------------------------------------------------------------------
(* A request fails or its reply is lost (schedule_retry), or the process    *)
(* dies and the next start finds rows in flight (migrations.rs): either way *)
(* what was in flight is pending again.  The request may still arrive.      *)
requeued_Stuck == status                                                \* mutant
requeued == Marked(status, InFlight, "pending")

Fault ==
  /\ pc # "idle" /\ faults < MaxFaults
  /\ status' = requeued
  /\ pc' = "idle" /\ rounds' = 0 /\ reply' = NoReply
  /\ faults' = faults + 1
  /\ \E lost \in SUBSET requests : requests' = requests \ lost
  /\ UNCHANGED <<server, outbox, state, local, conflict, cursor, ghost>>

Device ==
  \/ claim_pending \/ pushedAll \/ apply_push_result \/ mark_dead_letter
  \/ apply_pull_page \/ pulledAll

Gateway == \E q \in requests : \E missed \in SUBSET Missable(q) : push(q, missed)

Next ==
  \/ \E e \in Entities : edit(e) \/ Commit(e) \/ keep_local(e) \/ keep_remote(e)
  \/ run_locked \/ Device
  \/ Gateway
  \/ Fault

Spec == Init /\ [][Next]_vars

(* The timer starts runs, a run goes on, a request that is not lost arrives.*)
FairSpec ==
  Spec /\ WF_vars(run_locked) /\ WF_vars(Device) /\ WF_vars(Gateway)

-----------------------------------------------------------------------------
(* Properties                                                               *)

Edits == 1 .. (MaxEdits + MaxCommits)
Statuses == Unsynced \cup {"synced"}

TypeOK ==
  /\ log \in Seq([entity : Entities, rev : Nat, content : SUBSET Edits, id : Nat])
  /\ row \in [Entities -> [rev : Nat, content : SUBSET Edits]]
  /\ \A q \in requests :
       /\ q.ids \subseteq DOMAIN outbox /\ Cardinality(q.ids) \in 1 .. PushLimit
       /\ q.sent \in 0 .. MaxFaults /\ q.at \in 0 .. Len(log)
  /\ outbox \in Seq([entity : Entities, content : SUBSET Edits, edit : Nat, base : Nat])
  /\ status \in [DOMAIN outbox -> Statuses]
  /\ state \in [Entities -> [rev : Nat, base : SUBSET Edits]]
  /\ local \in [Entities -> SUBSET Edits]
  /\ conflict \in [Entities -> [phase : {"none", "waiting", "ready"}, rev : Nat,
                                base : SUBSET Edits, local : SUBSET Edits, remote : SUBSET Edits]]
  /\ cursor \in 0 .. Len(log)
  /\ pc \in {"idle", "push", "pushing", "answered", "pull"}
  /\ rounds \in 0 .. MaxBatches
  /\ mine \subseteq Edits /\ others \subseteq Edits /\ waived \subseteq Edits
  /\ exposed \in BOOLEAN
  /\ faults \in 0 .. MaxFaults

(* What the device takes for the remote state of an entity is what the      *)
(* gateway stored at that revision, through lost replies, retries, late     *)
(* requests and conflicts: merges start from a base both sides had, and the *)
(* pull's check that a revision never changes its hash never fails.         *)
StateMatchesLog ==
  \A e \in Entities : state[e].rev > 0 =>
    \E n \in DOMAIN log :
      log[n].entity = e /\ log[n].rev = state[e].rev /\ log[n].content = state[e].base

(* A conflict is never forgotten and never orphaned: changes are stuck in   *)
(* conflict exactly when there is a conflict the user or a pull can resolve.*)
ConflictsVisible ==
  \A e \in Entities :
    /\ RowsIn(status, e, {"conflict"}) # {} => conflict[e].phase # "none"
    /\ conflict[e].phase # "none" => RowsIn(status, e, {"conflict", "dead_letter"}) # {}

(* An accepted edit stays in its entity until a user decides against it     *)
(* (CLOUDFLARE_SYNC.md 11.1: changes are never silently overwritten) or, in *)
(* a session, a later edit of the same field does (11.2).                   *)
AcceptedEditsKept ==
  \A n \in DOMAIN log : log[n].content \subseteq row[log[n].entity].content \cup waived

(* ... unless two changes of an entity travelled in one batch, or an answer *)
(* left the device without the revision it lost against (exposed).          *)
AcceptedStay == ~exposed => AcceptedEditsKept

(* An edit of this device stays in its row until it is decided against.     *)
OwnEditsKept == \A i \in mine \ waived : \E e \in Entities : i \in local[e]

(* A device with nothing left to push or pull shows what the gateway holds. *)
Converged ==
  \A e \in Entities :
    cursor = Len(log) /\ RowsIn(status, e, Unsynced) = {} => local[e] = row[e].content

(* ... unless the device was exposed.                                       *)
Agreed == ~exposed => Converged

(* In a session a pull may give up edits of the user, but only those, for   *)
(* an edit the device had not seen: all of the other payload stays.         *)
OutvotedIn(e) ==
  /\ e \in Sessions
  /\ \E n \in DOMAIN log :
       /\ n = cursor' /\ n # cursor /\ log[n].entity = e
       /\ (log[n].content \ local[e]) \cap local'[e] # {}
       /\ log[n].content \subseteq local'[e] \cup waived

(* Otherwise no step of the engine takes an edit of the user out of a row:  *)
(* only the user's own decision does.                                       *)
DropsDecided ==
  \A e \in Entities :
    mine \cap local[e] \subseteq local'[e] \/ keep_local(e) \/ keep_remote(e) \/ OutvotedIn(e)

(* ... unless the device was exposed.                                       *)
OnlyDecidedDrops == [][exposed' \/ DropsDecided]_vars

(* The device's knowledge of the gateway never goes back.                   *)
StateNeverRegresses ==
  [][\A e \in Entities : state'[e].rev >= state[e].rev]_vars

(* Every change is eventually published, in conflict, refused, or behind a  *)
(* change of its entity that is.                                            *)
Settled(i) ==
  \/ status[i] \in {"synced", "conflict", "dead_letter"}
  \/ \E j \in RowsIn(status, outbox[i].entity, {"conflict", "dead_letter"}) : j < i
EventuallySettled == <>[](\A i \in DOMAIN outbox : Settled(i))

(* The books of the device: its base revisions and its conflicts.           *)
BooksSafe == TypeOK /\ StateMatchesLog /\ ConflictsVisible
=============================================================================
