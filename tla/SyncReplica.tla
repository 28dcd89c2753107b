------------------------------ MODULE SyncReplica ------------------------------
(****************************************************************************)
(* How a device catches up with the gateway: the endpoints bootstrap, pull  *)
(* and ack of workers/sync-api/src/routes/sync.ts, and the parts of a run   *)
(* of the sync engine that use them (src-tauri/src/sync/engine.rs:          *)
(* run_bootstrap, pull_remote, ack_cursor) with the transactions of         *)
(* src-tauri/src/db/repo/sync.rs that apply a page and move the cursor.     *)
(*                                                                          *)
(* The other devices keep committing changes meanwhile (Commit), requests   *)
(* and replies get lost, the process dies between any two steps, and an ack *)
(* that the device has given up on may still reach the server later.        *)
(*                                                                          *)
(* The device of this module has no unsynced changes of its own.            *)
(****************************************************************************)
EXTENDS Naturals, Sequences, FiniteSets

CONSTANTS
  Entities,
  Parent,       \* the entity a row's foreign key refers to, or NoEntity
  NoEntity,
  Rank,         \* place of an entity in BOOTSTRAP_ENTITY_ORDER, then type and id
  Editable,     \* the entities that are changed after they were created
  PageLimit,    \* DEFAULT_PAGE_LIMIT
  MaxPages,     \* MAX_REMOTE_PAGES_PER_RUN
  MaxLog,       \* bound: changes committed by the other devices
  MaxFaults     \* bound: lost requests and replies, crashes

ASSUME NoEntityAssumption == NoEntity \notin Entities
ASSUME ParentAssumption == Parent \in [Entities -> Entities \cup {NoEntity}]
ASSUME RankAssumption ==
  /\ Rank \in [Entities -> Nat \ {0}]
  /\ \A d, e \in Entities : Rank[d] = Rank[e] => d = e
  /\ \A e \in Entities : Parent[e] # NoEntity => Rank[Parent[e]] < Rank[e]
ASSUME BoundAssumption == PageLimit \in Nat \ {0} /\ MaxPages \in Nat \ {0} /\ MaxFaults \in Nat

VARIABLES
  log,          \* server: sync_changes, by server_seq
  row,          \* server: sync_entities, revision and latest_server_seq
  acked,        \* server: sync_acks of this device
  acks,         \* ack requests on their way
  local,        \* device: remote_revision of each entity it holds, 0 if none
  boot,         \* device: bootstrap_state
  cursor,       \* device: last_pull_cursor
  pc,           \* device: where the run is
  page,         \* device: the page being fetched or applied
  pages,        \* device: pages of this run
  faults        \* bound

server == <<log, row>>
acknowledgement == <<acked, acks>>
database == <<local, boot, cursor>>
run == <<pc, page, pages>>
vars == <<server, acknowledgement, database, run, faults>>

Required == [phase |-> "required", snapshot |-> 0, after |-> 0]
Continue(snapshot, after) == [phase |-> "cursor", snapshot |-> snapshot, after |-> after]
Complete == [phase |-> "complete", snapshot |-> 0, after |-> 0]

(* A page: the revisions it brings, in which order it first names their     *)
(* entities, where it ends, and whether more follow.                        *)
NoPage == [revs |-> [e \in {} |-> 0], order |-> [e \in {} |-> 0],
           end |-> 0, snapshot |-> 0, more |-> FALSE]

Phases == {"idle", "bootstrap", "snapshot", "rows", "applyBootstrap",
           "pull", "changes", "applyPull", "ack", "acking"}

-----------------------------------------------------------------------------
Init ==
  /\ log = <<>>
  /\ row = [e \in Entities |-> [rev |-> 0, seq |-> 0]]
  /\ acked = 0 /\ acks = {}
  /\ local = [e \in Entities |-> 0]
  /\ boot = Required
  /\ cursor = 0
  /\ pc = "idle" /\ page = NoPage /\ pages = 0
  /\ faults = 0

(* Another device's push is accepted.  A child is only created by a device  *)
(* that has its parent, so its parent was accepted before it.               *)
Commit(e) ==
  /\ Len(log) < MaxLog
  /\ Parent[e] # NoEntity => row[Parent[e]].rev > 0
  /\ row[e].rev > 0 => e \in Editable
  /\ log' = Append(log, [entity |-> e, rev |-> row[e].rev + 1])
  /\ row' = [row EXCEPT ![e] = [rev |-> row[e].rev + 1, seq |-> Len(log) + 1]]
  /\ UNCHANGED <<acknowledgement, database, run, faults>>

-----------------------------------------------------------------------------
(* A run begins (timer, local change, or the user), unless one is going on. *)
run_locked ==
  /\ pc = "idle"
  /\ pc' = "bootstrap" /\ page' = NoPage /\ pages' = 0
  /\ UNCHANGED <<server, acknowledgement, database, faults>>

(* One turn of the loop of run_bootstrap.  The snapshot of a bootstrap that *)
(* was begun in an earlier run is taken from the persisted state.           *)
run_bootstrap ==
  /\ pc = "bootstrap"
  /\ \/ pages = MaxPages /\ pc' = "idle" /\ UNCHANGED <<page, pages>>
     \/ pages < MaxPages /\ boot.phase = "complete" /\ pc' = "pull" /\ pages' = 0 /\ UNCHANGED page
     \/ pages < MaxPages /\ boot.phase = "required" /\ pc' = "snapshot" /\ UNCHANGED <<page, pages>>
     \/ /\ pages < MaxPages /\ boot.phase = "cursor" /\ pc' = "rows"
        /\ page' = [NoPage EXCEPT !.snapshot = boot.snapshot, !.end = boot.after]
        /\ UNCHANGED pages
  /\ UNCHANGED <<server, acknowledgement, database, faults>>

(* bootstrap, first query: the high water of the change log.                *)
bootstrapSnapshot ==
  /\ pc = "snapshot"
  /\ page' = [NoPage EXCEPT !.snapshot = Len(log)]
  /\ pc' = "rows"
  /\ UNCHANGED <<server, acknowledgement, database, pages, faults>>

(* The rows the second query selects, and the beginning of them that fits   *)
(* into a page (by number or by size).                                      *)
Selected_OffByOne(snapshot, after) ==                                   \* mutant
  {e \in Entities : row[e].seq > 0 /\ row[e].seq < snapshot /\ Rank[e] > after}
Selected(snapshot, after) ==
  {e \in Entities : row[e].seq > 0 /\ row[e].seq <= snapshot /\ Rank[e] > after}

IsPageOf(first, all) ==
  /\ first \subseteq all
  /\ \A e \in first : \A d \in all : Rank[d] < Rank[e] => d \in first
  /\ first = {} <=> all = {}
  /\ Cardinality(first) <= PageLimit

(* bootstrap, second query: the next page of the snapshot table.            *)
bootstrapRows ==
  /\ pc = "rows"
  /\ \E first \in SUBSET Selected(page.snapshot, page.end) :
       /\ IsPageOf(first, Selected(page.snapshot, page.end))
       /\ \E end \in {page.end} \cup {Rank[e] : e \in first} :
            /\ \A e \in first : Rank[e] <= end
            /\ first # {} => end \in {Rank[e] : e \in first}
            /\ page' = [revs |-> [e \in first |-> row[e].rev],
                        order |-> [e \in first |-> Rank[e]],
                        end |-> end, snapshot |-> page.snapshot,
                        more |-> first # Selected(page.snapshot, page.end)]
  /\ pc' = "applyBootstrap"
  /\ UNCHANGED <<server, acknowledgement, database, pages, faults>>

(* apply_remote_entity: an older or equal revision is not applied again.    *)
IsNew(e) == page.revs[e] > local[e]
applyRemote == [e \in Entities |-> IF e \in DOMAIN page.revs /\ IsNew(e)
                                   THEN page.revs[e] ELSE local[e]]

(* A row's foreign key finds its parent: on the device, or earlier in the   *)
(* page.                                                                    *)
ForeignKeysHold ==
  \A e \in DOMAIN page.revs : IsNew(e) =>
    \/ Parent[e] = NoEntity
    \/ local[Parent[e]] > 0
    \/ Parent[e] \in DOMAIN page.revs /\ page.order[Parent[e]] < page.order[e]

nextBootstrapState_Restart == IF page.more THEN Required ELSE Complete  \* mutant
nextBootstrapState ==
  IF page.more THEN Continue(page.snapshot, page.end) ELSE Complete

cursorAfterBootstrap_Never == cursor                                    \* mutant
cursorAfterBootstrap_Next ==                                            \* mutant
  IF ~page.more THEN page.snapshot + 1 ELSE cursor
cursorAfterBootstrap_HighWater ==                                       \* mutant
  IF ~page.more THEN Len(log) ELSE cursor
cursorAfterBootstrap ==
  IF ~page.more /\ page.snapshot > cursor THEN page.snapshot ELSE cursor

(* apply_bootstrap_page: rows, bootstrap_state and cursor in one            *)
(* transaction.  A page that breaks a foreign key is undone and ends the    *)
(* run with an error.                                                       *)
apply_bootstrap_page ==
  /\ pc = "applyBootstrap"
  /\ IF ForeignKeysHold
     THEN /\ local' = applyRemote
          /\ boot' = nextBootstrapState
          /\ cursor' = cursorAfterBootstrap
          /\ pc' = IF page.more THEN "bootstrap" ELSE "ack"
          /\ pages' = IF page.more THEN pages + 1 ELSE 0
     ELSE /\ pc' = "idle"
          /\ UNCHANGED <<database, pages>>
  /\ UNCHANGED <<server, acknowledgement, page, faults>>

-----------------------------------------------------------------------------
(* One turn of the loop of pull_remote.                                     *)
pull_remote ==
  /\ pc = "pull"
  /\ pc' = IF pages = MaxPages THEN "idle" ELSE "changes"
  /\ UNCHANGED <<server, acknowledgement, database, page, pages, faults>>

(* The last revision of each entity among the changes after the cursor, up  *)
(* to position n; a change applied before a later one leaves no other trace.*)
RevsBetween(m, n) ==
  [e \in {log[i].entity : i \in (m + 1) .. n} |->
     CHOOSE r \in {log[i].rev : i \in (m + 1) .. n} :
       \E i \in (m + 1) .. n :
         /\ log[i].entity = e /\ log[i].rev = r
         /\ \A j \in (m + 1) .. n : log[j].entity = e => j <= i]

FirstBetween(m, n) ==
  [e \in {log[i].entity : i \in (m + 1) .. n} |->
     CHOOSE i \in (m + 1) .. n :
       log[i].entity = e /\ \A j \in (m + 1) .. n : log[j].entity = e => i <= j]

(* pull: the changes after the cursor in order, as many as fit.             *)
pullChanges ==
  /\ pc = "changes"
  /\ \E n \in cursor .. Len(log) :
       /\ n = cursor <=> cursor = Len(log)
       /\ n <= cursor + PageLimit
       /\ page' = [revs |-> RevsBetween(cursor, n), order |-> FirstBetween(cursor, n),
                   end |-> n, snapshot |-> 0, more |-> n < Len(log)]
  /\ pc' = "applyPull"
  /\ UNCHANGED <<server, acknowledgement, database, pages, faults>>

(* apply_pull_page: rows and cursor in one transaction.                     *)
apply_pull_page ==
  /\ pc = "applyPull"
  /\ IF ForeignKeysHold
     THEN /\ local' = applyRemote
          /\ cursor' = page.end
          /\ pc' = "ack"
          /\ pages' = pages + 1
          /\ UNCHANGED boot
     ELSE /\ pc' = "idle"
          /\ UNCHANGED <<database, pages>>
  /\ UNCHANGED <<server, acknowledgement, page, faults>>

-----------------------------------------------------------------------------
(* ack_cursor sends what the response said of the page that has just been   *)
(* committed: the snapshot of a bootstrap, the last change of a pulled page.*)
pageCursor == IF pages = 0 THEN page.snapshot ELSE page.end

ack_cursor ==
  /\ pc = "ack"
  /\ acks' = acks \cup {pageCursor}
  /\ pc' = "acking"
  /\ UNCHANGED <<server, acked, database, page, pages, faults>>

storedAck_Overwrite(c) == c                                             \* mutant
storedAck(c) == IF c > acked THEN c ELSE acked

(* After the ack the run goes on with the next page, if there is one.       *)
afterAck ==
  IF boot.phase = "complete" /\ (page.more \/ pages = 0) THEN "pull" ELSE "idle"

(* ack: a cursor beyond the log is refused; the stored one never decreases. *)
(* The reply continues the run if the device still waits for it.            *)
ack(c) ==
  /\ c \in acks
  /\ c <= Len(log)
  /\ acked' = storedAck(c)
  /\ acks' = acks \ {c}
  /\ pc' = IF pc = "acking" /\ c = pageCursor THEN afterAck ELSE pc
  /\ UNCHANGED <<server, database, page, pages, faults>>

-----------------------------------------------------------------------------
(* A request or a reply is lost, or the process dies: the run is over and   *)
(* only the database survives.  An ack that was sent may still arrive.      *)
Fault ==
  /\ pc # "idle" /\ faults < MaxFaults
  /\ pc' = "idle" /\ page' = NoPage /\ pages' = 0
  /\ faults' = faults + 1
  /\ UNCHANGED <<server, acknowledgement, database>>

(* An ack never arrives.                                                    *)
LoseAck ==
  /\ faults < MaxFaults
  /\ \E c \in acks :
       /\ acks' = acks \ {c}
       /\ pc' = IF pc = "acking" /\ c = pageCursor THEN "idle" ELSE pc
  /\ faults' = faults + 1
  /\ UNCHANGED <<server, acked, database, page, pages>>

Device ==
  \/ run_bootstrap \/ bootstrapSnapshot \/ bootstrapRows \/ apply_bootstrap_page
  \/ pull_remote \/ pullChanges \/ apply_pull_page \/ ack_cursor

Next ==
  \/ \E e \in Entities : Commit(e)
  \/ run_locked
  \/ Device
  \/ \E c \in acks : ack(c)
  \/ Fault \/ LoseAck

Spec == Init /\ [][Next]_vars

(* The engine's timer starts a run again and again, a run that is not       *)
(* interrupted goes on, and an ack that is not lost arrives.                *)
FairSpec == Spec /\ WF_vars(run_locked) /\ WF_vars(Device) /\ WF_vars(\E c \in acks : ack(c))

-----------------------------------------------------------------------------
(* Properties                                                               *)

TypeOK ==
  /\ log \in Seq([entity : Entities, rev : Nat])
  /\ row \in [Entities -> [rev : Nat, seq : Nat]]
  /\ acked \in Nat /\ acks \subseteq Nat
  /\ local \in [Entities -> Nat]
  /\ boot \in [phase : {"required", "cursor", "complete"}, snapshot : Nat, after : Nat]
  /\ cursor \in 0 .. Len(log)
  /\ pc \in Phases
  /\ page.end \in Nat /\ page.snapshot \in Nat /\ page.more \in BOOLEAN
  /\ DOMAIN page.revs \subseteq Entities
  /\ DOMAIN page.order = DOMAIN page.revs
  /\ \A e \in DOMAIN page.revs : page.revs[e] \in Nat /\ page.order[e] \in Nat
  /\ pages \in Nat /\ faults \in Nat

(* Nothing is skipped between the snapshot and the change stream: when the  *)
(* bootstrap is complete, the device holds every change up to its cursor,   *)
(* or a newer change of the same entity still lies beyond the cursor and    *)
(* will be pulled.  Rows changed during a bootstrap leave the snapshot, so  *)
(* this relies on the cursor starting at the snapshot and not after it.     *)
NothingSkipped ==
  boot.phase = "complete" =>
    \A i \in DOMAIN log : i <= cursor =>
      local[log[i].entity] >= log[i].rev \/ row[log[i].entity].seq > cursor

(* A device that has pulled everything holds exactly the server's rows.     *)
CaughtUp ==
  boot.phase = "complete" /\ cursor = Len(log) =>
    \A e \in Entities : local[e] = row[e].rev

(* The server is never told that a device holds a change the device could   *)
(* still lose: every ack, stored or late, is covered by the durable cursor. *)
AckCovered ==
  /\ acked <= cursor
  /\ \A c \in acks : c <= cursor

(* A step that takes nothing back.                                          *)
Forward ==
  /\ \A e \in Entities : local'[e] >= local[e]
  /\ cursor' >= cursor
  /\ acked' >= acked
  /\ boot.phase = "complete" => boot'.phase = "complete"

(* Neither a lost reply nor a replayed or late page takes anything back:    *)
(* revisions, the pull cursor and the stored ack never decrease, and a      *)
(* completed bootstrap is never undone.                                     *)
NeverBackwards == [][Forward]_vars

(* Once the others stop writing and the faults are over, the device and the *)
(* server's record of it catch up: a bootstrap that was interrupted, or that*)
(* other devices wrote into, still ends.                                    *)
EventuallyCaughtUp ==
  <>[](/\ boot.phase = "complete"
       /\ \A e \in Entities : local[e] = row[e].rev
       /\ acked = Len(log))

(* The ways not to get there: other devices edited a row and its parent     *)
(* while the device was reading the snapshot.  Either the snapshot it has   *)
(* persisted still holds the row and no longer the parent, or both come with*)
(* the change stream, the row first.                                        *)
Orphaned(e) ==
  /\ Parent[e] # NoEntity
  /\ local[Parent[e]] = 0
  /\ \/ /\ boot.phase = "cursor"
        /\ row[e].seq \in 1 .. boot.snapshot
        /\ row[Parent[e]].seq > boot.snapshot
     \/ /\ boot.phase = "complete"
        /\ \E i \in (cursor + 1) .. Len(log) :
             /\ log[i].entity = e
             /\ \A j \in (cursor + 1) .. i : log[j].entity # Parent[e]

CaughtUpUnlessOrphaned == EventuallyCaughtUp \/ <>[](\E e \in Entities : Orphaned(e))

(* The replica holds what its cursor claims, while and after it is built.   *)
ReplicaSafe == TypeOK /\ NothingSkipped /\ CaughtUp
=============================================================================
