----------------------------- MODULE RemoteRows -----------------------------
(****************************************************************************)
(* Rows that refer to each other, carried between devices: what the writes  *)
(* of db/repo/{agents,workspaces,sessions,messages,planner,reading}.rs put  *)
(* into the outbox, and what db/repo/sync.rs does with a remote change per  *)
(* entity type (apply_remote_business_row and the functions it calls), when *)
(* a page is applied and when the user resolves a conflict.                 *)
(*                                                                          *)
(* Rows are numbered in the order of a bootstrap: by table, then by id.  A  *)
(* page of a pull holds one change here, a bootstrap has one page, and the  *)
(* gateway answers at once; SyncReplica has the pages, SyncDevice the push  *)
(* and the automatic merge of a conflict: here every one is the user's.     *)
(****************************************************************************)
EXTENDS Naturals, Sequences, FiniteSets, Functions, Folds, SequencesExt

CONSTANTS
  Devices,
  Cases,        \* which rows there are: what each is, needs, and who makes it
  MaxChanges    \* bound: local writes, and changes the gateway refuses for good

VARIABLES
  case,
  log,          \* gateway: the accepted changes
  server,       \* gateway: the current revision of each row
  dev,          \* each device
  disputed,     \* the rows that have been in a conflict
  stray,        \* the sessions that reached a device after it deleted their workspace
  surviving,    \* <<device, row>>: a deletion the device took over in vain
  changes

vars == <<case, log, server, dev, disputed, stray, surviving, changes>>

Rows == DOMAIN case.kind
Kind(r) == case.kind[r]

\* The rows a row's foreign keys name from its creation on; its parent task or
\* its workspace, 0 for none; books with the same source_hash.
Needs(r) == case.needs[r]
Home(r) == case.home[r]
Twins(r) == case.twins[r]

NoRow == [state |-> "none", val |-> 0, link |-> FALSE]
NoConflict == [mine |-> NoRow, theirs |-> NoRow]
Unknown == [rev |-> 0, payload |-> FALSE]

-----------------------------------------------------------------------------
(* One device, as a value                                                   *)

Has(x, r) == x.rows[r].state # "none"
Live(x, r) == x.rows[r].state = "live"
Queued(x, r) == {i \in DOMAIN x.queue : x.queue[i].row = r}
Unsynced(x) == {r \in Rows : Queued(x, r) # {} \/ r \in x.dead \/ x.conflict[r] # NoConflict}

\* A task is sent with the parent it was promised, whether it is there or not.
payload(x, r) == [x.rows[r] EXCEPT !.link = IF Kind(r) = "task" THEN Home(r) # 0 ELSE @]

\* Each write is a change of its own, built on the one before it.
planned_base_revision(x, r) ==
  IF Queued(x, r) = {} THEN x.base[r].rev ELSE x.queue[Max(Queued(x, r))].base + 1
enqueue_current(x, r) ==
  [x EXCEPT !.queue = Append(@, [row |-> r, base |-> planned_base_revision(x, r), p |-> payload(x, r)])]

written(x, r, row) == enqueue_current([x EXCEPT !.rows[r] = row], r)

\* delete: what the row takes along is written first.
unlinkedFrom(x, w) ==
  FoldLeft(LAMBDA y, s : written(y, s, [y.rows[s] EXCEPT !.link = FALSE]), x,
           SetToSeq({s \in Rows : Kind(s) = "session" /\ Home(s) = w /\ Live(x, s) /\ x.rows[s].link}))
taken(x, r) == CASE Kind(r) = "task"  -> {c \in Rows : Kind(c) = "task" /\ Home(c) = r /\ x.rows[c].link}
                 [] Kind(r) = "event" -> {c \in Rows : Kind(c) = "exception" /\ r \in Needs(c)}
                 [] OTHER             -> {}
deleted(x, r) ==
  LET y == IF Kind(r) = "workspace" THEN unlinkedFrom(x, r) ELSE x
  IN FoldLeft(LAMBDA z, c : written(z, c, [z.rows[c] EXCEPT !.state = "gone"]), y,
              SetToSeq({c \in taken(x, r) : Live(x, c)}) \o <<r>>)

\* reconcile_remote_task_parents
reconciled_Never(x) == x                                                \* mutant
reconciled(x) ==
  [x EXCEPT !.rows = [r \in Rows |->
     IF Kind(r) = "task" /\ Home(r) # 0 /\ Has(x, r) /\ Has(x, Home(r))
     THEN [x.rows[r] EXCEPT !.link = TRUE] ELSE x.rows[r]]]

\* The foreign keys and the unique source_hash of a row that is written.
referred(r, p) == Needs(r) \cup (IF Kind(r) = "session" /\ p.link THEN {Home(r)} ELSE {})
fits(x, r, p) ==
  \/ p.state = "gone"
  \/ (\A q \in referred(r, p) : Has(x, q)) /\ (\A t \in Twins(r) : ~Has(x, t))

\* A task whose parent is not there yet is stored without one.
apply_remote_upsert(x, r, p) ==
  reconciled([x EXCEPT !.rows[r] = IF Kind(r) = "task" THEN [p EXCEPT !.link = FALSE] ELSE p])

\* A row that is not there stays away; an exception is found through the last
\* payload that was synchronized, if that was none of a deletion.
apply_remote_delete(x, r) ==
  LET found == Has(x, r) /\ (Kind(r) = "exception" => x.base[r].payload)
      left  == {s \in Rows : Kind(s) = "session" /\ Kind(r) = "workspace" /\ Home(s) = r
                             /\ s \notin Unsynced(x)}
  IN [x EXCEPT !.rows = [s \in Rows |->
        IF s = r /\ found THEN [x.rows[s] EXCEPT !.state = "gone"]
        ELSE IF s \in left THEN [x.rows[s] EXCEPT !.link = FALSE] ELSE x.rows[s]]]

apply_remote_business_row(x, r, p) ==
  IF p.state = "gone" THEN apply_remote_delete(x, r) ELSE apply_remote_upsert(x, r, p)

\* apply_remote_entity: nothing for a revision that is known, a conflict beside
\* a local change, or the row itself.
isKnown(x, c) == x.base[c.row].rev >= c.rev
isNews(x, c) == ~isKnown(x, c) /\ c.row \notin Unsynced(x)
apply_remote_entity(x, c) ==
  LET r == c.row
      seen == [rev |-> c.rev, payload |-> c.p.state # "gone"]
  IN IF isKnown(x, c) THEN x
     ELSE IF isNews(x, c)
     THEN [apply_remote_business_row(x, r, c.p) EXCEPT !.base[r] = seen]
     ELSE [x EXCEPT !.base[r] = seen,
                    !.queue = SelectSeq(@, LAMBDA q : q.row # r),
                    !.conflict[r] = [mine |-> payload(x, r), theirs |-> c.p]]

Page(x, cs) ==
  FoldLeft(LAMBDA a, c : [x |-> apply_remote_entity(a.x, c),
                          ok |-> a.ok /\ (isNews(a.x, c) => fits(a.x, c.row, c.p))],
           [x |-> x, ok |-> TRUE], cs)

-----------------------------------------------------------------------------
NewDevice(rs) ==
  [rows |-> [r \in rs |-> NoRow], base |-> [r \in rs |-> Unknown],
   queue |-> <<>>, dead |-> {}, conflict |-> [r \in rs |-> NoConflict],
   cursor |-> 0, ready |-> FALSE]

Init ==
  /\ case \in Cases
  /\ log = <<>>
  /\ server = [r \in Rows |-> [rev |-> 0, p |-> NoRow]]
  /\ dev = [d \in Devices |-> NewDevice(Rows)]
  /\ disputed = {} /\ stray = {} /\ surviving = {}
  /\ changes = 0

gateway == <<log, server>>
NewVal == changes + 1

\* A local write and its entries in the outbox, in one transaction.
Write(d, x) ==
  /\ dev' = [dev EXCEPT ![d] = x]
  /\ changes' = changes + 1
  /\ UNCHANGED <<case, gateway, disputed, stray, surviving>>

\* A row is made for rows the user sees; a book that is there is not imported
\* again.
insert(d, r) ==
  LET x == dev[d] IN
  /\ changes < MaxChanges
  /\ d \in case.makers[r] /\ ~Has(x, r)
  /\ \A q \in Needs(r) \cup ({Home(r)} \ {0}) : Live(x, q)
  /\ \A t \in Twins(r) : ~Has(x, t)
  /\ Write(d, written(x, r, [state |-> "live", val |-> NewVal, link |-> Home(r) # 0]))

update(d, r) ==
  /\ changes < MaxChanges
  /\ Live(dev[d], r)
  /\ Write(d, written(dev[d], r, [dev[d].rows[r] EXCEPT !.val = NewVal]))

delete(d, r) ==
  /\ changes < MaxChanges
  /\ Live(dev[d], r) /\ Kind(r) # "book"
  /\ Write(d, deleted(dev[d], r))

-----------------------------------------------------------------------------
\* The oldest change nothing holds back, built on the revision the gateway has;
\* one built on another becomes a conflict with the next pull.
Sendable(x) ==
  {i \in DOMAIN x.queue :
     LET c == x.queue[i] IN
     /\ c.row \notin x.dead /\ x.conflict[c.row] = NoConflict
     /\ c.base = server[c.row].rev /\ i = Min(Queued(x, c.row))}
push_pending(d) ==
  LET x == dev[d] IN
  /\ x.ready /\ Sendable(x) # {}
  /\ LET i == Min(Sendable(x))
         r == x.queue[i].row
         rev == server[r].rev + 1
         p == x.queue[i].p
     IN \/ /\ log' = Append(log, [row |-> r, rev |-> rev, p |-> p])
           /\ server' = [server EXCEPT ![r] = [rev |-> rev, p |-> p]]
           /\ dev' = [dev EXCEPT ![d] = [x EXCEPT !.queue = RemoveAt(@, i),
                                         !.base[r] = [rev |-> rev, payload |-> p.state # "gone"]]]
           /\ UNCHANGED changes
        \/ /\ changes < MaxChanges
           /\ dev' = [dev EXCEPT ![d] = [x EXCEPT !.queue = RemoveAt(@, i), !.dead = @ \cup {r}]]
           /\ changes' = changes + 1
           /\ UNCHANGED gateway
  /\ UNCHANGED <<case, disputed, stray, surviving>>

\* BOOTSTRAP_ENTITY_ORDER_SQL, entity_type, entity_id; tombstones included.
snapshot_Reversed ==                                                    \* mutant
  LET known == SetToSortSeq({r \in Rows : server[r].rev > 0}, LAMBDA q, r : q > r)
  IN [i \in DOMAIN known |-> [row |-> known[i], rev |-> server[known[i]].rev, p |-> server[known[i]].p]]
snapshot ==
  LET known == SetToSortSeq({r \in Rows : server[r].rev > 0}, LAMBDA q, r : q < r)
  IN [i \in DOMAIN known |-> [row |-> known[i], rev |-> server[known[i]].rev, p |-> server[known[i]].p]]
coming(d) == CASE ~dev[d].ready -> snapshot
               [] dev[d].cursor < Len(log) -> <<log[dev[d].cursor + 1]>>
               [] OTHER -> <<>>

\* A page is applied as a whole or, when a row does not fit, not at all: it is
\* asked for again with the next cycle.
Take(d, next) ==
  LET page == Page(dev[d], coming(d)) IN
  /\ page.ok
  /\ dev' = [dev EXCEPT ![d] = [page.x EXCEPT !.ready = TRUE, !.cursor = next]]
  /\ disputed' = disputed \cup {r \in Rows : page.x.conflict[r] # NoConflict}
  /\ stray' = stray \cup {s \in Rows : /\ Kind(s) = "session" /\ Home(s) # 0
                                       /\ dev[d].rows[Home(s)].state = "gone"
                                       /\ \E c \in Range(coming(d)) : c.row = s /\ c.p.link}
  /\ UNCHANGED <<case, gateway, surviving, changes>>

apply_bootstrap_page(d) == ~dev[d].ready /\ Take(d, Len(log))

apply_pull_page(d) ==
  /\ dev[d].ready /\ dev[d].cursor < Len(log)
  /\ Take(d, dev[d].cursor + 1)

-----------------------------------------------------------------------------
\* The user decides a conflict; all unsynced changes of the row give way.
resolved(x, r) ==
  [x EXCEPT !.queue = SelectSeq(@, LAMBDA q : q.row # r), !.dead = @ \ {r}, !.conflict[r] = NoConflict]

\* apply_local_resolution, apply_local_delete_resolution
keep_local(d, r) ==
  LET x == dev[d]  mine == x.conflict[r].mine IN
  /\ x.conflict[r] # NoConflict
  /\ fits([x EXCEPT !.rows[r] = NoRow], r, mine)
  /\ dev' = [dev EXCEPT ![d] = enqueue_current(apply_remote_business_row(resolved(x, r), r, mine), r)]
  /\ UNCHANGED <<case, gateway, disputed, stray, surviving, changes>>

\* apply_remote_resolution
keep_remote(d, r) ==
  LET x == dev[d]  theirs == x.conflict[r].theirs
      y == apply_remote_business_row(resolved(x, r), r, theirs)
  IN /\ x.conflict[r] # NoConflict
     /\ fits(x, r, theirs)
     /\ dev' = [dev EXCEPT ![d] = y]
     /\ surviving' = IF theirs.state = "gone" /\ Live(y, r) THEN surviving \cup {<<d, r>>} ELSE surviving
     /\ UNCHANGED <<case, gateway, disputed, stray, changes>>

Next ==
  \E d \in Devices :
    \/ \E r \in Rows : insert(d, r) \/ update(d, r) \/ delete(d, r) \/ keep_local(d, r) \/ keep_remote(d, r)
    \/ push_pending(d) \/ apply_bootstrap_page(d) \/ apply_pull_page(d)

Spec == Init /\ [][Next]_vars

-----------------------------------------------------------------------------
(* Properties                                                               *)

RowStates == [state : {"none", "live", "gone"}, val : 0 .. MaxChanges, link : BOOLEAN]
TypeOK ==
  /\ case \in Cases
  /\ log \in Seq([row : Rows, rev : Nat, p : RowStates])
  /\ server \in [Rows -> [rev : Nat, p : RowStates]]
  /\ \A d \in Devices :
       /\ dev[d].rows \in [Rows -> RowStates]
       /\ dev[d].base \in [Rows -> [rev : Nat, payload : BOOLEAN]]
       /\ dev[d].queue \in Seq([row : Rows, base : Nat, p : RowStates]) /\ dev[d].dead \subseteq Rows
       /\ dev[d].cursor \in 0 .. Len(log)
  /\ disputed \cup stray \subseteq Rows /\ surviving \subseteq Devices \X Rows
  /\ changes \in 0 .. MaxChanges

Blocked(d) == ~Page(dev[d], coming(d)).ok

\* Why a page does not go in: a row in it refers to one that is deleted at the
\* gateway (its tombstone makes no row), that its author never got published,
\* or that comes later in the bootstrap; or it is a book the device has by its
\* own import.
Hindrance(d, c) ==
  \/ \E q \in referred(c.row, c.p) :
       /\ ~Has(dev[d], q)
       /\ \/ server[q].p.state = "gone"
          \/ \E e \in Devices : q \in dev[e].dead
          \/ ~dev[d].ready /\ q > c.row
  \/ \E t \in Twins(c.row) : Has(dev[d], t) \/ server[t].rev > 0

\* A page that cannot be applied has one of these four reasons: otherwise what
\* a row refers to was published, and is applied, before it.
OnlyHindered == \A d \in Devices : Blocked(d) => \E c \in Range(coming(d)) : Hindrance(d, c)

Settled(d) == dev[d].ready /\ dev[d].cursor = Len(log) /\ Unsynced(dev[d]) = {}

\* A device with nothing left to do shows the gateway's rows, subtasks below
\* their parents again, however their changes were ordered, refused or in
\* conflict.  (Not: an exception whose deletion elsewhere the user accepted.)
ShowsServer ==
  \A d \in Devices : Settled(d) => \A r \in Rows :
    LET mine == dev[d].rows[r]  theirs == server[r].p IN
    IF theirs.state = "live"
    THEN /\ mine.state = "live" /\ mine.val = theirs.val
         /\ Kind(r) = "task" => mine.link = (Home(r) # 0 /\ Has(dev[d], Home(r)))
         /\ Kind(r) = "session" /\ Home(r) # 0 /\ server[Home(r)].p.state # "gone" => mine.link = theirs.link
    ELSE mine.state # "live" \/ <<d, r>> \in surviving

\* A session leaves a workspace that is deleted on any device, unless there has
\* been a conflict over the session, or a device deleted the workspace before it
\* knew of the session: it then stays in a workspace no list shows.
SessionsLeave ==
  (\A d \in Devices : Settled(d)) =>
    \A d \in Devices, s \in Rows \ (disputed \cup stray) :
      Kind(s) = "session" /\ Live(dev[d], s) /\ dev[d].rows[s].link => Live(dev[d], Home(s))

RowsSafe == OnlyHindered /\ ShowsServer /\ SessionsLeave

\* Pages can be applied: the order of a bootstrap brings what a foreign key
\* refers to first (ProjectPlan/CLOUDFLARE_SYNC.md:204).
NeverBlocked == \A d \in Devices : ~Blocked(d)
=============================================================================
