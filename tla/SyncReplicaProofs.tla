-------------------------- MODULE SyncReplicaProofs --------------------------
(****************************************************************************)
(* Proofs about SyncReplica, for any entities, foreign keys, page size,     *)
(* number of changes and number of faults.                                  *)
(****************************************************************************)
EXTENDS SyncReplica, SequenceTheorems, FiniteSetTheorems, WellFoundedInduction, TLAPS

(* The inductive invariant.  The rows of the server are the last changes of *)
(* its log.                                                                 *)
RowsOfLog ==
  /\ \A e \in Entities :
       /\ row[e].seq \in 0 .. Len(log)
       /\ IF row[e].seq = 0 THEN row[e].rev = 0
          ELSE log[row[e].seq].entity = e /\ log[row[e].seq].rev = row[e].rev
  /\ \A i \in 1 .. Len(log) :
       i <= row[log[i].entity].seq /\ log[i].rev <= row[log[i].entity].rev

(* The device holds the rows that were last changed up to n and, for a      *)
(* snapshot, whose place is not beyond after.  A row changed meanwhile drops*)
(* out of the snapshot and out of this claim.                               *)
Held(e) == local[e] = row[e].rev
HeldUpTo(n) == \A e \in Entities : row[e].seq <= n => Held(e)
HeldSnapshot(n, after) ==
  \A e \in Entities : row[e].seq \in 1 .. n /\ Rank[e] <= after => Held(e)

ReplicaInv ==
  /\ \A e \in Entities : local[e] <= row[e].rev
  /\ boot.phase # "complete" => cursor = 0
  /\ boot.phase = "complete" => HeldUpTo(cursor)
  /\ boot.phase = "cursor" => boot.snapshot <= Len(log) /\ HeldSnapshot(boot.snapshot, boot.after)

(* What the page that is about to be applied brings.                        *)
Brought(e) == Held(e) \/ (e \in DOMAIN page.revs /\ page.revs[e] = row[e].rev)
Truthful == \A e \in DOMAIN page.revs : page.revs[e] <= row[e].rev

PageInv ==
  /\ pages <= MaxPages
  /\ pc \in {"snapshot", "rows", "applyBootstrap", "changes", "applyPull"} => pages < MaxPages
  /\ pc \in {"snapshot", "rows", "applyBootstrap"} => boot.phase # "complete"
  /\ pc \in {"pull", "changes", "applyPull", "ack", "acking"} => boot.phase = "complete"
  /\ pc = "rows" => page.snapshot <= Len(log) /\ HeldSnapshot(page.snapshot, page.end)
  /\ pc = "applyBootstrap" =>
       /\ page.snapshot <= Len(log) /\ Truthful
       /\ \A e \in Entities :
            row[e].seq \in 1 .. page.snapshot /\ (page.more => Rank[e] <= page.end) => Brought(e)
  /\ pc = "applyPull" =>
       /\ page.end \in cursor .. Len(log) /\ Truthful
       /\ \A e \in Entities : row[e].seq \in (cursor + 1) .. page.end => Brought(e)
  /\ pc \in {"ack", "acking"} => pageCursor <= cursor

IInv == TypeOK /\ RowsOfLog /\ ReplicaInv /\ PageInv /\ AckCovered

-----------------------------------------------------------------------------
(* The first and the last member of a set of positions.                     *)
LEMMA First ==
  ASSUME NEW a \in Nat, NEW b \in Nat, NEW S \in SUBSET (a .. b), S # {}
  PROVE  \E m \in S : \A k \in S : m <= k
<1> DEFINE below(i) == {k \in S : k <= i}
           family == {below(i) : i \in S}
<1>1. family \subseteq FiniteSubsetsOf(S)
  <2>1. IsFiniteSet(a .. b)
    BY FS_Interval
  <2>2. IsFiniteSet(S)
    BY <2>1, FS_Subset
  <2>3. FiniteSubsetsOf(S) = SUBSET S
    BY <2>2, FS_FiniteSubsetsOfFinite
  <2> QED
    BY <2>3
<1>2. PICK T \in family : \A U \in family : ~ (<<U, T>> \in StrictSubsetOrdering(S))
  <2>1. IsWellFoundedOn(StrictSubsetOrdering(S), FiniteSubsetsOf(S)) /\ family # {}
    BY FS_StrictSubsetOrderingWellFounded
  <2> HIDE DEF family
  <2> QED
    BY <1>1, <2>1, WFMin, Zenon
<1>3. PICK m \in S : T = below(m)
  BY <1>2
<1>4. ASSUME NEW k \in S, k < m PROVE FALSE
  <2>0. k \in Nat /\ m \in Nat
    OBVIOUS
  <2>1. m \notin below(k) /\ m \in below(m) /\ below(k) \subseteq below(m)
    <3>1. m \notin below(k) /\ m \in below(m)
      BY <1>4, <2>0
    <3>2. \A j \in S : j \in Nat /\ (j <= k => j <= m)
      BY <1>4, <2>0
    <3> QED
      BY <3>1, <3>2
  <2>2. <<below(k), below(m)>> \in StrictSubsetOrdering(S)
    BY <2>1 DEF StrictSubsetOrdering
  <2> QED
    BY <1>2, <1>3, <2>2, Zenon
<1> QED
  BY <1>4

(* A set of numbers that is bounded and not empty has a greatest.          *)
LEMMA Last ==
  ASSUME NEW a \in Nat, NEW b \in Nat, NEW S \in SUBSET (a .. b), S # {}
  PROVE  \E m \in S : \A k \in S : k <= m
<1> DEFINE mirrored == {b - k : k \in S}
<1>1. mirrored \in SUBSET (0 .. b) /\ mirrored # {}
  OBVIOUS
<1>2. PICK n \in mirrored : \A k \in mirrored : n <= k
  BY <1>1, First
<1>3. PICK m \in S : n = b - m
  BY <1>2
<1>4. ASSUME NEW k \in S PROVE k <= m
  <2>1. b - m <= b - k
    BY <1>2, <1>3
  <2>2. k \in Nat /\ m \in Nat
    OBVIOUS
  <2> QED
    BY <2>1, <2>2
<1> QED
  BY <1>4

-----------------------------------------------------------------------------
(* The invariant holds at first.                                           *)
LEMMA InitIInv == Init => IInv
<1> SUFFICES ASSUME Init PROVE IInv
  OBVIOUS
<1>1. TypeOK
  BY DEF Init, TypeOK, Required, NoPage, Phases
<1>2. RowsOfLog /\ AckCovered
  BY DEF Init, RowsOfLog, AckCovered
<1>3. ReplicaInv /\ PageInv
  BY BoundAssumption DEF Init, ReplicaInv, PageInv, Required
<1> QED
  BY <1>1, <1>2, <1>3 DEF IInv

(* The types, per group of variables.                                       *)
LEMMA Types ==
  ASSUME TypeOK
  PROVE  /\ Len(log) \in Nat /\ DOMAIN log = 1 .. Len(log)
         /\ \A i \in 1 .. Len(log) : log[i] \in [entity : Entities, rev : Nat]
         /\ \A e \in Entities : row[e] \in [rev : Nat, seq : Nat] /\ local[e] \in Nat
         /\ cursor \in Nat /\ cursor <= Len(log)
<1>1. log \in Seq([entity : Entities, rev : Nat]) /\ cursor \in 0 .. Len(log)
  BY DEF TypeOK
<1>2. Len(log) \in Nat /\ DOMAIN log = 1 .. Len(log)
  BY <1>1
<1>3. \A i \in 1 .. Len(log) : log[i] \in [entity : Entities, rev : Nat]
  BY <1>1, <1>2, ElementOfSeq
<1>4. \A e \in Entities : row[e] \in [rev : Nat, seq : Nat] /\ local[e] \in Nat
  BY DEF TypeOK
<1> QED
  BY <1>1, <1>2, <1>3, <1>4

(* Another device's change becomes the last one, and its row the only one   *)
(* that changes.                                                            *)
LEMMA CommitIInv ==
  ASSUME IInv, NEW e \in Entities, Commit(e)
  PROVE  IInv'
<1> DEFINE n == Len(log) + 1
           change == [entity |-> e, rev |-> row[e].rev + 1]
           newRow == [rev |-> row[e].rev + 1, seq |-> n]
<1>1. TypeOK /\ RowsOfLog /\ ReplicaInv /\ PageInv /\ AckCovered
  BY DEF IInv
<1>2. /\ Len(log) \in Nat /\ cursor \in Nat /\ cursor <= Len(log)
      /\ \A i \in 1 .. Len(log) : log[i].entity \in Entities /\ log[i].rev \in Nat
      /\ \A d \in Entities : row[d].rev \in Nat /\ row[d].seq \in Nat /\ local[d] \in Nat
  BY <1>1, Types
<1>3. log \in Seq([entity : Entities, rev : Nat]) /\ change \in [entity : Entities, rev : Nat]
  BY <1>1, <1>2 DEF TypeOK
<1>4. /\ log' \in Seq([entity : Entities, rev : Nat])
      /\ Len(log') = n /\ log'[n] = change
      /\ \A i \in 1 .. Len(log) : log'[i] = log[i]
  BY <1>3, AppendProperties DEF Commit
<1>5. row' = [row EXCEPT ![e] = newRow] /\ newRow \in [rev : Nat, seq : Nat]
  BY <1>2 DEF Commit
<1>6. /\ row' \in [Entities -> [rev : Nat, seq : Nat]]
      /\ row'[e] = newRow
      /\ \A d \in Entities : d # e => row'[d] = row[d]
  BY <1>1, <1>5 DEF TypeOK
<1>7. /\ UNCHANGED <<acked, acks, local, boot, cursor, pc, page, pages, faults>>
      /\ n \in Nat /\ n = Len(log) + 1
      /\ change.entity = e /\ change.rev = row[e].rev + 1
      /\ newRow.rev = row[e].rev + 1 /\ newRow.seq = n
  BY <1>2 DEF Commit, acknowledgement, database, run
<1> HIDE DEF n, change, newRow
<1>8. \A d \in Entities :
        /\ row'[d].rev \in Nat /\ row'[d].seq \in Nat /\ row[d].rev <= row'[d].rev
        /\ row'[d].seq <= Len(log) => row'[d] = row[d]
  BY <1>2, <1>6, <1>7
<1>9. Len(log') \in Nat /\ Len(log) <= Len(log')
  BY <1>2, <1>4, <1>7
<1>10. TypeOK'
  <2>1. cursor' \in 0 .. Len(log')
    BY <1>2, <1>7, <1>9
  <2> QED
    BY <1>1, <1>4, <1>6, <1>7, <2>1 DEF TypeOK
<1>11. RowsOfLog'
  <2>1. ASSUME NEW d \in Entities
        PROVE  /\ row'[d].seq \in 0 .. Len(log')
               /\ IF row'[d].seq = 0 THEN row'[d].rev = 0
                  ELSE log'[row'[d].seq].entity = d /\ log'[row'[d].seq].rev = row'[d].rev
    <3>1. CASE d = e
      BY <3>1, <1>4, <1>6, <1>7
    <3>2. CASE d # e
      <4>1. row[d].seq \in 0 .. Len(log) /\ IF row[d].seq = 0 THEN row[d].rev = 0
              ELSE log[row[d].seq].entity = d /\ log[row[d].seq].rev = row[d].rev
        BY <1>1 DEF RowsOfLog
      <4>2. row'[d] = row[d] /\ row[d].seq \in 0 .. Len(log')
        BY <3>2, <4>1, <1>2, <1>6, <1>9
      <4>3. CASE row[d].seq = 0
        BY <4>1, <4>2, <4>3
      <4>4. CASE row[d].seq # 0
        <5>1. row[d].seq \in 1 .. Len(log)
          BY <4>1, <4>4, <1>2
        <5>2. log'[row[d].seq] = log[row[d].seq]
          BY <5>1, <1>4
        <5> QED
          BY <4>1, <4>2, <4>4, <5>2
      <4> QED
        BY <4>3, <4>4
    <3> QED
      BY <3>1, <3>2
  <2>2. ASSUME NEW i \in 1 .. Len(log')
        PROVE  i <= row'[log'[i].entity].seq /\ log'[i].rev <= row'[log'[i].entity].rev
    <3>1. CASE i = n
      BY <3>1, <1>2, <1>4, <1>6, <1>7
    <3>2. CASE i # n
      <4>1. i \in 1 .. Len(log) /\ log'[i] = log[i]
        BY <3>2, <1>2, <1>4, <1>7
      <4>2. i <= row[log[i].entity].seq /\ log[i].rev <= row[log[i].entity].rev
        BY <1>1, <4>1 DEF RowsOfLog
      <4>3. log[i].entity \in Entities /\ log[i].rev \in Nat /\ i <= Len(log)
        BY <1>2, <4>1
      <4>4. CASE log[i].entity = e
        BY <4>1, <4>2, <4>3, <4>4, <1>2, <1>6, <1>7
      <4>5. CASE log[i].entity # e
        BY <4>1, <4>2, <4>3, <4>5, <1>6
      <4> QED
        BY <4>4, <4>5
    <3> QED
      BY <3>1, <3>2
  <2> QED
    BY <2>1, <2>2 DEF RowsOfLog
<1>12. \A d \in Entities : row'[d].seq <= Len(log) => (Held(d)' <=> Held(d))
  BY <1>7, <1>8 DEF Held
<1>13. ASSUME NEW k \in Nat, k <= Len(log), NEW after \in Nat, HeldSnapshot(k, after)
       PROVE  \A d \in Entities : row'[d].seq \in 1 .. k /\ Rank[d] <= after => Held(d)'
  BY <1>2, <1>8, <1>12, <1>13 DEF HeldSnapshot
<1>14. ReplicaInv'
  <2>1. ASSUME NEW d \in Entities PROVE local'[d] <= row'[d].rev
    BY <1>1, <1>2, <1>7, <1>8 DEF ReplicaInv
  <2>2. HeldUpTo(cursor) => HeldUpTo(cursor)'
    BY <1>2, <1>7, <1>8, <1>12 DEF HeldUpTo
  <2>3. boot.phase = "cursor" => boot.snapshot <= Len(log') /\ HeldSnapshot(boot.snapshot, boot.after)'
    <3>1. boot.snapshot \in Nat /\ boot.after \in Nat
      BY <1>1 DEF TypeOK
    <3>2. SUFFICES ASSUME boot.phase = "cursor"
                   PROVE  boot.snapshot <= Len(log') /\ HeldSnapshot(boot.snapshot, boot.after)'
      OBVIOUS
    <3>3. boot.snapshot <= Len(log) /\ HeldSnapshot(boot.snapshot, boot.after)
      BY <1>1, <3>2 DEF ReplicaInv
    <3>4. \A d \in Entities : row'[d].seq \in 1 .. boot.snapshot /\ Rank[d] <= boot.after => Held(d)'
      BY <1>13, <3>1, <3>3
    <3>5. boot.snapshot <= Len(log')
      BY <1>2, <1>9, <3>1, <3>3
    <3> QED
      BY <1>7, <3>4, <3>5 DEF HeldSnapshot
  <2> QED
    BY <1>1, <1>7, <2>1, <2>2, <2>3 DEF ReplicaInv
<1>15. PageInv'
  <2>1. Truthful => Truthful'
    <3>1. \A d \in DOMAIN page.revs : d \in Entities /\ page.revs[d] \in Nat
      BY <1>1 DEF TypeOK
    <3> QED
      BY <1>2, <1>7, <1>8, <3>1 DEF Truthful
  <2>2. pageCursor' = pageCursor
    BY <1>7 DEF pageCursor
  <2>3. \A d \in Entities : Brought(d) /\ row'[d].seq <= Len(log) => Brought(d)'
    BY <1>7, <1>8, <1>12 DEF Brought
  <2>4. page.snapshot \in Nat /\ page.end \in Nat
    BY <1>1 DEF TypeOK
  <2>5. pc = "rows" => page.snapshot <= Len(log') /\ HeldSnapshot(page.snapshot, page.end)'
    <3>1. SUFFICES ASSUME pc = "rows"
                   PROVE  page.snapshot <= Len(log') /\ HeldSnapshot(page.snapshot, page.end)'
      OBVIOUS
    <3>2. page.snapshot <= Len(log) /\ HeldSnapshot(page.snapshot, page.end)
      BY <1>1, <3>1 DEF PageInv
    <3>3. \A d \in Entities : row'[d].seq \in 1 .. page.snapshot /\ Rank[d] <= page.end => Held(d)'
      BY <1>13, <2>4, <3>2
    <3>4. page.snapshot <= Len(log')
      BY <1>2, <1>9, <2>4, <3>2
    <3> QED
      BY <1>7, <3>3, <3>4 DEF HeldSnapshot
  <2>6. ASSUME pc = "applyBootstrap"
        PROVE  /\ page.snapshot <= Len(log')
               /\ \A d \in Entities :
                    row'[d].seq \in 1 .. page.snapshot /\ (page.more => Rank[d] <= page.end) => Brought(d)'
    <3>1. /\ page.snapshot <= Len(log)
          /\ \A d \in Entities :
               row[d].seq \in 1 .. page.snapshot /\ (page.more => Rank[d] <= page.end) => Brought(d)
      BY <1>1, <2>6 DEF PageInv
    <3>2. ASSUME NEW d \in Entities, row'[d].seq \in 1 .. page.snapshot, page.more => Rank[d] <= page.end
          PROVE  Brought(d)'
      <4>1. row'[d].seq <= Len(log) /\ row'[d] = row[d]
        BY <1>2, <1>8, <2>4, <3>1, <3>2
      <4> QED
        BY <2>3, <3>1, <3>2, <4>1
    <3> QED
      BY <1>2, <1>9, <2>4, <3>1, <3>2
  <2>7. ASSUME pc = "applyPull"
        PROVE  /\ page.end \in cursor .. Len(log')
               /\ \A d \in Entities : row'[d].seq \in (cursor + 1) .. page.end => Brought(d)'
    <3>1. /\ page.end \in cursor .. Len(log)
          /\ \A d \in Entities : row[d].seq \in (cursor + 1) .. page.end => Brought(d)
      BY <1>1, <2>7 DEF PageInv
    <3>2. ASSUME NEW d \in Entities, row'[d].seq \in (cursor + 1) .. page.end
          PROVE  Brought(d)'
      <4>1. row'[d].seq <= Len(log) /\ row'[d] = row[d]
        BY <1>2, <1>8, <2>4, <3>1, <3>2
      <4> QED
        BY <2>3, <3>1, <3>2, <4>1
    <3> QED
      BY <1>2, <1>9, <2>4, <3>1, <3>2
  <2> QED
    BY <1>1, <1>7, <2>1, <2>2, <2>5, <2>6, <2>7 DEF PageInv
<1>16. AckCovered'
  BY <1>1, <1>7 DEF AckCovered
<1> QED
  BY <1>10, <1>11, <1>14, <1>15, <1>16 DEF IInv

-----------------------------------------------------------------------------
(* A stretch of the log: of each entity in it, the last revision and the    *)
(* first position.                                                          *)
ChangedBetween(m, n) == {log[i].entity : i \in (m + 1) .. n}

(* What a stretch of the log says of the entities changed in it.           *)
LEMMA Stretch ==
  ASSUME TypeOK, RowsOfLog, NEW m \in Nat, NEW n \in Nat, n <= Len(log)
  PROVE  /\ DOMAIN RevsBetween(m, n) = ChangedBetween(m, n)
         /\ DOMAIN FirstBetween(m, n) = ChangedBetween(m, n)
         /\ ChangedBetween(m, n) \subseteq Entities
         /\ \A e \in ChangedBetween(m, n) :
              /\ FirstBetween(m, n)[e] \in Nat
              /\ RevsBetween(m, n)[e] \in Nat /\ RevsBetween(m, n)[e] <= row[e].rev
              /\ row[e].seq \in (m + 1) .. n => RevsBetween(m, n)[e] = row[e].rev
         /\ \A e \in Entities : row[e].seq \in (m + 1) .. n => e \in ChangedBetween(m, n)
<1> DEFINE entities == {log[i].entity : i \in (m + 1) .. n}
           revs == RevsBetween(m, n)
<1>1. /\ Len(log) \in Nat
      /\ \A i \in 1 .. Len(log) : log[i].entity \in Entities /\ log[i].rev \in Nat
      /\ \A d \in Entities : row[d].rev \in Nat /\ row[d].seq \in Nat
  BY Types
<1>2. \A i \in (m + 1) .. n : i \in 1 .. Len(log) /\ i \in Nat
  BY <1>1
<1>3. DOMAIN revs = entities /\ DOMAIN FirstBetween(m, n) = entities
  BY DEF RevsBetween, FirstBetween
<1>4. entities \subseteq Entities
  BY <1>1, <1>2
<1>5. ASSUME NEW e \in Entities, row[e].seq \in (m + 1) .. n
      PROVE  e \in entities /\ log[row[e].seq].entity = e /\ log[row[e].seq].rev = row[e].rev
  <2>1. row[e].seq # 0
    BY <1>2, <1>5
  <2>2. log[row[e].seq].entity = e /\ log[row[e].seq].rev = row[e].rev
    BY <2>1 DEF RowsOfLog
  <2> QED
    BY <1>5, <2>2
<1>6. ASSUME NEW e \in entities
      PROVE  /\ FirstBetween(m, n)[e] \in Nat
             /\ revs[e] \in Nat /\ revs[e] <= row[e].rev
             /\ row[e].seq \in (m + 1) .. n => revs[e] = row[e].rev
  <2> DEFINE S == {i \in (m + 1) .. n : log[i].entity = e}
             IsLast(r) == \E i \in (m + 1) .. n :
                            /\ log[i].entity = e /\ log[i].rev = r
                            /\ \A j \in (m + 1) .. n : log[j].entity = e => j <= i
             IsFirst(i) == log[i].entity = e /\ \A j \in (m + 1) .. n : log[j].entity = e => i <= j
  <2>1. S \in SUBSET ((m + 1) .. n) /\ S # {} /\ m + 1 \in Nat
    OBVIOUS
  <2>2. PICK last \in S : \A k \in S : k <= last
    BY <2>1, Last
  <2>3. PICK first \in S : \A k \in S : first <= k
    BY <2>1, First
  <2>4. revs[e] = CHOOSE r \in {log[i].rev : i \in (m + 1) .. n} : IsLast(r)
    BY DEF RevsBetween
  <2>5. FirstBetween(m, n)[e] = CHOOSE i \in (m + 1) .. n : IsFirst(i)
    BY DEF FirstBetween
  <2>6. log[last].rev \in {log[i].rev : i \in (m + 1) .. n} /\ IsLast(log[last].rev)
    BY <2>2
  <2>7. first \in (m + 1) .. n /\ IsFirst(first)
    BY <2>3
  <2> HIDE DEF IsLast, IsFirst
  <2>8. IsLast(revs[e])
    BY <2>4, <2>6, Zenon
  <2>9. FirstBetween(m, n)[e] \in (m + 1) .. n
    BY <2>5, <2>7, Zenon
  <2>10. PICK i \in (m + 1) .. n :
           /\ log[i].entity = e /\ log[i].rev = revs[e]
           /\ \A j \in (m + 1) .. n : log[j].entity = e => j <= i
    BY <2>8 DEF IsLast
  <2>11. i \in 1 .. Len(log) /\ e \in Entities
    BY <1>2, <1>4
  <2>12. i <= row[e].seq /\ revs[e] <= row[e].rev
    BY <2>10, <2>11 DEF RowsOfLog
  <2>13. ASSUME row[e].seq \in (m + 1) .. n PROVE revs[e] = row[e].rev
    <3>1. log[row[e].seq].entity = e /\ log[row[e].seq].rev = row[e].rev
      BY <1>5, <2>11, <2>13
    <3>2. row[e].seq <= i
      BY <2>10, <2>13, <3>1
    <3>3. row[e].seq = i
      BY <1>1, <2>11, <2>12, <3>2
    <3> QED
      BY <2>10, <3>1, <3>3
  <2>14. revs[e] \in Nat
    BY <1>1, <2>10, <2>11
  <2> QED
    BY <1>2, <2>9, <2>12, <2>13, <2>14
<1> HIDE DEF entities, revs
<1>7. \A e \in Entities : row[e].seq \in (m + 1) .. n => e \in entities
  BY <1>5
<1> QED
  BY <1>3, <1>4, <1>6, <1>7 DEF entities, revs, ChangedBetween

-----------------------------------------------------------------------------
(* The tables of the server and the device's database stay.                 *)
LEMMA TablesStay ==
  ASSUME IInv, UNCHANGED <<log, row, local, boot, cursor>>
  PROVE  RowsOfLog' /\ ReplicaInv'
BY DEF IInv, RowsOfLog, ReplicaInv, Held, HeldUpTo, HeldSnapshot

(* A run begins, or is over: nothing is claimed of its page.                *)
LEMMA run_lockedIInv == IInv /\ run_locked => IInv'
<1> SUFFICES ASSUME IInv, run_locked PROVE IInv'
  OBVIOUS
<1>1. UNCHANGED <<log, row, acked, acks, local, boot, cursor, faults>>
  BY DEF run_locked, server, acknowledgement, database
<1>2. RowsOfLog' /\ ReplicaInv'
  BY <1>1, TablesStay
<1>3. TypeOK' /\ PageInv' /\ AckCovered'
  BY <1>1, BoundAssumption DEF IInv, run_locked, TypeOK, PageInv, AckCovered, NoPage, Phases
<1> QED
  BY <1>2, <1>3 DEF IInv

(* A run that breaks off keeps the invariant.                              *)
LEMMA FaultIInv == IInv /\ Fault => IInv'
<1> SUFFICES ASSUME IInv, Fault PROVE IInv'
  OBVIOUS
<1>1. UNCHANGED <<log, row, acked, acks, local, boot, cursor>>
  BY DEF Fault, server, acknowledgement, database
<1>2. RowsOfLog' /\ ReplicaInv'
  BY <1>1, TablesStay
<1>3. TypeOK' /\ PageInv' /\ AckCovered'
  BY <1>1, BoundAssumption DEF IInv, Fault, TypeOK, PageInv, AckCovered, NoPage, Phases
<1> QED
  BY <1>2, <1>3 DEF IInv

(* A bootstrap that goes on has the rows its persisted position claims.     *)
LEMMA run_bootstrapIInv == IInv /\ run_bootstrap => IInv'
<1> SUFFICES ASSUME IInv, run_bootstrap PROVE IInv'
  OBVIOUS
<1>1. UNCHANGED <<log, row, acked, acks, local, boot, cursor, faults>> /\ pc = "bootstrap"
  BY DEF run_bootstrap, server, acknowledgement, database
<1>2. RowsOfLog' /\ ReplicaInv'
  BY <1>1, TablesStay
<1>3. AckCovered'
  BY <1>1 DEF IInv, AckCovered
<1>4. pages \in Nat /\ boot.phase \in {"required", "cursor", "complete"} /\ boot.snapshot \in Nat /\ boot.after \in Nat
  BY DEF IInv, TypeOK
<1>5. ASSUME UNCHANGED page, pages' \in Nat, pages' <= MaxPages, pc' \in {"idle", "pull", "snapshot"},
             pc' = "pull" => boot.phase = "complete", pc' = "snapshot" => boot.phase # "complete" /\ pages' < MaxPages
      PROVE  IInv'
  <2>1. TypeOK'
    BY <1>1, <1>5 DEF IInv, TypeOK, Phases
  <2>2. PageInv'
    BY <1>1, <1>5 DEF PageInv
  <2> QED
    BY <1>2, <1>3, <2>1, <2>2 DEF IInv
<1>6. ASSUME boot.phase = "complete", pc' = "pull", pages' = 0, UNCHANGED page
      PROVE  IInv'
  BY <1>5, <1>6, BoundAssumption
<1>7. ASSUME boot.phase # "complete", pc' = "snapshot", pages < MaxPages, UNCHANGED <<page, pages>>
      PROVE  IInv'
  BY <1>4, <1>5, <1>7, BoundAssumption
<1>8. CASE /\ pages < MaxPages /\ boot.phase = "cursor" /\ pc' = "rows" /\ UNCHANGED pages
           /\ page' = [NoPage EXCEPT !.snapshot = boot.snapshot, !.end = boot.after]
  <2>1. page'.snapshot = boot.snapshot /\ page'.end = boot.after
    BY <1>8 DEF NoPage
  <2>2. TypeOK'
    BY <1>1, <1>4, <1>8 DEF IInv, TypeOK, Phases, NoPage
  <2>3. boot.snapshot <= Len(log) /\ HeldSnapshot(boot.snapshot, boot.after)
    BY <1>8 DEF IInv, ReplicaInv
  <2>4. HeldSnapshot(page.snapshot, page.end)'
    BY <1>1, <2>1, <2>3 DEF HeldSnapshot, Held
  <2>5. PageInv'
    BY <1>1, <1>4, <1>8, <2>1, <2>3, <2>4, BoundAssumption DEF PageInv
  <2> QED
    BY <1>2, <1>3, <2>2, <2>5 DEF IInv
<1>9. CASE pages = MaxPages /\ pc' = "idle" /\ UNCHANGED <<page, pages>>
  BY <1>4, <1>5, <1>9, BoundAssumption
<1> QED
  BY <1>6, <1>7, <1>8, <1>9 DEF run_bootstrap

(* So does the start of a bootstrap,                                       *)
LEMMA bootstrapSnapshotIInv == IInv /\ bootstrapSnapshot => IInv'
<1> SUFFICES ASSUME IInv, bootstrapSnapshot PROVE IInv'
  OBVIOUS
<1>1. UNCHANGED <<log, row, acked, acks, local, boot, cursor, pages, faults>>
  BY DEF bootstrapSnapshot, server, acknowledgement, database
<1>2. RowsOfLog' /\ ReplicaInv' /\ AckCovered'
  BY <1>1, TablesStay DEF IInv, AckCovered
<1>3. Len(log) \in Nat
  BY Types DEF IInv
<1>4. /\ page' = [NoPage EXCEPT !.snapshot = Len(log)] /\ pc = "snapshot" /\ pc' = "rows"
      /\ page'.snapshot = Len(log) /\ page'.end = 0
  BY DEF bootstrapSnapshot, NoPage
<1>5. TypeOK'
  BY <1>1, <1>3, <1>4 DEF IInv, TypeOK, NoPage, Phases
<1>6. HeldSnapshot(page.snapshot, page.end)'
  BY <1>4, RankAssumption DEF HeldSnapshot
<1>7. PageInv'
  BY <1>1, <1>3, <1>4, <1>6 DEF IInv, PageInv
<1> QED
  BY <1>2, <1>5, <1>7 DEF IInv

(* Rows are taken in the order of their places: up to the end of the page,  *)
(* or all of them if it is the last one, every row of the snapshot was held *)
(* before or is on the page.                                                *)
LEMMA bootstrapRowsIInv == IInv /\ bootstrapRows => IInv'
<1> SUFFICES ASSUME IInv, bootstrapRows PROVE IInv'
  OBVIOUS
<1>1. UNCHANGED <<log, row, acked, acks, local, boot, cursor, pages, faults>> /\ pc = "rows" /\ pc' = "applyBootstrap"
  BY DEF bootstrapRows, server, acknowledgement, database
<1>2. RowsOfLog' /\ ReplicaInv' /\ AckCovered'
  BY <1>1, TablesStay DEF IInv, AckCovered
<1> DEFINE all == Selected(page.snapshot, page.end)
<1>3. PICK first \in SUBSET all :
        /\ IsPageOf(first, all)
        /\ \E end \in {page.end} \cup {Rank[e] : e \in first} :
             /\ \A e \in first : Rank[e] <= end
             /\ first # {} => end \in {Rank[e] : e \in first}
             /\ page' = [revs |-> [e \in first |-> row[e].rev],
                         order |-> [e \in first |-> Rank[e]],
                         end |-> end, snapshot |-> page.snapshot, more |-> first # all]
  BY DEF bootstrapRows
<1>4. PICK end \in {page.end} \cup {Rank[e] : e \in first} :
        /\ \A e \in first : Rank[e] <= end
        /\ first # {} => end \in {Rank[e] : e \in first}
        /\ page' = [revs |-> [e \in first |-> row[e].rev],
                    order |-> [e \in first |-> Rank[e]],
                    end |-> end, snapshot |-> page.snapshot, more |-> first # all]
  BY <1>3
<1>5. /\ \A e \in Entities : row[e].rev \in Nat /\ row[e].seq \in Nat /\ Rank[e] \in Nat
      /\ page.end \in Nat /\ page.snapshot \in Nat
  BY RankAssumption, Types DEF IInv, TypeOK
<1>6. all \subseteq Entities /\ first \subseteq Entities /\ end \in Nat
  BY <1>5 DEF Selected
<1>7. /\ DOMAIN page'.revs = first /\ DOMAIN page'.order = first /\ page'.end = end
      /\ page'.snapshot = page.snapshot /\ page'.more = (first # all)
      /\ \A e \in first : page'.revs[e] = row[e].rev /\ page'.order[e] = Rank[e]
  BY <1>4
<1>8. TypeOK'
  BY <1>1, <1>5, <1>6, <1>7 DEF IInv, TypeOK, Phases
<1>9. Truthful'
  BY <1>1, <1>5, <1>6, <1>7 DEF Truthful
<1>10. page.snapshot <= Len(log) /\ HeldSnapshot(page.snapshot, page.end)
  BY <1>1 DEF IInv, PageInv
<1>11. ASSUME NEW e \in Entities, row[e].seq \in 1 .. page.snapshot, first # all => Rank[e] <= end
       PROVE  Brought(e)'
  <2>1. CASE Rank[e] <= page.end
    BY <1>1, <1>10, <1>11, <2>1 DEF HeldSnapshot, Brought, Held
  <2>2. CASE Rank[e] > page.end
    <3>1. e \in all
      BY <1>5, <1>11, <2>2 DEF Selected
    <3>2. first # {}
      BY <1>3, <3>1 DEF IsPageOf
    <3>3. PICK d \in first : end = Rank[d]
      BY <1>4, <3>2
    <3>4. e \in first
      <4>1. CASE first = all
        BY <3>1, <4>1
      <4>2. CASE Rank[e] < Rank[d]
        BY <1>3, <3>1, <4>2 DEF IsPageOf
      <4>3. CASE Rank[e] = Rank[d]
        BY <1>6, <4>3, RankAssumption
      <4> QED
        BY <1>5, <1>6, <1>11, <3>3, <4>1, <4>2, <4>3
    <3> QED
      BY <1>1, <1>7, <3>4 DEF Brought
  <2> QED
    BY <1>5, <2>1, <2>2
<1>12. PageInv'
  <2>1. boot.phase # "complete" /\ pages < MaxPages /\ pages \in Nat /\ MaxPages \in Nat
    BY <1>1, BoundAssumption DEF IInv, PageInv, TypeOK
  <2>2. ASSUME NEW e \in Entities, row'[e].seq \in 1 .. page'.snapshot, page'.more => Rank[e] <= page'.end
        PROVE  Brought(e)'
    <3>1. row[e].seq \in 1 .. page.snapshot
      BY <1>1, <1>7, <2>2
    <3>2. first # all => Rank[e] <= end
      BY <1>7, <2>2
    <3> QED
      BY <1>11, <3>1, <3>2
  <2>3. page'.snapshot <= Len(log')
    BY <1>1, <1>7, <1>10
  <2> QED
    BY <1>1, <1>9, <2>1, <2>2, <2>3 DEF PageInv
<1> QED
  BY <1>2, <1>8, <1>12 DEF IInv

-----------------------------------------------------------------------------
(* Applying a page takes no revision back and goes beyond none of the       *)
(* server's; what the page brought is held.                                 *)
LEMMA Applied ==
  ASSUME IInv, Truthful, local' = applyRemote, UNCHANGED <<log, row>>
  PROVE  /\ local' \in [Entities -> Nat]
         /\ \A e \in Entities : local[e] <= local'[e] /\ local'[e] <= row[e].rev
         /\ \A e \in Entities : Brought(e) => Held(e)'
<1>1. /\ \A e \in Entities : row[e].rev \in Nat /\ local[e] \in Nat /\ local[e] <= row[e].rev
      /\ \A e \in DOMAIN page.revs : e \in Entities /\ page.revs[e] \in Nat /\ page.revs[e] <= row[e].rev
  BY Types DEF IInv, TypeOK, ReplicaInv, Truthful
<1>2. \A e \in Entities : local'[e] = IF e \in DOMAIN page.revs /\ page.revs[e] > local[e]
                                     THEN page.revs[e] ELSE local[e]
  BY DEF applyRemote, IsNew
<1>3. local' \in [Entities -> Nat]
  BY <1>1, <1>2 DEF applyRemote, IsNew
<1>4. \A e \in Entities : local[e] <= local'[e] /\ local'[e] <= row[e].rev
  BY <1>1, <1>2
<1>5. ASSUME NEW e \in Entities, Brought(e) PROVE Held(e)'
  BY <1>1, <1>2, <1>5 DEF Brought, Held
<1> QED
  BY <1>3, <1>4, <1>5

(* The last page of a bootstrap completes the snapshot; the cursor starts   *)
(* where the snapshot ends.                                                 *)
LEMMA apply_bootstrap_pageIInv == IInv /\ apply_bootstrap_page => IInv'
<1> SUFFICES ASSUME IInv, apply_bootstrap_page PROVE IInv'
  OBVIOUS
<1>1. UNCHANGED <<log, row, acked, acks, page, faults>> /\ pc = "applyBootstrap"
  BY DEF apply_bootstrap_page, server, acknowledgement
<1>2. /\ TypeOK /\ RowsOfLog /\ AckCovered /\ boot.phase # "complete" /\ cursor = 0
      /\ pages < MaxPages /\ MaxPages \in Nat \ {0} /\ pages \in Nat
      /\ page.snapshot <= Len(log) /\ Truthful
      /\ \A e \in Entities :
           row[e].seq \in 1 .. page.snapshot /\ (page.more => Rank[e] <= page.end) => Brought(e)
  BY <1>1, BoundAssumption DEF IInv, PageInv, ReplicaInv, TypeOK
<1>3. /\ Len(log) \in Nat /\ page.snapshot \in Nat /\ page.end \in Nat /\ page.more \in BOOLEAN
      /\ \A e \in Entities : row[e].seq \in Nat /\ row[e].rev \in Nat /\ local[e] \in Nat
  BY <1>2, Types DEF TypeOK
<1>4. RowsOfLog'
  BY <1>1, <1>2 DEF RowsOfLog
<1>5. CASE ~ForeignKeysHold
  <2>1. pc' = "idle" /\ UNCHANGED <<local, boot, cursor, pages>>
    BY <1>5 DEF apply_bootstrap_page, database
  <2>2. ReplicaInv'
    BY <1>1, <2>1, TablesStay
  <2>3. TypeOK' /\ PageInv' /\ AckCovered'
    BY <1>1, <1>2, <2>1 DEF TypeOK, PageInv, AckCovered, Phases
  <2> QED
    BY <1>4, <2>2, <2>3 DEF IInv
<1>6. CASE ForeignKeysHold
  <2>1. /\ local' = applyRemote /\ boot' = nextBootstrapState /\ cursor' = cursorAfterBootstrap
        /\ pc' = IF page.more THEN "bootstrap" ELSE "ack"
        /\ pages' = IF page.more THEN pages + 1 ELSE 0
    BY <1>6 DEF apply_bootstrap_page
  <2>2. /\ local' \in [Entities -> Nat]
        /\ \A e \in Entities : local'[e] <= row[e].rev /\ (Brought(e) => Held(e)')
    BY <1>1, <1>2, <2>1, Applied
  <2>3. cursor' = IF page.more THEN 0 ELSE page.snapshot
    BY <1>2, <1>3, <2>1 DEF cursorAfterBootstrap
  <2>4. boot' = IF page.more THEN Continue(page.snapshot, page.end) ELSE Complete
    BY <2>1 DEF nextBootstrapState
  <2>5. TypeOK'
    <3>1. cursor' \in 0 .. Len(log') /\ pc' \in Phases /\ pages' \in Nat
      BY <1>1, <1>2, <1>3, <2>1, <2>3 DEF Phases
    <3>2. boot' \in [phase : {"required", "cursor", "complete"}, snapshot : Nat, after : Nat]
      BY <1>3, <2>4 DEF Continue, Complete
    <3> QED
      BY <1>1, <1>2, <2>2, <3>1, <3>2 DEF TypeOK
  <2>6. AckCovered'
    <3>1. cursor <= cursor' /\ cursor' \in Nat /\ acked \in Nat /\ \A c \in acks : c \in Nat
      BY <1>2, <1>3, <2>3 DEF TypeOK
    <3> QED
      BY <1>1, <1>2, <3>1 DEF AckCovered
  <2>7. CASE page.more
    <3>1. /\ boot'.phase = "cursor" /\ boot'.snapshot = page.snapshot /\ boot'.after = page.end
          /\ cursor' = 0 /\ pc' = "bootstrap" /\ pages' = pages + 1
      BY <2>1, <2>3, <2>4, <2>7 DEF Continue
    <3>2. ASSUME NEW e \in Entities, row'[e].seq \in 1 .. boot'.snapshot, Rank[e] <= boot'.after
          PROVE  Held(e)'
      BY <1>1, <1>2, <2>2, <3>1, <3>2
    <3>3. ReplicaInv'
      BY <1>1, <1>2, <2>2, <3>1, <3>2 DEF ReplicaInv, HeldSnapshot
    <3>4. PageInv'
      BY <1>2, <3>1 DEF PageInv
    <3> QED
      BY <1>4, <2>5, <2>6, <3>3, <3>4 DEF IInv
  <2>8. CASE ~page.more
    <3>1. /\ boot'.phase = "complete" /\ cursor' = page.snapshot /\ pc' = "ack" /\ pages' = 0
      BY <2>1, <2>3, <2>4, <2>8 DEF Complete
    <3>2. ASSUME NEW e \in Entities, row[e].seq <= page.snapshot
          PROVE  Held(e)'
      <4>1. CASE row[e].seq = 0
        <5>1. row[e].rev = 0
          BY <1>2, <4>1 DEF RowsOfLog
        <5> QED
          BY <1>1, <1>3, <2>2, <5>1 DEF Held, TypeOK
      <4>2. CASE row[e].seq # 0
        BY <1>2, <1>3, <2>2, <2>8, <3>2, <4>2
      <4> QED
        BY <4>1, <4>2
    <3>3. ReplicaInv'
      BY <1>1, <2>2, <3>1, <3>2 DEF ReplicaInv, HeldUpTo
    <3>4. PageInv'
      BY <1>1, <1>2, <1>3, <3>1 DEF PageInv, pageCursor
    <3> QED
      BY <1>4, <2>5, <2>6, <3>3, <3>4 DEF IInv
  <2> QED
    BY <1>3, <2>7, <2>8
<1> QED
  BY <1>5, <1>6

(* A run that has used up its pages is over.                                *)
LEMMA pull_remoteIInv == IInv /\ pull_remote => IInv'
<1> SUFFICES ASSUME IInv, pull_remote PROVE IInv'
  OBVIOUS
<1>1. UNCHANGED <<log, row, acked, acks, local, boot, cursor, page, pages, faults>>
  BY DEF pull_remote, server, acknowledgement, database
<1>2. RowsOfLog' /\ ReplicaInv' /\ AckCovered'
  BY <1>1, TablesStay DEF IInv, AckCovered
<1>3. pages \in Nat /\ MaxPages \in Nat /\ pages <= MaxPages /\ pc = "pull" /\ boot.phase = "complete"
  BY BoundAssumption DEF IInv, TypeOK, PageInv, pull_remote
<1>4. pc' = "idle" \/ (pc' = "changes" /\ pages < MaxPages)
  BY <1>3 DEF pull_remote
<1>5. TypeOK' /\ PageInv'
  BY <1>1, <1>3, <1>4 DEF IInv, TypeOK, PageInv, Phases
<1> QED
  BY <1>2, <1>5 DEF IInv

(* A pulled page brings the last revision of every row whose last change is *)
(* in it.                                                                   *)
LEMMA pullChangesIInv == IInv /\ pullChanges => IInv'
<1> SUFFICES ASSUME IInv, pullChanges PROVE IInv'
  OBVIOUS
<1>1. UNCHANGED <<log, row, acked, acks, local, boot, cursor, pages, faults>> /\ pc = "changes" /\ pc' = "applyPull"
  BY DEF pullChanges, server, acknowledgement, database
<1>2. RowsOfLog' /\ ReplicaInv' /\ AckCovered'
  BY <1>1, TablesStay DEF IInv, AckCovered
<1>3. TypeOK /\ RowsOfLog /\ Len(log) \in Nat /\ cursor \in Nat
  BY Types DEF IInv
<1>4. PICK n \in cursor .. Len(log) :
        page' = [revs |-> RevsBetween(cursor, n), order |-> FirstBetween(cursor, n),
                 end |-> n, snapshot |-> 0, more |-> n < Len(log)]
  BY DEF pullChanges
<1>5. n \in Nat /\ n <= Len(log)
  BY <1>3
<1> DEFINE entities == ChangedBetween(cursor, n)
<1>6. /\ page'.revs = RevsBetween(cursor, n) /\ page'.order = FirstBetween(cursor, n)
      /\ page'.end = n /\ page'.snapshot = 0 /\ page'.more \in BOOLEAN
  BY <1>4
<1>7. /\ DOMAIN page'.revs = entities /\ entities \subseteq Entities /\ DOMAIN page'.order = entities
      /\ \A e \in entities : /\ page'.order[e] \in Nat
                             /\ page'.revs[e] \in Nat /\ page'.revs[e] <= row[e].rev
                             /\ row[e].seq \in (cursor + 1) .. n => page'.revs[e] = row[e].rev
      /\ \A e \in Entities : row[e].seq \in (cursor + 1) .. n => e \in entities
  <2> DEFINE revs == RevsBetween(cursor, n)
             order == FirstBetween(cursor, n)
  <2>1. /\ DOMAIN revs = entities /\ DOMAIN order = entities /\ entities \subseteq Entities
        /\ \A e \in entities : /\ order[e] \in Nat
                               /\ revs[e] \in Nat /\ revs[e] <= row[e].rev
                               /\ row[e].seq \in (cursor + 1) .. n => revs[e] = row[e].rev
        /\ \A e \in Entities : row[e].seq \in (cursor + 1) .. n => e \in entities
    BY <1>3, <1>5, Stretch
  <2>2. page'.revs = revs /\ page'.order = order
    BY <1>6
  <2> HIDE DEF revs, order, entities
  <2> QED
    BY <2>1, <2>2
<1> HIDE DEF entities
<1>8. TypeOK'
  BY <1>1, <1>3, <1>5, <1>6, <1>7 DEF TypeOK, Phases
<1>9. Truthful'
  BY <1>1, <1>7 DEF Truthful
<1>10. ASSUME NEW e \in Entities, row[e].seq \in (cursor + 1) .. n PROVE Brought(e)'
  BY <1>1, <1>7, <1>10 DEF Brought
<1>11. PageInv'
  <2>1. boot.phase = "complete" /\ pages < MaxPages /\ pages \in Nat /\ MaxPages \in Nat
    BY <1>1, BoundAssumption DEF IInv, PageInv, TypeOK
  <2>2. page'.end \in cursor' .. Len(log')
    BY <1>1, <1>6
  <2>3. \A e \in Entities : row'[e].seq \in (cursor' + 1) .. page'.end => Brought(e)'
    BY <1>1, <1>6, <1>10
  <2> QED
    BY <1>1, <1>9, <2>1, <2>2, <2>3 DEF PageInv
<1> QED
  BY <1>2, <1>8, <1>11 DEF IInv

(* With the page, the device holds what was last changed up to its end.     *)
LEMMA apply_pull_pageIInv == IInv /\ apply_pull_page => IInv'
<1> SUFFICES ASSUME IInv, apply_pull_page PROVE IInv'
  OBVIOUS
<1>1. UNCHANGED <<log, row, acked, acks, page, faults>> /\ pc = "applyPull"
  BY DEF apply_pull_page, server, acknowledgement
<1>2. /\ TypeOK /\ RowsOfLog /\ AckCovered /\ boot.phase = "complete" /\ HeldUpTo(cursor)
      /\ pages < MaxPages /\ MaxPages \in Nat \ {0} /\ pages \in Nat
      /\ page.end \in cursor .. Len(log) /\ Truthful
      /\ \A e \in Entities : row[e].seq \in (cursor + 1) .. page.end => Brought(e)
  BY <1>1, BoundAssumption DEF IInv, PageInv, ReplicaInv, TypeOK
<1>3. /\ Len(log) \in Nat /\ page.end \in Nat /\ cursor \in Nat
      /\ \A e \in Entities : row[e].seq \in Nat /\ row[e].rev \in Nat /\ local[e] \in Nat
  BY <1>2, Types DEF TypeOK
<1>4. RowsOfLog'
  BY <1>1, <1>2 DEF RowsOfLog
<1>5. CASE ~ForeignKeysHold
  <2>1. pc' = "idle" /\ UNCHANGED <<local, boot, cursor, pages>>
    BY <1>5 DEF apply_pull_page, database
  <2>2. ReplicaInv'
    BY <1>1, <2>1, TablesStay
  <2>3. TypeOK' /\ PageInv' /\ AckCovered'
    BY <1>1, <1>2, <2>1 DEF TypeOK, PageInv, AckCovered, Phases
  <2> QED
    BY <1>4, <2>2, <2>3 DEF IInv
<1>6. CASE ForeignKeysHold
  <2>1. local' = applyRemote /\ cursor' = page.end /\ pc' = "ack" /\ pages' = pages + 1 /\ boot' = boot
    BY <1>6 DEF apply_pull_page
  <2>2. /\ local' \in [Entities -> Nat]
        /\ \A e \in Entities : /\ local[e] <= local'[e] /\ local'[e] <= row[e].rev
                               /\ Brought(e) => Held(e)'
    BY <1>1, <1>2, <2>1, Applied
  <2>3. TypeOK'
    <3>1. cursor' \in 0 .. Len(log') /\ pc' \in Phases /\ pages' \in Nat
      BY <1>1, <1>2, <1>3, <2>1 DEF Phases
    <3> QED
      BY <1>1, <1>2, <2>1, <2>2, <3>1 DEF TypeOK
  <2>4. AckCovered'
    <3>1. cursor <= cursor' /\ acked \in Nat /\ \A c \in acks : c \in Nat
      BY <1>2, <1>3, <2>1 DEF TypeOK
    <3> QED
      BY <1>1, <1>2, <1>3, <2>1, <3>1 DEF AckCovered
  <2>5. ASSUME NEW e \in Entities, row[e].seq <= page.end PROVE Held(e)'
    <3>1. CASE row[e].seq <= cursor
      <4>1. local[e] = row[e].rev
        BY <1>2, <3>1 DEF HeldUpTo, Held
      <4>2. local[e] <= local'[e] /\ local'[e] <= row[e].rev /\ local'[e] \in Nat
        BY <2>2
      <4>3. local'[e] = row[e].rev
        BY <1>3, <4>1, <4>2
      <4> QED
        BY <1>1, <4>3 DEF Held
    <3>2. CASE row[e].seq > cursor
      <4>1. row[e].seq \in (cursor + 1) .. page.end
        BY <1>3, <2>5, <3>2
      <4>2. Brought(e)
        BY <1>2, <4>1
      <4> QED
        BY <2>2, <4>2
    <3> QED
      BY <1>3, <3>1, <3>2
  <2>6. ReplicaInv'
    <3>1. \A e \in Entities : local'[e] <= row'[e].rev
      BY <1>1, <2>2
    <3>2. HeldUpTo(cursor)'
      BY <1>1, <2>1, <2>5 DEF HeldUpTo
    <3> QED
      BY <1>2, <2>1, <3>1, <3>2 DEF ReplicaInv
  <2>7. PageInv'
    BY <1>1, <1>2, <1>3, <2>1 DEF PageInv, pageCursor
  <2> QED
    BY <1>4, <2>3, <2>4, <2>6, <2>7 DEF IInv
<1> QED
  BY <1>5, <1>6

-----------------------------------------------------------------------------
(* The device sends, receives or misses the answer to, an ack of the page   *)
(* it has committed.                                                        *)
LEMMA ack_cursorIInv == IInv /\ ack_cursor => IInv'
<1> SUFFICES ASSUME IInv, ack_cursor PROVE IInv'
  OBVIOUS
<1>1. UNCHANGED <<log, row, acked, local, boot, cursor, page, pages, faults>> /\ pc = "ack" /\ pc' = "acking"
  BY DEF ack_cursor, server, database
<1>2. acks' = acks \cup {pageCursor} /\ pageCursor <= cursor /\ pageCursor \in Nat
  BY <1>1 DEF ack_cursor, IInv, PageInv, TypeOK, pageCursor
<1>3. RowsOfLog' /\ ReplicaInv'
  BY <1>1, TablesStay
<1>4. TypeOK' /\ AckCovered'
  BY <1>1, <1>2 DEF IInv, TypeOK, AckCovered, Phases
<1>5. PageInv'
  BY <1>1, <1>2 DEF IInv, PageInv, pageCursor
<1> QED
  BY <1>3, <1>4, <1>5 DEF IInv

(* An ack arrives, or never does: the run that waits for it goes on or ends.*)
LEMMA AckGone ==
  ASSUME IInv, UNCHANGED <<log, row, local, boot, cursor, page, pages>>,
         acks' \subseteq acks, acked' \in acks \cup {acked}, faults' \in Nat,
         \/ pc' = pc
         \/ pc = "acking" /\ pc' \in {"idle", "pull"}
  PROVE  IInv'
<1>1. RowsOfLog' /\ ReplicaInv'
  BY TablesStay
<1>2. TypeOK' /\ AckCovered'
  BY DEF IInv, TypeOK, AckCovered, Phases
<1>3. PageInv'
  <2>1. TypeOK /\ PageInv
    BY DEF IInv
  <2>2. pageCursor' = pageCursor /\ (Truthful' <=> Truthful) /\ \A e \in Entities : Brought(e)' <=> Brought(e)
    BY DEF pageCursor, Truthful, Brought, Held
  <2>3. CASE pc' = pc
    BY <2>1, <2>2, <2>3 DEF PageInv, HeldSnapshot, Held
  <2>4. CASE pc = "acking" /\ pc' \in {"idle", "pull"}
    BY <2>1, <2>4 DEF PageInv
  <2> QED
    BY <2>3, <2>4
<1> QED
  BY <1>1, <1>2, <1>3 DEF IInv

(* an acknowledgement that arrives,                                        *)
LEMMA ackIInv == ASSUME IInv, NEW c \in acks, ack(c) PROVE IInv'
<1>1. UNCHANGED <<log, row, local, boot, cursor, page, pages, faults>>
  BY DEF ack, server, database
<1>2. acks' \subseteq acks /\ acked' \in acks \cup {acked}
  BY DEF ack, storedAck
<1>3. \/ pc' = pc
      \/ pc = "acking" /\ pc' \in {"idle", "pull"}
  BY DEF ack, afterAck
<1>4. faults' \in Nat
  BY <1>1 DEF IInv, TypeOK
<1> QED
  BY <1>1, <1>2, <1>3, <1>4, AckGone

(* and one that is lost.                                                   *)
LEMMA LoseAckIInv == IInv /\ LoseAck => IInv'
<1> SUFFICES ASSUME IInv, LoseAck PROVE IInv'
  OBVIOUS
<1>1. UNCHANGED <<log, row, acked, local, boot, cursor, page, pages>>
  BY DEF LoseAck, server, database
<1>2. acks' \subseteq acks /\ acked' \in acks \cup {acked} /\ faults' \in Nat
  BY <1>1 DEF LoseAck, IInv, TypeOK
<1>3. \/ pc' = pc
      \/ pc = "acking" /\ pc' \in {"idle", "pull"}
  BY DEF LoseAck
<1> QED
  BY <1>1, <1>2, <1>3, AckGone

(* Every step preserves the inductive invariant.                            *)
LEMMA NextIInv == IInv /\ [Next]_vars => IInv'
<1> SUFFICES ASSUME IInv, [Next]_vars PROVE IInv'
  OBVIOUS
<1>1. ASSUME NEW e \in Entities, Commit(e) PROVE IInv'
  BY <1>1, CommitIInv
<1>2. CASE run_locked
  BY <1>2, run_lockedIInv
<1>3. CASE run_bootstrap
  BY <1>3, run_bootstrapIInv
<1>4. CASE bootstrapSnapshot
  BY <1>4, bootstrapSnapshotIInv
<1>5. CASE bootstrapRows
  BY <1>5, bootstrapRowsIInv
<1>6. CASE apply_bootstrap_page
  BY <1>6, apply_bootstrap_pageIInv
<1>7. CASE pull_remote
  BY <1>7, pull_remoteIInv
<1>8. CASE pullChanges
  BY <1>8, pullChangesIInv
<1>9. CASE apply_pull_page
  BY <1>9, apply_pull_pageIInv
<1>10. CASE ack_cursor
  BY <1>10, ack_cursorIInv
<1>11. ASSUME NEW c \in acks, ack(c) PROVE IInv'
  BY <1>11, ackIInv
<1>12. CASE Fault
  BY <1>12, FaultIInv
<1>13. CASE LoseAck
  BY <1>13, LoseAckIInv
<1>14. CASE UNCHANGED vars
  <2>1. UNCHANGED <<log, row, acked, acks, local, boot, cursor, pc, page, pages, faults>>
    BY <1>14 DEF vars, server, acknowledgement, database, run
  <2>2. acks' \subseteq acks /\ acked' \in acks \cup {acked} /\ faults' \in Nat
    BY <2>1 DEF IInv, TypeOK
  <2> QED
    BY <2>1, <2>2, AckGone
<1> QED
  BY <1>1, <1>2, <1>3, <1>4, <1>5, <1>6, <1>7, <1>8, <1>9, <1>10, <1>11, <1>12, <1>13, <1>14 DEF Next, Device

(* The inductive invariant holds in every reachable state.                  *)
THEOREM Invariant == Spec => []IInv
<1> QED
  BY InitIInv, NextIInv, PTL DEF Spec

-----------------------------------------------------------------------------
(* What the device holds up to its cursor is the server's current row, or   *)
(* the row's last change is still to come.                                  *)
LEMMA IInvReplicaSafe == IInv => ReplicaSafe
<1> SUFFICES ASSUME IInv PROVE ReplicaSafe
  OBVIOUS
<1>1. /\ TypeOK /\ RowsOfLog /\ Len(log) \in Nat /\ DOMAIN log = 1 .. Len(log) /\ cursor \in Nat
      /\ \A i \in 1 .. Len(log) : log[i].entity \in Entities /\ log[i].rev \in Nat
      /\ \A e \in Entities : row[e].rev \in Nat /\ row[e].seq \in Nat /\ local[e] \in Nat
  BY Types DEF IInv
<1>2. NothingSkipped
  <2>1. SUFFICES ASSUME boot.phase = "complete", NEW i \in 1 .. Len(log),
                        ~(row[log[i].entity].seq > cursor)
                 PROVE  local[log[i].entity] >= log[i].rev
    BY <1>1 DEF NothingSkipped
  <2>2. log[i].entity \in Entities /\ log[i].rev <= row[log[i].entity].rev /\ log[i].rev \in Nat
    BY <1>1 DEF RowsOfLog
  <2>3. row[log[i].entity].seq <= cursor
    BY <1>1, <2>1, <2>2
  <2>4. local[log[i].entity] = row[log[i].entity].rev
    BY <2>1, <2>2, <2>3 DEF IInv, ReplicaInv, HeldUpTo, Held
  <2> QED
    BY <1>1, <2>2, <2>4
<1>3. CaughtUp
  <2>1. SUFFICES ASSUME boot.phase = "complete", cursor = Len(log), NEW e \in Entities
                 PROVE  local[e] = row[e].rev
    BY DEF CaughtUp
  <2>2. row[e].seq <= cursor
    BY <1>1, <2>1 DEF RowsOfLog
  <2> QED
    BY <2>1, <2>2 DEF IInv, ReplicaInv, HeldUpTo, Held
<1> QED
  BY <1>1, <1>2, <1>3 DEF ReplicaSafe

(* No change is skipped between the snapshot and the change stream, and a   *)
(* device that has pulled everything holds the server's rows: however pages *)
(* are cut, whatever others commit meanwhile, wherever runs are interrupted *)
(* (bootstrap and pull, apply_bootstrap_page, apply_pull_page).             *)
THEOREM ReplicaCorrect == Spec => []ReplicaSafe
<1> QED
  BY Invariant, IInvReplicaSafe, PTL

(* The server is never told of a cursor beyond the durable one (ack_cursor, *)
(* ack).                                                                    *)
THEOREM AckCorrect == Spec => []AckCovered
<1>1. IInv => AckCovered
  BY DEF IInv
<1> QED
  BY <1>1, Invariant, PTL

-----------------------------------------------------------------------------
(* No step takes a row, the cursor or the acknowledgement back.            *)
LEMMA StepForward == IInv /\ [Next]_vars => Forward
<1> SUFFICES ASSUME IInv, [Next]_vars PROVE Forward
  OBVIOUS
<1>1. /\ \A e \in Entities : local[e] \in Nat
      /\ cursor \in Nat /\ acked \in Nat /\ \A c \in acks : c \in Nat
  BY Types DEF IInv, TypeOK
<1>2. ASSUME UNCHANGED database, acked' >= acked PROVE Forward
  BY <1>1, <1>2 DEF Forward, database
<1>3. CASE UNCHANGED <<database, acked>>
  BY <1>1, <1>2, <1>3
<1>4. ASSUME NEW e \in Entities, Commit(e) PROVE Forward
  BY <1>3, <1>4 DEF Commit, acknowledgement
<1>5. CASE run_locked \/ run_bootstrap \/ bootstrapSnapshot \/ bootstrapRows \/ pull_remote \/ pullChanges
  BY <1>3, <1>5 DEF run_locked, run_bootstrap, bootstrapSnapshot, bootstrapRows, pull_remote, pullChanges, acknowledgement
<1>6. CASE ack_cursor \/ Fault \/ LoseAck
  BY <1>3, <1>6 DEF ack_cursor, Fault, LoseAck, acknowledgement
<1>7. ASSUME NEW c \in acks, ack(c) PROVE Forward
  <2>1. UNCHANGED database /\ acked' = storedAck(c)
    BY <1>7 DEF ack
  <2> QED
    BY <1>1, <1>2, <2>1 DEF storedAck
<1>8. CASE apply_bootstrap_page
  <2>1. pc = "applyBootstrap" /\ UNCHANGED <<log, row, acked>>
    BY <1>8 DEF apply_bootstrap_page, acknowledgement, server
  <2>2. Truthful /\ boot.phase # "complete" /\ page.snapshot \in Nat
    BY <2>1 DEF IInv, PageInv, TypeOK
  <2>3. CASE ForeignKeysHold
    <3>1. local' = applyRemote /\ cursor' = cursorAfterBootstrap
      BY <1>8, <2>3 DEF apply_bootstrap_page
    <3>2. \A e \in Entities : local[e] <= local'[e] /\ local'[e] \in Nat
      BY <2>1, <2>2, <3>1, Applied
    <3>3. cursor' >= cursor
      BY <1>1, <2>2, <3>1 DEF cursorAfterBootstrap
    <3> QED
      BY <1>1, <2>1, <2>2, <3>2, <3>3 DEF Forward
  <2>4. CASE ~ForeignKeysHold
    BY <1>3, <1>8, <2>1, <2>4 DEF apply_bootstrap_page
  <2> QED
    BY <2>3, <2>4
<1>9. CASE apply_pull_page
  <2>1. pc = "applyPull" /\ UNCHANGED <<log, row, acked>>
    BY <1>9 DEF apply_pull_page, acknowledgement, server
  <2>2. Truthful /\ page.end \in cursor .. Len(log)
    BY <2>1 DEF IInv, PageInv
  <2>3. CASE ForeignKeysHold
    <3>1. local' = applyRemote /\ cursor' = page.end /\ boot' = boot
      BY <1>9, <2>3 DEF apply_pull_page
    <3>2. \A e \in Entities : local[e] <= local'[e] /\ local'[e] \in Nat
      BY <2>1, <2>2, <3>1, Applied
    <3>3. cursor' >= cursor
      BY <1>1, <2>2, <3>1
    <3> QED
      BY <1>1, <2>1, <3>1, <3>2, <3>3 DEF Forward
  <2>4. CASE ~ForeignKeysHold
    BY <1>3, <1>9, <2>1, <2>4 DEF apply_pull_page
  <2> QED
    BY <2>3, <2>4
<1>10. CASE UNCHANGED vars
  BY <1>3, <1>10 DEF vars, acknowledgement
<1> QED
  BY <1>4, <1>5, <1>6, <1>7, <1>8, <1>9, <1>10 DEF Next, Device

(* No step takes back a revision, the pull cursor, the stored ack or a      *)
(* completed bootstrap (apply_remote_entity, upsert of sync_acks).          *)
THEOREM ForwardCorrect == Spec => NeverBackwards
<1>1. IInv /\ [Next]_vars => [Forward]_vars
  BY StepForward
<1> QED
  BY <1>1, Invariant, PTL DEF Spec, NeverBackwards
=============================================================================
