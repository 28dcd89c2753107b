---------------------------- MODULE SyncPushProofs ----------------------------
(****************************************************************************)
(* Proofs about SyncPush, for any devices, entities, changes, number of     *)
(* concurrent invocations and batch size.                                   *)
(****************************************************************************)
EXTENDS SyncPush, FiniteSetTheorems, TLAPS

(* A device's change has an identifier, an entity and a base revision.      *)
LEMMA BatchItem ==
  ASSUME TypeOK, NEW s \in Slots, NEW i \in OpenItems(s)
  PROVE  /\ batch[s][i] \in ChangeType
         /\ i \in DOMAIN batch[s] /\ i \in DOMAIN reply[s]
<1>1. batch[s] \in Seq(Changes) /\ i \in DOMAIN batch[s]
  BY DEF TypeOK, OpenItems
<1>2. batch[s][i] \in Changes
  BY <1>1
<1> QED
  BY <1>1, <1>2, ChangesAssumption DEF TypeOK

(* The handler counts revisions from the row, so what it reports is a number.*)
LEMMA SeenRevisionIsNat ==
  ASSUME TypeOK, NEW s \in Slots, NEW chosen \in SUBSET OpenItems(s),
         NEW i \in OpenItems(s)
  PROVE  SeenRevision(s, i, chosen) \in Nat
<1> DEFINE earlier == {j \in chosen : j < i /\ batch[s][j].entity = batch[s][i].entity}
<1>1. batch[s] \in Seq(Changes)
  BY DEF TypeOK
<1>2. DOMAIN batch[s] = 1 .. Len(batch[s]) /\ Len(batch[s]) \in Nat
  BY <1>1
<1>3. IsFiniteSet(DOMAIN batch[s])
  BY <1>2, FS_Interval
<1>4. earlier \subseteq DOMAIN batch[s]
  BY DEF OpenItems
<1>5. Cardinality(earlier) \in Nat
  BY <1>3, <1>4, FS_Subset, FS_CardinalityType
<1>6. row[batch[s][i].entity] \in RowType
  BY BatchItem DEF TypeOK, ChangeType
<1>7. row[batch[s][i].entity].rev \in Nat
  BY <1>6 DEF RowType
<1> QED
  BY <1>5, <1>7 DEF SeenRevision

(* The two statements of a change keep the tables typed.                    *)
LEMMA EntityStatementType ==
  ASSUME NEW rows \in [Entities -> RowType], NEW c \in ChangeType
  PROVE  makeEntityStatement(rows, c) \in [Entities -> RowType]
<1>1. c.entity \in Entities /\ c.id \in ChangeIds /\ c.base \in Nat
  BY DEF ChangeType
<1>2. rows[c.entity] \in RowType
  BY <1>1
<1>3. [rev |-> c.base + 1, latest |-> c.id, seq |-> rows[c.entity].seq] \in RowType
  BY <1>1, <1>2 DEF RowType
<1> QED
  BY <1>1, <1>3 DEF makeEntityStatement

(* The row of a change keeps its type when its sequence number is set.     *)
LEMMA EntityServerSeqType ==
  ASSUME NEW rows \in [Entities -> RowType], NEW c \in ChangeType, NEW n \in Nat
  PROVE  setEntityServerSeq(rows, c, n) \in [Entities -> RowType]
<1>1. c.entity \in Entities
  BY DEF ChangeType
<1>2. rows[c.entity] \in RowType
  BY <1>1
<1>3. [rev |-> rows[c.entity].rev, latest |-> rows[c.entity].latest, seq |-> n] \in RowType
  BY <1>2 DEF RowType
<1> QED
  BY <1>1, <1>3 DEF setEntityServerSeq

(* The verdicts on a batch are of the declared type.                        *)
LEMMA VerdictTypes ==
  ASSUME NEW n \in Nat, NEW rev \in Nat
  PROVE  Open \in VerdictType /\ Accepted(n, rev) \in VerdictType /\ Conflict(rev) \in VerdictType
BY DEF Open, Accepted, Conflict, VerdictType

(* Deciding one item of a reply keeps replies typed and of the same length. *)
LEMMA DecideType ==
  ASSUME TypeOK, NEW s \in Slots, NEW i \in OpenItems(s), NEW v \in VerdictType,
         decide(s, i, v)
  PROVE  /\ reply' \in [Slots -> Seq(VerdictType)]
         /\ \A t \in Slots : DOMAIN reply'[t] = DOMAIN reply[t]
<1> DEFINE new == [reply[s] EXCEPT ![i] = v]
<1>1. i \in DOMAIN reply[s] /\ reply[s] \in Seq(VerdictType)
  BY BatchItem DEF TypeOK
<1>2. new \in Seq(VerdictType) /\ DOMAIN new = DOMAIN reply[s]
  BY <1>1
<1>3. reply' = [reply EXCEPT ![s] = new]
  BY DEF decide
<1> HIDE DEF new
<1> QED
  BY <1>2, <1>3 DEF TypeOK

(* Initially every variable has its type.                                   *)
LEMMA InitTypeOK == Init => TypeOK
<1> SUFFICES ASSUME Init PROVE TypeOK
  OBVIOUS
<1>1. AbsentRow \in RowType
  BY DEF AbsentRow, RowType
<1> QED
  BY <1>1 DEF Init, TypeOK

(* Every step of the handler keeps every variable in its type.              *)
LEMMA NextTypeOK == TypeOK /\ [Next]_vars => TypeOK'
<1> SUFFICES ASSUME TypeOK, [Next]_vars PROVE TypeOK'
  OBVIOUS
<1> USE DEF tables, transaction, request
<1>1. ASSUME NEW s \in Slots, selectExistingChanges(s) PROVE TypeOK'
  <2>1. UNCHANGED <<tables, transaction>>
    BY <1>1 DEF selectExistingChanges
  <2>2. CASE pc' = [pc EXCEPT ![s] = "rejected"] /\ UNCHANGED <<batch, reply>>
    BY <2>1, <2>2 DEF TypeOK
  <2>3. CASE \E d \in Devices : \E b \in Batches(d) :
               \E verdicts \in [DOMAIN b -> {Open} \cup {previousReply(n) : n \in DOMAIN log}] :
                 /\ pc' = [pc EXCEPT ![s] = "states"]
                 /\ batch' = [batch EXCEPT ![s] = b]
                 /\ reply' = [reply EXCEPT ![s] = verdicts]
    <3>1. PICK d \in Devices : \E b \in Batches(d) :
               \E verdicts \in [DOMAIN b -> {Open} \cup {previousReply(n) : n \in DOMAIN log}] :
                 /\ pc' = [pc EXCEPT ![s] = "states"]
                 /\ batch' = [batch EXCEPT ![s] = b]
                 /\ reply' = [reply EXCEPT ![s] = verdicts]
      BY <2>3
    <3>2. PICK b \in Batches(d) :
               \E verdicts \in [DOMAIN b -> {Open} \cup {previousReply(n) : n \in DOMAIN log}] :
                 /\ pc' = [pc EXCEPT ![s] = "states"]
                 /\ batch' = [batch EXCEPT ![s] = b]
                 /\ reply' = [reply EXCEPT ![s] = verdicts]
      BY <3>1
    <3>3. PICK verdicts \in [DOMAIN b -> {Open} \cup {previousReply(n) : n \in DOMAIN log}] :
                 /\ pc' = [pc EXCEPT ![s] = "states"]
                 /\ batch' = [batch EXCEPT ![s] = b]
                 /\ reply' = [reply EXCEPT ![s] = verdicts]
      BY <3>2
    <3>4. PICK m \in 1 .. MaxBatch : b \in [1 .. m -> {c \in Changes : c.device = d}]
      BY DEF Batches
    <3>5. m \in Nat
      BY <3>4, MaxBatchAssumption
    <3>6. b \in [1 .. m -> Changes] /\ DOMAIN b = 1 .. m
      BY <3>4
    <3>7. b \in Seq(Changes)
      BY <3>5, <3>6
    <3>8. ASSUME NEW n \in DOMAIN log PROVE previousReply(n) \in VerdictType
      <4>1. log \in Seq(StoredType)
        BY DEF TypeOK
      <4>2. log[n] \in StoredType /\ n \in Nat
        BY <4>1, <3>8
      <4>3. log[n].rev \in Nat
        BY <4>2 DEF StoredType
      <4> QED
        BY <4>2, <4>3, VerdictTypes DEF previousReply
    <3>9. verdicts \in [1 .. m -> VerdictType]
      BY <3>6, <3>8, VerdictTypes
    <3>10. verdicts \in Seq(VerdictType) /\ DOMAIN verdicts = DOMAIN b
      BY <3>5, <3>6, <3>9
    <3> QED
      BY <2>1, <3>3, <3>7, <3>10 DEF TypeOK
  <2> QED
    BY <1>1, <2>2, <2>3 DEF selectExistingChanges
<1>2. ASSUME NEW s \in Slots, selectEntityStates(s) PROVE TypeOK'
  <2>1. PICK chosen \in SUBSET OpenItems(s) :
          /\ pc' = [pc EXCEPT ![s] = IF chosen = {} THEN "done" ELSE "judged"]
          /\ reply' = [reply EXCEPT ![s] =
               [i \in DOMAIN batch[s] |-> IF i \in OpenItems(s) \ chosen
                                          THEN Conflict(SeenRevision(s, i, chosen))
                                          ELSE reply[s][i]]]
    BY <1>2 DEF selectEntityStates
  <2> DEFINE new == [i \in DOMAIN batch[s] |-> IF i \in OpenItems(s) \ chosen
                                               THEN Conflict(SeenRevision(s, i, chosen))
                                               ELSE reply[s][i]]
  <2>2. batch[s] \in Seq(Changes) /\ reply[s] \in Seq(VerdictType) /\ DOMAIN reply[s] = DOMAIN batch[s]
    BY <1>2 DEF TypeOK
  <2>3. ASSUME NEW i \in DOMAIN batch[s] PROVE new[i] \in VerdictType
    <3>1. CASE i \in OpenItems(s) \ chosen
      <4>1. SeenRevision(s, i, chosen) \in Nat
        BY <1>2, <3>1, SeenRevisionIsNat
      <4> QED
        BY <3>1, <4>1, VerdictTypes
    <3>2. CASE i \notin OpenItems(s) \ chosen
      BY <2>2, <3>2
    <3> QED
      BY <3>1, <3>2
  <2>4. new \in [DOMAIN batch[s] -> VerdictType]
    BY <2>3
  <2>5. DOMAIN batch[s] = 1 .. Len(batch[s]) /\ Len(batch[s]) \in Nat
    BY <2>2
  <2>6. DOMAIN new = DOMAIN batch[s]
    OBVIOUS
  <2>7. reply' = [reply EXCEPT ![s] = new] /\ UNCHANGED <<tables, transaction, batch>>
    BY <1>2, <2>1 DEF selectEntityStates
  <2> HIDE DEF new
  <2>8. new \in Seq(VerdictType)
    BY <2>4, <2>5
  <2> QED
    BY <2>1, <2>6, <2>7, <2>8 DEF TypeOK
<1>3. ASSUME NEW s \in Slots, beginBatch(s) PROVE TypeOK'
  BY <1>3 DEF beginBatch, TypeOK
<1>4. ASSUME NEW s \in Slots, insertChange(s) PROVE TypeOK'
  <2>1. PICK i \in OpenItems(s) :
          LET c == batch[s][i]
              rows == makeEntityStatement(txRow, c)
              rev == rows[c.entity].rev
          IN /\ txLog' = Append(txLog, Stored(c, rev))
             /\ txRow' = setEntityServerSeq(rows, c, Len(txLog) + 1)
             /\ decide(s, i, Accepted(Len(txLog) + 1, rev))
    BY <1>4 DEF insertChange
  <2> DEFINE c == batch[s][i]
             rows == makeEntityStatement(txRow, c)
             rev == rows[c.entity].rev
             v == Accepted(Len(txLog) + 1, rev)
  <2>2. c \in ChangeType
    BY <1>4, <2>1, BatchItem
  <2>3. txRow \in [Entities -> RowType] /\ txLog \in Seq(StoredType) /\ Len(txLog) + 1 \in Nat
    BY DEF TypeOK
  <2>4. rows \in [Entities -> RowType]
    BY <2>2, <2>3, EntityStatementType
  <2>5. rev \in Nat
    <3>1. rows[c.entity] \in RowType
      BY <2>2, <2>4 DEF ChangeType
    <3> QED
      BY <3>1 DEF RowType
  <2>6. Stored(c, rev) \in StoredType
    BY <2>2, <2>5 DEF Stored, StoredType, ChangeType
  <2>7. v \in VerdictType
    BY <2>3, <2>5, VerdictTypes
  <2>8. setEntityServerSeq(rows, c, Len(txLog) + 1) \in [Entities -> RowType]
    BY <2>2, <2>3, <2>4, EntityServerSeqType
  <2>9. decide(s, i, v)
    BY <2>1
  <2> HIDE DEF c, rows, rev, v
  <2>10. txRow' \in [Entities -> RowType] /\ txLog' \in Seq(StoredType)
    <3>1. txRow' = setEntityServerSeq(rows, c, Len(txLog) + 1) /\ txLog' = Append(txLog, Stored(c, rev))
      BY <2>1 DEF c, rows, rev
    <3>2. Append(txLog, Stored(c, rev)) \in Seq(StoredType)
      BY <2>3, <2>6
    <3> QED
      BY <3>1, <3>2, <2>8
  <2>11. reply' \in [Slots -> Seq(VerdictType)] /\ \A t \in Slots : DOMAIN reply'[t] = DOMAIN reply[t]
    BY <1>4, <2>1, <2>7, <2>9, DecideType
  <2>12. UNCHANGED <<tables, txSlot, pc, batch>>
    BY <1>4 DEF insertChange
  <2> QED
    BY <2>10, <2>11, <2>12 DEF TypeOK
<1>5. ASSUME NEW s \in Slots, insertNothing(s) PROVE TypeOK'
  <2>1. PICK i \in OpenItems(s) :
          /\ txRow' = makeEntityStatement(txRow, batch[s][i])
          /\ decide(s, i, Conflict(0))
    BY <1>5 DEF insertNothing
  <2>2. batch[s][i] \in ChangeType
    BY <1>5, <2>1, BatchItem
  <2>3. txRow' \in [Entities -> RowType]
    BY <2>1, <2>2, EntityStatementType DEF TypeOK
  <2>4. Conflict(0) \in VerdictType
    BY VerdictTypes
  <2>5. reply' \in [Slots -> Seq(VerdictType)] /\ \A t \in Slots : DOMAIN reply'[t] = DOMAIN reply[t]
    BY <1>5, <2>1, <2>4, DecideType
  <2>6. UNCHANGED <<tables, txSlot, txLog, pc, batch>>
    BY <1>5 DEF insertNothing
  <2> QED
    BY <2>3, <2>5, <2>6 DEF TypeOK
<1>6. ASSUME NEW s \in Slots, uniqueViolation(s) PROVE TypeOK'
  BY <1>6 DEF uniqueViolation, rollback, TypeOK
<1>7. ASSUME NEW s \in Slots, commitBatch(s) PROVE TypeOK'
  BY <1>7 DEF commitBatch, TypeOK
<1>8. ASSUME NEW s \in Slots, respond(s) PROVE TypeOK'
  BY <1>8 DEF respond, TypeOK
<1>9. ASSUME NEW s \in Slots, crash(s) PROVE TypeOK'
  BY <1>9 DEF crash, rollback, TypeOK
<1>10. CASE UNCHANGED vars
  BY <1>10 DEF vars, TypeOK
<1> QED
  BY <1>1, <1>2, <1>3, <1>4, <1>5, <1>6, <1>7, <1>8, <1>9, <1>10 DEF Next, Handle, Transact

(* The gateway's tables and requests always have their declared shape.      *)
THEOREM TypeCorrect == Spec => []TypeOK
<1>1. Init => TypeOK
  BY InitTypeOK
<1>2. TypeOK /\ [Next]_vars => TypeOK'
  BY NextTypeOK
<1> QED
  BY <1>1, <1>2, PTL DEF Spec
-----------------------------------------------------------------------------
(* The tables stay consistent when a change's two statements find the row   *)
(* to be its own and its id unused.                                         *)
LEMMA ChangeExtendsChain ==
  ASSUME NEW l \in Seq(StoredType), NEW rows \in [Entities -> RowType],
         Log!WellFormed(l), RowsDescribe(l, rows),
         NEW c \in ChangeType,
         selectsRow(makeEntityStatement(rows, c), c), ~IsStored(l, c)
  PROVE  LET updated == makeEntityStatement(rows, c)
             l2 == Append(l, Stored(c, updated[c.entity].rev))
         IN /\ Log!WellFormed(l2)
            /\ RowsDescribe(l2, setEntityServerSeq(updated, c, Len(l) + 1))
            /\ Log!Extends(l2, l)
            /\ updated[c.entity].rev = c.base + 1
<1> DEFINE updated == makeEntityStatement(rows, c)
           new == Stored(c, updated[c.entity].rev)
           l2 == Append(l, new)
           n == Len(l) + 1
           rows2 == setEntityServerSeq(updated, c, n)
           e == c.entity
<1>1. e \in Entities /\ c.id \in ChangeIds /\ c.base \in Nat
  BY DEF ChangeType
<1>2. Len(l) \in Nat /\ DOMAIN l = 1 .. Len(l)
  OBVIOUS
<1>3. c.base = rows[e].rev
  <2> SUFFICES ASSUME c.base # rows[e].rev PROVE FALSE
    OBVIOUS
  <2>1. rows[e].latest = c.id
    BY DEF selectsRow, makeEntityStatement
  <2>2. CASE Log!PositionsOf(l, e) = {}
    BY <1>1, <2>1, <2>2, NoIdAssumption DEF RowsDescribe, AbsentRow
  <2>3. CASE Log!PositionsOf(l, e) # {}
    BY <1>1, <2>1, <2>3 DEF RowsDescribe, Log!PositionsOf, IsStored, IsStoredAt
  <2> QED
    BY <2>2, <2>3
<1>4. updated = [rows EXCEPT ![e] = [rev |-> c.base + 1, latest |-> c.id, seq |-> rows[e].seq]]
  BY <1>3 DEF makeEntityStatement
<1>5. updated[e] = [rev |-> c.base + 1, latest |-> c.id, seq |-> rows[e].seq]
  BY <1>1, <1>4
<1>6. rows2 = [rows EXCEPT ![e] = [rev |-> c.base + 1, latest |-> c.id, seq |-> n]]
  <2>1. \A a, b : [[rows EXCEPT ![e] = a] EXCEPT ![e] = b] = [rows EXCEPT ![e] = b]
    BY <1>1
  <2>2. rows2 = [updated EXCEPT ![e] = [rev |-> updated[e].rev, latest |-> updated[e].latest, seq |-> n]]
    BY DEF setEntityServerSeq
  <2>3. rows2 = [updated EXCEPT ![e] = [rev |-> c.base + 1, latest |-> c.id, seq |-> n]]
    BY <1>5, <2>2
  <2> QED
    BY <1>4, <2>1, <2>3
<1>7. new.id = c.id /\ new.entity = e /\ new.base = c.base /\ new.rev = c.base + 1
  BY <1>5 DEF Stored
<1> HIDE DEF updated, new
<1>8. DOMAIN l2 = 1 .. n /\ l2[n] = new /\ \A i \in 1 .. Len(l) : l2[i] = l[i]
  BY <1>2
<1> HIDE DEF l2
<1>9. Log!Extends(l2, l)
  <2>1. Len(l2) = n
    BY DEF l2
  <2> QED
    BY <1>2, <1>8, <2>1 DEF Log!Extends
<1>10. Log!UniqueIds(l2)
  <2> SUFFICES ASSUME NEW i \in 1 .. n, NEW j \in 1 .. n, l2[i].id = l2[j].id PROVE i = j
    BY <1>8 DEF Log!UniqueIds
  <2>1. \A k \in 1 .. Len(l) : l[k].id # new.id
    BY <1>2, <1>7 DEF IsStored, IsStoredAt
  <2>2. CASE i = n \/ j = n
    BY <1>2, <1>8, <2>1, <2>2
  <2>3. CASE i # n /\ j # n
    BY <1>2, <1>8, <2>3 DEF Log!WellFormed, Log!UniqueIds
  <2> QED
    BY <2>2, <2>3
<1>11. ASSUME NEW i \in 1 .. Len(l) PROVE Log!Follows(l2, i)
  <2>1. Log!Follows(l, i)
    BY <1>2 DEF Log!WellFormed
  <2>2. l2[i] = l[i] /\ \A q \in 1 .. i : l2[q] = l[q]
    BY <1>2, <1>8
  <2>3. CASE l[i].base = 0
    BY <1>2, <1>8, <2>1, <2>2, <2>3 DEF Log!Follows
  <2>4. CASE l[i].base # 0
    <3>1. PICK p \in DOMAIN l : Log!IsPredecessor(l, p, i) /\ l[p].rev = l[i].base
      BY <2>1, <2>4 DEF Log!Follows
    <3>2. Log!IsPredecessor(l2, p, i) /\ l2[p].rev = l2[i].base
      BY <1>2, <1>8, <2>2, <3>1 DEF Log!IsPredecessor
    <3> QED
      BY <1>2, <1>8, <2>1, <2>2, <2>4, <3>1, <3>2 DEF Log!Follows
  <2> QED
    BY <2>3, <2>4
<1>12. Log!PositionsOf(l, e) = {} => rows[e].rev = 0
  BY <1>1 DEF RowsDescribe, AbsentRow
<1>13. ASSUME Log!PositionsOf(l, e) # {}
       PROVE  /\ rows[e].seq \in 1 .. Len(l) /\ l[rows[e].seq].entity = e
              /\ \A q \in 1 .. Len(l) : l[q].entity = e => q <= rows[e].seq
              /\ l[rows[e].seq].rev = rows[e].rev
  BY <1>1, <1>2, <1>13 DEF RowsDescribe, Log!PositionsOf
<1>14. ASSUME Log!PositionsOf(l, e) # {} PROVE rows[e].rev > 0
  <2>1. Log!Follows(l, rows[e].seq)
    BY <1>2, <1>13, <1>14 DEF Log!WellFormed
  <2>2. l[rows[e].seq] \in StoredType
    BY <1>2, <1>13, <1>14
  <2>3. l[rows[e].seq].base \in Nat
    BY <2>2 DEF StoredType
  <2> QED
    BY <1>13, <1>14, <2>1, <2>3 DEF Log!Follows
<1>15. Log!Follows(l2, n)
  <2>1. CASE c.base = 0
    <3>1. Log!PositionsOf(l, e) = {}
      BY <1>3, <1>14, <2>1
    <3> QED
      BY <1>2, <1>7, <1>8, <2>1, <3>1 DEF Log!Follows, Log!PositionsOf
  <2>2. CASE c.base # 0
    <3>1. Log!PositionsOf(l, e) # {}
      BY <1>3, <1>12, <2>2
    <3>2. Log!IsPredecessor(l2, rows[e].seq, n)
      BY <1>2, <1>7, <1>8, <1>13, <3>1 DEF Log!IsPredecessor
    <3>3. l2[rows[e].seq].rev = l2[n].base
      BY <1>3, <1>7, <1>8, <1>13, <3>1
    <3> QED
      BY <1>2, <1>7, <1>8, <1>13, <2>2, <3>1, <3>2, <3>3 DEF Log!Follows
  <2> QED
    BY <2>1, <2>2
<1>16. Log!WellFormed(l2)
  BY <1>2, <1>8, <1>10, <1>11, <1>15 DEF Log!WellFormed
<1>17. RowsDescribe(l2, rows2)
  <2> SUFFICES ASSUME NEW d \in Entities
               PROVE  IF Log!PositionsOf(l2, d) = {}
                      THEN rows2[d] = AbsentRow
                      ELSE /\ rows2[d].seq \in Log!PositionsOf(l2, d)
                           /\ \A i \in Log!PositionsOf(l2, d) : i <= rows2[d].seq
                           /\ l2[rows2[d].seq].rev = rows2[d].rev
                           /\ l2[rows2[d].seq].id = rows2[d].latest
    BY DEF RowsDescribe
  <2>1. CASE d = e
    <3>1. rows2[d] = [rev |-> c.base + 1, latest |-> c.id, seq |-> n]
      BY <1>1, <1>6, <2>1
    <3>2. n \in Log!PositionsOf(l2, d)
      BY <1>2, <1>7, <1>8, <2>1 DEF Log!PositionsOf
    <3>3. \A i \in Log!PositionsOf(l2, d) : i <= n
      BY <1>2, <1>8 DEF Log!PositionsOf
    <3> QED
      BY <1>7, <1>8, <3>1, <3>2, <3>3
  <2>2. CASE d # e
    <3>1. rows2[d] = rows[d]
      BY <1>6, <2>2
    <3>2. Log!PositionsOf(l2, d) = Log!PositionsOf(l, d)
      BY <1>2, <1>7, <1>8, <2>2 DEF Log!PositionsOf
    <3>3. CASE Log!PositionsOf(l, d) = {}
      BY <3>1, <3>2, <3>3 DEF RowsDescribe
    <3>4. CASE Log!PositionsOf(l, d) # {}
      <4>1. /\ rows[d].seq \in Log!PositionsOf(l, d)
            /\ \A i \in Log!PositionsOf(l, d) : i <= rows[d].seq
            /\ l[rows[d].seq].rev = rows[d].rev
            /\ l[rows[d].seq].id = rows[d].latest
        BY <3>4 DEF RowsDescribe
      <4>2. l2[rows[d].seq] = l[rows[d].seq]
        BY <1>2, <1>8, <4>1 DEF Log!PositionsOf
      <4> QED
        BY <3>1, <3>2, <3>4, <4>1, <4>2
    <3> QED
      BY <3>3, <3>4
  <2> QED
    BY <2>1, <2>2
<1> QED
  BY <1>5, <1>9, <1>16, <1>17 DEF updated, new, l2
-----------------------------------------------------------------------------
(* A log that extends another holds everything promised from the other.     *)
LEMMA PromiseKept ==
  ASSUME NEW l, NEW l2, Log!Extends(l2, l), NEW b, NEW r, AcceptedIn(l, b, r),
         l \in Seq(StoredType), l2 \in Seq(StoredType)
  PROVE  AcceptedIn(l2, b, r)
<1>1. \A n \in DOMAIN l : n \in DOMAIN l2 /\ l2[n] = l[n]
  BY DEF Log!Extends
<1> QED
  BY <1>1 DEF AcceptedIn, IsStoredAt

(* A reply keeps its promises when one item is decided and that item is     *)
(* either refused or stored where it says.                                  *)
LEMMA PromiseExtended ==
  ASSUME NEW l, NEW b, NEW r \in Seq(VerdictType), DOMAIN r = DOMAIN b,
         AcceptedIn(l, b, r), NEW i \in DOMAIN r, NEW v,
         v.verdict = "accepted" => IsStoredAt(l, b[i], v.seq) /\ l[v.seq].rev = v.rev
  PROVE  AcceptedIn(l, b, [r EXCEPT ![i] = v])
<1>1. \A j \in DOMAIN b : [r EXCEPT ![i] = v][j] = IF j = i THEN v ELSE r[j]
  OBVIOUS
<1> QED
  BY <1>1 DEF AcceptedIn

(* What the lookup accepted is stored.                                      *)
LEMMA LookedUpAccepted ==
  ASSUME NEW b, NEW verdicts, \A i \in DOMAIN b : LookedUp(b, i, verdicts[i])
  PROVE  AcceptedIn(log, b, verdicts)
<1> SUFFICES ASSUME NEW i \in DOMAIN b, verdicts[i].verdict = "accepted"
             PROVE  /\ IsStoredAt(log, b[i], verdicts[i].seq)
                    /\ log[verdicts[i].seq].rev = verdicts[i].rev
  BY DEF AcceptedIn
<1>1. CASE IsStored(log, b[i])
  <2>1. PICK n \in DOMAIN log : IsStoredAt(log, b[i], n) /\ verdicts[i] = previousReply(n)
    BY <1>1 DEF LookedUp
  <2> QED
    BY <2>1 DEF previousReply, Accepted
<1>2. CASE ~IsStored(log, b[i])
  BY <1>2 DEF LookedUp, Open
<1> QED
  BY <1>1, <1>2

-----------------------------------------------------------------------------
(* The inductive invariant holds of the empty tables.                       *)
LEMMA InitIInv == Init => IInv
<1> SUFFICES ASSUME Init PROVE IInv
  OBVIOUS
<1>1. TypeOK
  BY InitTypeOK
<1>2. Log!WellFormed(<<>>) /\ Log!Extends(<<>>, <<>>)
  BY DEF Log!WellFormed, Log!UniqueIds, Log!Extends
<1>3. RowsDescribe(<<>>, [e \in Entities |-> AbsentRow])
  BY DEF RowsDescribe, Log!PositionsOf
<1>4. PromiseInv
  BY NoSlotAssumption DEF Init, PromiseInv, AcceptedIn
<1> QED
  BY <1>1, <1>2, <1>3, <1>4 DEF Init, IInv, RevisionChain, RowIsLastChange, TransactionInv

(* A step that leaves the tables and the open transaction alone.            *)
LEMMA TablesUntouched ==
  ASSUME IInv, UNCHANGED <<tables, transaction>>
  PROVE  RevisionChain' /\ RowIsLastChange' /\ TransactionInv'
BY DEF IInv, RevisionChain, RowIsLastChange, TransactionInv, tables, transaction

(* A step that undoes the open transaction.                                 *)
LEMMA RollbackTables ==
  ASSUME IInv, rollback, UNCHANGED tables
  PROVE  RevisionChain' /\ RowIsLastChange' /\ TransactionInv'
BY DEF IInv, RevisionChain, RowIsLastChange, TransactionInv, rollback, tables, Log!Extends

(* Every step of the handler preserves the inductive invariant.             *)
LEMMA NextIInv == IInv /\ [Next]_vars => IInv'
<1> SUFFICES ASSUME IInv, [Next]_vars PROVE IInv'
  OBVIOUS
<1>1. TypeOK /\ TypeOK'
  BY NextTypeOK DEF IInv
<1>2. log \in Seq(StoredType) /\ txLog \in Seq(StoredType) /\ log' \in Seq(StoredType) /\ txLog' \in Seq(StoredType)
  BY <1>1 DEF TypeOK
<1>3. ASSUME NEW s \in Slots, selectExistingChanges(s) PROVE IInv'
  <2>1. UNCHANGED <<tables, transaction>>
    BY <1>3 DEF selectExistingChanges
  <2>2. PromiseInv'
    <3>1. CASE pc' = [pc EXCEPT ![s] = "rejected"] /\ UNCHANGED <<batch, reply>>
      BY <1>1, <1>3, <2>1, <3>1 DEF selectExistingChanges, IInv, PromiseInv, TypeOK, tables, transaction
    <3>2. CASE \E d \in Devices : \E b \in Batches(d) :
                 \E verdicts \in [DOMAIN b -> {Open} \cup {previousReply(n) : n \in DOMAIN log}] :
                   /\ \A i \in DOMAIN b : LookedUp(b, i, verdicts[i])
                   /\ pc' = [pc EXCEPT ![s] = "states"]
                   /\ batch' = [batch EXCEPT ![s] = b]
                   /\ reply' = [reply EXCEPT ![s] = verdicts]
      <4>1. PICK b, verdicts : /\ \A i \in DOMAIN b : LookedUp(b, i, verdicts[i])
                               /\ pc' = [pc EXCEPT ![s] = "states"]
                               /\ batch' = [batch EXCEPT ![s] = b]
                               /\ reply' = [reply EXCEPT ![s] = verdicts]
        BY <3>2
      <4>2. AcceptedIn(log, b, verdicts)
        BY <4>1, LookedUpAccepted
      <4>3. pc'[s] = "states" /\ batch'[s] = b /\ reply'[s] = verdicts
        BY <1>1, <4>1 DEF TypeOK
      <4>4. \A t \in Slots \ {s} : pc'[t] = pc[t] /\ batch'[t] = batch[t] /\ reply'[t] = reply[t]
        BY <1>1, <4>1 DEF TypeOK
      <4> QED
        BY <1>3, <2>1, <4>2, <4>3, <4>4 DEF selectExistingChanges, IInv, PromiseInv, tables, transaction
    <3> QED
      BY <1>3, <3>1, <3>2 DEF selectExistingChanges
  <2> QED
    BY <1>1, <2>1, <2>2, TablesUntouched DEF IInv
<1>4. ASSUME NEW s \in Slots, selectEntityStates(s) PROVE IInv'
  <2>1. UNCHANGED <<tables, transaction, batch>>
    BY <1>4 DEF selectEntityStates
  <2>2. PICK chosen \in SUBSET OpenItems(s) :
          /\ pc' = [pc EXCEPT ![s] = IF chosen = {} THEN "done" ELSE "judged"]
          /\ reply' = [reply EXCEPT ![s] =
               [i \in DOMAIN batch[s] |-> IF i \in OpenItems(s) \ chosen
                                          THEN Conflict(SeenRevision(s, i, chosen))
                                          ELSE reply[s][i]]]
    BY <1>4 DEF selectEntityStates
  <2>3. AcceptedIn(log, batch[s], reply[s])
    BY <1>4 DEF selectEntityStates, IInv, PromiseInv
  <2>4. AcceptedIn(log, batch[s], reply'[s])
    <3>1. \A i \in DOMAIN batch[s] : \/ reply'[s][i] = reply[s][i]
                                     \/ reply'[s][i] = Conflict(SeenRevision(s, i, chosen))
      BY <1>1, <2>2 DEF TypeOK
    <3>2. \A n : Conflict(n).verdict # "accepted"
      BY DEF Conflict
    <3>3. \A i \in DOMAIN batch[s] : reply'[s][i].verdict = "accepted" => reply'[s][i] = reply[s][i]
      BY <3>1, <3>2
    <3> QED
      BY <2>3, <3>3 DEF AcceptedIn
  <2>5. pc'[s] \in {"done", "judged"} /\ pc[s] = "states"
    BY <1>1, <1>4, <2>2 DEF TypeOK, selectEntityStates
  <2>6. \A t \in Slots \ {s} : pc'[t] = pc[t] /\ reply'[t] = reply[t]
    BY <1>1, <2>2 DEF TypeOK
  <2>7. PromiseInv'
    BY <2>1, <2>4, <2>5, <2>6 DEF IInv, PromiseInv, tables, transaction
  <2> QED
    BY <1>1, <2>1, <2>7, TablesUntouched DEF IInv
<1>5. ASSUME NEW s \in Slots, beginBatch(s) PROVE IInv'
  <2>1. RevisionChain' /\ RowIsLastChange' /\ TransactionInv'
    BY <1>5, NoSlotAssumption DEF IInv, RevisionChain, RowIsLastChange, TransactionInv, beginBatch, tables
  <2>2. PromiseInv'
    BY <1>1, <1>5, NoSlotAssumption DEF IInv, PromiseInv, TransactionInv, beginBatch, tables, TypeOK
  <2> QED
    BY <1>1, <2>1, <2>2 DEF IInv
<1>6. ASSUME NEW s \in Slots, insertChange(s) PROVE IInv'
  <2>1. PICK i \in OpenItems(s) :
          LET c == batch[s][i]
              rows == makeEntityStatement(txRow, c)
              rev == rows[c.entity].rev
          IN /\ selectsRow(rows, c)
             /\ ~violatesUnique(txLog, c)
             /\ txLog' = Append(txLog, Stored(c, rev))
             /\ txRow' = setEntityServerSeq(rows, c, Len(txLog) + 1)
             /\ decide(s, i, Accepted(Len(txLog) + 1, rev))
    BY <1>6 DEF insertChange
  <2> DEFINE c == batch[s][i]
             rev == makeEntityStatement(txRow, c)[c.entity].rev
             v == Accepted(Len(txLog) + 1, rev)
  <2>2. c \in ChangeType /\ i \in DOMAIN batch[s] /\ i \in DOMAIN reply[s]
    BY <1>1, <1>6, <2>1, BatchItem
  <2>3. Log!WellFormed(txLog') /\ RowsDescribe(txLog', txRow') /\ Log!Extends(txLog', txLog)
    BY <1>1, <1>2, <2>1, <2>2, ChangeExtendsChain DEF IInv, TransactionInv, TypeOK, violatesUnique
  <2>4. Log!Extends(txLog', log)
    BY <1>2, <2>3 DEF IInv, TransactionInv, Log!Extends
  <2>5. UNCHANGED <<log, row, txSlot, pc, batch>> /\ txSlot = s
    BY <1>6 DEF insertChange, tables
  <2>6. IsStoredAt(txLog', c, v.seq) /\ txLog'[v.seq].rev = v.rev
    <3>1. txLog' = Append(txLog, Stored(c, rev))
      BY <2>1
    <3>2. Len(txLog) + 1 \in DOMAIN txLog' /\ txLog'[Len(txLog) + 1] = Stored(c, rev)
      BY <1>2, <3>1
    <3> QED
      BY <3>2 DEF IsStoredAt, Accepted, Stored
  <2>7. reply'[s] = [reply[s] EXCEPT ![i] = v] /\ \A t \in Slots \ {s} : reply'[t] = reply[t]
    BY <1>1, <2>1 DEF decide, TypeOK
  <2>8. pc[s] = "applying" /\ \A t \in Slots \ {s} : pc[t] # "applying"
    BY <1>6, <2>5 DEF IInv, PromiseInv
  <2> HIDE DEF c, rev, v
  <2>9. AcceptedIn(txLog, batch[s], reply[s])
    BY <1>6, <2>8 DEF IInv, PromiseInv
  <2>10. AcceptedIn(txLog', batch[s], reply[s])
    BY <1>2, <2>3, <2>9, PromiseKept
  <2>11. reply[s] \in Seq(VerdictType) /\ DOMAIN reply[s] = DOMAIN batch[s]
    BY <1>1, <1>6 DEF TypeOK
  <2>12. AcceptedIn(txLog', batch[s], reply'[s])
    BY <2>2, <2>6, <2>7, <2>10, <2>11, PromiseExtended DEF c
  <2>13. PromiseInv'
    BY <1>6, <2>5, <2>7, <2>8, <2>12 DEF IInv, PromiseInv
  <2>14. RevisionChain' /\ RowIsLastChange' /\ TransactionInv'
    BY <1>6, <2>3, <2>4, <2>5, NoSlotAssumption DEF IInv, RevisionChain, RowIsLastChange, TransactionInv
  <2> QED
    BY <1>1, <2>13, <2>14 DEF IInv
<1>7. ASSUME NEW s \in Slots, insertNothing(s) PROVE IInv'
  <2>1. PICK i \in OpenItems(s) :
          /\ ~selectsRow(makeEntityStatement(txRow, batch[s][i]), batch[s][i])
          /\ txRow' = makeEntityStatement(txRow, batch[s][i])
          /\ decide(s, i, Conflict(0))
    BY <1>7 DEF insertNothing
  <2>2. batch[s][i] \in ChangeType /\ i \in DOMAIN batch[s] /\ i \in DOMAIN reply[s]
    BY <1>1, <1>7, <2>1, BatchItem
  <2>3. txRow' = txRow
    <3>1. batch[s][i].entity \in Entities /\ txRow \in [Entities -> RowType]
      BY <1>1, <2>2 DEF ChangeType, TypeOK
    <3> QED
      BY <2>1, <3>1 DEF makeEntityStatement, selectsRow
  <2>4. UNCHANGED <<log, row, txSlot, txLog, pc, batch>> /\ txSlot = s
    BY <1>7 DEF insertNothing, tables
  <2>5. reply'[s] = [reply[s] EXCEPT ![i] = Conflict(0)] /\ \A t \in Slots \ {s} : reply'[t] = reply[t]
    BY <1>1, <2>1 DEF decide, TypeOK
  <2>6. pc[s] = "applying" /\ \A t \in Slots \ {s} : pc[t] # "applying"
    BY <1>7, <2>4 DEF IInv, PromiseInv
  <2>7. reply[s] \in Seq(VerdictType) /\ DOMAIN reply[s] = DOMAIN batch[s] /\ AcceptedIn(txLog, batch[s], reply[s])
    BY <1>1, <1>7, <2>6 DEF TypeOK, IInv, PromiseInv
  <2>8. Conflict(0).verdict # "accepted"
    BY DEF Conflict
  <2>9. AcceptedIn(txLog, batch[s], reply'[s])
    BY <2>2, <2>5, <2>7, <2>8, PromiseExtended
  <2>10. PromiseInv'
    BY <1>7, <2>4, <2>5, <2>6, <2>9 DEF IInv, PromiseInv
  <2>11. RevisionChain' /\ RowIsLastChange' /\ TransactionInv'
    BY <2>3, <2>4, TablesUntouched DEF tables, transaction
  <2> QED
    BY <1>1, <2>10, <2>11 DEF IInv
<1>8. ASSUME NEW s \in Slots, uniqueViolation(s) PROVE IInv'
  <2>1. RevisionChain' /\ RowIsLastChange' /\ TransactionInv'
    BY <1>8, RollbackTables DEF uniqueViolation
  <2>2. PromiseInv'
    BY <1>1, <1>8, NoSlotAssumption DEF IInv, PromiseInv, uniqueViolation, rollback, tables, TypeOK
  <2> QED
    BY <1>1, <2>1, <2>2 DEF IInv
<1>9. ASSUME NEW s \in Slots, commitBatch(s) PROVE IInv'
  <2>1. RevisionChain' /\ RowIsLastChange' /\ TransactionInv'
    BY <1>9 DEF IInv, RevisionChain, RowIsLastChange, TransactionInv, commitBatch, Log!Extends
  <2>2. Log!Extends(log', log) /\ log' = txLog /\ txSlot' = NoSlot /\ txSlot = s
    BY <1>9 DEF IInv, TransactionInv, commitBatch
  <2>3. \A t \in Slots : AcceptedIn(log, batch[t], reply[t]) => AcceptedIn(log', batch[t], reply[t])
    BY <1>2, <2>2, PromiseKept
  <2>4. pc'[s] = "done" /\ (\A t \in Slots \ {s} : pc'[t] = pc[t]) /\ UNCHANGED <<batch, reply>>
    BY <1>1, <1>9 DEF commitBatch, TypeOK
  <2>5. PromiseInv'
    BY <1>9, <2>2, <2>3, <2>4, NoSlotAssumption DEF IInv, PromiseInv
  <2> QED
    BY <1>1, <2>1, <2>5 DEF IInv
<1>10. ASSUME NEW s \in Slots, respond(s) PROVE IInv'
  <2>1. RevisionChain' /\ RowIsLastChange' /\ TransactionInv'
    BY <1>10, TablesUntouched DEF respond
  <2>2. PromiseInv'
    BY <1>1, <1>10 DEF IInv, PromiseInv, respond, tables, transaction, TypeOK
  <2> QED
    BY <1>1, <2>1, <2>2 DEF IInv
<1>11. ASSUME NEW s \in Slots, crash(s) PROVE IInv'
  <2>1. RevisionChain' /\ RowIsLastChange' /\ TransactionInv'
    BY <1>11, RollbackTables, TablesUntouched DEF crash
  <2>2. PromiseInv'
    BY <1>1, <1>11, NoSlotAssumption DEF IInv, PromiseInv, crash, rollback, tables, transaction, TypeOK
  <2> QED
    BY <1>1, <2>1, <2>2 DEF IInv
<1>12. CASE UNCHANGED vars
  BY <1>1, <1>12 DEF IInv, RevisionChain, RowIsLastChange, TransactionInv, PromiseInv, vars, tables, transaction, request
<1> QED
  BY <1>3, <1>4, <1>5, <1>6, <1>7, <1>8, <1>9, <1>10, <1>11, <1>12 DEF Next, Handle, Transact

(* The inductive invariant holds throughout.                                *)
THEOREM Inductive == Spec => []IInv
<1> QED
  BY InitIInv, NextIInv, PTL DEF Spec

(* Two invocations, however they interleave, retry or fail, never store two *)
(* changes built on the same revision, nor one change twice.                *)
THEOREM ChainCorrect == Spec => []RevisionChain
<1>1. IInv => RevisionChain
  BY DEF IInv
<1> QED
  BY <1>1, Inductive, PTL

(* The snapshot table always agrees with the change log.                    *)
THEOREM RowsCorrect == Spec => []RowIsLastChange
<1>1. IInv => RowIsLastChange
  BY DEF IInv
<1> QED
  BY <1>1, Inductive, PTL

(* Whatever a reply reports accepted is in the log, where it says.          *)
THEOREM RepliesCorrect == Spec => []RepliesMatchLog
<1>1. IInv => RepliesMatchLog
  BY DEF IInv, PromiseInv, RepliesMatchLog
<1> QED
  BY <1>1, Inductive, PTL

(* The push handler implements the append-only log of SyncLog.              *)
THEOREM Refinement == Spec => ImplementsLog
<1>1. Init => Log!Init
  BY DEF Init, Log!Init
<1>2. IInv /\ IInv' /\ [Next]_vars => [Log!Publish]_log
  <2> SUFFICES ASSUME IInv, IInv', [Next]_vars PROVE [Log!Publish]_log
    OBVIOUS
  <2>1. ASSUME NEW s \in Slots, commitBatch(s) PROVE Log!Publish
    BY <2>1 DEF commitBatch, Log!Publish, IInv, TransactionInv
  <2>2. ASSUME NEW s \in Slots, Handle(s), ~commitBatch(s) PROVE UNCHANGED log
    BY <2>2 DEF Handle, Transact, selectExistingChanges, selectEntityStates, beginBatch,
                insertChange, insertNothing, uniqueViolation, respond, crash, tables
  <2>3. CASE UNCHANGED vars
    BY <2>3 DEF vars, tables
  <2> QED
    BY <2>1, <2>2, <2>3 DEF Next
<1> QED
  BY <1>1, <1>2, Inductive, PTL DEF Spec, ImplementsLog, Log!Spec
=============================================================================
