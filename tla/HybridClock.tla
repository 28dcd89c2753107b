---------------------------- MODULE HybridClock ----------------------------
(****************************************************************************)
(* The stamps on local changes (sync/hlc.rs, and enqueue_projection and     *)
(* apply_remote_entities of db/repo/sync.rs): a hybrid logical clock per    *)
(* device, kept in sync_runtime_state.  Wall clocks may be wrong and may be *)
(* set back; a device receives the changes of others in any order.          *)
(****************************************************************************)
EXTENDS Integers, FiniteSets, TLAPS

CONSTANTS
  Nodes,        \* devices, by the start of their ids: numbers, in that order
  MaxWall,      \* the latest time a wall clock shows
  MaxCounter,   \* u32::MAX
  MaxChanges    \* bound: changes made

ClockAssumption ==
  /\ Nodes \subseteq Nat
  /\ MaxWall \in Nat /\ MaxCounter \in Nat /\ MaxChanges \in Nat

VARIABLES
  last_hlc,     \* sync_runtime_state.last_hlc, per device
  changes,      \* the changes made: their stamps, and what their device had seen
  known         \* per device, the stamps of its own and of received changes

vars == <<last_hlc, changes, known>>

Stamps == [ms : 0 .. MaxWall, counter : 0 .. MaxCounter, node : Nodes]

\* A device without a stamp: the next counter at time 0 is 0.
NoStamp(d) == [ms |-> 0, counter |-> -1, node |-> d]

-----------------------------------------------------------------------------
saturating(n) == IF n < MaxCounter THEN n + 1 ELSE MaxCounter
later(m, n) == IF m < n THEN n ELSE m

\* HybridTimestamp::merge; tick is the merge with nothing received.
merge_KeepsCounter(local, remote, wall, d) ==                           \* mutant
  LET ms == later(wall, later(local.ms, remote.ms))
  IN [ms |-> ms,
      counter |-> IF local.ms = ms THEN saturating(local.counter)
                  ELSE IF remote.ms = ms THEN remote.counter ELSE 0,
      node |-> d]
merge(local, remote, wall, d) ==
  LET ms == later(wall, later(local.ms, remote.ms))
  IN [ms |-> ms,
      counter |-> IF local.ms = ms /\ remote.ms = ms THEN saturating(later(local.counter, remote.counter))
                  ELSE IF local.ms = ms THEN saturating(local.counter)
                  ELSE IF remote.ms = ms THEN saturating(remote.counter) ELSE 0,
      node |-> d]
tick_Wall(local, wall, d) ==                                            \* mutant
  [ms |-> wall, counter |-> IF local.ms = wall THEN saturating(local.counter) ELSE 0, node |-> d]
tick(local, wall, d) == merge(local, local, wall, d)

\* compare_hlc of sync/merge.rs
Before(s, t) ==
  \/ s.ms < t.ms
  \/ s.ms = t.ms /\ s.counter < t.counter
  \/ s.ms = t.ms /\ s.counter = t.counter /\ s.node < t.node

-----------------------------------------------------------------------------
Init ==
  /\ last_hlc = [d \in Nodes |-> NoStamp(d)]
  /\ changes = {}
  /\ known = [d \in Nodes |-> {}]

enqueue_projection(d, wall) ==
  LET stamp == tick(last_hlc[d], wall, d) IN
  /\ Cardinality(changes) < MaxChanges
  /\ last_hlc' = [last_hlc EXCEPT ![d] = stamp]
  /\ changes' = changes \cup {[stamp |-> stamp, after |-> known[d]]}
  /\ known' = [known EXCEPT ![d] = @ \cup {stamp}]

\* Also for a change that is known already or in conflict.
apply_remote_entities(d, change, wall) ==
  /\ last_hlc' = [last_hlc EXCEPT ![d] = merge(last_hlc[d], change.stamp, wall, d)]
  /\ known' = [known EXCEPT ![d] = @ \cup {change.stamp}]
  /\ UNCHANGED changes

Next ==
  \E d \in Nodes, wall \in 0 .. MaxWall :
    \/ enqueue_projection(d, wall)
    \/ \E change \in changes : apply_remote_entities(d, change, wall)

Spec == Init /\ [][Next]_vars

-----------------------------------------------------------------------------
(* Properties                                                               *)

TypeOK ==
  /\ last_hlc \in [Nodes -> [ms : 0 .. MaxWall, counter : -1 .. MaxCounter, node : Nodes]]
  /\ changes \subseteq [stamp : Stamps, after : SUBSET Stamps]
  /\ known \in [Nodes -> SUBSET Stamps]

\* A change comes after every change its device had made or received, whatever
\* the wall clocks show: the field of a session that is kept in a conflict is
\* never one the other side had already seen.  (A counter that has reached its
\* end stays there.)
CausesFirst ==
  \A c \in changes : \A s \in c.after : Before(s, c.stamp) \/ c.stamp.counter = MaxCounter

\* Two changes have different stamps, so that both sides of a conflict order
\* them alike.
StampsDiffer ==
  \A c, e \in changes : c # e /\ c.stamp = e.stamp => c.stamp.counter = MaxCounter

-----------------------------------------------------------------------------
(* Proofs, for any devices, any range of the wall clocks and of the counter,*)
(* and any number of changes.  ClockAssumption says that these are natural  *)
(* numbers.                                                                 *)

(* Two stamps in the order of time and counter alone.                       *)
AtMost(s, t) == s.ms < t.ms \/ (s.ms = t.ms /\ s.counter <= t.counter)

Clocks == [ms : 0 .. MaxWall, counter : -1 .. MaxCounter, node : Nodes]

(* The inductive invariant: a device's clock is at or beyond every stamp it *)
(* knows, and it knows the stamps it gave.                                  *)
ClockInv ==
  /\ \A d \in Nodes : \A s \in known[d] : AtMost(s, last_hlc[d])
  /\ \A c \in changes : c.stamp \in known[c.stamp.node]

IInv == TypeOK /\ ClockInv /\ CausesFirst /\ StampsDiffer

-----------------------------------------------------------------------------
(* The merged clock is at or beyond both clocks it was made from, and beyond*)
(* them, unless its counter has reached its end.                            *)
LEMMA MergeIsLater ==
  ASSUME ClockAssumption,
         NEW local \in Clocks, NEW remote \in Clocks, NEW wall \in 0 .. MaxWall, NEW d \in Nodes
  PROVE  /\ merge(local, remote, wall, d) \in Stamps
         /\ merge(local, remote, wall, d).node = d
         /\ \A s \in Stamps :
              AtMost(s, local) \/ AtMost(s, remote) =>
                LET m == merge(local, remote, wall, d) IN
                /\ AtMost(s, m)
                /\ Before(s, m) \/ m.counter = MaxCounter
<1> DEFINE m == merge(local, remote, wall, d)
           ms == later(wall, later(local.ms, remote.ms))
<1>1. /\ MaxWall \in Nat /\ MaxCounter \in Nat
      /\ local.ms \in 0 .. MaxWall /\ remote.ms \in 0 .. MaxWall
      /\ local.counter \in -1 .. MaxCounter /\ remote.counter \in -1 .. MaxCounter
  BY DEF ClockAssumption, Clocks
<1>2. /\ ms \in 0 .. MaxWall /\ local.ms <= ms /\ remote.ms <= ms
  BY <1>1 DEF later
<1>3. m.ms = ms /\ m.node = d
  BY DEF merge
<1>4. /\ m.counter \in 0 .. MaxCounter
      /\ local.ms = ms => m.counter > local.counter \/ m.counter = MaxCounter
      /\ remote.ms = ms => m.counter > remote.counter \/ m.counter = MaxCounter
  <2>1. \A n \in -1 .. MaxCounter :
          saturating(n) \in 0 .. MaxCounter /\ (saturating(n) > n \/ saturating(n) = MaxCounter)
    BY <1>1 DEF saturating
  <2>2. /\ later(local.counter, remote.counter) \in -1 .. MaxCounter
        /\ local.counter <= later(local.counter, remote.counter)
        /\ remote.counter <= later(local.counter, remote.counter)
    BY <1>1 DEF later
  <2>3. CASE local.ms = ms /\ remote.ms = ms
    <3>1. m.counter = saturating(later(local.counter, remote.counter))
      BY <2>3 DEF merge
    <3> QED
      BY <1>1, <2>1, <2>2, <3>1
  <2>4. CASE local.ms = ms /\ remote.ms # ms
    <3>1. m.counter = saturating(local.counter)
      BY <2>4 DEF merge
    <3> QED
      BY <1>1, <2>1, <2>4, <3>1
  <2>5. CASE local.ms # ms /\ remote.ms = ms
    <3>1. m.counter = saturating(remote.counter)
      BY <2>5 DEF merge
    <3> QED
      BY <1>1, <2>1, <2>5, <3>1
  <2>6. CASE local.ms # ms /\ remote.ms # ms
    <3>1. m.counter = 0
      BY <2>6 DEF merge
    <3> QED
      BY <1>1, <2>6, <3>1
  <2> QED
    BY <2>3, <2>4, <2>5, <2>6
<1>5. m \in Stamps
  <2>1. m = [ms |-> m.ms, counter |-> m.counter, node |-> m.node]
    BY DEF merge
  <2> QED
    BY <1>2, <1>3, <1>4, <2>1 DEF Stamps
<1> HIDE DEF m, ms
<1>6. ASSUME NEW s \in Stamps, AtMost(s, local) \/ AtMost(s, remote)
      PROVE  AtMost(s, m) /\ (Before(s, m) \/ m.counter = MaxCounter)
  <2>1. s.ms \in 0 .. MaxWall /\ s.counter \in 0 .. MaxCounter
    BY DEF Stamps
  <2>2. s.ms <= m.ms
    BY <1>1, <1>2, <1>3, <1>6, <2>1 DEF AtMost
  <2>3. s.ms = m.ms => s.counter < m.counter \/ m.counter = MaxCounter
    BY <1>1, <1>2, <1>3, <1>4, <1>6, <2>1 DEF AtMost
  <2> QED
    BY <1>1, <1>2, <1>3, <1>4, <2>1, <2>2, <2>3 DEF AtMost, Before
<1> QED
  BY <1>3, <1>5, <1>6 DEF m

-----------------------------------------------------------------------------
(* The invariant holds at first.                                           *)
LEMMA InitIInv ==
  ASSUME ClockAssumption, Init
  PROVE  IInv
<1>1. \A d \in Nodes : NoStamp(d) \in Clocks
  BY DEF ClockAssumption, NoStamp, Clocks
<1> QED
  BY <1>1 DEF Init, IInv, TypeOK, ClockInv, CausesFirst, StampsDiffer, Clocks

(* A change made: its stamp is later than all its device knows, and another *)
(* than those of its device, which it knows, and of other devices.          *)
LEMMA EnqueueIInv ==
  ASSUME ClockAssumption, IInv, NEW d \in Nodes, NEW wall \in 0 .. MaxWall, enqueue_projection(d, wall)
  PROVE  IInv'
<1> DEFINE stamp == tick(last_hlc[d], wall, d)
           new == [stamp |-> stamp, after |-> known[d]]
<1>1. /\ last_hlc' = [last_hlc EXCEPT ![d] = stamp]
      /\ changes' = changes \cup {new}
      /\ known' = [known EXCEPT ![d] = @ \cup {stamp}]
  BY DEF enqueue_projection
<1>2. /\ last_hlc \in [Nodes -> Clocks] /\ known \in [Nodes -> SUBSET Stamps]
      /\ changes \subseteq [stamp : Stamps, after : SUBSET Stamps]
  BY DEF IInv, TypeOK, Clocks
<1>3. stamp = merge(last_hlc[d], last_hlc[d], wall, d) /\ last_hlc[d] \in Clocks
  BY <1>2 DEF tick
<1>4. stamp \in Stamps /\ stamp.node = d
  BY <1>3, MergeIsLater
<1>5. \A s \in Stamps : s \in known[d] =>
        AtMost(s, stamp) /\ (Before(s, stamp) \/ stamp.counter = MaxCounter)
  BY <1>2, <1>3, MergeIsLater DEF IInv, ClockInv
<1>6. new.stamp = stamp /\ new.after = known[d] /\ new \in [stamp : Stamps, after : SUBSET Stamps]
  BY <1>2, <1>4
<1>7. /\ last_hlc'[d] = stamp /\ known'[d] = known[d] \cup {stamp}
      /\ \A e \in Nodes \ {d} : last_hlc'[e] = last_hlc[e] /\ known'[e] = known[e]
  BY <1>1, <1>2
<1> HIDE DEF stamp, new
<1>8. TypeOK'
  <2>1. stamp \in Clocks
    BY <1>4 DEF Stamps, Clocks, ClockAssumption
  <2> QED
    BY <1>1, <1>2, <1>4, <1>6, <2>1 DEF TypeOK, Clocks
<1>9. ClockInv'
  <2>1. ASSUME NEW e \in Nodes, NEW s \in known'[e] PROVE AtMost(s, last_hlc'[e])
    <3>1. CASE e # d
      BY <1>7, <2>1, <3>1 DEF IInv, ClockInv
    <3>2. CASE e = d /\ s \in known[d]
      BY <1>2, <1>5, <1>7, <3>2
    <3>3. CASE e = d /\ s = stamp
      BY <1>4, <1>7, <3>3 DEF AtMost, Stamps, ClockAssumption
    <3> QED
      BY <1>7, <2>1, <3>1, <3>2, <3>3
  <2>2. ASSUME NEW c \in changes' PROVE c.stamp \in known'[c.stamp.node]
    <3>1. CASE c = new
      BY <1>4, <1>6, <1>7, <3>1
    <3>2. CASE c \in changes
      <4>1. c.stamp \in known[c.stamp.node] /\ c.stamp.node \in Nodes
        BY <1>2, <3>2 DEF IInv, ClockInv, Stamps
      <4> QED
        BY <1>7, <4>1
    <3> QED
      BY <1>1, <2>2, <3>1, <3>2
  <2> QED
    BY <2>1, <2>2 DEF ClockInv
<1>10. CausesFirst'
  <2>1. ASSUME NEW c \in changes', NEW s \in c.after
        PROVE  Before(s, c.stamp) \/ c.stamp.counter = MaxCounter
    <3>1. CASE c = new
      BY <1>2, <1>5, <1>6, <2>1, <3>1
    <3>2. CASE c \in changes
      BY <2>1, <3>2 DEF IInv, CausesFirst
    <3> QED
      BY <1>1, <3>1, <3>2
  <2> QED
    BY <2>1 DEF CausesFirst
<1>11. StampsDiffer'
  <2>1. ASSUME NEW c \in changes, c.stamp = stamp PROVE stamp.counter = MaxCounter
    <3>1. stamp \in known[d]
      BY <1>4, <2>1 DEF IInv, ClockInv
    <3>2. ~Before(stamp, stamp)
      BY <1>4 DEF Before, Stamps, ClockAssumption
    <3> QED
      BY <1>4, <1>5, <3>1, <3>2
  <2>2. ASSUME NEW c \in changes', NEW e \in changes', c # e, c.stamp = e.stamp
        PROVE  c.stamp.counter = MaxCounter
    <3>1. CASE c \in changes /\ e \in changes
      BY <2>2, <3>1 DEF IInv, StampsDiffer
    <3>2. CASE c \in changes /\ e = new
      BY <1>6, <2>1, <2>2, <3>2
    <3>3. CASE c = new /\ e \in changes
      BY <1>6, <2>1, <2>2, <3>3
    <3> QED
      BY <1>1, <2>2, <3>1, <3>2, <3>3
  <2> QED
    BY <2>2 DEF StampsDiffer
<1> QED
  BY <1>8, <1>9, <1>10, <1>11 DEF IInv

(* A change received: the clock moves beyond its stamp.                     *)
LEMMA ReceiveIInv ==
  ASSUME ClockAssumption, IInv, NEW d \in Nodes, NEW wall \in 0 .. MaxWall, NEW change \in changes,
         apply_remote_entities(d, change, wall)
  PROVE  IInv'
<1> DEFINE clock == merge(last_hlc[d], change.stamp, wall, d)
<1>1. /\ last_hlc' = [last_hlc EXCEPT ![d] = clock]
      /\ known' = [known EXCEPT ![d] = @ \cup {change.stamp}]
      /\ changes' = changes
  BY DEF apply_remote_entities
<1>2. /\ last_hlc \in [Nodes -> Clocks] /\ known \in [Nodes -> SUBSET Stamps]
      /\ changes \subseteq [stamp : Stamps, after : SUBSET Stamps]
      /\ change.stamp \in Stamps
  BY DEF IInv, TypeOK, Clocks
<1>3. last_hlc[d] \in Clocks /\ change.stamp \in Clocks
  BY <1>2 DEF Stamps, Clocks, ClockAssumption
<1>4. clock \in Clocks
  <2>1. clock \in Stamps
    BY <1>3, MergeIsLater
  <2> QED
    BY <2>1 DEF Stamps, Clocks, ClockAssumption
<1>5. AtMost(change.stamp, change.stamp)
  BY <1>2 DEF AtMost, Stamps, ClockAssumption
<1>6. \A s \in known[d] \cup {change.stamp} : AtMost(s, clock)
  BY <1>2, <1>3, <1>5, MergeIsLater DEF IInv, ClockInv
<1>7. /\ last_hlc'[d] = clock /\ known'[d] = known[d] \cup {change.stamp}
      /\ \A e \in Nodes \ {d} : last_hlc'[e] = last_hlc[e] /\ known'[e] = known[e]
  BY <1>1, <1>2
<1> HIDE DEF clock
<1>8. TypeOK'
  BY <1>1, <1>2, <1>4 DEF TypeOK, Clocks
<1>9. ClockInv'
  <2>1. ASSUME NEW e \in Nodes, NEW s \in known'[e] PROVE AtMost(s, last_hlc'[e])
    <3>1. CASE e # d
      BY <1>7, <2>1, <3>1 DEF IInv, ClockInv
    <3>2. CASE e = d
      BY <1>6, <1>7, <2>1, <3>2
    <3> QED
      BY <3>1, <3>2
  <2>2. ASSUME NEW c \in changes' PROVE c.stamp \in known'[c.stamp.node]
    <3>1. c.stamp \in known[c.stamp.node] /\ c.stamp.node \in Nodes
      BY <1>1, <1>2, <2>2 DEF IInv, ClockInv, Stamps
    <3> QED
      BY <1>7, <3>1
  <2> QED
    BY <2>1, <2>2 DEF ClockInv
<1>10. CausesFirst' /\ StampsDiffer'
  BY <1>1 DEF IInv, CausesFirst, StampsDiffer
<1> QED
  BY <1>8, <1>9, <1>10 DEF IInv

(* Every step keeps the invariant.                                         *)
LEMMA NextIInv ==
  ASSUME ClockAssumption, IInv, [Next]_vars
  PROVE  IInv'
<1>1. ASSUME NEW d \in Nodes, NEW wall \in 0 .. MaxWall, enqueue_projection(d, wall) PROVE IInv'
  BY <1>1, EnqueueIInv
<1>2. ASSUME NEW d \in Nodes, NEW wall \in 0 .. MaxWall, NEW change \in changes,
             apply_remote_entities(d, change, wall)
      PROVE  IInv'
  BY <1>2, ReceiveIInv
<1>3. CASE UNCHANGED vars
  BY <1>3 DEF vars, IInv, TypeOK, ClockInv, CausesFirst, StampsDiffer
<1> QED
  BY <1>1, <1>2, <1>3 DEF Next

-----------------------------------------------------------------------------
(* The stamp of a change is later than those of all changes its device had  *)
(* made or received, whatever the wall clocks show, and no two changes have *)
(* the same one, until the counter has reached its end (HybridTimestamp).   *)
THEOREM StampsCorrect ==
  ASSUME ClockAssumption
  PROVE  Spec => [](TypeOK /\ CausesFirst /\ StampsDiffer)
<1>1. Init => IInv
  BY InitIInv
<1>2. IInv /\ [Next]_vars => IInv'
  BY NextIInv
<1>3. IInv => TypeOK /\ CausesFirst /\ StampsDiffer
  BY DEF IInv
<1> QED
  BY <1>1, <1>2, <1>3, PTL DEF Spec
=============================================================================
