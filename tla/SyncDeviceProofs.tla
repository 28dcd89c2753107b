--------------------------- MODULE SyncDeviceProofs ---------------------------
(****************************************************************************)
(* Proofs about SyncDevice, for any entities, any limits of a batch and of  *)
(* a run, pushes that overtake each other or not, and any number of edits,  *)
(* commits and faults.                                                      *)
(****************************************************************************)
EXTENDS SyncDevice, SequenceTheorems, FiniteSetTheorems, WellFoundedInduction, TLAPS

(* What the fields hold that TypeOK leaves out.                             *)
Revs == [id : Nat, rev : Nat]
Records ==
  /\ requests \subseteq [ids : SUBSET Nat, sent : Nat, at : Nat]
  /\ reply \in [kind : {"none", "ok", "refused"}, accepted : SUBSET Revs, conflicts : SUBSET Revs]
  /\ IsFiniteSet(mine) /\ Cardinality(mine) <= MaxEdits
  /\ IsFiniteSet(others) /\ Cardinality(others) <= MaxCommits

(* An accepted change of this device is in the log as its outbox row has it,*)
(* at the revision after the one it was built on.                           *)
Logged(l, n) ==
  LET c == outbox[l[n].id] IN
  /\ l[n].id \in DOMAIN outbox
  /\ l[n].entity = c.entity /\ l[n].rev = c.base + 1 /\ l[n].content = c.content
OwnLogged == \A n \in DOMAIN log : log[n].id # 0 => Logged(log, n)

(* An answer speaks of the changes in flight, and what it calls accepted is *)
(* in the log.                                                              *)
Ids(revs) == {r.id : r \in revs}
InLog(l, r) == \E n \in DOMAIN l : l[n].id = r.id /\ l[n].rev = r.rev
ReplyTrue ==
  /\ pc # "answered" => reply = NoReply
  /\ pc = "answered" => reply.kind \in {"ok", "refused"}
  /\ reply.kind = "ok" => Ids(reply.accepted) \cup Ids(reply.conflicts) = InFlight
  /\ \A a \in reply.accepted : InLog(log, a)
  /\ InFlight # {} => pc \in {"pushing", "answered"}

(* Of the rows of an entity those that are stuck come first and those that  *)
(* wait last, none is in flight while another is stuck, and each is built   *)
(* on a later revision than the one before it.                              *)
Stuck == {"conflict", "dead_letter"}
Active == {"pending", "in_flight"}
QueuedIn(st) ==
  \A i, j \in DOMAIN outbox : outbox[i].entity = outbox[j].entity =>
    /\ st[i] \in Stuck /\ st[j] \in Active => i < j /\ st[j] = "pending"
    /\ st[i] = "in_flight" /\ st[j] = "pending" => i < j
    /\ st[i] \in Active /\ st[j] \in Active /\ i < j => outbox[i].base < outbox[j].base

(* They are built on what the device knows of the gateway, or on later.     *)
AheadOf(st, known) ==
  \A i \in DOMAIN outbox : st[i] \in Active => known[outbox[i].entity].rev <= outbox[i].base

(* ConflictsVisible, row by row.                                            *)
VisibleFor(e) ==
  /\ \A i \in DOMAIN outbox :
       outbox[i].entity = e /\ status[i] = "conflict" => conflict[e].phase # "none"
  /\ conflict[e].phase # "none" =>
       \E i \in DOMAIN outbox : outbox[i].entity = e /\ status[i] \in Stuck

IInv ==
  /\ TypeOK /\ Records /\ OwnLogged /\ ReplyTrue
  /\ QueuedIn(status) /\ AheadOf(status, state)
  /\ StateMatchesLog /\ \A e \in Entities : VisibleFor(e)

-----------------------------------------------------------------------------
(* Numbers: a set of them that is not empty has a least one, and a greatest *)
(* one if it is bounded.                                                    *)
LEMMA LeastOf ==
  ASSUME NEW S \in SUBSET Nat, S # {}
  PROVE  \E m \in S : \A n \in S : m <= n
<1> DEFINE less == {p \in Nat \X Nat : p[1] < p[2]}
<1>1. IsWellFoundedOn(less, Nat)
  BY NatLessThanWellFounded DEF OpToRel
<1>2. PICK m \in S : \A n \in S : <<n, m>> \notin less
  <2> HIDE DEF less
  <2> QED
    BY <1>1, WFMin
<1>3. ASSUME NEW n \in S, n < m PROVE FALSE
  <2>1. <<n, m>> \in less
    BY <1>3
  <2> QED
    BY <1>2, <2>1
<1> QED
  BY <1>3

(* The greatest one lies b minus the least of their distances from b.       *)
LEMMA GreatestOf ==
  ASSUME NEW b \in Nat, NEW S \in SUBSET (0 .. b), S # {}
  PROVE  \E m \in S : \A n \in S : n <= m
<1> DEFINE mirrored == {b - n : n \in S}
<1>1. mirrored \in SUBSET Nat /\ mirrored # {}
  OBVIOUS
<1>2. PICK k \in mirrored : \A n \in mirrored : k <= n
  BY <1>1, LeastOf
<1>3. PICK m \in S : k = b - m
  BY <1>2
<1>4. ASSUME NEW n \in S PROVE n <= m
  <2>1. b - m <= b - n
    BY <1>2, <1>3
  <2>2. n \in Nat /\ m \in Nat
    OBVIOUS
  <2> QED
    BY <2>1, <2>2
<1> QED
  BY <1>4

(* What holds of 0, and of n + 1 if it holds of n, holds up to b: the set S *)
(* of the numbers it holds of has no least number missing.                  *)
LEMMA UpTo ==
  ASSUME NEW b \in Nat, NEW S, 0 \in S, \A n \in 0 .. b : n \in S /\ n < b => n + 1 \in S
  PROVE  0 .. b \subseteq S
<1> DEFINE missing == (0 .. b) \ S
<1>1. SUFFICES ASSUME missing # {} PROVE FALSE
  OBVIOUS
<1>2. PICK m \in missing : \A n \in missing : m <= n
  <2>1. missing \in SUBSET Nat
    OBVIOUS
  <2> HIDE DEF missing
  <2> QED
    BY <1>1, <2>1, LeastOf
<1>3. m \in 0 .. b /\ m \notin S /\ m # 0
  BY <1>2
<1>4. m - 1 \in 0 .. b /\ m - 1 \notin missing /\ m - 1 < b /\ (m - 1) + 1 = m
  BY <1>2, <1>3
<1>5. m - 1 \in S
  BY <1>4
<1> QED
  BY <1>3, <1>4, <1>5

-----------------------------------------------------------------------------
(* The gateway's way through a batch: what it has after each change.        *)
Start == [log |-> log, row |-> row, accepted |-> {}, conflicts |-> {}]
After(t, ids, missed, n) ==
  IF n = 0 THEN Start
  ELSE IF n \in ids THEN pushOne(t[n - 1], n, missed) ELSE t[n - 1]
IsWay(t, ids, missed, b) == t = [n \in 0 .. b |-> After(t, ids, missed, n)]

(* There is such a way, whatever the batch: one change further each time.   *)
LEMMA WayExists ==
  ASSUME NEW b \in Nat, NEW ids, NEW missed
  PROVE  \E t : IsWay(t, ids, missed, b)
<1> DEFINE S == {n \in 0 .. b : \E t : IsWay(t, ids, missed, n)}
<1>1. 0 \in S
  <2>1. IsWay([n \in 0 .. 0 |-> Start], ids, missed, 0)
    BY DEF IsWay, After
  <2> QED
    BY <2>1
<1>2. ASSUME NEW n \in 0 .. b, n \in S, n < b PROVE n + 1 \in S
  <2>1. PICK t : IsWay(t, ids, missed, n)
    BY <1>2
  <2> DEFINE u == [k \in 0 .. (n + 1) |-> After(t, ids, missed, k)]
  <2>2. ASSUME NEW k \in 0 .. n PROVE u[k] = t[k]
    BY <2>1 DEF IsWay
  <2>3. ASSUME NEW k \in 0 .. (n + 1) PROVE After(t, ids, missed, k) = After(u, ids, missed, k)
    <3>1. k = 0 \/ k - 1 \in 0 .. n
      OBVIOUS
    <3>2. k = 0 \/ u[k - 1] = t[k - 1]
      BY <2>2, <3>1
    <3> HIDE DEF u
    <3> QED
      BY <3>2 DEF After
  <2>4. u = [k \in 0 .. (n + 1) |-> After(u, ids, missed, k)]
    BY <2>3
  <2>5. IsWay(u, ids, missed, n + 1)
    BY <2>4 DEF IsWay
  <2> HIDE DEF u
  <2>6. n + 1 \in 0 .. b
    BY <1>2
  <2> QED
    BY <2>5, <2>6
<1>3. 0 .. b \subseteq S
  <2> HIDE DEF S
  <2> QED
    BY <1>1, <1>2, UpTo
<1> QED
  BY <1>3

(* pushAll takes it.                                                        *)
LEMMA Way ==
  ASSUME Len(outbox) \in Nat, NEW ids, NEW missed
  PROVE  \E t : /\ IsWay(t, ids, missed, Len(outbox))
                /\ pushAll(ids, missed) = t[Len(outbox)]
<1> DEFINE t == CHOOSE t : IsWay(t, ids, missed, Len(outbox))
<1>1. IsWay(t, ids, missed, Len(outbox))
  <2>1. \E u : IsWay(u, ids, missed, Len(outbox))
    BY WayExists
  <2> QED
    BY <2>1
<1>2. pushAll(ids, missed) = t[Len(outbox)]
  BY DEF pushAll, IsWay, After, Start
<1> QED
  BY <1>1, <1>2

-----------------------------------------------------------------------------
(* Types: what is taken from the variables, element by element.             *)
LEMMA Types ==
  IInv =>
    /\ Len(outbox) \in Nat /\ DOMAIN outbox = 1 .. Len(outbox)
    /\ DOMAIN status = DOMAIN outbox
    /\ \A i \in DOMAIN outbox :
         /\ outbox[i].entity \in Entities /\ outbox[i].content \in SUBSET Edits
         /\ outbox[i].edit \in Nat /\ outbox[i].base \in Nat /\ status[i] \in Statuses
         /\ i \in Nat /\ i # 0
    /\ Len(log) \in Nat /\ DOMAIN log = 1 .. Len(log)
    /\ \A n \in DOMAIN log :
         /\ log[n].entity \in Entities /\ log[n].rev \in Nat
         /\ log[n].content \in SUBSET Edits /\ log[n].id \in Nat
    /\ \A e \in Entities :
         /\ row[e].rev \in Nat /\ row[e].content \in SUBSET Edits
         /\ state[e].rev \in Nat /\ state[e].base \in SUBSET Edits
         /\ local[e] \in SUBSET Edits
<1> SUFFICES ASSUME IInv
             PROVE  /\ Len(outbox) \in Nat /\ DOMAIN outbox = 1 .. Len(outbox)
                    /\ DOMAIN status = DOMAIN outbox
                    /\ \A i \in DOMAIN outbox :
                         /\ outbox[i].entity \in Entities /\ outbox[i].content \in SUBSET Edits
                         /\ outbox[i].edit \in Nat /\ outbox[i].base \in Nat /\ status[i] \in Statuses
                         /\ i \in Nat /\ i # 0
                    /\ Len(log) \in Nat /\ DOMAIN log = 1 .. Len(log)
                    /\ \A n \in DOMAIN log :
                         /\ log[n].entity \in Entities /\ log[n].rev \in Nat
                         /\ log[n].content \in SUBSET Edits /\ log[n].id \in Nat
                    /\ \A e \in Entities :
                         /\ row[e].rev \in Nat /\ row[e].content \in SUBSET Edits
                         /\ state[e].rev \in Nat /\ state[e].base \in SUBSET Edits
                         /\ local[e] \in SUBSET Edits
  OBVIOUS
<1>1. TypeOK
  BY DEF IInv
<1>2. Len(outbox) \in Nat /\ DOMAIN outbox = 1 .. Len(outbox) /\ DOMAIN status = DOMAIN outbox
  BY <1>1 DEF TypeOK
<1>3. ASSUME NEW i \in DOMAIN outbox
      PROVE  /\ outbox[i] \in [entity : Entities, content : SUBSET Edits, edit : Nat, base : Nat]
             /\ status[i] \in Statuses /\ i \in Nat /\ i # 0
  <2>1. outbox \in Seq([entity : Entities, content : SUBSET Edits, edit : Nat, base : Nat])
    BY <1>1 DEF TypeOK
  <2>2. status \in [DOMAIN outbox -> Statuses]
    BY <1>1 DEF TypeOK
  <2>3. i \in 1 .. Len(outbox) /\ i \in Nat /\ i # 0
    BY <1>2
  <2>4. outbox[i] \in [entity : Entities, content : SUBSET Edits, edit : Nat, base : Nat]
    BY <2>1, <2>3, ElementOfSeq
  <2> QED
    BY <2>2, <2>3, <2>4
<1>4. Len(log) \in Nat /\ DOMAIN log = 1 .. Len(log)
  BY <1>1 DEF TypeOK
<1>5. ASSUME NEW n \in DOMAIN log
      PROVE  log[n] \in [entity : Entities, rev : Nat, content : SUBSET Edits, id : Nat]
  <2>1. log \in Seq([entity : Entities, rev : Nat, content : SUBSET Edits, id : Nat])
    BY <1>1 DEF TypeOK
  <2> QED
    BY <1>4, <2>1, ElementOfSeq
<1>6. ASSUME NEW e \in Entities
      PROVE  /\ row[e] \in [rev : Nat, content : SUBSET Edits]
             /\ state[e] \in [rev : Nat, base : SUBSET Edits]
             /\ local[e] \in SUBSET Edits
  BY <1>1 DEF TypeOK
<1> QED
  BY <1>2, <1>3, <1>4, <1>5, <1>6

-----------------------------------------------------------------------------
(* What holds of the gateway on its way through a batch, after it has       *)
(* handled the changes done.                                                *)
Changes == [entity : Entities, rev : Nat, content : SUBSET Edits, id : Nat]
Heads == [Entities -> [rev : Nat, content : SUBSET Edits]]
Handled(u, done) ==
  /\ u \in [log : Seq(Changes), row : Heads, accepted : SUBSET Revs, conflicts : SUBSET Revs]
  /\ Len(log) <= Len(u.log) /\ \A n \in 1 .. Len(log) : u.log[n] = log[n]
  /\ \A n \in DOMAIN u.log : u.log[n].id # 0 => Logged(u.log, n)
  /\ \A a \in u.accepted : InLog(u.log, a)
  /\ Ids(u.accepted) \cup Ids(u.conflicts) = done

(* One more change is handled: stored before, appended, or refused.         *)
LEMMA pushOneHandled ==
  ASSUME IInv, NEW done, NEW u, Handled(u, done), NEW i \in DOMAIN outbox, NEW missed
  PROVE  Handled(pushOne(u, i, missed), done \cup {i})
<1> DEFINE c == outbox[i]
           e == outbox[i].entity
           rev == u.row[e].rev + 1
           w == pushOne(u, i, missed)
<1>1. /\ e \in Entities /\ c.content \in SUBSET Edits /\ c.base \in Nat /\ i \in Nat /\ i # 0
      /\ Len(log) \in Nat
  BY Types
<1>2. /\ u.log \in Seq(Changes) /\ u.row \in Heads /\ u.accepted \subseteq Revs /\ u.conflicts \subseteq Revs
      /\ u = [log |-> u.log, row |-> u.row, accepted |-> u.accepted, conflicts |-> u.conflicts]
      /\ Len(u.log) \in Nat /\ DOMAIN u.log = 1 .. Len(u.log)
  BY DEF Handled
<1>3. rev \in Nat /\ u.row[e].rev \in Nat
  BY <1>1, <1>2 DEF Heads
<1>4. CASE isStored(u.log, i) /\ i \notin missed
  <2> DEFINE a == [id |-> i, rev |-> c.base + 1]
  <2>1. w = [u EXCEPT !.accepted = @ \cup {a}]
    BY <1>4 DEF pushOne
  <2>2. /\ w = [log |-> u.log, row |-> u.row, accepted |-> u.accepted \cup {a}, conflicts |-> u.conflicts]
        /\ w.log = u.log /\ w.row = u.row /\ w.accepted = u.accepted \cup {a} /\ w.conflicts = u.conflicts
    BY <1>2, <2>1
  <2>3. a \in Revs /\ a.id = i /\ a.rev = c.base + 1
    BY <1>1 DEF Revs
  <2>4. InLog(u.log, a)
    <3>1. PICK n \in DOMAIN u.log : u.log[n].id = i
      BY <1>4 DEF isStored
    <3>2. u.log[n].rev = c.base + 1
      BY <1>1, <3>1 DEF Handled, Logged
    <3> QED
      BY <2>3, <3>1, <3>2 DEF InLog
  <2>5. Ids(w.accepted) = Ids(u.accepted) \cup {i}
    BY <2>2, <2>3 DEF Ids
  <2> HIDE DEF a, w
  <2>6. w \in [log : Seq(Changes), row : Heads, accepted : SUBSET Revs, conflicts : SUBSET Revs]
    BY <1>2, <2>2, <2>3
  <2> QED
    BY <2>2, <2>4, <2>5, <2>6 DEF Handled, w
  
<1>5. CASE ~(isStored(u.log, i) /\ i \notin missed) /\ c.base = u.row[e].rev
  <2> DEFINE g == [entity |-> e, rev |-> rev, content |-> c.content, id |-> i]
             a == [id |-> i, rev |-> rev]
             head == [rev |-> rev, content |-> c.content]
  <2>1. w = [log |-> Append(u.log, g), row |-> [u.row EXCEPT ![e] = head],
             accepted |-> u.accepted \cup {a}, conflicts |-> u.conflicts]
    BY <1>5 DEF pushOne
  <2>2. /\ w.log = Append(u.log, g) /\ w.row = [u.row EXCEPT ![e] = head]
        /\ w.accepted = u.accepted \cup {a} /\ w.conflicts = u.conflicts
    BY <2>1
  <2>3. /\ g \in Changes /\ a \in Revs /\ head \in [rev : Nat, content : SUBSET Edits]
        /\ g.id = i /\ g.entity = e /\ g.rev = c.base + 1 /\ g.content = c.content
        /\ a.id = i /\ a.rev = g.rev
    BY <1>1, <1>3, <1>5 DEF Changes, Revs
  <2> HIDE DEF g, a, head
  <2>4. /\ w.log \in Seq(Changes) /\ Len(w.log) = Len(u.log) + 1
        /\ \A n \in 1 .. Len(u.log) : w.log[n] = u.log[n]
        /\ w.log[Len(u.log) + 1] = g /\ DOMAIN w.log = 1 .. (Len(u.log) + 1)
    BY <1>2, <2>2, <2>3, AppendProperties
  <2>5. w.row \in Heads
    BY <1>1, <1>2, <2>2, <2>3 DEF Heads
  <2>6. w \in [log : Seq(Changes), row : Heads, accepted : SUBSET Revs, conflicts : SUBSET Revs]
    BY <1>2, <2>1, <2>2, <2>3, <2>4, <2>5
  <2> HIDE DEF w
  <2>7. Len(log) <= Len(w.log) /\ \A n \in 1 .. Len(log) : w.log[n] = log[n]
    <3>1. Len(log) <= Len(u.log) /\ \A n \in 1 .. Len(log) : u.log[n] = log[n]
      BY DEF Handled
    <3> QED
      BY <1>1, <1>2, <2>4, <3>1
  <2>8. ASSUME NEW n \in DOMAIN w.log, w.log[n].id # 0 PROVE Logged(w.log, n)
    <3>1. CASE n = Len(u.log) + 1
      BY <2>3, <2>4, <3>1 DEF Logged
    <3>2. CASE n \in 1 .. Len(u.log)
      <4>1. w.log[n] = u.log[n] /\ Logged(u.log, n)
        BY <1>2, <2>4, <2>8, <3>2 DEF Handled
      <4> QED
        BY <4>1 DEF Logged
    <3> QED
      BY <1>2, <2>4, <3>1, <3>2
  <2>9. ASSUME NEW b \in w.accepted PROVE InLog(w.log, b)
    <3>1. CASE b = a
      <4>1. Len(u.log) + 1 \in DOMAIN w.log
        BY <1>2, <2>4
      <4> QED
        BY <2>3, <2>4, <3>1, <4>1 DEF InLog
    <3>2. CASE b \in u.accepted
      <4>1. PICK n \in DOMAIN u.log : u.log[n].id = b.id /\ u.log[n].rev = b.rev
        BY <3>2 DEF Handled, InLog
      <4>2. n \in DOMAIN w.log /\ w.log[n] = u.log[n]
        BY <1>2, <2>4
      <4> QED
        BY <4>1, <4>2 DEF InLog
    <3> QED
      BY <2>2, <2>9, <3>1, <3>2
  <2>10. Ids(w.accepted) = Ids(u.accepted) \cup {i}
    BY <2>2, <2>3 DEF Ids
  <2>11. Ids(w.accepted) \cup Ids(w.conflicts) = done \cup {i}
    BY <2>2, <2>10 DEF Handled
  <2> QED
    BY <2>6, <2>7, <2>8, <2>9, <2>11 DEF Handled, w
<1>6. CASE ~(isStored(u.log, i) /\ i \notin missed) /\ c.base # u.row[e].rev
  <2> DEFINE a == [id |-> i, rev |-> u.row[e].rev]
  <2>1. w = [u EXCEPT !.conflicts = @ \cup {a}]
    BY <1>6 DEF pushOne
  <2>2. /\ w = [log |-> u.log, row |-> u.row, accepted |-> u.accepted, conflicts |-> u.conflicts \cup {a}]
        /\ w.log = u.log /\ w.row = u.row /\ w.accepted = u.accepted /\ w.conflicts = u.conflicts \cup {a}
    BY <1>2, <2>1
  <2>3. a \in Revs /\ a.id = i
    BY <1>1, <1>3 DEF Revs
  <2>5. Ids(w.conflicts) = Ids(u.conflicts) \cup {i}
    BY <2>2, <2>3 DEF Ids
  <2> HIDE DEF a, w
  <2>6. w \in [log : Seq(Changes), row : Heads, accepted : SUBSET Revs, conflicts : SUBSET Revs]
    BY <1>2, <2>2, <2>3
  <2> QED
    BY <2>2, <2>5, <2>6 DEF Handled, w
<1> QED
  BY <1>4, <1>5, <1>6

(* All the way through a batch.                                             *)
LEMMA WayHandled ==
  ASSUME IInv, NEW ids \in SUBSET DOMAIN outbox, NEW missed
  PROVE  \E t : /\ IsWay(t, ids, missed, Len(outbox)) /\ pushAll(ids, missed) = t[Len(outbox)]
                /\ \A n \in 0 .. Len(outbox) : Handled(t[n], ids \cap (1 .. n))
<1> DEFINE b == Len(outbox)
<1>0. b \in Nat /\ DOMAIN outbox = 1 .. b /\ Len(log) \in Nat
  BY Types
<1>1. PICK t : IsWay(t, ids, missed, b) /\ pushAll(ids, missed) = t[b]
  BY <1>0, Way
<1> HIDE DEF b
<1> DEFINE S == {n \in 0 .. b : Handled(t[n], ids \cap (1 .. n))}
<1>2. \A n \in 0 .. b : t[n] = After(t, ids, missed, n)
  BY <1>1 DEF IsWay
<1>3. 0 \in S
  <2>1. t[0] = Start /\ 0 \in 0 .. b
    BY <1>0, <1>2 DEF After
  <2>2. log \in Seq(Changes) /\ row \in Heads
    BY DEF IInv, TypeOK, Changes, Heads
  <2>3. Start \in [log : Seq(Changes), row : Heads, accepted : SUBSET Revs, conflicts : SUBSET Revs]
    BY <2>2 DEF Start
  <2>4. Start.log = log /\ Start.accepted = {} /\ Start.conflicts = {}
    BY DEF Start
  <2>5. ids \cap (1 .. 0) = {}
    BY <1>0
  <2>6. Handled(Start, {})
    BY <1>0, <2>3, <2>4 DEF Handled, IInv, OwnLogged, Ids
  <2> QED
    BY <2>1, <2>5, <2>6
<1>4. ASSUME NEW n \in 0 .. b, n \in S, n < b PROVE n + 1 \in S
  <2>1. n + 1 \in 0 .. b /\ n + 1 \in DOMAIN outbox /\ (n + 1) - 1 = n /\ n + 1 # 0
    BY <1>0, <1>4
  <2>2. t[n + 1] = IF n + 1 \in ids THEN pushOne(t[n], n + 1, missed) ELSE t[n]
    BY <1>2, <2>1 DEF After
  <2>3. Handled(t[n], ids \cap (1 .. n))
    BY <1>4
  <2>4. CASE n + 1 \in ids
    <3>1. ids \cap (1 .. (n + 1)) = (ids \cap (1 .. n)) \cup {n + 1}
      BY <2>4, <1>0
    <3>2. Handled(pushOne(t[n], n + 1, missed), (ids \cap (1 .. n)) \cup {n + 1})
      BY <2>1, <2>3, pushOneHandled
    <3> QED
      BY <2>1, <2>2, <2>4, <3>1, <3>2
  <2>5. CASE n + 1 \notin ids
    <3>1. ids \cap (1 .. (n + 1)) = ids \cap (1 .. n)
      BY <2>5, <1>0
    <3> QED
      BY <2>1, <2>2, <2>3, <2>5, <3>1
  <2> QED
    BY <2>4, <2>5
<1>5. 0 .. b \subseteq S
  <2> HIDE DEF S
  <2> QED
    BY <1>0, <1>3, <1>4, UpTo
<1>6. \A n \in 0 .. b : Handled(t[n], ids \cap (1 .. n))
  BY <1>5
<1> QED
  BY <1>1, <1>6 DEF b

(* The whole batch is handled.                                              *)
LEMMA pushAllHandled ==
  ASSUME IInv, NEW ids \in SUBSET DOMAIN outbox, NEW missed
  PROVE  Handled(pushAll(ids, missed), ids)
<1>1. Len(outbox) \in Nat /\ DOMAIN outbox = 1 .. Len(outbox)
  BY Types
<1>2. PICK t : /\ pushAll(ids, missed) = t[Len(outbox)]
               /\ \A n \in 0 .. Len(outbox) : Handled(t[n], ids \cap (1 .. n))
  BY WayHandled
<1>3. Len(outbox) \in 0 .. Len(outbox) /\ ids \cap (1 .. Len(outbox)) = ids
  BY <1>1
<1> QED
  BY <1>2, <1>3

-----------------------------------------------------------------------------
(* The outbox                                                               *)

(* The latest of some rows.                                                 *)
LEMMA LatestOf ==
  ASSUME NEW b \in Nat, NEW S \in SUBSET (1 .. b), S # {}
  PROVE  Latest(S) \in S /\ \A i \in S : i <= Latest(S)
<1>1. S \in SUBSET (0 .. b)
  OBVIOUS
<1>2. \E m \in S : \A i \in S : i <= m
  BY <1>1, GreatestOf
<1> QED
  BY <1>2 DEF Latest

(* Marking rows.                                                            *)
LEMMA MarkedIs ==
  ASSUME NEW st \in [DOMAIN outbox -> Statuses], NEW S, NEW s \in Statuses
  PROVE  /\ Marked(st, S, s) \in [DOMAIN outbox -> Statuses]
         /\ \A i \in DOMAIN outbox : Marked(st, S, s)[i] = IF i \in S THEN s ELSE st[i]
BY DEF Marked

(* A change is planned on a revision that is neither before the one the     *)
(* device knows nor before those that the waiting changes will make.        *)
LEMMA Planned ==
  ASSUME IInv, NEW st \in [DOMAIN outbox -> Statuses], QueuedIn(st),
         NEW e \in Entities, NEW known \in Nat,
         \A i \in DOMAIN outbox : outbox[i].entity = e /\ st[i] \in Active => known <= outbox[i].base
  PROVE  LET base == planned_base_revision(st, known, e) IN
         /\ base \in Nat /\ known <= base
         /\ \A i \in DOMAIN outbox : outbox[i].entity = e /\ st[i] \in Active => outbox[i].base < base
<1> DEFINE queued == RowsIn(st, e, {"pending", "in_flight"})
           last == Latest(queued)
           base == planned_base_revision(st, known, e)
<1>1. queued = {i \in DOMAIN outbox : outbox[i].entity = e /\ st[i] \in Active}
  BY DEF RowsIn, Rows, Active
<1>2. base = IF queued = {} THEN known ELSE outbox[last].base + 1
  BY DEF planned_base_revision
<1>3. CASE queued = {}
  BY <1>1, <1>2, <1>3
<1>4. CASE queued # {}
  <2>1. Len(outbox) \in Nat /\ queued \in SUBSET (1 .. Len(outbox))
    BY <1>1, Types
  <2> HIDE DEF queued
  <2>2. last \in queued /\ \A i \in queued : i <= last
    BY <1>4, <2>1, LatestOf
  <2> HIDE DEF last
  <2>3. /\ last \in DOMAIN outbox /\ outbox[last].entity = e /\ st[last] \in Active
        /\ outbox[last].base \in Nat /\ known <= outbox[last].base
    BY <1>1, <2>2, Types
  <2>4. base = outbox[last].base + 1
    BY <1>2, <1>4
  <2>5. ASSUME NEW i \in DOMAIN outbox, outbox[i].entity = e, st[i] \in Active
        PROVE  outbox[i].base < base
    <3>1. i \in queued /\ i <= last /\ i \in Nat /\ last \in Nat /\ outbox[i].base \in Nat
      BY <1>1, <2>2, <2>3, <2>5, Types
    <3>2. i = last \/ outbox[i].base < outbox[last].base
      BY <2>3, <2>5, <3>1 DEF QueuedIn
    <3> QED
      BY <2>3, <2>4, <3>1, <3>2
  <2>6. base \in Nat /\ known <= base
    BY <2>3, <2>4
  <2> QED
    BY <2>5, <2>6
<1> QED
  BY <1>3, <1>4

(* The outbox has grown, or is the same.                                    *)
Grown == \A i \in DOMAIN outbox : i \in DOMAIN outbox' /\ outbox'[i] = outbox[i]

(* A new row keeps the order of the queue, st being the other rows' status. *)
LEMMA Enqueued ==
  ASSUME IInv, NEW st \in [DOMAIN outbox -> Statuses], QueuedIn(st),
         NEW e \in Entities, NEW known \in Nat, NEW content \in SUBSET Edits, NEW ed \in Nat,
         enqueue_projection(st, known, e, content, ed),
         state' \in [Entities -> [rev : Nat, base : SUBSET Edits]],
         AheadOf(st, state'), state'[e].rev = known
  PROVE  /\ outbox' \in Seq([entity : Entities, content : SUBSET Edits, edit : Nat, base : Nat])
         /\ status' \in [DOMAIN outbox' -> Statuses]
         /\ DOMAIN outbox' = DOMAIN outbox \cup {Len(outbox) + 1} /\ Len(outbox) + 1 \notin DOMAIN outbox
         /\ Grown /\ \A i \in DOMAIN outbox : status'[i] = st[i]
         /\ outbox'[Len(outbox) + 1].entity = e /\ status'[Len(outbox) + 1] = "pending"
         /\ QueuedIn(status)' /\ AheadOf(status, state)'
<1> DEFINE base == planned_base_revision(st, known, e)
           last == Len(outbox) + 1
           new == [entity |-> e, content |-> content, edit |-> ed, base |-> base]
<1>1. /\ Len(outbox) \in Nat /\ DOMAIN outbox = 1 .. Len(outbox)
      /\ \A i \in DOMAIN outbox : outbox[i].base \in Nat /\ outbox[i].entity \in Entities /\ i < last /\ i \in Nat
  BY Types
<1>2. /\ base \in Nat /\ known <= base
      /\ \A i \in DOMAIN outbox : outbox[i].entity = e /\ st[i] \in Active => outbox[i].base < base
  <2>1. \A i \in DOMAIN outbox : outbox[i].entity = e /\ st[i] \in Active => known <= outbox[i].base
    BY DEF AheadOf
  <2> QED
    BY <2>1, Planned
<1>3. outbox' = Append(outbox, new) /\ status' = Append(st, "pending")
  BY DEF enqueue_projection
<1> HIDE DEF base
<1>4. new \in [entity : Entities, content : SUBSET Edits, edit : Nat, base : Nat] /\ new.entity = e /\ new.base = base
  BY <1>2
<1> HIDE DEF new
<1>5. /\ outbox' \in Seq([entity : Entities, content : SUBSET Edits, edit : Nat, base : Nat])
      /\ Len(outbox') = last /\ DOMAIN outbox' = 1 .. last
      /\ \A i \in 1 .. Len(outbox) : outbox'[i] = outbox[i]
      /\ outbox'[last] = new
  <2>1. outbox \in Seq([entity : Entities, content : SUBSET Edits, edit : Nat, base : Nat])
    BY DEF IInv, TypeOK
  <2> QED
    BY <1>1, <1>3, <1>4, <2>1, AppendProperties
<1>6. /\ status' \in [DOMAIN outbox' -> Statuses]
      /\ \A i \in DOMAIN outbox : status'[i] = st[i]
      /\ status'[last] = "pending"
  <2>1. st \in Seq(Statuses) /\ Len(st) = Len(outbox)
    BY <1>1, SeqDef
  <2>2. "pending" \in Statuses
    BY DEF Statuses, Unsynced
  <2>3. /\ status' \in Seq(Statuses) /\ Len(status') = last
        /\ \A i \in 1 .. Len(outbox) : status'[i] = st[i]
        /\ status'[last] = "pending"
    BY <1>1, <1>3, <2>1, <2>2, AppendProperties
  <2>4. status' \in [1 .. last -> Statuses]
    BY <2>3, LenProperties
  <2> QED
    BY <1>1, <1>5, <2>3, <2>4
<1>7. DOMAIN outbox' = DOMAIN outbox \cup {last} /\ last \notin DOMAIN outbox /\ last \in Nat
  BY <1>1, <1>5
<1> HIDE DEF last
<1>8. Grown
  BY <1>1, <1>5, <1>7 DEF Grown
<1>9. ASSUME NEW i \in DOMAIN outbox', NEW j \in DOMAIN outbox', outbox'[i].entity = outbox'[j].entity
      PROVE  /\ status'[i] \in Stuck /\ status'[j] \in Active => i < j /\ status'[j] = "pending"
             /\ status'[i] = "in_flight" /\ status'[j] = "pending" => i < j
             /\ status'[i] \in Active /\ status'[j] \in Active /\ i < j => outbox'[i].base < outbox'[j].base
  <2>1. CASE i \in DOMAIN outbox /\ j \in DOMAIN outbox
    <3>1. outbox'[i] = outbox[i] /\ outbox'[j] = outbox[j] /\ status'[i] = st[i] /\ status'[j] = st[j]
      BY <1>6, <1>8, <2>1 DEF Grown
    <3> QED
      BY <1>9, <2>1, <3>1 DEF QueuedIn
  <2>2. CASE i = last
    <3>1. status'[i] = "pending" /\ "pending" \notin Stuck /\ ~(i < j)
      BY <1>1, <1>6, <1>7, <2>2 DEF Stuck
    <3> QED
      BY <3>1
  <2>3. CASE i \in DOMAIN outbox /\ j = last
    <3>1. /\ i < j /\ outbox'[i] = outbox[i] /\ status'[i] = st[i] /\ status'[j] = "pending"
          /\ outbox'[j].base = base /\ outbox[i].entity = e
      BY <1>1, <1>4, <1>5, <1>6, <1>8, <1>9, <2>3 DEF Grown
    <3> QED
      BY <1>2, <2>3, <3>1
  <2> QED
    BY <1>7, <2>1, <2>2, <2>3
<1>10. ASSUME NEW i \in DOMAIN outbox', status'[i] \in Active
       PROVE  state'[outbox'[i].entity].rev <= outbox'[i].base
  <2>1. CASE i \in DOMAIN outbox
    <3>1. outbox'[i] = outbox[i] /\ status'[i] = st[i]
      BY <1>6, <1>8, <2>1 DEF Grown
    <3> QED
      BY <1>10, <2>1, <3>1 DEF AheadOf
  <2>2. CASE i = last
    BY <1>2, <1>4, <1>5, <2>2
  <2> QED
    BY <1>7, <2>1, <2>2
<1>11. QueuedIn(status)'
  BY <1>9 DEF QueuedIn
<1>12. AheadOf(status, state)'
  BY <1>10 DEF AheadOf
<1> QED
  BY <1>4, <1>5, <1>6, <1>7, <1>8, <1>11, <1>12 DEF last

-----------------------------------------------------------------------------
(* What the steps leave as it was                                           *)

(* Setting rows to synced keeps the order of the queue.                     *)
LEMMA Settle ==
  ASSUME IInv, NEW st \in [DOMAIN outbox -> Statuses], QueuedIn(st),
         NEW su \in [DOMAIN outbox -> Statuses],
         \A i \in DOMAIN outbox : su[i] = st[i] \/ su[i] = "synced"
  PROVE  QueuedIn(su)
<1>1. "synced" \notin Stuck /\ "synced" \notin Active /\ "synced" # "in_flight"
  BY DEF Stuck, Active
<1> QED
  BY <1>1 DEF QueuedIn

(* When all unsynced changes of an entity give way, none of its rows waits. *)
LEMMA GiveWay ==
  ASSUME IInv, NEW st \in [DOMAIN outbox -> Statuses], QueuedIn(st), NEW e \in Entities,
         NEW known, AheadOf(st, known)
  PROVE  LET cleared == Marked(st, RowsIn(st, e, Unsynced), "synced") IN
         /\ cleared \in [DOMAIN outbox -> Statuses]
         /\ \A i \in DOMAIN outbox : cleared[i] = IF outbox[i].entity = e THEN "synced" ELSE st[i]
         /\ QueuedIn(cleared) /\ AheadOf(cleared, known)
<1> DEFINE cleared == Marked(st, RowsIn(st, e, Unsynced), "synced")
<1>1. "synced" \in Statuses /\ "synced" \notin Active
  BY DEF Statuses, Active
<1>2. /\ cleared \in [DOMAIN outbox -> Statuses]
      /\ \A i \in DOMAIN outbox : cleared[i] = IF i \in RowsIn(st, e, Unsynced) THEN "synced" ELSE st[i]
  BY <1>1, MarkedIs
<1>3. \A i \in DOMAIN outbox : i \in RowsIn(st, e, Unsynced) <=> outbox[i].entity = e /\ st[i] \in Unsynced
  BY DEF RowsIn, Rows
<1> HIDE DEF cleared
<1>4. \A i \in DOMAIN outbox : st[i] \in Unsynced \/ st[i] = "synced"
  BY DEF Statuses
<1>5. \A i \in DOMAIN outbox : i \in RowsIn(st, e, Unsynced) => outbox[i].entity = e
  BY <1>3
<1>6. \A i \in DOMAIN outbox : outbox[i].entity = e /\ i \notin RowsIn(st, e, Unsynced) => st[i] = "synced"
  BY <1>3, <1>4
<1>7. \A i \in DOMAIN outbox : cleared[i] = IF outbox[i].entity = e THEN "synced" ELSE st[i]
  BY <1>2, <1>5, <1>6
<1>8. QueuedIn(cleared)
  BY <1>2, <1>7, Settle
<1>9. AheadOf(cleared, known)
  BY <1>1, <1>7 DEF AheadOf
<1> QED
  BY <1>2, <1>7, <1>8, <1>9 DEF cleared

(* The log still has the changes of this device as the outbox has them.     *)
LEMMA LogKept ==
  ASSUME IInv, log' = log, Grown
  PROVE  OwnLogged'
<1>1. ASSUME NEW n \in DOMAIN log, log[n].id # 0 PROVE Logged(log, n)'
  <2>1. Logged(log, n)
    BY <1>1 DEF IInv, OwnLogged
  <2>2. log[n].id \in DOMAIN outbox /\ log[n].id \in DOMAIN outbox' /\ outbox'[log[n].id] = outbox[log[n].id]
    BY <2>1 DEF Logged, Grown
  <2> QED
    BY <2>1, <2>2 DEF Logged
<1> QED
  BY <1>1 DEF OwnLogged

(* The answer is still the truth.                                           *)
LEMMA ReplyKept ==
  ASSUME IInv, UNCHANGED <<log, pc, reply>>, InFlight' = InFlight
  PROVE  ReplyTrue'
BY DEF IInv, ReplyTrue, InLog

(* Without an answer there is nothing to be true.                           *)
LEMMA NoReplyTrue ==
  ASSUME pc' \notin {"answered"}, reply' = NoReply, InFlight' # {} => pc' = "pushing"
  PROVE  ReplyTrue'
BY DEF ReplyTrue, NoReply, Ids

(* The device's state still matches the log.                                *)
LEMMA StateKept ==
  ASSUME IInv, UNCHANGED state,
         \A n \in DOMAIN log : n \in DOMAIN log' /\ log'[n] = log[n]
  PROVE  StateMatchesLog'
BY DEF IInv, StateMatchesLog

(* The conflict of an entity whose rows and conflict a step leaves alone, or*)
(* changes among the statuses that are not stuck.                           *)
LEMMA VisibleKept ==
  ASSUME IInv, NEW e \in Entities, conflict'[e] = conflict[e], Grown,
         \A i \in DOMAIN outbox : outbox[i].entity = e =>
           \/ status'[i] = status[i]
           \/ status'[i] # "conflict" /\ status[i] \notin Stuck,
         \A i \in DOMAIN outbox' : i \notin DOMAIN outbox =>
           outbox'[i].entity # e \/ status'[i] # "conflict"
  PROVE  VisibleFor(e)'
<1>1. VisibleFor(e)
  BY DEF IInv
<1>2. ASSUME NEW i \in DOMAIN outbox', outbox'[i].entity = e, status'[i] = "conflict"
      PROVE  conflict'[e].phase # "none"
  <2>1. i \in DOMAIN outbox /\ outbox[i].entity = e
    BY <1>2 DEF Grown
  <2>2. status[i] = "conflict"
    BY <1>2, <2>1
  <2> QED
    BY <1>1, <2>1, <2>2 DEF VisibleFor
<1>3. ASSUME conflict'[e].phase # "none"
      PROVE  \E i \in DOMAIN outbox' : outbox'[i].entity = e /\ status'[i] \in Stuck
  <2>1. PICK i \in DOMAIN outbox : outbox[i].entity = e /\ status[i] \in Stuck
    BY <1>1, <1>3 DEF VisibleFor
  <2>2. i \in DOMAIN outbox' /\ outbox'[i] = outbox[i] /\ status'[i] = status[i]
    BY <2>1 DEF Grown
  <2> QED
    BY <2>1, <2>2
<1> QED
  BY <1>2, <1>3 DEF VisibleFor

(* A step that touches neither outbox nor state nor conflicts.              *)
LEMMA BooksKept ==
  ASSUME IInv, UNCHANGED <<outbox, status, state, conflict>>
  PROVE  QueuedIn(status)' /\ AheadOf(status, state)' /\ (\A e \in Entities : VisibleFor(e)')
         /\ Grown /\ InFlight' = InFlight
BY DEF IInv, QueuedIn, AheadOf, VisibleFor, Grown, InFlight

(* A step that touches none of what the records speak of.                   *)
LEMMA RecordsKept ==
  ASSUME IInv, UNCHANGED <<requests, reply, mine, others>>
  PROVE  Records'
BY DEF IInv, Records

(* The next edit is within the bound.                                       *)
LEMMA NewEditIn ==
  ASSUME IInv, Cardinality(mine) < MaxEdits \/ Cardinality(others) < MaxCommits
  PROVE  /\ NewEdit \in Nat /\ NewEdit \in Edits
         /\ IsFiniteSet(mine \cup {NewEdit}) /\ IsFiniteSet(others \cup {NewEdit})
         /\ Cardinality(mine) < MaxEdits => Cardinality(mine \cup {NewEdit}) <= MaxEdits
         /\ Cardinality(others) < MaxCommits => Cardinality(others \cup {NewEdit}) <= MaxCommits
<1>1. /\ IsFiniteSet(mine) /\ Cardinality(mine) <= MaxEdits
      /\ IsFiniteSet(others) /\ Cardinality(others) <= MaxCommits
      /\ MaxEdits \in Nat /\ MaxCommits \in Nat
  BY BoundAssumption DEF IInv, Records
<1>2. Cardinality(mine) \in Nat /\ Cardinality(others) \in Nat
  BY <1>1, FS_CardinalityType
<1>3. /\ IsFiniteSet(mine \cup others)
      /\ Cardinality(mine \cup others) = Cardinality(mine) + Cardinality(others) - Cardinality(mine \cap others)
  BY <1>1, FS_Union
<1>4. Cardinality(mine \cap others) \in Nat /\ Cardinality(mine \cup others) \in Nat
  BY <1>1, <1>3, FS_Subset, FS_CardinalityType
<1>5. NewEdit \in Nat /\ NewEdit \in Edits
  BY <1>1, <1>2, <1>3, <1>4 DEF NewEdit, Edits
<1>6. /\ IsFiniteSet(mine \cup {NewEdit}) /\ Cardinality(mine \cup {NewEdit}) <= Cardinality(mine) + 1
      /\ Cardinality(mine \cup {NewEdit}) \in Nat
  <2>1. Cardinality(mine \cup {NewEdit}) = IF NewEdit \in mine THEN Cardinality(mine) ELSE Cardinality(mine) + 1
    BY <1>1, FS_AddElement
  <2> QED
    BY <1>1, <1>2, <2>1, FS_AddElement
<1>7. /\ IsFiniteSet(others \cup {NewEdit}) /\ Cardinality(others \cup {NewEdit}) <= Cardinality(others) + 1
      /\ Cardinality(others \cup {NewEdit}) \in Nat
  <2>1. Cardinality(others \cup {NewEdit}) = IF NewEdit \in others THEN Cardinality(others) ELSE Cardinality(others) + 1
    BY <1>1, FS_AddElement
  <2> QED
    BY <1>1, <1>2, <2>1, FS_AddElement
<1> QED
  BY <1>1, <1>2, <1>5, <1>6, <1>7

(* The first state: nothing is queued, known or in conflict.                *)
LEMMA InitIInv == Init => IInv
<1> SUFFICES ASSUME Init PROVE IInv
  OBVIOUS
<1>1. /\ log = <<>> /\ outbox = <<>> /\ status = <<>> /\ DOMAIN outbox = {} /\ DOMAIN log = {} /\ Len(log) = 0
      /\ requests = {} /\ mine = {} /\ others = {} /\ reply = NoReply /\ pc = "idle" /\ faults = 0 /\ cursor = 0
      /\ \A e \in Entities : conflict[e] = NoConflict /\ state[e] = [rev |-> 0, base |-> {}]
  BY DEF Init
<1>2. TypeOK
  <2>1. /\ log \in Seq([entity : Entities, rev : Nat, content : SUBSET Edits, id : Nat])
        /\ outbox \in Seq([entity : Entities, content : SUBSET Edits, edit : Nat, base : Nat])
        /\ status \in [DOMAIN outbox -> Statuses]
    BY <1>1
  <2>2. /\ row \in [Entities -> [rev : Nat, content : SUBSET Edits]]
        /\ state \in [Entities -> [rev : Nat, base : SUBSET Edits]]
        /\ local \in [Entities -> SUBSET Edits]
        /\ conflict \in [Entities -> [phase : {"none", "waiting", "ready"}, rev : Nat,
                                      base : SUBSET Edits, local : SUBSET Edits, remote : SUBSET Edits]]
    BY DEF Init, NoConflict
  <2>3. rounds = 0 /\ waived = {} /\ exposed \in BOOLEAN /\ MaxBatches \in Nat /\ MaxFaults \in Nat
    BY BoundAssumption, LimitAssumption DEF Init
  <2> QED
    BY <1>1, <2>1, <2>2, <2>3 DEF TypeOK
<1>3. Records
  <2>1. IsFiniteSet({}) /\ Cardinality({}) = 0
    BY FS_EmptySet
  <2> QED
    BY <1>1, <2>1, BoundAssumption DEF Records, NoReply
<1>4. InFlight = {}
  BY <1>1 DEF InFlight
<1>5. OwnLogged /\ ReplyTrue /\ QueuedIn(status) /\ AheadOf(status, state)
  BY <1>1, <1>4 DEF OwnLogged, ReplyTrue, NoReply, Ids, QueuedIn, AheadOf
<1>6. StateMatchesLog /\ \A e \in Entities : VisibleFor(e)
  BY <1>1 DEF StateMatchesLog, VisibleFor, NoConflict
<1> QED
  BY <1>2, <1>3, <1>5, <1>6 DEF IInv

-----------------------------------------------------------------------------
(* The user changes a row: the change is the last of its entity's queue.    *)
LEMMA editIInv == ASSUME IInv, NEW e \in Entities, edit(e) PROVE IInv'
<1>1. /\ UNCHANGED <<log, row, requests, state, conflict, cursor, pc, rounds, reply, others, waived, exposed, faults>>
      /\ Cardinality(mine) < MaxEdits /\ mine' = mine \cup {NewEdit}
      /\ local' = [local EXCEPT ![e] = @ \cup {NewEdit}]
      /\ enqueue_projection(status, state[e].rev, e, local[e] \cup {NewEdit}, NewEdit)
  BY DEF edit, server, run
<1>2. /\ NewEdit \in Nat /\ NewEdit \in Edits /\ IsFiniteSet(mine') /\ Cardinality(mine') <= MaxEdits
  BY <1>1, NewEditIn
<1>3. local[e] \cup {NewEdit} \in SUBSET Edits /\ state[e].rev \in Nat
  BY <1>2, Types
<1>4. /\ state' \in [Entities -> [rev : Nat, base : SUBSET Edits]] /\ AheadOf(status, state') /\ state'[e].rev = state[e].rev
      /\ status \in [DOMAIN outbox -> Statuses] /\ QueuedIn(status)
  BY <1>1 DEF IInv, TypeOK
<1>5. /\ outbox' \in Seq([entity : Entities, content : SUBSET Edits, edit : Nat, base : Nat])
      /\ status' \in [DOMAIN outbox' -> Statuses]
      /\ DOMAIN outbox' = DOMAIN outbox \cup {Len(outbox) + 1} /\ Len(outbox) + 1 \notin DOMAIN outbox
      /\ Grown /\ \A i \in DOMAIN outbox : status'[i] = status[i]
      /\ outbox'[Len(outbox) + 1].entity = e /\ status'[Len(outbox) + 1] = "pending"
      /\ QueuedIn(status)' /\ AheadOf(status, state)'
  BY <1>1, <1>2, <1>3, <1>4, Enqueued
<1>6. TypeOK'
  <2>1. local' \in [Entities -> SUBSET Edits] /\ mine' \subseteq Edits
    BY <1>1, <1>2, <1>3 DEF IInv, TypeOK
  <2>2. \A q \in requests' :
          /\ q.ids \subseteq DOMAIN outbox' /\ Cardinality(q.ids) \in 1 .. PushLimit
          /\ q.sent \in 0 .. MaxFaults /\ q.at \in 0 .. Len(log')
    BY <1>1, <1>5 DEF IInv, TypeOK
  <2> QED
    BY <1>1, <1>5, <2>1, <2>2 DEF IInv, TypeOK
<1>7. Records'
  BY <1>1, <1>2 DEF IInv, Records
<1>8. InFlight' = InFlight
  BY <1>5 DEF InFlight
<1>9. OwnLogged' /\ ReplyTrue' /\ StateMatchesLog'
  BY <1>1, <1>5, <1>8, LogKept, ReplyKept, StateKept
<1>10. ASSUME NEW f \in Entities PROVE VisibleFor(f)'
  <2>1. \A i \in DOMAIN outbox' : i \notin DOMAIN outbox => status'[i] # "conflict"
    BY <1>5
  <2> QED
    BY <1>1, <1>5, <2>1, VisibleKept
<1> QED
  BY <1>5, <1>6, <1>7, <1>9, <1>10 DEF IInv

(* A change of another device is no change of this one.                     *)
LEMMA CommitIInv == ASSUME IInv, NEW e \in Entities, Commit(e) PROVE IInv'
<1> DEFINE content == row[e].content \cup {NewEdit}
           g == [entity |-> e, rev |-> row[e].rev + 1, content |-> content, id |-> 0]
           head == [rev |-> row[e].rev + 1, content |-> content]
<1>1. /\ UNCHANGED <<requests, outbox, status, state, local, conflict, cursor, pc, rounds, reply, mine, waived, exposed, faults>>
      /\ Cardinality(others) < MaxCommits /\ others' = others \cup {NewEdit}
      /\ log' = Append(log, g) /\ row' = [row EXCEPT ![e] = head]
  BY DEF Commit, database, run
<1>2. NewEdit \in Nat /\ NewEdit \in Edits /\ IsFiniteSet(others') /\ Cardinality(others') <= MaxCommits
  BY <1>1, NewEditIn
<1>3. content \in SUBSET Edits /\ row[e].rev + 1 \in Nat /\ Len(log) \in Nat /\ DOMAIN log = 1 .. Len(log)
  BY <1>2, Types
<1>4. /\ g \in [entity : Entities, rev : Nat, content : SUBSET Edits, id : Nat] /\ g.id = 0
      /\ head \in [rev : Nat, content : SUBSET Edits]
  BY <1>3
<1> HIDE DEF g, head
<1>5. /\ log' \in Seq([entity : Entities, rev : Nat, content : SUBSET Edits, id : Nat])
      /\ Len(log') = Len(log) + 1 /\ DOMAIN log' = 1 .. (Len(log) + 1)
      /\ \A n \in 1 .. Len(log) : log'[n] = log[n]
      /\ log'[Len(log) + 1] = g
  <2>1. log \in Seq([entity : Entities, rev : Nat, content : SUBSET Edits, id : Nat])
    BY DEF IInv, TypeOK
  <2> QED
    BY <1>1, <1>3, <1>4, <2>1, AppendProperties
<1>6. \A n \in DOMAIN log : n \in DOMAIN log' /\ log'[n] = log[n]
  BY <1>3, <1>5
<1>7. TypeOK'
  <2>1. row' \in [Entities -> [rev : Nat, content : SUBSET Edits]] /\ others' \subseteq Edits
    BY <1>1, <1>2, <1>4 DEF IInv, TypeOK
  <2>2. \A q \in requests' :
          /\ q.ids \subseteq DOMAIN outbox' /\ Cardinality(q.ids) \in 1 .. PushLimit
          /\ q.sent \in 0 .. MaxFaults /\ q.at \in 0 .. Len(log')
    <3>1. \A q \in requests :
          /\ q.ids \subseteq DOMAIN outbox /\ Cardinality(q.ids) \in 1 .. PushLimit
          /\ q.sent \in 0 .. MaxFaults /\ q.at \in 0 .. Len(log)
      BY DEF IInv, TypeOK
    <3> QED
      BY <1>1, <1>3, <1>5, <3>1
  <2>3. cursor' \in 0 .. Len(log')
    BY <1>1, <1>3, <1>5 DEF IInv, TypeOK
  <2> QED
    BY <1>1, <1>5, <2>1, <2>2, <2>3 DEF IInv, TypeOK
<1>8. Records'
  BY <1>1, <1>2 DEF IInv, Records
<1>9. OwnLogged'
  <2>1. ASSUME NEW n \in DOMAIN log', log'[n].id # 0 PROVE Logged(log, n)'
    <3>1. n \in DOMAIN log /\ log'[n] = log[n]
      BY <1>3, <1>4, <1>5, <2>1
    <3>2. Logged(log, n)
      BY <2>1, <3>1 DEF IInv, OwnLogged
    <3> QED
      BY <1>1, <3>1, <3>2 DEF Logged
  <2> QED
    BY <2>1 DEF OwnLogged
<1>10. ReplyTrue'
  <2>1. ReplyTrue /\ InFlight' = InFlight
    BY <1>1, BooksKept DEF IInv
  <2>2. \A a \in reply.accepted : InLog(log, a)'
    BY <1>6, <2>1 DEF ReplyTrue, InLog
  <2> QED
    BY <1>1, <2>1, <2>2 DEF ReplyTrue
<1> QED
  BY <1>1, <1>6, <1>7, <1>8, <1>9, <1>10, BooksKept, StateKept DEF IInv

-----------------------------------------------------------------------------
(* Steps of a run that only move it on: nothing is in flight.               *)
LEMMA RunStep ==
  ASSUME IInv, UNCHANGED <<server, requests, database, ghost, faults>>,
         InFlight = {}, pc' \in {"idle", "push", "pull"}, rounds' \in 0 .. MaxBatches, reply' = NoReply
  PROVE  IInv'
<1>1. UNCHANGED <<log, row, requests, outbox, status, state, local, conflict, cursor, mine, others, waived, exposed, faults>>
  BY DEF server, database, ghost
<1>2. TypeOK'
  BY <1>1 DEF IInv, TypeOK
<1>3. Records'
  BY <1>1 DEF IInv, Records, NoReply
<1>4. OwnLogged' /\ StateMatchesLog' /\ QueuedIn(status)' /\ AheadOf(status, state)' /\ InFlight' = {}
      /\ \A e \in Entities : VisibleFor(e)'
  BY <1>1, BooksKept, LogKept, StateKept
<1>5. ReplyTrue'
  BY <1>4, NoReplyTrue
<1> QED
  BY <1>2, <1>3, <1>4, <1>5 DEF IInv

(* run_locked: a run begins.                                                *)
LEMMA run_lockedIInv == IInv /\ run_locked => IInv'
<1> SUFFICES ASSUME IInv, run_locked PROVE IInv'
  OBVIOUS
<1>1. pc = "idle" /\ InFlight = {} /\ MaxBatches \in Nat
  BY LimitAssumption DEF run_locked, IInv, ReplyTrue
<1> QED
  BY <1>1, RunStep DEF run_locked

(* push_pending is done.                                                    *)
LEMMA pushedAllIInv == IInv /\ pushedAll => IInv'
<1> SUFFICES ASSUME IInv, pushedAll PROVE IInv'
  OBVIOUS
<1>1. pc = "push" /\ InFlight = {} /\ reply = NoReply /\ rounds \in 0 .. MaxBatches
  BY DEF pushedAll, IInv, ReplyTrue, TypeOK
<1> QED
  BY <1>1, RunStep DEF pushedAll

(* pull_remote is done.                                                     *)
LEMMA pulledAllIInv == IInv /\ pulledAll => IInv'
<1> SUFFICES ASSUME IInv, pulledAll PROVE IInv'
  OBVIOUS
<1>1. pc = "pull" /\ InFlight = {} /\ reply = NoReply /\ rounds \in 0 .. MaxBatches
  BY DEF pulledAll, IInv, ReplyTrue, TypeOK
<1> QED
  BY <1>1, RunStep DEF pulledAll

-----------------------------------------------------------------------------
(* A claim takes the first rows of an entity's queue, and no more than a    *)
(* request may hold.                                                        *)
LEMMA ClaimedIs ==
  ASSUME IInv, Claimed # {}
  PROVE  /\ Claimed \subseteq DOMAIN outbox /\ IsFiniteSet(Claimed) /\ Cardinality(Claimed) \in 1 .. PushLimit
         /\ \A i \in Claimed : status[i] = "pending" /\ i \in Claimable
         /\ \A i \in Claimed : \A j \in Claimable : j <= i => j \in Claimed
<1> DEFINE upTo(i) == {j \in Claimable : j <= i}
<1>1. /\ Len(outbox) \in Nat /\ DOMAIN outbox = 1 .. Len(outbox)
      /\ Claimed \subseteq Claimable /\ Claimable \subseteq DOMAIN outbox
      /\ \A i \in Claimable : status[i] = "pending" /\ i \in Nat
      /\ PushLimit \in Nat
  BY Types, LimitAssumption DEF Claimed, Claimable
<1>2. ASSUME NEW i \in Claimable
      PROVE  IsFiniteSet(upTo(i)) /\ Cardinality(upTo(i)) \in Nat /\ (i \in Claimed <=> Cardinality(upTo(i)) <= PushLimit)
  <2>1. IsFiniteSet(1 .. Len(outbox)) /\ upTo(i) \subseteq 1 .. Len(outbox)
    BY <1>1, FS_Interval
  <2>2. IsFiniteSet(upTo(i)) /\ Cardinality(upTo(i)) \in Nat
    BY <2>1, FS_Subset, FS_CardinalityType
  <2> QED
    BY <2>2 DEF Claimed
<1>3. ASSUME NEW i \in Claimed, NEW j \in Claimable, j <= i PROVE j \in Claimed
  <2>1. upTo(j) \subseteq upTo(i)
    BY <1>1, <1>3
  <2>2. Cardinality(upTo(j)) <= Cardinality(upTo(i))
    BY <1>1, <1>2, <2>1, FS_Subset
  <2> HIDE DEF upTo
  <2>3. Cardinality(upTo(i)) <= PushLimit /\ Cardinality(upTo(i)) \in Nat /\ Cardinality(upTo(j)) \in Nat
    BY <1>1, <1>2
  <2> QED
    BY <1>1, <1>2, <2>2, <2>3
<1>4. IsFiniteSet(Claimed) /\ Cardinality(Claimed) \in 1 .. PushLimit
  <2>1. Claimed \in SUBSET (0 .. Len(outbox))
    BY <1>1
  <2>2. PICK m \in Claimed : \A i \in Claimed : i <= m
    BY <1>1, <2>1, GreatestOf
  <2>3. Claimed \subseteq upTo(m) /\ m \in Claimable
    BY <1>1, <2>2
  <2>4. IsFiniteSet(upTo(m)) /\ Cardinality(upTo(m)) <= PushLimit /\ Cardinality(upTo(m)) \in Nat
    BY <1>2, <2>2, <2>3
  <2> HIDE DEF upTo
  <2>5. IsFiniteSet(Claimed) /\ Cardinality(Claimed) <= Cardinality(upTo(m))
    BY <2>3, <2>4, FS_Subset
  <2>6. Cardinality(Claimed) \in Nat /\ Cardinality(Claimed) # 0
    BY <2>5, FS_CardinalityType, FS_EmptySet
  <2> QED
    BY <1>1, <2>4, <2>5, <2>6
<1> QED
  BY <1>1, <1>3, <1>4

(* claim_pending: no other row of a claimed one's entity is in the way.     *)
LEMMA claim_pendingIInv == IInv /\ claim_pending => IInv'
<1> SUFFICES ASSUME IInv, claim_pending PROVE IInv'
  OBVIOUS
<1> DEFINE q == [ids |-> Claimed, sent |-> faults, at |-> Len(log)]
<1>1. /\ UNCHANGED <<log, row, outbox, state, local, conflict, cursor, reply, mine, others, waived, faults>>
      /\ pc = "push" /\ pc' = "pushing" /\ rounds < MaxBatches /\ rounds' = rounds + 1
      /\ status' = Marked(status, Claimed, "in_flight") /\ requests' = requests \cup {q} /\ Claimed # {}
      /\ exposed' \in BOOLEAN
  BY DEF claim_pending, server
<1>2. /\ Claimed \subseteq DOMAIN outbox /\ Cardinality(Claimed) \in 1 .. PushLimit
      /\ \A i \in Claimed : status[i] = "pending" /\ i \in Claimable
      /\ \A i \in Claimed : \A j \in Claimable : j <= i => j \in Claimed
  BY <1>1, ClaimedIs
<1>3. /\ InFlight = {} /\ reply = NoReply
      /\ status \in [DOMAIN outbox -> Statuses] /\ QueuedIn(status) /\ AheadOf(status, state)
      /\ Len(log) \in Nat /\ faults \in 0 .. MaxFaults /\ MaxFaults \in Nat
  BY <1>1, Types, BoundAssumption DEF IInv, ReplyTrue, TypeOK
<1>4. /\ status' \in [DOMAIN outbox -> Statuses]
      /\ \A i \in DOMAIN outbox : status'[i] = IF i \in Claimed THEN "in_flight" ELSE status[i]
      /\ \A i \in DOMAIN outbox : status[i] # "in_flight"
  <2>1. "in_flight" \in Statuses
    BY DEF Statuses, Unsynced
  <2> QED
    BY <1>1, <1>3, <2>1, MarkedIs DEF InFlight
<1>5. TypeOK'
  <2>1. \A p \in requests' :
          /\ p.ids \subseteq DOMAIN outbox' /\ Cardinality(p.ids) \in 1 .. PushLimit
          /\ p.sent \in 0 .. MaxFaults /\ p.at \in 0 .. Len(log')
    <3>1. q.ids = Claimed /\ q.sent = faults /\ q.at = Len(log)
      OBVIOUS
    <3>2. \A p \in requests :
          /\ p.ids \subseteq DOMAIN outbox /\ Cardinality(p.ids) \in 1 .. PushLimit
          /\ p.sent \in 0 .. MaxFaults /\ p.at \in 0 .. Len(log)
      BY DEF IInv, TypeOK
    <3> HIDE DEF q
    <3>3. Len(log) \in 0 .. Len(log)
      BY <1>3
    <3> QED
      BY <1>1, <1>2, <1>3, <3>1, <3>2, <3>3
  <2>2. rounds' \in 0 .. MaxBatches
    BY <1>1, LimitAssumption DEF IInv, TypeOK
  <2> QED
    BY <1>1, <1>4, <2>1, <2>2 DEF IInv, TypeOK
<1>6. Records'
  <2>1. Claimed \in SUBSET Nat /\ faults \in Nat
    BY <1>2, <1>3, Types
  <2>2. q \in [ids : SUBSET Nat, sent : Nat, at : Nat]
    BY <1>3, <2>1
  <2> QED
    BY <1>1, <2>2 DEF IInv, Records
<1>7. ReplyTrue'
  BY <1>1, <1>3, NoReplyTrue
<1>8. QueuedIn(status)'
  <2>1. ASSUME NEW i \in Claimed, NEW j \in DOMAIN outbox, outbox[i].entity = outbox[j].entity
        PROVE  status[j] \notin Stuck /\ (status[j] = "pending" /\ j <= i => j \in Claimed)
    <3>1. \A k \in DOMAIN outbox : outbox[k].entity = outbox[i].entity => status[k] \notin Stuck
      <4>1. SUFFICES ASSUME NEW k \in DOMAIN outbox, outbox[k].entity = outbox[i].entity, status[k] \in Stuck
                     PROVE  FALSE
        OBVIOUS
      <4>2. k < i
        BY <1>2, <1>3, <4>1 DEF QueuedIn, Active
      <4>3. k > i
        BY <1>2, <4>1 DEF Claimable, RowsIn, Rows, Stuck
      <4> QED
        BY <1>2, <4>2, <4>3, Types
    <3>2. ASSUME status[j] = "pending", j <= i PROVE j \in Claimed
      <4>1. j \in Claimable
        BY <1>4, <2>1, <3>1, <3>2 DEF Claimable, RowsIn, Rows, Stuck
      <4> QED
        BY <1>2, <3>2, <4>1
    <3> QED
      BY <2>1, <3>1, <3>2
  <2>2. ASSUME NEW i \in DOMAIN outbox, NEW j \in DOMAIN outbox, outbox[i].entity = outbox[j].entity
        PROVE  /\ status'[i] \in Stuck /\ status'[j] \in Active => i < j /\ status'[j] = "pending"
               /\ status'[i] = "in_flight" /\ status'[j] = "pending" => i < j
               /\ status'[i] \in Active /\ status'[j] \in Active /\ i < j => outbox[i].base < outbox[j].base
    <3>1. /\ status'[i] \in Stuck => status[i] \in Stuck /\ i \notin Claimed
          /\ status'[j] \in Active => status[j] \in Active
          /\ status'[i] \in Active => status[i] \in Active
          /\ status'[i] = "in_flight" => i \in Claimed
          /\ status'[j] = "in_flight" => j \in Claimed
          /\ status'[j] = "pending" => status[j] = "pending" /\ j \notin Claimed
      BY <1>2, <1>4 DEF Stuck, Active
    <3>2. status'[i] \in Stuck /\ status'[j] \in Active => i < j /\ status'[j] = "pending"
      <4>1. SUFFICES ASSUME status'[i] \in Stuck, status'[j] \in Active PROVE i < j /\ status'[j] = "pending"
        OBVIOUS
      <4>2. j \notin Claimed
        BY <2>1, <2>2, <3>1, <4>1
      <4> QED
        BY <1>3, <1>4, <2>2, <3>1, <4>1, <4>2 DEF QueuedIn
    <3>3. status'[i] = "in_flight" /\ status'[j] = "pending" => i < j
      <4>1. SUFFICES ASSUME status'[i] = "in_flight", status'[j] = "pending" PROVE i < j
        OBVIOUS
      <4>2. i \in Claimed /\ ~(j <= i)
        BY <2>1, <2>2, <3>1, <4>1
      <4> QED
        BY <2>2, <4>2, Types
    <3> QED
      BY <1>3, <2>2, <3>1, <3>2, <3>3 DEF QueuedIn
  <2> QED
    BY <1>1, <2>2 DEF QueuedIn
<1>9. AheadOf(status, state)'
  BY <1>1, <1>2, <1>3, <1>4 DEF AheadOf, Active
<1>10. OwnLogged' /\ StateMatchesLog' /\ Grown
  <2>1. Grown
    BY <1>1 DEF Grown
  <2> QED
    BY <1>1, <2>1, LogKept, StateKept
<1>11. ASSUME NEW e \in Entities PROVE VisibleFor(e)'
  <2>1. \A i \in DOMAIN outbox : status'[i] = status[i] \/ (status'[i] # "conflict" /\ status[i] \notin Stuck)
    BY <1>2, <1>4 DEF Stuck
  <2> QED
    BY <1>1, <1>10, <2>1, VisibleKept
<1> QED
  BY <1>5, <1>6, <1>7, <1>8, <1>9, <1>10, <1>11 DEF IInv

-----------------------------------------------------------------------------
(* push: what the gateway appends is in the outbox, and its answer is true. *)
LEMMA pushIInv ==
  ASSUME IInv, NEW q \in requests, NEW missed, push(q, missed)
  PROVE  IInv'
<1> DEFINE t == pushAll(q.ids, missed)
           awaited == pc = "pushing" /\ q.ids = InFlight /\ q.sent = faults
           refused == TooLarge(q.ids)
<1>1. /\ UNCHANGED <<outbox, status, state, local, conflict, cursor, rounds, mine, others, waived, faults>>
      /\ requests' = requests \ {q}
      /\ IF refused THEN UNCHANGED <<log, row>> ELSE log' = t.log /\ row' = t.row
      /\ pc' = IF awaited THEN "answered" ELSE pc
      /\ \/ ~awaited /\ UNCHANGED <<reply, exposed>>
         \/ /\ awaited /\ refused /\ UNCHANGED exposed
            /\ reply' = [NoReply EXCEPT !.kind = "refused"]
         \/ /\ awaited /\ ~refused
            /\ \E raced \in SUBSET Raced(q, t.conflicts) :
                 /\ reply' = [kind |-> "ok", accepted |-> t.accepted,
                              conflicts |-> Reported(t.conflicts, raced)]
                 /\ exposed' = (exposed \/ raced # {})
  BY DEF push, server, database
<1>2. q.ids \in SUBSET DOMAIN outbox
  BY DEF IInv, TypeOK
<1>3. Handled(t, q.ids)
  BY <1>2, pushAllHandled
<1> HIDE DEF t, awaited, refused
<1>4. Len(log) \in Nat /\ DOMAIN log = 1 .. Len(log) /\ log \in Seq(Changes) /\ row \in Heads
  BY Types DEF IInv, TypeOK, Changes, Heads
<1>5. /\ log' \in Seq(Changes) /\ row' \in Heads /\ Len(log) <= Len(log')
      /\ \A n \in DOMAIN log : n \in DOMAIN log' /\ log'[n] = log[n]
      /\ \A n \in DOMAIN log' : log'[n].id # 0 => Logged(log', n)
  <2>1. CASE refused
    BY <1>1, <1>4, <2>1 DEF IInv, OwnLogged
  <2>2. CASE ~refused
    BY <1>1, <1>3, <1>4, <2>2 DEF Handled
  <2> QED
    BY <2>1, <2>2
<1>6. Len(log') \in Nat
  BY <1>5
<1>7. TypeOK'
  <2>1. \A p \in requests' :
          /\ p.ids \subseteq DOMAIN outbox' /\ Cardinality(p.ids) \in 1 .. PushLimit
          /\ p.sent \in 0 .. MaxFaults /\ p.at \in 0 .. Len(log')
    <3>1. \A p \in requests :
          /\ p.ids \subseteq DOMAIN outbox /\ Cardinality(p.ids) \in 1 .. PushLimit
          /\ p.sent \in 0 .. MaxFaults /\ p.at \in 0 .. Len(log)
      BY DEF IInv, TypeOK
    <3> QED
      BY <1>1, <1>4, <1>5, <1>6, <3>1
  <2>2. cursor' \in 0 .. Len(log')
    BY <1>1, <1>4, <1>5, <1>6 DEF IInv, TypeOK
  <2> QED
    BY <1>1, <1>5, <2>1, <2>2 DEF IInv, TypeOK, Changes, Heads
<1>8. OwnLogged'
  <2>1. ASSUME NEW n \in DOMAIN log', log'[n].id # 0 PROVE Logged(log, n)'
    BY <1>1, <1>5, <2>1 DEF Logged
  <2> QED
    BY <2>1 DEF OwnLogged
<1>9. /\ QueuedIn(status)' /\ AheadOf(status, state)' /\ (\A e \in Entities : VisibleFor(e)') /\ Grown
      /\ InFlight' = InFlight /\ StateMatchesLog'
  BY <1>1, <1>5, BooksKept, StateKept
<1>10. Records' /\ ReplyTrue'
  <2>1. CASE ~awaited
    <3>1. UNCHANGED <<reply, pc>> /\ requests' \subseteq requests
      BY <1>1, <2>1
    <3>2. \A a \in reply.accepted : InLog(log, a)'
      BY <1>5, <3>1 DEF IInv, ReplyTrue, InLog
    <3> QED
      BY <1>1, <1>9, <3>1, <3>2 DEF IInv, Records, ReplyTrue
  <2>2. CASE awaited /\ refused
    <3>1. pc' = "answered" /\ reply' = [kind |-> "refused", accepted |-> {}, conflicts |-> {}] /\ requests' \subseteq requests
      BY <1>1, <2>2 DEF NoReply
    <3> QED
      BY <1>1, <3>1 DEF IInv, Records, ReplyTrue
  <2>3. CASE awaited /\ ~refused
    <3>1. PICK raced \in SUBSET Raced(q, t.conflicts) :
            reply' = [kind |-> "ok", accepted |-> t.accepted, conflicts |-> Reported(t.conflicts, raced)]
      BY <1>1, <2>3
    <3>2. /\ reply'.kind = "ok" /\ reply'.accepted = t.accepted /\ reply'.conflicts = Reported(t.conflicts, raced)
          /\ pc' = "answered" /\ log' = t.log /\ requests' \subseteq requests /\ q.ids = InFlight
      BY <1>1, <2>3, <3>1 DEF awaited
    <3>3. t.accepted \subseteq Revs /\ t.conflicts \subseteq Revs
      BY <1>3 DEF Handled
    <3>4. reply'.conflicts \subseteq Revs /\ Ids(reply'.conflicts) = Ids(t.conflicts)
      <4> DEFINE named(c) == [id |-> c.id, rev |-> IF c \in raced THEN 0 ELSE c.rev]
      <4>1. ASSUME NEW c \in t.conflicts PROVE named(c) \in Revs /\ named(c).id = c.id
        <5>1. c.id \in Nat /\ c.rev \in Nat
          BY <3>3 DEF Revs
        <5> QED
          BY <5>1 DEF Revs
      <4>2. reply'.conflicts = {named(c) : c \in t.conflicts}
        BY <3>2 DEF Reported
      <4> HIDE DEF named
      <4> QED
        BY <4>1, <4>2 DEF Ids
    <3>5. Ids(reply'.accepted) \cup Ids(reply'.conflicts) = InFlight'
      BY <1>3, <1>9, <3>2, <3>4 DEF Handled
    <3>6. \A a \in reply'.accepted : InLog(log', a)
      BY <1>3, <3>2 DEF Handled
    <3>7. reply' \in [kind : {"none", "ok", "refused"}, accepted : SUBSET Revs, conflicts : SUBSET Revs]
      BY <3>1, <3>2, <3>3, <3>4
    <3>8. Records'
      BY <1>1, <3>2, <3>7 DEF IInv, Records
    <3>9. ReplyTrue'
      BY <3>2, <3>5, <3>6 DEF ReplyTrue, InLog
    <3> QED
      BY <3>8, <3>9
  <2> QED
    BY <2>1, <2>2, <2>3
<1> QED
  BY <1>7, <1>8, <1>9, <1>10 DEF IInv

-----------------------------------------------------------------------------
(* A conflict that is recorded holds an unsynced change of its entity.      *)
Conflicts == [phase : {"none", "waiting", "ready"}, rev : Nat,
              base : SUBSET Edits, local : SUBSET Edits, remote : SUBSET Edits]

(* It is a conflict, waiting or as it was.                                  *)
LEMMA localConflictIs ==
  ASSUME IInv, NEW e \in Entities, NEW st \in [DOMAIN outbox -> Statuses],
         NEW i \in DOMAIN outbox, outbox[i].entity = e, st[i] \in Unsynced,
         NEW known \in [rev : Nat, base : SUBSET Edits], NEW rev \in Nat
  PROVE  /\ localConflict(e, st, known, rev) \in Conflicts
         /\ localConflict(e, st, known, rev).phase # "none"
<1> DEFINE unsynced == RowsIn(st, e, Unsynced)
           change == outbox[Latest(unsynced)].content
           c == localConflict(e, st, known, rev)
<1>1. Len(outbox) \in Nat /\ DOMAIN outbox = 1 .. Len(outbox) /\ unsynced \in SUBSET (1 .. Len(outbox)) /\ unsynced # {}
  BY Types DEF RowsIn, Rows
<1>2. Latest(unsynced) \in DOMAIN outbox
  <2> HIDE DEF unsynced
  <2> QED
    BY <1>1, LatestOf
<1>3. change \in SUBSET Edits
  BY <1>2, Types
<1>4. c = IF conflict[e].phase = "none"
          THEN [phase |-> "waiting", rev |-> rev, base |-> known.base, local |-> change, remote |-> {}]
          ELSE [conflict[e] EXCEPT !.rev = IF rev = 0 THEN @ ELSE rev, !.local = change]
  BY DEF localConflict
<1> HIDE DEF change
<1>5. conflict[e] \in Conflicts
  BY DEF IInv, TypeOK, Conflicts
<1>6. CASE conflict[e].phase = "none"
  BY <1>3, <1>4, <1>6 DEF Conflicts
<1>7. CASE conflict[e].phase # "none"
  <2>1. c = [conflict[e] EXCEPT !.rev = IF rev = 0 THEN conflict[e].rev ELSE rev, !.local = change]
    BY <1>4, <1>7
  <2>2. (IF rev = 0 THEN conflict[e].rev ELSE rev) \in Nat
    BY <1>5 DEF Conflicts
  <2>3. c \in Conflicts
    BY <1>3, <1>5, <2>1, <2>2 DEF Conflicts
  <2>4. c.phase = conflict[e].phase
    BY <1>5, <2>1 DEF Conflicts
  <2> QED
    BY <1>7, <2>3, <2>4
<1> QED
  BY <1>6, <1>7

(* An entity whose conflict is on record has nothing in flight.             *)
LEMMA ConflictRests ==
  ASSUME IInv, NEW e \in Entities, conflict[e].phase # "none"
  PROVE  /\ \E i \in DOMAIN outbox : outbox[i].entity = e /\ status[i] \in Stuck
         /\ \A i \in DOMAIN outbox : outbox[i].entity = e => status[i] # "in_flight"
<1>1. PICK i \in DOMAIN outbox : outbox[i].entity = e /\ status[i] \in Stuck
  BY DEF IInv, VisibleFor
<1>2. ASSUME NEW j \in DOMAIN outbox, outbox[j].entity = e, status[j] = "in_flight" PROVE FALSE
  <2>1. QueuedIn(status)
    BY DEF IInv
  <2>2. "in_flight" \in Active
    BY DEF Active
  <2>3. status[j] = "pending"
    BY <1>1, <1>2, <2>1, <2>2 DEF QueuedIn
  <2> QED
    BY <1>2, <2>3
<1> QED
  BY <1>1, <1>2

-----------------------------------------------------------------------------
(* The answer to a push                                                     *)
AcceptedOf(e) == {a \in reply.accepted : outbox[a.id].entity = e}
LastOf(e) == CHOOSE a \in AcceptedOf(e) : \A b \in AcceptedOf(e) : b.id <= a.id
RefusedOf(e) == {c \in reply.conflicts : outbox[c.id].entity = e}
LastRefused(e) == CHOOSE c \in RefusedOf(e) : \A d \in RefusedOf(e) : d.id <= c.id
KnownOf(e) == IF AcceptedOf(e) = {} THEN state[e] ELSE acceptedState(LastOf(e))
StatusAfter ==
  Marked(Marked(status, Ids(reply.accepted) \cap InFlight, "synced"),
         Ids(reply.conflicts) \cap InFlight, "conflict")

(* The last of some changes that are in flight.                             *)
LEMMA LastById ==
  ASSUME IInv, NEW S, S # {}, \A a \in S : a.id \in DOMAIN outbox
  PROVE  LET a == CHOOSE a \in S : \A b \in S : b.id <= a.id IN
         a \in S /\ \A b \in S : b.id <= a.id
<1>1. Len(outbox) \in Nat /\ DOMAIN outbox = 1 .. Len(outbox)
  BY Types
<1>2. Ids(S) \in SUBSET (0 .. Len(outbox)) /\ Ids(S) # {}
  BY <1>1 DEF Ids
<1>3. PICK m \in Ids(S) : \A n \in Ids(S) : n <= m
  BY <1>1, <1>2, GreatestOf
<1>4. \E a \in S : \A b \in S : b.id <= a.id
  BY <1>3 DEF Ids
<1> QED
  BY <1>4

(* What has been accepted was in flight and is in the log as sent.          *)
LEMMA AcceptedIs ==
  ASSUME IInv, reply.kind = "ok", NEW e \in Entities, AcceptedOf(e) # {}
  PROVE  LET a == LastOf(e) IN
         /\ a \in reply.accepted /\ a.id \in InFlight /\ outbox[a.id].entity = e /\ a.rev \in Nat
         /\ a.rev = outbox[a.id].base + 1
         /\ acceptedState(a) = [rev |-> a.rev, base |-> outbox[a.id].content]
         /\ acceptedState(a) \in [rev : Nat, base : SUBSET Edits]
         /\ \E n \in DOMAIN log :
              log[n].entity = e /\ log[n].rev = a.rev /\ log[n].content = outbox[a.id].content
<1> DEFINE a == LastOf(e)
<1>1. ReplyTrue /\ Ids(reply.accepted) \subseteq InFlight /\ InFlight \subseteq DOMAIN outbox
  BY DEF IInv, ReplyTrue, InFlight
<1>2. \A b \in AcceptedOf(e) : b.id \in DOMAIN outbox /\ b.id \in InFlight
  BY <1>1 DEF AcceptedOf, Ids
<1>3. a \in AcceptedOf(e)
  BY <1>2, LastById DEF LastOf
<1> HIDE DEF a
<1>4. a \in reply.accepted /\ a.id \in InFlight /\ outbox[a.id].entity = e /\ a.id \in DOMAIN outbox
  BY <1>2, <1>3 DEF AcceptedOf
<1>5. PICK n \in DOMAIN log : log[n].id = a.id /\ log[n].rev = a.rev
  BY <1>1, <1>4 DEF ReplyTrue, InLog
<1>6. Logged(log, n)
  BY <1>4, <1>5, Types DEF IInv, OwnLogged
<1>7. /\ a.rev = outbox[a.id].base + 1 /\ log[n].entity = e /\ log[n].content = outbox[a.id].content
      /\ a.rev \in Nat /\ outbox[a.id].content \in SUBSET Edits
  BY <1>4, <1>5, <1>6, Types DEF Logged
<1>8. acceptedState(a) = [rev |-> a.rev, base |-> outbox[a.id].content]
  BY DEF acceptedState
<1>9. acceptedState(a) \in [rev : Nat, base : SUBSET Edits]
  BY <1>7, <1>8
<1> QED
  BY <1>4, <1>5, <1>7, <1>8, <1>9 DEF a

(* apply_push_result, variable by variable.                                 *)
LEMMA AnswerIs ==
  ASSUME IInv, apply_push_result
  PROVE  /\ UNCHANGED <<log, row, requests, outbox, local, cursor, rounds, mine, others, waived, exposed, faults>>
         /\ pc = "answered" /\ reply.kind = "ok" /\ pc' = "push" /\ reply' = NoReply
         /\ status' = StatusAfter
         /\ state' = [e \in Entities |-> KnownOf(e)]
         /\ conflict' = [e \in Entities |->
                           IF RefusedOf(e) = {} THEN conflict[e]
                           ELSE localConflict(e, StatusAfter, KnownOf(e), LastRefused(e).rev)]
         /\ Ids(reply.accepted) \cup Ids(reply.conflicts) = InFlight
         /\ reply.conflicts \subseteq Revs
         /\ StatusAfter \in [DOMAIN outbox -> Statuses]
         /\ \A i \in DOMAIN outbox : StatusAfter[i] = IF i \in Ids(reply.conflicts) THEN "conflict"
                                                      ELSE IF status[i] = "in_flight" THEN "synced" ELSE status[i]
<1>1. /\ UNCHANGED <<log, row, requests, outbox, local, cursor, rounds, mine, others, waived, exposed, faults>>
      /\ pc = "answered" /\ reply.kind = "ok" /\ pc' = "push" /\ reply' = NoReply
      /\ status' = StatusAfter
      /\ state' = [e \in Entities |-> KnownOf(e)]
      /\ conflict' = [e \in Entities |->
                        IF RefusedOf(e) = {} THEN conflict[e]
                        ELSE localConflict(e, StatusAfter, KnownOf(e), LastRefused(e).rev)]
  <2>1. UNCHANGED <<log, row, requests, outbox, local, cursor, rounds, mine, others, waived, exposed, faults>>
    BY DEF apply_push_result, server, ghost
  <2> QED
    BY <2>1 DEF apply_push_result, StatusAfter, KnownOf, AcceptedOf, LastOf, RefusedOf, LastRefused, Ids
<1>2. /\ Ids(reply.accepted) \cup Ids(reply.conflicts) = InFlight
      /\ status \in [DOMAIN outbox -> Statuses] /\ reply.conflicts \subseteq Revs
  BY <1>1 DEF IInv, ReplyTrue, TypeOK, Records
<1>3. /\ StatusAfter \in [DOMAIN outbox -> Statuses]
      /\ \A i \in DOMAIN outbox : StatusAfter[i] = IF i \in Ids(reply.conflicts) THEN "conflict"
                                                   ELSE IF status[i] = "in_flight" THEN "synced" ELSE status[i]
  <2> DEFINE first == Marked(status, Ids(reply.accepted) \cap InFlight, "synced")
  <2>1. "synced" \in Statuses /\ "conflict" \in Statuses
    BY DEF Statuses, Unsynced
  <2>2. /\ first \in [DOMAIN outbox -> Statuses]
        /\ \A i \in DOMAIN outbox : first[i] = IF i \in Ids(reply.accepted) \cap InFlight THEN "synced" ELSE status[i]
    BY <1>2, <2>1, MarkedIs
  <2> HIDE DEF first
  <2>3. StatusAfter = Marked(first, Ids(reply.conflicts) \cap InFlight, "conflict")
    BY DEF StatusAfter, first
  <2>4. /\ StatusAfter \in [DOMAIN outbox -> Statuses]
        /\ \A i \in DOMAIN outbox : StatusAfter[i] = IF i \in Ids(reply.conflicts) \cap InFlight THEN "conflict" ELSE first[i]
    BY <2>1, <2>2, <2>3, MarkedIs
  <2>5. \A i \in DOMAIN outbox : i \in InFlight <=> status[i] = "in_flight"
    BY DEF InFlight
  <2> QED
    BY <1>2, <2>2, <2>4, <2>5
<1> QED
  BY <1>1, <1>2, <1>3

(* apply_push_result: what was accepted becomes the known state, the rest   *)
(* of the batch a conflict.                                                 *)
LEMMA apply_push_resultIInv ==
  IInv /\ apply_push_result =>
    IInv' /\ \A e \in Entities : state'[e].rev >= state[e].rev
<1> SUFFICES ASSUME IInv, apply_push_result
             PROVE  IInv' /\ \A e \in Entities : state'[e].rev >= state[e].rev
  OBVIOUS
<1>1. /\ UNCHANGED <<log, row, requests, outbox, local, cursor, rounds, mine, others, waived, exposed, faults>>
      /\ pc = "answered" /\ reply.kind = "ok" /\ pc' = "push" /\ reply' = NoReply
      /\ status' = StatusAfter
      /\ state' = [e \in Entities |-> KnownOf(e)]
      /\ conflict' = [e \in Entities |->
                        IF RefusedOf(e) = {} THEN conflict[e]
                        ELSE localConflict(e, StatusAfter, KnownOf(e), LastRefused(e).rev)]
  BY AnswerIs
<1>2. /\ Ids(reply.accepted) \cup Ids(reply.conflicts) = InFlight
      /\ status \in [DOMAIN outbox -> Statuses] /\ QueuedIn(status) /\ AheadOf(status, state)
      /\ reply.conflicts \subseteq Revs
  BY AnswerIs DEF IInv, TypeOK
<1>3. /\ StatusAfter \in [DOMAIN outbox -> Statuses]
      /\ \A i \in DOMAIN outbox : StatusAfter[i] = IF i \in Ids(reply.conflicts) THEN "conflict"
                                                   ELSE IF status[i] = "in_flight" THEN "synced" ELSE status[i]
  BY AnswerIs
<1>4. \A i \in DOMAIN outbox :
        /\ i \in Ids(reply.conflicts) => status[i] = "in_flight"
        /\ status'[i] # "in_flight"
        /\ status'[i] \in Active => status[i] = "pending" /\ status'[i] = "pending"
        /\ status'[i] \in Stuck => status[i] \in Stuck \/ status[i] = "in_flight"
  BY <1>1, <1>2, <1>3 DEF InFlight, Active, Stuck
<1>5. \A e \in Entities :
        /\ KnownOf(e) \in [rev : Nat, base : SUBSET Edits]
        /\ state[e].rev <= KnownOf(e).rev
        /\ KnownOf(e).rev > 0 =>
             \E n \in DOMAIN log : log[n].entity = e /\ log[n].rev = KnownOf(e).rev /\ log[n].content = KnownOf(e).base
        /\ \A i \in DOMAIN outbox : outbox[i].entity = e /\ status[i] = "pending" => KnownOf(e).rev <= outbox[i].base
  <2>1. SUFFICES ASSUME NEW e \in Entities
                 PROVE  /\ KnownOf(e) \in [rev : Nat, base : SUBSET Edits]
                        /\ state[e].rev <= KnownOf(e).rev
                        /\ KnownOf(e).rev > 0 =>
                             \E n \in DOMAIN log : log[n].entity = e /\ log[n].rev = KnownOf(e).rev /\ log[n].content = KnownOf(e).base
                        /\ \A i \in DOMAIN outbox : outbox[i].entity = e /\ status[i] = "pending" => KnownOf(e).rev <= outbox[i].base
    OBVIOUS
  <2>2. "pending" \in Active /\ "in_flight" \in Active
    BY DEF Active
  <2>3. CASE AcceptedOf(e) = {}
    <3>1. KnownOf(e) = state[e] /\ state[e] \in [rev : Nat, base : SUBSET Edits]
      BY <2>3 DEF KnownOf, IInv, TypeOK
    <3>2. state[e].rev <= state[e].rev
      BY <3>1
    <3>3. state[e].rev > 0 =>
            \E n \in DOMAIN log : log[n].entity = e /\ log[n].rev = state[e].rev /\ log[n].content = state[e].base
      BY DEF IInv, StateMatchesLog
    <3>4. \A i \in DOMAIN outbox : outbox[i].entity = e /\ status[i] = "pending" => state[e].rev <= outbox[i].base
      BY <1>2, <2>2 DEF AheadOf
    <3> QED
      BY <3>1, <3>2, <3>3, <3>4
  <2>4. CASE AcceptedOf(e) # {}
    <3> DEFINE a == LastOf(e)
    <3>1. /\ a.id \in InFlight /\ outbox[a.id].entity = e /\ a.rev \in Nat /\ a.rev = outbox[a.id].base + 1
          /\ acceptedState(a) = [rev |-> a.rev, base |-> outbox[a.id].content]
          /\ acceptedState(a) \in [rev : Nat, base : SUBSET Edits]
          /\ \E n \in DOMAIN log :
               log[n].entity = e /\ log[n].rev = a.rev /\ log[n].content = outbox[a.id].content
      BY <1>1, <2>4, AcceptedIs
    <3>2. KnownOf(e) = acceptedState(a)
      BY <2>4 DEF KnownOf
    <3> HIDE DEF a
    <3>3. KnownOf(e).rev = a.rev /\ KnownOf(e).base = outbox[a.id].content
      BY <3>1, <3>2
    <3>4. a.id \in DOMAIN outbox /\ status[a.id] = "in_flight" /\ outbox[a.id].base \in Nat /\ state[e].rev \in Nat
      BY <3>1, Types DEF InFlight
    <3>5. state[e].rev <= outbox[a.id].base
      BY <1>2, <2>2, <3>1, <3>4 DEF AheadOf
    <3>6. ASSUME NEW i \in DOMAIN outbox, outbox[i].entity = e, status[i] = "pending"
          PROVE  a.rev <= outbox[i].base
      <4>1. a.id < i
        BY <1>2, <3>1, <3>4, <3>6 DEF QueuedIn
      <4>2. outbox[a.id].base < outbox[i].base
        BY <1>2, <2>2, <3>1, <3>4, <3>6, <4>1 DEF QueuedIn
      <4>3. outbox[i].base \in Nat
        BY Types
      <4> QED
        BY <3>1, <3>4, <4>2, <4>3
    <3>7. state[e].rev <= a.rev
      BY <3>1, <3>4, <3>5
    <3> QED
      BY <3>1, <3>2, <3>3, <3>6, <3>7
  <2> QED
    BY <2>3, <2>4
<1>6. /\ state' \in [Entities -> [rev : Nat, base : SUBSET Edits]]
      /\ \A e \in Entities : state'[e] = KnownOf(e)
  BY <1>1, <1>5
<1>7. \A e \in Entities : state'[e].rev >= state[e].rev
  BY <1>5, <1>6, Types
<1>8. ASSUME NEW e \in Entities, RefusedOf(e) # {}
      PROVE  /\ conflict'[e] \in Conflicts /\ conflict'[e].phase # "none"
             /\ \E i \in DOMAIN outbox : outbox[i].entity = e /\ status'[i] = "conflict"
  <2>1. \A c \in RefusedOf(e) : c.id \in DOMAIN outbox /\ c.id \in Ids(reply.conflicts) /\ outbox[c.id].entity = e /\ c.rev \in Nat
    BY <1>2 DEF RefusedOf, Ids, InFlight, Revs
  <2>2. LastRefused(e) \in RefusedOf(e)
    BY <1>8, <2>1, LastById DEF LastRefused
  <2> DEFINE i == LastRefused(e).id
  <2>3. i \in DOMAIN outbox /\ outbox[i].entity = e /\ StatusAfter[i] = "conflict" /\ LastRefused(e).rev \in Nat
    BY <1>3, <2>1, <2>2
  <2> HIDE DEF i
  <2>4. "conflict" \in Unsynced
    BY DEF Unsynced
  <2>5. conflict'[e] = localConflict(e, StatusAfter, KnownOf(e), LastRefused(e).rev)
    BY <1>1, <1>8
  <2>6. conflict'[e] \in Conflicts /\ conflict'[e].phase # "none"
    BY <1>3, <1>5, <2>3, <2>4, <2>5, localConflictIs
  <2> QED
    BY <1>1, <2>3, <2>6
<1>9. ASSUME NEW e \in Entities, RefusedOf(e) = {} PROVE conflict'[e] = conflict[e]
  BY <1>1, <1>9
<1>10. conflict' \in [Entities -> Conflicts]
  <2>1. \A e \in Entities : conflict'[e] \in Conflicts
    <3>1. \A e \in Entities : conflict[e] \in Conflicts
      BY DEF IInv, TypeOK, Conflicts
    <3> QED
      BY <1>8, <1>9, <3>1
  <2> QED
    BY <1>1, <2>1
<1>11. TypeOK'
  BY <1>1, <1>3, <1>6, <1>10 DEF IInv, TypeOK, Conflicts
<1>12. Records'
  BY <1>1 DEF IInv, Records, NoReply
<1>13. Grown /\ OwnLogged'
  BY <1>1, LogKept DEF Grown
<1>14. ReplyTrue'
  <2>1. InFlight' = {}
    BY <1>1, <1>4 DEF InFlight
  <2> QED
    BY <1>1, <2>1, NoReplyTrue
<1>15. QueuedIn(status)'
  <2>1. ASSUME NEW i \in DOMAIN outbox, NEW j \in DOMAIN outbox, outbox[i].entity = outbox[j].entity
        PROVE  /\ status'[i] \in Stuck /\ status'[j] \in Active => i < j /\ status'[j] = "pending"
               /\ status'[i] = "in_flight" /\ status'[j] = "pending" => i < j
               /\ status'[i] \in Active /\ status'[j] \in Active /\ i < j => outbox[i].base < outbox[j].base
    <3>1. "pending" \in Active
      BY DEF Active
    <3> QED
      BY <1>2, <1>4, <2>1, <3>1 DEF QueuedIn
  <2> QED
    BY <1>1, <2>1 DEF QueuedIn
<1>16. AheadOf(status, state)'
  <2>1. ASSUME NEW i \in DOMAIN outbox, status'[i] \in Active PROVE state'[outbox[i].entity].rev <= outbox[i].base
    BY <1>4, <1>5, <1>6, <2>1, Types
  <2> QED
    BY <1>1, <2>1 DEF AheadOf
<1>17. StateMatchesLog'
  BY <1>1, <1>5, <1>6 DEF StateMatchesLog
<1>18. ASSUME NEW e \in Entities PROVE VisibleFor(e)'
  <2>1. CASE RefusedOf(e) # {}
    <3>1. "conflict" \in Stuck
      BY DEF Stuck
    <3> QED
      BY <1>1, <1>8, <2>1, <3>1 DEF VisibleFor
  <2>2. CASE RefusedOf(e) = {}
    <3>1. ASSUME NEW i \in DOMAIN outbox, outbox[i].entity = e
          PROVE  status'[i] = status[i] \/ (status'[i] # "conflict" /\ status[i] \notin Stuck)
      <4>1. i \notin Ids(reply.conflicts)
        BY <2>2, <3>1 DEF RefusedOf, Ids
      <4> QED
        BY <1>1, <1>3, <4>1 DEF Stuck
    <3> QED
      BY <1>1, <1>9, <1>13, <2>2, <3>1, VisibleKept
  <2> QED
    BY <2>1, <2>2
<1> QED
  BY <1>7, <1>11, <1>12, <1>13, <1>14, <1>15, <1>16, <1>17, <1>18 DEF IInv

(* mark_dead_letter: what was in flight is stuck, and the first of its queue.*)
LEMMA mark_dead_letterIInv == IInv /\ mark_dead_letter => IInv'
<1> SUFFICES ASSUME IInv, mark_dead_letter PROVE IInv'
  OBVIOUS
<1>1. /\ UNCHANGED <<log, row, requests, outbox, state, local, conflict, cursor, rounds, mine, others, waived, exposed, faults>>
      /\ status' = Marked(status, InFlight, "dead_letter") /\ pc' = "idle" /\ reply' = NoReply
  BY DEF mark_dead_letter, server, ghost
<1>2. /\ status \in [DOMAIN outbox -> Statuses] /\ QueuedIn(status) /\ AheadOf(status, state)
      /\ "dead_letter" \in Statuses
  BY DEF IInv, TypeOK, Statuses, Unsynced
<1>3. /\ status' \in [DOMAIN outbox -> Statuses]
      /\ \A i \in DOMAIN outbox : status'[i] = IF status[i] = "in_flight" THEN "dead_letter" ELSE status[i]
  <2>1. /\ status' \in [DOMAIN outbox -> Statuses]
        /\ \A i \in DOMAIN outbox : status'[i] = IF i \in InFlight THEN "dead_letter" ELSE status[i]
    BY <1>1, <1>2, MarkedIs
  <2> QED
    BY <2>1 DEF InFlight
<1>4. \A i \in DOMAIN outbox :
        /\ status'[i] # "in_flight"
        /\ status'[i] \in Active => status[i] = "pending" /\ status'[i] = "pending"
        /\ status'[i] \in Stuck => status[i] \in Stuck \/ status[i] = "in_flight"
  BY <1>3 DEF Active, Stuck
<1>5. TypeOK' /\ Records'
  <2>1. Records'
    BY <1>1 DEF IInv, Records, NoReply
  <2> QED
    BY <1>1, <1>3, <2>1 DEF IInv, TypeOK
<1>6. Grown /\ OwnLogged' /\ StateMatchesLog'
  BY <1>1, LogKept, StateKept DEF Grown
<1>7. ReplyTrue'
  <2>1. InFlight' = {}
    BY <1>1, <1>4 DEF InFlight
  <2> QED
    BY <1>1, <2>1, NoReplyTrue
<1>8. QueuedIn(status)'
  <2>1. "pending" \in Active
    BY DEF Active
  <2>2. ASSUME NEW i \in DOMAIN outbox, NEW j \in DOMAIN outbox, outbox[i].entity = outbox[j].entity
        PROVE  /\ status'[i] \in Stuck /\ status'[j] \in Active => i < j /\ status'[j] = "pending"
               /\ status'[i] = "in_flight" /\ status'[j] = "pending" => i < j
               /\ status'[i] \in Active /\ status'[j] \in Active /\ i < j => outbox[i].base < outbox[j].base
    BY <1>2, <1>4, <2>1, <2>2 DEF QueuedIn
  <2> QED
    BY <1>1, <2>2 DEF QueuedIn
<1>9. AheadOf(status, state)'
  <2>1. "pending" \in Active
    BY DEF Active
  <2> QED
    BY <1>1, <1>2, <1>4, <2>1 DEF AheadOf
<1>10. ASSUME NEW e \in Entities PROVE VisibleFor(e)'
  <2>1. \A i \in DOMAIN outbox : status'[i] = status[i] \/ (status'[i] # "conflict" /\ status[i] \notin Stuck)
    BY <1>3 DEF Stuck
  <2> QED
    BY <1>1, <1>6, <2>1, VisibleKept
<1> QED
  BY <1>5, <1>6, <1>7, <1>8, <1>9, <1>10 DEF IInv

-----------------------------------------------------------------------------
(* recordRemote, once it is decided which rows of the entity are stuck (st) *)
(* and what the device knows of it: the books are in order either way, with *)
(* a conflict that is ready or with one merged change in place of them all. *)
Outboxes == Seq([entity : Entities, content : SUBSET Edits, edit : Nat, base : Nat])
States == [Entities -> [rev : Nat, base : SUBSET Edits]]
BooksTyped ==
  /\ outbox' \in Outboxes /\ status' \in [DOMAIN outbox' -> Statuses]
  /\ local' \in [Entities -> SUBSET Edits] /\ conflict' \in [Entities -> Conflicts]
  /\ waived' \in SUBSET Edits
BooksOrdered ==
  Grown /\ InFlight' = {} /\ QueuedIn(status)' /\ AheadOf(status, state)'

(* What a merge in a session gives up, at most: what is new on one side,    *)
(* where there is something new on both or the local side has gone back.    *)
LEMMA OutvotedIs ==
  ASSUME NEW e, NEW c, NEW outvoted \in Outvoted(e, c)
  PROVE  /\ \/ outvoted \subseteq c.local \ (c.base \cup c.remote)
            \/ outvoted \subseteq c.remote \ (c.base \cup c.local)
         /\ outvoted # {} => e \in Sessions /\ c.remote \ (c.base \cup c.local) # {}
<1> DEFINE ours == c.local \ (c.base \cup c.remote)
           theirs == c.remote \ (c.base \cup c.local)
           clash == theirs # {} /\ (ours # {} \/ ~ (c.base \subseteq c.local))
<1>1. outvoted \in IF e \notin Sessions \/ ~clash THEN {{}}
                  ELSE IF c.base = {} THEN {ours, theirs}
                  ELSE (SUBSET ours) \cup (SUBSET theirs)
  BY DEF Outvoted
<1>2. CASE e \notin Sessions \/ ~clash
  BY <1>1, <1>2
<1>3. CASE e \in Sessions /\ clash
  <2>1. outvoted \in IF c.base = {} THEN {ours, theirs} ELSE (SUBSET ours) \cup (SUBSET theirs)
    BY <1>1, <1>3
  <2> HIDE DEF ours, theirs
  <2>2. outvoted \subseteq ours \/ outvoted \subseteq theirs
    <3>1. CASE c.base = {}
      <4>1. outvoted = ours \/ outvoted = theirs
        BY <2>1, <3>1
      <4> QED
        BY <4>1
    <3>2. CASE c.base # {}
      <4>1. outvoted \in (SUBSET ours) \cup (SUBSET theirs)
        BY <2>1, <3>2
      <4>2. outvoted \in SUBSET ours \/ outvoted \in SUBSET theirs
        BY <4>1
      <4> QED
        BY <4>2
    <3> QED
      BY <3>1, <3>2
  <2> QED
    BY <1>3, <2>2 DEF ours, theirs
<1> QED
  BY <1>2, <1>3

(* Both ways out of recordRemote.                                           *)
LEMMA recordRemoteIs ==
  ASSUME IInv, NEW e \in Entities, NEW g \in Changes,
         NEW st \in [DOMAIN outbox -> Statuses], QueuedIn(st),
         \A i \in DOMAIN outbox : st[i] # "in_flight",
         \A i \in DOMAIN outbox : outbox[i].entity # e => st[i] = status[i],
         NEW i0 \in DOMAIN outbox, outbox[i0].entity = e, st[i0] \in Stuck,
         NEW known \in Nat, recordRemote(e, g, st, known),
         state' \in States, state'[e].rev = known, AheadOf(st, state')
  PROVE  BooksTyped /\ BooksOrdered /\ \A f \in Entities : VisibleFor(f)'
<1> DEFINE lc == localConflict(e, st, state[e], g.rev)
           c == [lc EXCEPT !.phase = "ready", !.remote = g.content]
           cleared == Marked(st, RowsIn(st, e, Unsynced), "synced")
<1>1. \/ /\ status' = st
         /\ conflict' = [conflict EXCEPT ![e] = c]
         /\ outbox' = outbox /\ local' = local /\ waived' = waived
      \/ /\ \E outvoted \in Outvoted(e, c) :
              /\ local' = [local EXCEPT ![e] = merge(c.base, c.local, c.remote) \ outvoted]
              /\ enqueue_projection(cleared, known, e, merge(c.base, c.local, c.remote) \ outvoted, 0)
              /\ waived' = waived \cup outvoted
         /\ conflict' = [conflict EXCEPT ![e] = NoConflict]
  BY DEF recordRemote
<1>2. /\ g.rev \in Nat /\ g.content \in SUBSET Edits
      /\ state[e] \in [rev : Nat, base : SUBSET Edits] /\ st[i0] \in Unsynced
      /\ conflict \in [Entities -> Conflicts] /\ local \in [Entities -> SUBSET Edits] /\ outbox \in Outboxes
      /\ waived \in SUBSET Edits
  BY DEF Changes, IInv, TypeOK, Stuck, Unsynced, Conflicts, Outboxes
<1>3. lc \in Conflicts
  BY <1>2, localConflictIs
<1> HIDE DEF lc
<1>4. c \in Conflicts /\ c.phase = "ready"
  BY <1>2, <1>3 DEF Conflicts
<1> HIDE DEF c
<1>5. CASE /\ status' = st
           /\ conflict' = [conflict EXCEPT ![e] = c]
           /\ outbox' = outbox /\ local' = local /\ waived' = waived
  <2>1. /\ conflict' \in [Entities -> Conflicts] /\ conflict'[e] = c
        /\ \A f \in Entities : f # e => conflict'[f] = conflict[f]
    BY <1>2, <1>4, <1>5
  <2>2. BooksTyped
    BY <1>2, <1>5, <2>1 DEF BooksTyped
  <2>3. Grown /\ InFlight' = {}
    BY <1>5 DEF Grown, InFlight
  <2>4. QueuedIn(status)' /\ AheadOf(status, state)'
    BY <1>5 DEF QueuedIn, AheadOf
  <2>5. ASSUME NEW f \in Entities PROVE VisibleFor(f)'
    <3>1. CASE f = e
      BY <1>4, <1>5, <2>1, <3>1 DEF VisibleFor
    <3>2. CASE f # e
      BY <1>5, <2>1, <2>3, <3>2, VisibleKept
    <3> QED
      BY <3>1, <3>2
  <2> QED
    BY <2>2, <2>3, <2>4, <2>5 DEF BooksOrdered
<1>6. CASE /\ \E outvoted \in Outvoted(e, c) :
                /\ local' = [local EXCEPT ![e] = merge(c.base, c.local, c.remote) \ outvoted]
                /\ enqueue_projection(cleared, known, e, merge(c.base, c.local, c.remote) \ outvoted, 0)
                /\ waived' = waived \cup outvoted
           /\ conflict' = [conflict EXCEPT ![e] = NoConflict]
  <2>a. PICK outvoted \in Outvoted(e, c) :
          /\ local' = [local EXCEPT ![e] = merge(c.base, c.local, c.remote) \ outvoted]
          /\ enqueue_projection(cleared, known, e, merge(c.base, c.local, c.remote) \ outvoted, 0)
          /\ waived' = waived \cup outvoted
    BY <1>6
  <2>b. outvoted \in SUBSET Edits
    <3>1. outvoted \subseteq c.local \/ outvoted \subseteq c.remote
      BY OutvotedIs
    <3> QED
      BY <1>4, <3>1 DEF Conflicts
  <2> DEFINE merged == merge(c.base, c.local, c.remote) \ outvoted
  <2>c. waived' \in SUBSET Edits
    BY <1>2, <2>a, <2>b
  <2>1. /\ cleared \in [DOMAIN outbox -> Statuses]
        /\ \A i \in DOMAIN outbox : cleared[i] = IF outbox[i].entity = e THEN "synced" ELSE st[i]
        /\ QueuedIn(cleared) /\ AheadOf(cleared, state')
    BY GiveWay
  <2> HIDE DEF cleared
  <2>3. merged \in SUBSET Edits
    BY <1>4 DEF merge, Conflicts
  <2>d. local' = [local EXCEPT ![e] = merged] /\ enqueue_projection(cleared, known, e, merged, 0)
    BY <2>a
  <2> HIDE DEF merged
  <2>4. /\ outbox' \in Outboxes /\ status' \in [DOMAIN outbox' -> Statuses]
        /\ DOMAIN outbox' = DOMAIN outbox \cup {Len(outbox) + 1} /\ Len(outbox) + 1 \notin DOMAIN outbox
        /\ Grown /\ \A i \in DOMAIN outbox : status'[i] = cleared[i]
        /\ outbox'[Len(outbox) + 1].entity = e /\ status'[Len(outbox) + 1] = "pending"
        /\ QueuedIn(status)' /\ AheadOf(status, state)'
    BY <1>6, <2>d, <2>1, <2>3, Enqueued DEF Outboxes, States
  <2>5. InFlight' = {}
    <3>1. \A i \in DOMAIN outbox' : status'[i] # "in_flight"
      BY <2>1, <2>4
    <3> QED
      BY <3>1 DEF InFlight
  <2>6. /\ conflict' \in [Entities -> Conflicts] /\ conflict'[e].phase = "none"
        /\ \A f \in Entities : f # e => conflict'[f] = conflict[f]
    <3>1. NoConflict \in Conflicts /\ NoConflict.phase = "none"
      BY DEF NoConflict, Conflicts
    <3> QED
      BY <1>2, <1>6, <3>1
  <2>7. BooksTyped
    BY <1>2, <2>d, <2>c, <2>3, <2>4, <2>6 DEF BooksTyped
  <2>8. ASSUME NEW f \in Entities PROVE VisibleFor(f)'
    <3>1. CASE f = e
      <4>1. \A i \in DOMAIN outbox' : outbox'[i].entity = e => status'[i] # "conflict"
        BY <2>1, <2>4 DEF Grown
      <4> QED
        BY <2>6, <3>1, <4>1 DEF VisibleFor
    <3>2. CASE f # e
      <4>1. \A i \in DOMAIN outbox : outbox[i].entity = f => status'[i] = status[i]
        BY <2>1, <2>4, <3>2
      <4>2. \A i \in DOMAIN outbox' : i \notin DOMAIN outbox => outbox'[i].entity # f
        BY <2>4, <3>2
      <4> QED
        BY <2>4, <2>6, <3>2, <4>1, <4>2, VisibleKept
    <3> QED
      BY <3>1, <3>2
  <2> QED
    BY <2>4, <2>5, <2>7, <2>8 DEF BooksOrdered
<1> QED
  BY <1>1, <1>5, <1>6

(* What a pull leaves alone or only moves on: the log, the run, and what is *)
(* on its way.                                                              *)
LEMMA PulledIInv ==
  ASSUME IInv, UNCHANGED <<server, requests, run, mine, others, exposed, faults>>, pc = "pull",
         cursor' \in 0 .. Len(log), BooksTyped, BooksOrdered, \A f \in Entities : VisibleFor(f)',
         state' \in States, StateMatchesLog'
  PROVE  IInv'
<1>1. UNCHANGED <<log, row, requests, pc, rounds, reply, mine, others, exposed, faults>>
  BY DEF server, run
<1>2. TypeOK'
  <2>1. \A q \in requests' :
          /\ q.ids \subseteq DOMAIN outbox' /\ Cardinality(q.ids) \in 1 .. PushLimit
          /\ q.sent \in 0 .. MaxFaults /\ q.at \in 0 .. Len(log')
    BY <1>1 DEF IInv, TypeOK, BooksOrdered, Grown
  <2> QED
    BY <1>1, <2>1 DEF IInv, TypeOK, BooksTyped, States, Outboxes, Conflicts
<1>3. reply' = NoReply /\ pc' = "pull" /\ InFlight' = {}
  BY <1>1 DEF IInv, ReplyTrue, BooksOrdered
<1> QED
  BY <1>1, <1>2, <1>3, LogKept, NoReplyTrue, RecordsKept DEF IInv, BooksOrdered

(* apply_pull_page: a revision the device has already, or a new one, which  *)
(* is in the log.                                                           *)
LEMMA apply_pull_pageIInv ==
  IInv /\ apply_pull_page =>
    IInv' /\ \A e \in Entities : state'[e].rev >= state[e].rev
<1> SUFFICES ASSUME IInv, apply_pull_page
             PROVE  IInv' /\ \A e \in Entities : state'[e].rev >= state[e].rev
  OBVIOUS
<1> DEFINE g == log[cursor + 1]
           e == g.entity
<1>1. /\ UNCHANGED <<server, requests, run, mine, others, exposed, faults>> /\ UNCHANGED log /\ pc = "pull"
      /\ cursor < Len(log) /\ cursor' = cursor + 1 /\ apply_remote_entity(g)
  BY DEF apply_pull_page, server
<1>2. /\ cursor \in 0 .. Len(log) /\ Len(log) \in Nat /\ DOMAIN log = 1 .. Len(log)
      /\ log \in Seq(Changes) /\ state \in States
  BY Types DEF IInv, TypeOK, Changes, States
<1>3. cursor' \in 0 .. Len(log) /\ cursor + 1 \in DOMAIN log
  BY <1>1, <1>2
<1>4. g \in Changes
  BY <1>2, <1>3, ElementOfSeq
<1>5. e \in Entities /\ g.rev \in Nat /\ g.content \in SUBSET Edits
  BY <1>4 DEF Changes
<1>6. /\ InFlight = {} /\ \A i \in DOMAIN outbox : status[i] # "in_flight"
      /\ status \in [DOMAIN outbox -> Statuses] /\ QueuedIn(status) /\ AheadOf(status, state)
  BY <1>1 DEF IInv, ReplyTrue, InFlight, TypeOK
<1>7. /\ local \in [Entities -> SUBSET Edits] /\ outbox \in Outboxes /\ conflict \in [Entities -> Conflicts]
      /\ state[e].rev \in Nat /\ waived \in SUBSET Edits
  BY <1>2, <1>5 DEF IInv, TypeOK, Outboxes, Conflicts, States
<1> HIDE DEF g
<1>8. CASE state[e].rev >= g.rev
  <2>1. UNCHANGED state /\ IF hydrates(e, g)
                           THEN recordRemote(e, g, status, state[e].rev)
                           ELSE UNCHANGED <<outbox, status, local, conflict, waived>>
    BY <1>1, <1>8 DEF apply_remote_entity, applyKnown
  <2>2. state' \in States /\ AheadOf(status, state') /\ state'[e].rev = state[e].rev
    BY <1>2, <1>6, <2>1
  <2>3. BooksTyped /\ BooksOrdered /\ \A f \in Entities : VisibleFor(f)'
    <3>1. CASE hydrates(e, g)
      <4>1. conflict[e].phase # "none"
        BY <3>1 DEF hydrates
      <4>2. PICK i \in DOMAIN outbox : outbox[i].entity = e /\ status[i] \in Stuck
        BY <1>5, <4>1, ConflictRests
      <4>3. recordRemote(e, g, status, state[e].rev)
        BY <2>1, <3>1
      <4> HIDE DEF e
      <4> QED
        BY <1>4, <1>5, <1>6, <1>7, <2>2, <4>2, <4>3, recordRemoteIs
    <3>2. CASE ~hydrates(e, g)
      <4>1. UNCHANGED <<outbox, status, local, conflict, waived>>
        BY <2>1, <3>2
      <4> QED
        BY <1>6, <1>7, <2>1, <4>1, BooksKept DEF BooksTyped, BooksOrdered
    <3> QED
      BY <3>1, <3>2
  <2>4. StateMatchesLog'
    BY <1>1, <2>1, StateKept
  <2>5. \A f \in Entities : state'[f].rev >= state[f].rev
    BY <2>1, Types
  <2> QED
    BY <1>1, <1>3, <2>2, <2>3, <2>4, <2>5, PulledIInv
<1>9. CASE ~(state[e].rev >= g.rev)
  <2> DEFINE head == [rev |-> g.rev, base |-> g.content]
             st == Marked(status, RowsIn(status, e, {"pending", "in_flight"}), "conflict")
  <2>1. /\ state' = [state EXCEPT ![e] = head]
        /\ IF RowsIn(status, e, Unsynced) = {}
           THEN /\ local' = [local EXCEPT ![e] = g.content]
                /\ UNCHANGED <<outbox, status, conflict, waived>>
           ELSE recordRemote(e, g, st, g.rev)
    BY <1>1, <1>9 DEF apply_remote_entity, applyNew
  <2>2. head \in [rev : Nat, base : SUBSET Edits] /\ head.rev = g.rev /\ head.base = g.content
    BY <1>5
  <2>3. state' \in States /\ state'[e] = head /\ \A f \in Entities : f # e => state'[f] = state[f]
    BY <1>2, <1>5, <2>1, <2>2 DEF States
  <2>4. \A f \in Entities : state'[f].rev >= state[f].rev
    BY <1>5, <1>7, <1>9, <2>2, <2>3, Types
  <2>5. StateMatchesLog'
    <3>1. ASSUME NEW f \in Entities, state'[f].rev > 0
          PROVE  \E n \in DOMAIN log :
                   log[n].entity = f /\ log[n].rev = state'[f].rev /\ log[n].content = state'[f].base
      <4>1. CASE f = e
        BY <1>3, <2>2, <2>3, <4>1 DEF g
      <4>2. CASE f # e
        BY <2>3, <3>1, <4>2 DEF IInv, StateMatchesLog
      <4> QED
        BY <4>1, <4>2
    <3> QED
      BY <1>1, <3>1 DEF StateMatchesLog
  <2> HIDE DEF head
  <2>6. BooksTyped /\ BooksOrdered /\ \A f \in Entities : VisibleFor(f)'
    <3>1. CASE RowsIn(status, e, Unsynced) = {}
      <4>1. local' = [local EXCEPT ![e] = g.content] /\ UNCHANGED <<outbox, status, conflict, waived>>
        BY <2>1, <3>1
      <4>2. BooksTyped
        BY <1>5, <1>6, <1>7, <4>1 DEF BooksTyped
      <4>3. Grown /\ InFlight' = {} /\ QueuedIn(status)'
        BY <1>6, <4>1 DEF Grown, InFlight, QueuedIn
      <4>4. \A i \in DOMAIN outbox : outbox[i].entity = e => status[i] \notin Active
        BY <3>1 DEF RowsIn, Rows, Unsynced, Active
      <4>5. AheadOf(status, state)'
        BY <1>6, <2>3, <4>1, <4>4, Types DEF AheadOf
      <4>6. \A f \in Entities : VisibleFor(f)'
        BY <4>1 DEF IInv, VisibleFor
      <4> QED
        BY <4>2, <4>3, <4>5, <4>6 DEF BooksOrdered
    <3>2. CASE RowsIn(status, e, Unsynced) # {}
      <4>1. recordRemote(e, g, st, g.rev)
        BY <2>1, <3>2
      <4>2. /\ st \in [DOMAIN outbox -> Statuses]
            /\ \A i \in DOMAIN outbox : st[i] = IF outbox[i].entity = e /\ status[i] \in Active THEN "conflict" ELSE status[i]
        <5>1. "conflict" \in Statuses
          BY DEF Statuses, Unsynced
        <5>2. /\ st \in [DOMAIN outbox -> Statuses]
              /\ \A i \in DOMAIN outbox : st[i] = IF i \in RowsIn(status, e, {"pending", "in_flight"}) THEN "conflict" ELSE status[i]
          BY <1>6, <5>1, MarkedIs
        <5>3. \A i \in DOMAIN outbox : i \in RowsIn(status, e, {"pending", "in_flight"}) <=> outbox[i].entity = e /\ status[i] \in Active
          BY DEF RowsIn, Rows, Active
        <5> HIDE DEF st
        <5> QED
          BY <5>2, <5>3
      <4> HIDE DEF st
      <4>3. /\ \A i \in DOMAIN outbox : st[i] # "in_flight"
            /\ \A i \in DOMAIN outbox : outbox[i].entity # e => st[i] = status[i]
            /\ \A i \in DOMAIN outbox : outbox[i].entity = e => st[i] \notin Active
        BY <1>6, <4>2 DEF Active
      <4>4. QueuedIn(st)
        BY <1>6, <4>3 DEF QueuedIn, Active
      <4>5. AheadOf(st, state')
        BY <1>6, <2>3, <4>3, Types DEF AheadOf
      <4>6. PICK i \in DOMAIN outbox : outbox[i].entity = e /\ st[i] \in Stuck
        <5>1. PICK i \in DOMAIN outbox : outbox[i].entity = e /\ status[i] \in Unsynced
          BY <3>2 DEF RowsIn, Rows
        <5> QED
          BY <4>2, <5>1 DEF Unsynced, Active, Stuck
      <4>7. state'[e].rev = g.rev
        BY <2>2, <2>3
      <4> HIDE DEF e
      <4> QED
        BY <1>4, <1>5, <2>3, <4>1, <4>2, <4>3, <4>4, <4>5, <4>6, <4>7, recordRemoteIs
    <3> QED
      BY <3>1, <3>2
  <2> QED
    BY <1>1, <1>3, <2>3, <2>4, <2>5, <2>6, PulledIInv
<1> QED
  BY <1>8, <1>9

-----------------------------------------------------------------------------
(* resolve_conflict                                                         *)

(* The side that is taken and what is decided against are edits.            *)
LEMMA SidesTyped ==
  ASSUME IInv, NEW e \in Entities
  PROVE  /\ conflict[e] \in Conflicts /\ conflict[e].local \in SUBSET Edits /\ conflict[e].remote \in SUBSET Edits
         /\ [conflict EXCEPT ![e] = NoConflict] \in [Entities -> Conflicts]
         /\ NoConflict.phase = "none"
<1>1. conflict \in [Entities -> Conflicts] /\ NoConflict \in Conflicts
  BY DEF IInv, TypeOK, Conflicts, NoConflict
<1> QED
  BY <1>1 DEF Conflicts, NoConflict

(* The conflict of an entity ends with its rows out of the way: what else is*)
(* unsynced is pending.                                                     *)
LEMMA VisibleResolved ==
  ASSUME IInv, NEW e \in Entities, Grown, conflict' = [conflict EXCEPT ![e] = NoConflict],
         \A i \in DOMAIN outbox : status'[i] = IF outbox[i].entity = e THEN "synced" ELSE status[i],
         \A i \in DOMAIN outbox' : i \notin DOMAIN outbox =>
           outbox'[i].entity = e /\ status'[i] = "pending"
  PROVE  \A f \in Entities : VisibleFor(f)'
<1>1. SUFFICES ASSUME NEW f \in Entities PROVE VisibleFor(f)'
  OBVIOUS
<1>2. conflict'[e].phase = "none" /\ \A h \in Entities : h # e => conflict'[h] = conflict[h]
  BY DEF IInv, TypeOK, NoConflict
<1>3. CASE f = e
  <2>1. \A i \in DOMAIN outbox' : outbox'[i].entity = e => status'[i] # "conflict"
    BY DEF Grown
  <2> QED
    BY <1>2, <1>3, <2>1 DEF VisibleFor
<1>4. CASE f # e
  <2>1. \A i \in DOMAIN outbox : outbox[i].entity = f => status'[i] = status[i]
    BY <1>4
  <2>2. \A i \in DOMAIN outbox' : i \notin DOMAIN outbox => outbox'[i].entity # f
    BY <1>4
  <2> QED
    BY <1>2, <1>4, <2>1, <2>2, VisibleKept
<1> QED
  BY <1>3, <1>4

(* keep_local: the local side becomes one more change, on what is known.    *)
LEMMA keep_localIInv == ASSUME IInv, NEW e \in Entities, keep_local(e) PROVE IInv'
<1> DEFINE cleared == Marked(status, RowsIn(status, e, Unsynced), "synced")
           chosen == conflict[e].local
<1>1. /\ UNCHANGED <<log, row, requests, state, cursor, pc, rounds, reply, mine, others, exposed, faults>>
      /\ conflict[e].phase = "ready" /\ conflict' = [conflict EXCEPT ![e] = NoConflict]
      /\ local' = [local EXCEPT ![e] = chosen]
      /\ waived' = waived \cup (conflict[e].remote \ conflict[e].local)
      /\ enqueue_projection(cleared, state[e].rev, e, chosen, 0)
  BY DEF keep_local, Superseded, server, run
<1>2. /\ conflict[e] \in Conflicts /\ chosen \in SUBSET Edits /\ conflict[e].remote \in SUBSET Edits
      /\ conflict' \in [Entities -> Conflicts]
  BY <1>1, SidesTyped
<1>3. /\ status \in [DOMAIN outbox -> Statuses] /\ QueuedIn(status)
      /\ state' \in [Entities -> [rev : Nat, base : SUBSET Edits]] /\ AheadOf(status, state')
      /\ state'[e].rev = state[e].rev /\ state[e].rev \in Nat
  BY <1>1, Types DEF IInv, TypeOK
<1>4. /\ cleared \in [DOMAIN outbox -> Statuses]
      /\ \A i \in DOMAIN outbox : cleared[i] = IF outbox[i].entity = e THEN "synced" ELSE status[i]
      /\ QueuedIn(cleared) /\ AheadOf(cleared, state')
  BY <1>3, GiveWay
<1> HIDE DEF cleared, chosen
<1>5. /\ outbox' \in Outboxes /\ status' \in [DOMAIN outbox' -> Statuses]
      /\ DOMAIN outbox' = DOMAIN outbox \cup {Len(outbox) + 1} /\ Len(outbox) + 1 \notin DOMAIN outbox
      /\ Grown /\ \A i \in DOMAIN outbox : status'[i] = cleared[i]
      /\ outbox'[Len(outbox) + 1].entity = e /\ status'[Len(outbox) + 1] = "pending"
      /\ QueuedIn(status)' /\ AheadOf(status, state)'
  BY <1>1, <1>2, <1>3, <1>4, Enqueued DEF Outboxes
<1>6. InFlight' = InFlight
  <2>1. \A i \in DOMAIN outbox : outbox[i].entity = e => status[i] # "in_flight"
    BY <1>1, ConflictRests
  <2>2. \A i \in DOMAIN outbox : status'[i] = "in_flight" <=> status[i] = "in_flight"
    BY <1>4, <1>5, <2>1
  <2> QED
    BY <1>5, <2>2 DEF InFlight
<1>7. TypeOK'
  <2>1. local' \in [Entities -> SUBSET Edits] /\ waived' \subseteq Edits
    BY <1>1, <1>2 DEF IInv, TypeOK
  <2>2. \A q \in requests' :
          /\ q.ids \subseteq DOMAIN outbox' /\ Cardinality(q.ids) \in 1 .. PushLimit
          /\ q.sent \in 0 .. MaxFaults /\ q.at \in 0 .. Len(log')
    BY <1>1, <1>5 DEF IInv, TypeOK
  <2> QED
    BY <1>1, <1>2, <1>5, <2>1, <2>2 DEF IInv, TypeOK, Outboxes, Conflicts
<1>8. \A f \in Entities : VisibleFor(f)'
  <2>1. \A i \in DOMAIN outbox : status'[i] = IF outbox[i].entity = e THEN "synced" ELSE status[i]
    BY <1>4, <1>5
  <2>2. \A i \in DOMAIN outbox' : i \notin DOMAIN outbox =>
          outbox'[i].entity = e /\ status'[i] = "pending"
    BY <1>5
  <2> QED
    BY <1>1, <1>5, <2>1, <2>2, VisibleResolved
<1> QED
  BY <1>1, <1>5, <1>6, <1>7, <1>8, RecordsKept, LogKept, ReplyKept, StateKept DEF IInv

(* keep_remote: the other side replaces the row, and nothing is sent.       *)
LEMMA keep_remoteIInv == ASSUME IInv, NEW e \in Entities, keep_remote(e) PROVE IInv'
<1> DEFINE cleared == Marked(status, RowsIn(status, e, Unsynced), "synced")
<1>1. /\ UNCHANGED <<log, row, requests, outbox, state, cursor, pc, rounds, reply, mine, others, exposed, faults>>
      /\ conflict[e].phase = "ready" /\ conflict' = [conflict EXCEPT ![e] = NoConflict]
      /\ local' = [local EXCEPT ![e] = conflict[e].remote]
      /\ waived' = waived \cup (conflict[e].local \ conflict[e].remote)
      /\ status' = cleared
  BY DEF keep_remote, Superseded, server, run
<1>2. /\ conflict[e].local \in SUBSET Edits /\ conflict[e].remote \in SUBSET Edits
      /\ conflict' \in [Entities -> Conflicts]
  BY <1>1, SidesTyped
<1>3. status \in [DOMAIN outbox -> Statuses] /\ QueuedIn(status) /\ AheadOf(status, state)
  BY DEF IInv, TypeOK
<1>4. /\ status' \in [DOMAIN outbox -> Statuses]
      /\ \A i \in DOMAIN outbox : status'[i] = IF outbox[i].entity = e THEN "synced" ELSE status[i]
      /\ QueuedIn(status') /\ AheadOf(status', state)
  BY <1>1, <1>3, GiveWay
<1> HIDE DEF cleared
<1>5. Grown /\ QueuedIn(status)' /\ AheadOf(status, state)'
  BY <1>1, <1>4 DEF Grown, QueuedIn, AheadOf
<1>6. InFlight' = InFlight
  <2>1. \A i \in DOMAIN outbox : outbox[i].entity = e => status[i] # "in_flight"
    BY <1>1, ConflictRests
  <2>2. \A i \in DOMAIN outbox : status'[i] = "in_flight" <=> status[i] = "in_flight"
    BY <1>4, <2>1
  <2> QED
    BY <1>1, <2>2 DEF InFlight
<1>7. TypeOK'
  <2>1. local' \in [Entities -> SUBSET Edits] /\ waived' \subseteq Edits
    BY <1>1, <1>2 DEF IInv, TypeOK
  <2> QED
    BY <1>1, <1>2, <1>4, <2>1 DEF IInv, TypeOK, Conflicts
<1>8. \A f \in Entities : VisibleFor(f)'
  BY <1>1, <1>4, <1>5, VisibleResolved
<1> QED
  BY <1>1, <1>5, <1>6, <1>7, <1>8, RecordsKept, LogKept, ReplyKept, StateKept DEF IInv

-----------------------------------------------------------------------------
(* Fault: what was in flight waits again, before what waited already.       *)
LEMMA FaultIInv == IInv /\ Fault => IInv'
<1> SUFFICES ASSUME IInv, Fault PROVE IInv'
  OBVIOUS
<1>1. /\ UNCHANGED <<log, row, outbox, state, local, conflict, cursor, mine, others, waived, exposed>>
      /\ faults < MaxFaults /\ faults' = faults + 1 /\ requests' \subseteq requests
      /\ status' = Marked(status, InFlight, "pending")
      /\ pc' = "idle" /\ rounds' = 0 /\ reply' = NoReply
  BY DEF Fault, requeued, server, ghost
<1>2. status \in [DOMAIN outbox -> Statuses] /\ QueuedIn(status) /\ AheadOf(status, state)
  BY DEF IInv, TypeOK
<1>3. /\ status' \in [DOMAIN outbox -> Statuses]
      /\ \A i \in DOMAIN outbox : status'[i] = IF status[i] = "in_flight" THEN "pending" ELSE status[i]
  <2>1. "pending" \in Statuses
    BY DEF Statuses, Unsynced
  <2>2. /\ status' \in [DOMAIN outbox -> Statuses]
        /\ \A i \in DOMAIN outbox : status'[i] = IF i \in InFlight THEN "pending" ELSE status[i]
    BY <1>1, <1>2, <2>1, MarkedIs
  <2> QED
    BY <2>2 DEF InFlight
<1>4. \A i \in DOMAIN outbox :
        /\ status'[i] # "in_flight"
        /\ status'[i] \in Active => status[i] \in Active /\ status'[i] = "pending"
        /\ status'[i] \in Stuck => status[i] \in Stuck
  BY <1>3 DEF Active, Stuck
<1>5. TypeOK'
  <2>1. faults' \in 0 .. MaxFaults /\ rounds' \in 0 .. MaxBatches
    BY <1>1, BoundAssumption, LimitAssumption DEF IInv, TypeOK
  <2> QED
    BY <1>1, <1>3, <2>1 DEF IInv, TypeOK
<1>6. Records'
  BY <1>1 DEF IInv, Records, NoReply
<1>7. Grown /\ OwnLogged' /\ StateMatchesLog'
  BY <1>1, LogKept, StateKept DEF Grown
<1>8. ReplyTrue'
  <2>1. InFlight' = {}
    BY <1>1, <1>4 DEF InFlight
  <2> QED
    BY <1>1, <2>1, NoReplyTrue
<1>9. QueuedIn(status)' /\ AheadOf(status, state)'
  <2>1. QueuedIn(status)'
    BY <1>1, <1>2, <1>4 DEF QueuedIn
  <2>2. AheadOf(status, state)'
    BY <1>1, <1>2, <1>4 DEF AheadOf
  <2> QED
    BY <2>1, <2>2
<1>10. ASSUME NEW e \in Entities PROVE VisibleFor(e)'
  <2>1. \A i \in DOMAIN outbox : status'[i] = status[i] \/ (status'[i] # "conflict" /\ status[i] \notin Stuck)
    BY <1>3 DEF Stuck
  <2> QED
    BY <1>1, <1>7, <2>1, VisibleKept
<1> QED
  BY <1>5, <1>6, <1>7, <1>8, <1>9, <1>10 DEF IInv

-----------------------------------------------------------------------------
(* Nothing but an answer or a page of the pull changes the entity state.    *)
LEMMA StateLeft ==
  ASSUME [Next]_vars, ~apply_push_result, ~apply_pull_page
  PROVE  UNCHANGED state
<1>1. CASE \E e \in Entities : edit(e) \/ Commit(e) \/ keep_local(e) \/ keep_remote(e)
  BY <1>1 DEF edit, Commit, keep_local, keep_remote, database
<1>2. CASE run_locked \/ claim_pending \/ pushedAll \/ mark_dead_letter \/ pulledAll
  BY <1>2 DEF run_locked, claim_pending, pushedAll, mark_dead_letter, pulledAll, database
<1>3. CASE Gateway \/ Fault
  BY <1>3 DEF Gateway, push, Fault, database
<1>4. CASE UNCHANGED vars
  BY <1>4 DEF vars, database
<1> QED
  BY <1>1, <1>2, <1>3, <1>4 DEF Next, Device

(* The inductive invariant.                                                 *)
LEMMA NextIInv == IInv /\ [Next]_vars => IInv'
<1> SUFFICES ASSUME IInv, [Next]_vars PROVE IInv'
  OBVIOUS
<1>1. CASE \E e \in Entities : edit(e) \/ Commit(e) \/ keep_local(e) \/ keep_remote(e)
  BY <1>1, editIInv, CommitIInv, keep_localIInv, keep_remoteIInv
<1>2. CASE run_locked
  BY <1>2, run_lockedIInv
<1>3. CASE Device
  BY <1>3, claim_pendingIInv, pushedAllIInv, apply_push_resultIInv, mark_dead_letterIInv,
     apply_pull_pageIInv, pulledAllIInv DEF Device
<1>4. CASE Gateway
  BY <1>4, pushIInv DEF Gateway
<1>5. CASE Fault
  BY <1>5, FaultIInv
<1>6. CASE UNCHANGED vars
  <2>1. /\ UNCHANGED <<log, row, requests, outbox, status, state, local, conflict, cursor>>
        /\ UNCHANGED <<pc, rounds, reply, mine, others, waived, exposed, faults>>
    BY <1>6 DEF vars, server, database, run, ghost
  <2>2. TypeOK'
    BY <2>1 DEF IInv, TypeOK
  <2> QED
    BY <2>1, <2>2, BooksKept, RecordsKept, LogKept, ReplyKept, StateKept DEF IInv
<1> QED
  BY <1>1, <1>2, <1>3, <1>4, <1>5, <1>6 DEF Next

(* It holds in every state.                                                 *)
LEMMA Invariant == Spec => []IInv
BY InitIInv, NextIInv, PTL DEF Spec

(* The books of a device are in order whatever is lost, retried, overtaken  *)
(* or resolved: merges start from what the gateway stored, and a change in  *)
(* conflict is one that somebody can resolve (apply_push_result,            *)
(* apply_pull_page, record_remote_conflict, resolve_conflict).              *)
THEOREM BooksCorrect == Spec => []BooksSafe
<1>1. IInv => BooksSafe
  <2>1. IInv => ConflictsVisible
    BY DEF IInv, VisibleFor, ConflictsVisible, RowsIn, Rows, Stuck
  <2> QED
    BY <2>1 DEF IInv, BooksSafe
<1> QED
  BY <1>1, Invariant, PTL

(* What a device knows of the gateway never goes back, so that a page that  *)
(* is pulled again, or an answer that comes late, overwrites nothing newer. *)
THEOREM KnowledgeForward == Spec => StateNeverRegresses
<1>1. IInv /\ [Next]_vars => \A e \in Entities : state'[e].rev >= state[e].rev
  <2> SUFFICES ASSUME IInv, [Next]_vars
               PROVE  \A e \in Entities : state'[e].rev >= state[e].rev
    OBVIOUS
  <2>1. CASE apply_push_result \/ apply_pull_page
    BY <2>1, apply_push_resultIInv, apply_pull_pageIInv
  <2>2. CASE ~apply_push_result /\ ~apply_pull_page
    BY <2>2, StateLeft, Types
  <2> QED
    BY <2>1, <2>2
<1> QED
  BY <1>1, Invariant, PTL DEF Spec, StateNeverRegresses
-----------------------------------------------------------------------------
(* What keeps accepted edits, as long as the device is not exposed.         *)

(* What log l has of e up to revision r, content c has too, or a user has   *)
(* decided against it (w).                                                  *)
Covers(l, w, e, r, c) ==
  \A n \in DOMAIN l : l[n].entity = e /\ l[n].rev <= r => l[n].content \subseteq c \cup w

(* The log holds one change for each revision of an entity, which covers    *)
(* those before it, and the last of them is the row.                        *)
Lasting(l, h, w) ==
  /\ \A n \in DOMAIN l : 0 < l[n].rev /\ l[n].rev <= h[l[n].entity].rev
  /\ \A m, n \in DOMAIN l : l[m].entity = l[n].entity /\ l[m].rev = l[n].rev => m = n
  /\ \A e \in Entities :
       \/ h[e].rev = 0 /\ h[e].content = {}
       \/ \E n \in DOMAIN l : l[n].entity = e /\ l[n].rev = h[e].rev /\ l[n].content = h[e].content
  /\ \A n \in DOMAIN l : Covers(l, w, l[n].entity, l[n].rev, l[n].content)

(* A change that takes account of all it is built on.                       *)
BuiltOn(l, h, w, c) ==
  /\ c.base <= h[c.entity].rev
  /\ Covers(l, w, c.entity, c.base, c.content)
Built(i) == BuiltOn(log, row, waived, outbox[i])

(* What is on its way to the gateway, also what the device sends no more.   *)
Requested == \A q \in requests : \A i \in q.ids : Built(i)

(* A conflict is reported with a revision later than the base, and is no    *)
(* change that is accepted.                                                 *)
Answers ==
  \A c \in reply.conflicts :
    /\ c.id \in DOMAIN outbox /\ outbox[c.id].base < c.rev
    /\ \A a \in reply.accepted : a.id # c.id

(* What has been pulled is known.                                           *)
CursorCovers == \A n \in DOMAIN log : n <= cursor => log[n].rev <= state[log[n].entity].rev

(* The unsynced changes of an entity: each takes account of those before it,*)
(* and only the first may be in flight.                                     *)
Before(i, j) == i < j /\ outbox[i].entity = outbox[j].entity
IsFirst(i) == \A j \in DOMAIN outbox : Before(j, i) => status[j] \notin Unsynced
IsLast(i) == \A j \in DOMAIN outbox : Before(i, j) => status[j] \notin Unsynced
IsNext(i, j) ==
  /\ Before(i, j)
  /\ \A k \in DOMAIN outbox : Before(i, k) /\ k < j => status[k] \notin Active
Chained(e) ==
  \A i, j \in DOMAIN outbox : outbox[i].entity = e /\ Before(i, j) =>
    /\ status[i] \in Unsynced /\ status[j] \in Unsynced => outbox[i].content \subseteq outbox[j].content
    /\ status[j] = "in_flight" => status[i] \notin Unsynced
    /\ status[i] \in Active /\ status[j] \in Active /\ IsNext(i, j) => outbox[j].base = outbox[i].base + 1
FirstBuilt(e) ==
  \A i \in DOMAIN outbox : outbox[i].entity = e /\ status[i] \in Active /\ IsFirst(i) => Built(i)

(* The row is the last unsynced change, or else what the device knows.      *)
RowIsLast(e) ==
  /\ (\A i \in DOMAIN outbox : outbox[i].entity = e => status[i] \notin Unsynced) => local[e] = state[e].base
  /\ \A i \in DOMAIN outbox :
       outbox[i].entity = e /\ status[i] \in Unsynced /\ IsLast(i) => local[e] = outbox[i].content

(* The row takes account of what the device knows, but for a conflict that  *)
(* holds the other side; the base of a merge is in both sides.              *)
Known(e) ==
  /\ state[e].rev = 0 => state[e].base = {}
  /\ conflict[e].phase # "ready" => Covers(log, waived, e, state[e].rev, local[e])
  /\ conflict[e].phase # "none" => conflict[e].base \subseteq local[e] \cup waived
  /\ conflict[e].phase = "ready" =>
       conflict[e].remote = state[e].base /\ conflict[e].base \subseteq conflict[e].local \cup waived
  /\ conflict[e].phase = "waiting" => state[e].rev < conflict[e].rev

DeviceOf(e) == Chained(e) /\ FirstBuilt(e) /\ RowIsLast(e) /\ Known(e)
Clean ==
  /\ Lasting(log, row, waived) /\ Requested /\ Answers /\ CursorCovers
  /\ \A e \in Entities : DeviceOf(e)
KInv == ~exposed => Clean

-----------------------------------------------------------------------------
(* The gateway                                                              *)

(* More may be decided against, and more be covered.                        *)
LEMMA CoversMore ==
  ASSUME NEW l, NEW w, NEW v, w \subseteq v, NEW e, NEW r, NEW c, NEW d, c \subseteq d \cup v,
         Covers(l, w, e, r, c)
  PROVE  Covers(l, v, e, r, d)
BY DEF Covers

(* Up to an earlier revision there is less to cover.                        *)
LEMMA CoversLess ==
  ASSUME NEW l \in Seq(Changes), NEW w, NEW e, NEW r \in Nat, NEW s \in Nat, s <= r, NEW c,
         Covers(l, w, e, r, c)
  PROVE  Covers(l, w, e, s, c)
<1>1. ASSUME NEW n \in DOMAIN l, l[n].entity = e, l[n].rev <= s PROVE l[n].content \subseteq c \cup w
  <2>1. l[n] \in Changes
    BY ElementOfSeq
  <2>2. l[n].rev \in Nat
    BY <2>1 DEF Changes
  <2>3. l[n].rev <= r
    BY <1>1, <2>2
  <2> QED
    BY <1>1, <2>3 DEF Covers
<1> QED
  BY <1>1 DEF Covers

(* More decided against leaves the log what it is.                          *)
LEMMA LastingMore ==
  ASSUME NEW l, NEW h, NEW w, NEW v, w \subseteq v, Lasting(l, h, w)
  PROVE  Lasting(l, h, v)
BY DEF Lasting, Covers

(* The row covers all of its log.                                           *)
LEMMA RowCovers ==
  ASSUME NEW l \in Seq(Changes), NEW h \in Heads, NEW w, Lasting(l, h, w), NEW e \in Entities
  PROVE  Covers(l, w, e, h[e].rev, h[e].content)
<1>1. \A n \in DOMAIN l : l[n] \in Changes
  BY ElementOfSeq
<1>2. CASE h[e].rev = 0
  <2>1. \A n \in DOMAIN l : l[n].rev \in Nat /\ 0 < l[n].rev
    BY <1>1 DEF Lasting, Changes
  <2>2. \A n \in DOMAIN l : ~(l[n].rev <= h[e].rev)
    BY <1>2, <2>1
  <2> QED
    BY <2>2 DEF Covers
<1>3. CASE h[e].rev # 0
  <2>1. PICK n \in DOMAIN l : l[n].entity = e /\ l[n].rev = h[e].rev /\ l[n].content = h[e].content
    BY <1>3 DEF Lasting
  <2>2. Covers(l, w, l[n].entity, l[n].rev, l[n].content)
    BY DEF Lasting
  <2> QED
    BY <2>1, <2>2
<1> QED
  BY <1>2, <1>3

(* A change that covers all of its entity may be appended.                  *)
LEMMA Appended ==
  ASSUME NEW l \in Seq(Changes), NEW h \in Heads, NEW w, Lasting(l, h, w),
         NEW e \in Entities, NEW c \in SUBSET Edits, NEW id \in Nat,
         Covers(l, w, e, h[e].rev, c)
  PROVE  Lasting(Append(l, [entity |-> e, rev |-> h[e].rev + 1, content |-> c, id |-> id]),
                 [h EXCEPT ![e] = [rev |-> h[e].rev + 1, content |-> c]], w)
<1> DEFINE g == [entity |-> e, rev |-> h[e].rev + 1, content |-> c, id |-> id]
           head == [rev |-> h[e].rev + 1, content |-> c]
           k == Append(l, g)
           j == [h EXCEPT ![e] = head]
<1>1. h[e].rev \in Nat /\ \A f \in Entities : h[f].rev \in Nat
  BY DEF Heads
<1>2. /\ g \in Changes /\ g.entity = e /\ g.rev = h[e].rev + 1 /\ g.content = c
      /\ head \in [rev : Nat, content : SUBSET Edits] /\ head.rev = h[e].rev + 1 /\ head.content = c
  BY <1>1 DEF Changes
<1> HIDE DEF g, head
<1>3. /\ Len(l) \in Nat /\ DOMAIN l = 1 .. Len(l) /\ k \in Seq(Changes)
      /\ DOMAIN k = 1 .. (Len(l) + 1) /\ k[Len(l) + 1] = g
      /\ \A n \in 1 .. Len(l) : k[n] = l[n]
  BY <1>2, AppendProperties
<1>4. j[e] = head /\ \A f \in Entities : f # e => j[f] = h[f]
  BY DEF Heads
<1> HIDE DEF k, j
<1>5. \A n \in DOMAIN l : l[n].rev \in Nat /\ l[n].entity \in Entities /\ 0 < l[n].rev /\ l[n].rev <= h[l[n].entity].rev
  <2>1. \A n \in DOMAIN l : l[n] \in Changes
    BY ElementOfSeq
  <2> QED
    BY <2>1 DEF Lasting, Changes
<1>6. ASSUME NEW n \in DOMAIN k
      PROVE  (n \in DOMAIN l /\ k[n] = l[n]) \/ (n = Len(l) + 1 /\ k[n] = g)
  BY <1>3
<1>7. ASSUME NEW n \in DOMAIN k PROVE 0 < k[n].rev /\ k[n].rev <= j[k[n].entity].rev
  <2>1. CASE n \in DOMAIN l /\ k[n] = l[n]
    <3>1. j[l[n].entity].rev = h[l[n].entity].rev \/ j[l[n].entity].rev = h[l[n].entity].rev + 1
      BY <1>2, <1>4, <1>5, <2>1
    <3> QED
      BY <1>1, <1>5, <2>1, <3>1
  <2>2. CASE n = Len(l) + 1 /\ k[n] = g
    BY <1>1, <1>2, <1>4, <2>2
  <2> QED
    BY <1>6, <2>1, <2>2
<1>8. ASSUME NEW m \in DOMAIN k, NEW n \in DOMAIN k, k[m].entity = k[n].entity, k[m].rev = k[n].rev
      PROVE  m = n
  <2>1. \A i \in DOMAIN l : l[i].entity = e => l[i].rev # g.rev
    BY <1>1, <1>2, <1>5
  <2>2. CASE m \in DOMAIN l /\ k[m] = l[m] /\ n \in DOMAIN l /\ k[n] = l[n]
    BY <1>8, <2>2 DEF Lasting
  <2>3. CASE m = Len(l) + 1 /\ k[m] = g /\ n = Len(l) + 1 /\ k[n] = g
    BY <2>3
  <2>4. CASE m = Len(l) + 1 /\ k[m] = g /\ n \in DOMAIN l /\ k[n] = l[n]
    BY <1>2, <1>8, <2>1, <2>4
  <2>5. CASE n = Len(l) + 1 /\ k[n] = g /\ m \in DOMAIN l /\ k[m] = l[m]
    BY <1>2, <1>8, <2>1, <2>5
  <2> QED
    BY <1>6, <2>2, <2>3, <2>4, <2>5
<1>9. ASSUME NEW f \in Entities
      PROVE  \/ j[f].rev = 0 /\ j[f].content = {}
             \/ \E n \in DOMAIN k : k[n].entity = f /\ k[n].rev = j[f].rev /\ k[n].content = j[f].content
  <2>1. CASE f = e
    <3>1. Len(l) + 1 \in DOMAIN k
      BY <1>3
    <3> QED
      BY <1>2, <1>3, <1>4, <2>1, <3>1
  <2>2. CASE f # e
    <3>1. j[f] = h[f]
      BY <1>4, <2>2
    <3>2. \/ h[f].rev = 0 /\ h[f].content = {}
          \/ \E n \in DOMAIN l : l[n].entity = f /\ l[n].rev = h[f].rev /\ l[n].content = h[f].content
      BY DEF Lasting
    <3>3. \A n \in DOMAIN l : n \in DOMAIN k /\ k[n] = l[n]
      BY <1>3
    <3> QED
      BY <3>1, <3>2, <3>3
  <2> QED
    BY <2>1, <2>2
<1>10. ASSUME NEW n \in DOMAIN k PROVE Covers(k, w, k[n].entity, k[n].rev, k[n].content)
  <2>1. SUFFICES ASSUME NEW m \in DOMAIN k, k[m].entity = k[n].entity, k[m].rev <= k[n].rev
                 PROVE  k[m].content \subseteq k[n].content \cup w
    BY DEF Covers
  <2>2. CASE m \in DOMAIN l /\ k[m] = l[m] /\ n \in DOMAIN l /\ k[n] = l[n]
    BY <2>1, <2>2 DEF Lasting, Covers
  <2>3. CASE m = Len(l) + 1 /\ k[m] = g /\ n = Len(l) + 1 /\ k[n] = g
    BY <2>3
  <2>4. CASE n = Len(l) + 1 /\ k[n] = g /\ m \in DOMAIN l /\ k[m] = l[m]
    BY <1>2, <1>5, <2>1, <2>4 DEF Covers
  <2>5. CASE m = Len(l) + 1 /\ k[m] = g /\ n \in DOMAIN l /\ k[n] = l[n]
    <3>1. l[n].entity = e /\ h[e].rev + 1 <= l[n].rev
      BY <1>2, <2>1, <2>5
    <3> QED
      BY <1>1, <1>5, <2>5, <3>1
  <2> QED
    BY <1>6, <2>2, <2>3, <2>4, <2>5
<1>11. Lasting(k, j, w)
  BY <1>7, <1>8, <1>9, <1>10 DEF Lasting
<1> QED
  BY <1>11 DEF k, j, g, head

-----------------------------------------------------------------------------
(* Types, of a state and of the next.                                       *)
Typed ==
  /\ Len(outbox) \in Nat /\ DOMAIN outbox = 1 .. Len(outbox)
  /\ \A i \in DOMAIN outbox :
       /\ outbox[i].entity \in Entities /\ outbox[i].content \in SUBSET Edits
       /\ outbox[i].base \in Nat /\ status[i] \in Statuses /\ i \in Nat
  /\ log \in Seq(Changes) /\ row \in Heads
  /\ Len(log) \in Nat /\ DOMAIN log = 1 .. Len(log)
  /\ \A n \in DOMAIN log :
       /\ log[n].entity \in Entities /\ log[n].rev \in Nat /\ log[n].content \in SUBSET Edits
       /\ log[n].id \in Nat /\ n \in Nat
  /\ \A e \in Entities :
       /\ row[e].rev \in Nat /\ row[e].content \in SUBSET Edits
       /\ state[e].rev \in Nat /\ state[e].base \in SUBSET Edits
       /\ state[e] \in [rev : Nat, base : SUBSET Edits]
       /\ local[e] \in SUBSET Edits /\ conflict[e] \in Conflicts

(* From the type invariant.                                                 *)
LEMMA TypedNow == IInv => Typed
<1> SUFFICES ASSUME IInv PROVE Typed
  OBVIOUS
<1>1. /\ log \in Seq(Changes) /\ row \in Heads
      /\ \A e \in Entities : conflict[e] \in Conflicts /\ state[e] \in [rev : Nat, base : SUBSET Edits]
  BY DEF IInv, TypeOK, Changes, Heads, Conflicts
<1> QED
  BY <1>1, Types DEF Typed

(* In the next state too.                                                   *)
LEMMA TypedNext == IInv' => Typed'
BY TypedNow, PTL

(* What a device knows is behind the row, and covered by what it was then.  *)
LEMMA StateBehind ==
  ASSUME IInv, Lasting(log, row, waived), NEW e \in Entities
  PROVE  /\ state[e].rev <= row[e].rev
         /\ Covers(log, waived, e, state[e].rev, state[e].base)
<1>1. Typed
  BY TypedNow
<1>2. CASE state[e].rev = 0
  <2>1. \A n \in DOMAIN log : log[n].rev \in Nat /\ 0 < log[n].rev
    BY <1>1 DEF Lasting, Typed
  <2>2. \A n \in DOMAIN log : ~(log[n].rev <= state[e].rev)
    BY <1>2, <2>1
  <2>3. row[e].rev \in Nat
    BY <1>1 DEF Typed
  <2> QED
    BY <1>2, <2>2, <2>3 DEF Covers
<1>3. CASE state[e].rev # 0
  <2>1. PICK n \in DOMAIN log : log[n].entity = e /\ log[n].rev = state[e].rev /\ log[n].content = state[e].base
    <3>1. state[e].rev > 0
      BY <1>1, <1>3 DEF Typed
    <3> QED
      BY <3>1 DEF IInv, StateMatchesLog
  <2>2. log[n].rev <= row[log[n].entity].rev /\ Covers(log, waived, log[n].entity, log[n].rev, log[n].content)
    BY DEF Lasting
  <2> QED
    BY <2>1, <2>2
<1> QED
  BY <1>2, <1>3

(* The gateway keeps what it has, and what it adds comes after it.          *)
ServerGrown ==
  /\ \A n \in DOMAIN log : n \in DOMAIN log' /\ log'[n] = log[n]
  /\ \A n \in DOMAIN log' : n \in DOMAIN log \/ row[log'[n].entity].rev < log'[n].rev
  /\ \A e \in Entities : row[e].rev <= row'[e].rev
  /\ waived \subseteq waived'

(* What covered the log up to a revision there was still does.              *)
LEMMA CoversGrown ==
  ASSUME Typed, Typed', ServerGrown, NEW e \in Entities, NEW r \in Nat, r <= row[e].rev,
         NEW c, NEW d, c \subseteq d \cup waived', Covers(log, waived, e, r, c)
  PROVE  Covers(log', waived', e, r, d)
<1>1. SUFFICES ASSUME NEW n \in DOMAIN log', log'[n].entity = e, log'[n].rev <= r
               PROVE  log'[n].content \subseteq d \cup waived'
  BY DEF Covers
<1>2. n \in DOMAIN log
  <2>1. log'[n].rev \in Nat /\ row[e].rev \in Nat
    BY DEF Typed
  <2>2. ~(row[e].rev < log'[n].rev)
    BY <1>1, <2>1
  <2> QED
    BY <1>1, <2>2 DEF ServerGrown
<1>3. log'[n] = log[n]
  BY <1>2 DEF ServerGrown
<1> QED
  BY <1>1, <1>2, <1>3 DEF ServerGrown, Covers

(* A change built on what there was is still built on it.                   *)
LEMMA BuiltGrown ==
  ASSUME Typed, Typed', ServerGrown, NEW i \in DOMAIN outbox, Built(i), outbox'[i] = outbox[i]
  PROVE  Built(i)'
<1> DEFINE c == outbox[i]
<1>1. /\ c.entity \in Entities /\ c.base \in Nat /\ c.base <= row[c.entity].rev
      /\ Covers(log, waived, c.entity, c.base, c.content)
  BY DEF Built, BuiltOn, Typed
<1>2. Covers(log', waived', c.entity, c.base, c.content)
  BY <1>1, CoversGrown
<1>3. c.base <= row'[c.entity].rev
  <2>1. row[c.entity].rev <= row'[c.entity].rev /\ row[c.entity].rev \in Nat /\ row'[c.entity].rev \in Nat
    BY <1>1 DEF ServerGrown, Typed
  <2> QED
    BY <1>1, <2>1
<1> QED
  BY <1>2, <1>3 DEF Built, BuiltOn

(* An entity a step of the device leaves alone, whatever the gateway does.  *)
LEMMA DeviceKept ==
  ASSUME IInv, IInv', Lasting(log, row, waived), ServerGrown, Grown, NEW e \in Entities, DeviceOf(e),
         state'[e] = state[e], local'[e] = local[e], conflict'[e] = conflict[e],
         \A i \in DOMAIN outbox : outbox[i].entity = e => status'[i] = status[i],
         \A i \in DOMAIN outbox' : i \notin DOMAIN outbox => outbox'[i].entity # e
  PROVE  DeviceOf(e)'
<1>1. Typed /\ Typed'
  BY TypedNow, TypedNext
<1>2. \A i \in DOMAIN outbox' : outbox'[i].entity = e =>
        i \in DOMAIN outbox /\ outbox'[i] = outbox[i] /\ outbox[i].entity = e /\ status'[i] = status[i]
  BY DEF Grown
<1>3. \A i \in DOMAIN outbox : outbox[i].entity = e =>
        i \in DOMAIN outbox' /\ outbox'[i] = outbox[i] /\ status'[i] = status[i]
  BY DEF Grown
<1>4. ASSUME NEW i \in DOMAIN outbox, outbox[i].entity = e
      PROVE  /\ IsFirst(i)' => IsFirst(i)
             /\ IsLast(i)' => IsLast(i)
             /\ \A j \in DOMAIN outbox : IsNext(i, j)' => IsNext(i, j)
             /\ \A j \in DOMAIN outbox : outbox[j].entity = e => (Before(i, j)' <=> Before(i, j)) /\ (Before(j, i)' <=> Before(j, i))
  <2>1. \A j \in DOMAIN outbox : outbox[j].entity = e => (Before(i, j)' <=> Before(i, j)) /\ (Before(j, i)' <=> Before(j, i))
    BY <1>3, <1>4 DEF Before
  <2>2. \A j \in DOMAIN outbox : Before(i, j) \/ Before(j, i) => outbox[j].entity = e
    BY <1>4 DEF Before
  <2>3. IsFirst(i)' => IsFirst(i)
    BY <1>3, <2>1, <2>2 DEF IsFirst
  <2>4. IsLast(i)' => IsLast(i)
    BY <1>3, <2>1, <2>2 DEF IsLast
  <2>5. ASSUME NEW j \in DOMAIN outbox, IsNext(i, j)' PROVE IsNext(i, j)
    <3>1. Before(i, j)' /\ outbox'[j].entity = e
      BY <1>3, <1>4, <2>5 DEF IsNext, Before
    <3>2. outbox[j].entity = e /\ Before(i, j)
      BY <2>1, <3>1 DEF Grown
    <3> QED
      BY <1>3, <2>1, <2>2, <2>5, <3>2 DEF IsNext
  <2> QED
    BY <2>1, <2>3, <2>4, <2>5
<1>5. Chained(e)'
  <2>1. SUFFICES ASSUME NEW i \in DOMAIN outbox', NEW j \in DOMAIN outbox', outbox'[i].entity = e, Before(i, j)'
                 PROVE  /\ status'[i] \in Unsynced /\ status'[j] \in Unsynced => outbox'[i].content \subseteq outbox'[j].content
                        /\ status'[j] = "in_flight" => status'[i] \notin Unsynced
                        /\ status'[i] \in Active /\ status'[j] \in Active /\ IsNext(i, j)' => outbox'[j].base = outbox'[i].base + 1
    BY DEF Chained
  <2>2. outbox'[j].entity = e
    BY <2>1 DEF Before
  <2>3. /\ i \in DOMAIN outbox /\ outbox'[i] = outbox[i] /\ outbox[i].entity = e /\ status'[i] = status[i]
        /\ j \in DOMAIN outbox /\ outbox'[j] = outbox[j] /\ outbox[j].entity = e /\ status'[j] = status[j]
    BY <1>2, <2>1, <2>2
  <2>4. Before(i, j) /\ (IsNext(i, j)' => IsNext(i, j))
    BY <1>4, <2>1, <2>3
  <2> QED
    BY <2>3, <2>4 DEF DeviceOf, Chained
<1>6. FirstBuilt(e)'
  <2>1. SUFFICES ASSUME NEW i \in DOMAIN outbox', outbox'[i].entity = e, status'[i] \in Active, IsFirst(i)'
                 PROVE  Built(i)'
    BY DEF FirstBuilt
  <2>2. i \in DOMAIN outbox /\ outbox'[i] = outbox[i] /\ outbox[i].entity = e /\ status'[i] = status[i]
    BY <1>2, <2>1
  <2>3. Built(i)
    BY <1>4, <2>1, <2>2 DEF DeviceOf, FirstBuilt
  <2> QED
    BY <1>1, <2>2, <2>3, BuiltGrown
<1>7. RowIsLast(e)'
  <2>1. ASSUME \A i \in DOMAIN outbox' : outbox'[i].entity = e => status'[i] \notin Unsynced
        PROVE  local'[e] = state'[e].base
    BY <1>3, <2>1 DEF DeviceOf, RowIsLast
  <2>2. ASSUME NEW i \in DOMAIN outbox', outbox'[i].entity = e, status'[i] \in Unsynced, IsLast(i)'
        PROVE  local'[e] = outbox'[i].content
    <3>1. i \in DOMAIN outbox /\ outbox'[i] = outbox[i] /\ outbox[i].entity = e /\ status'[i] = status[i]
      BY <1>2, <2>2
    <3> QED
      BY <1>4, <2>2, <3>1 DEF DeviceOf, RowIsLast
  <2> QED
    BY <2>1, <2>2 DEF RowIsLast
<1>8. Known(e)'
  <2>1. state[e].rev <= row[e].rev /\ state[e].rev \in Nat
    BY <1>1, StateBehind DEF Typed
  <2>2. conflict[e].phase # "ready" => Covers(log', waived', e, state[e].rev, local[e])
    BY <1>1, <2>1, CoversGrown DEF DeviceOf, Known
  <2> QED
    BY <2>2 DEF DeviceOf, Known, ServerGrown
<1> QED
  BY <1>5, <1>6, <1>7, <1>8 DEF DeviceOf

(* What is on its way stays well built, and pulled changes stay known.      *)
LEMMA RequestedKept ==
  ASSUME IInv, IInv', ServerGrown, Grown, Requested, requests' \subseteq requests
  PROVE  Requested'
<1>1. ASSUME NEW q \in requests', NEW i \in q.ids PROVE Built(i)'
  <2>1. q \in requests /\ i \in DOMAIN outbox
    BY <1>1 DEF IInv, TypeOK
  <2>2. Built(i) /\ outbox'[i] = outbox[i]
    BY <1>1, <2>1 DEF Requested, Grown
  <2> QED
    BY <2>1, <2>2, TypedNow, TypedNext, BuiltGrown
<1> QED
  BY <1>1 DEF Requested

(* Pages pulled before are in the log as they were.                         *)
LEMMA CursorKept ==
  ASSUME IInv, IInv', ServerGrown, CursorCovers, cursor' = cursor,
         \A e \in Entities : state'[e].rev >= state[e].rev
  PROVE  CursorCovers'
<1>1. SUFFICES ASSUME NEW n \in DOMAIN log', n <= cursor' PROVE log'[n].rev <= state'[log'[n].entity].rev
  BY DEF CursorCovers
<1>2. Typed /\ Typed'
  BY TypedNow, TypedNext
<1>3. n \in DOMAIN log
  <2>1. cursor \in 0 .. Len(log) /\ n \in 1 .. Len(log') /\ Len(log') \in Nat
    BY <1>2 DEF IInv, TypeOK, Typed
  <2> QED
    BY <1>1, <1>2, <2>1 DEF Typed
<1>4. log'[n] = log[n] /\ log[n].rev <= state[log[n].entity].rev
  BY <1>1, <1>3 DEF ServerGrown, CursorCovers
<1>5. /\ log[n].rev \in Nat /\ log[n].entity \in Entities
      /\ state[log[n].entity].rev \in Nat /\ state'[log[n].entity].rev \in Nat
      /\ state'[log[n].entity].rev >= state[log[n].entity].rev
  BY <1>2, <1>3 DEF Typed
<1> QED
  BY <1>4, <1>5

(* An answer that waits is still about rows of the outbox.                  *)
LEMMA AnswersKept ==
  ASSUME Answers, Grown, reply' = reply \/ reply' = NoReply
  PROVE  Answers'
BY DEF Answers, Grown, NoReply

(* A step that leaves the device alone, but for its run.                    *)
LEMMA ServerStep ==
  ASSUME IInv, IInv', Clean, ServerGrown, UNCHANGED <<outbox, status, state, local, conflict, cursor>>,
         Lasting(log', row', waived'), requests' \subseteq requests, Answers'
  PROVE  Clean'
<1>1. Grown
  BY DEF Grown
<1>2. ASSUME NEW e \in Entities PROVE DeviceOf(e)'
  BY <1>1, DeviceKept DEF Clean
<1>3. CursorCovers'
  <2>1. \A e \in Entities : state'[e].rev >= state[e].rev
    BY TypedNow DEF Typed
  <2> QED
    BY <2>1, CursorKept DEF Clean
<1>4. Requested'
  BY <1>1, RequestedKept DEF Clean
<1> QED
  BY <1>2, <1>3, <1>4 DEF Clean

(* Steps of a run that only move it on.                                     *)
LEMMA IdleStep ==
  ASSUME IInv, IInv', KInv, UNCHANGED <<log, row, requests, outbox, status, state, local, conflict, cursor>>,
         UNCHANGED <<waived, exposed>>, reply' = reply \/ reply' = NoReply
  PROVE  KInv'
<1>1. SUFFICES ASSUME ~exposed', Clean PROVE Clean'
  BY DEF KInv
<1>2. ServerGrown
  BY TypedNow DEF ServerGrown, Typed
<1>3. Answers'
  BY <1>1, AnswersKept DEF Clean, Grown
<1>4. Lasting(log', row', waived')
  BY <1>1 DEF Clean
<1> QED
  BY <1>1, <1>2, <1>3, <1>4, ServerStep

(* Another device builds on the row.                                        *)
LEMMA CommitK == ASSUME IInv, IInv', KInv, NEW e \in Entities, Commit(e) PROVE KInv'
<1> DEFINE content == row[e].content \cup {NewEdit}
<1>1. /\ UNCHANGED <<requests, outbox, status, state, local, conflict, cursor, reply, waived, exposed>>
      /\ log' = Append(log, [entity |-> e, rev |-> row[e].rev + 1, content |-> content, id |-> 0])
      /\ row' = [row EXCEPT ![e] = [rev |-> row[e].rev + 1, content |-> content]]
      /\ Cardinality(others) < MaxCommits
  BY DEF Commit, database, run
<1>2. SUFFICES ASSUME Clean PROVE Clean'
  BY <1>1 DEF KInv
<1>3. Typed
  BY TypedNow
<1>4. content \in SUBSET Edits /\ row[e].rev \in Nat
  BY <1>1, <1>3, NewEditIn DEF Typed
<1>5. Covers(log, waived, e, row[e].rev, content)
  <2>1. Covers(log, waived, e, row[e].rev, row[e].content)
    BY <1>2, <1>3, RowCovers DEF Clean, Typed
  <2> QED
    BY <2>1, CoversMore
<1> HIDE DEF content
<1>6. Lasting(log', row', waived')
  <2>1. log \in Seq(Changes) /\ row \in Heads /\ 0 \in Nat
    BY <1>3 DEF Typed
  <2> QED
    BY <1>1, <1>2, <1>4, <1>5, <2>1, Appended DEF Clean
<1>7. ServerGrown
  <2> DEFINE g == [entity |-> e, rev |-> row[e].rev + 1, content |-> content, id |-> 0]
  <2>1. g \in Changes /\ g.entity = e /\ g.rev = row[e].rev + 1
    BY <1>4 DEF Changes
  <2> HIDE DEF g
  <2>2. /\ DOMAIN log' = 1 .. (Len(log) + 1) /\ \A n \in 1 .. Len(log) : log'[n] = log[n]
        /\ log'[Len(log) + 1] = g
    BY <1>1, <1>3, <2>1, AppendProperties DEF Typed, g
  <2>3. \A n \in DOMAIN log : n \in DOMAIN log' /\ log'[n] = log[n]
    BY <1>3, <2>2 DEF Typed
  <2>4. \A n \in DOMAIN log' : n \in DOMAIN log \/ log'[n] = g
    BY <1>3, <2>2 DEF Typed
  <2>5. row'[e].rev = row[e].rev + 1 /\ \A f \in Entities : f # e => row'[f] = row[f]
    BY <1>1, <1>3 DEF Typed, Heads
  <2>6. \A f \in Entities : row[f].rev <= row'[f].rev
    BY <1>3, <1>4, <2>5 DEF Typed
  <2>7. row[g.entity].rev < g.rev
    BY <1>4, <2>1
  <2> QED
    BY <1>1, <2>3, <2>4, <2>6, <2>7 DEF ServerGrown
<1>8. Answers'
  BY <1>1, <1>2, AnswersKept DEF Clean, Grown
<1> QED
  BY <1>1, <1>2, <1>6, <1>7, <1>8, ServerStep

-----------------------------------------------------------------------------
(* push                                                                     *)

(* What holds besides of the gateway on its way through a batch of changes  *)
(* that are built well.                                                     *)
Kept(u) ==
  /\ Lasting(u.log, u.row, waived)
  /\ \A n \in DOMAIN u.log : n \in DOMAIN log \/ row[u.log[n].entity].rev < u.log[n].rev
  /\ \A e \in Entities : row[e].rev <= u.row[e].rev
  /\ \A c \in u.conflicts :
       /\ c.id \in DOMAIN outbox /\ outbox[c.id].base < c.rev
       /\ \A a \in u.accepted : a.id # c.id

(* A change that is applied covers all that is there.                       *)
LEMMA pushOneKept ==
  ASSUME IInv, Clean, NEW done, NEW u, Handled(u, done), Kept(u),
         NEW i \in DOMAIN outbox, i \notin done, Built(i), NEW missed
  PROVE  Kept(pushOne(u, i, missed))
<1> DEFINE c == outbox[i]
           e == outbox[i].entity
           rev == u.row[e].rev + 1
           w == pushOne(u, i, missed)
<1>1. /\ e \in Entities /\ c.content \in SUBSET Edits /\ c.base \in Nat /\ i \in Nat
      /\ c.base <= row[e].rev /\ row[e].rev \in Nat
      /\ Covers(log, waived, e, c.base, c.content)
  BY TypedNow DEF Typed, Built, BuiltOn
<1>2. /\ u.log \in Seq(Changes) /\ u.row \in Heads /\ u.conflicts \subseteq Revs
      /\ u = [log |-> u.log, row |-> u.row, accepted |-> u.accepted, conflicts |-> u.conflicts]
      /\ Len(u.log) \in Nat /\ DOMAIN u.log = 1 .. Len(u.log)
  BY DEF Handled
<1>3. u.row[e].rev \in Nat /\ row[e].rev <= u.row[e].rev
  BY <1>1, <1>2 DEF Heads, Kept
<1>7. (\A x \in u.conflicts : x.id # i) /\ (\A a \in u.accepted : a.id # i)
  BY DEF Handled, Ids
<1>4. CASE isStored(u.log, i) /\ i \notin missed
  <2>1. w = [u EXCEPT !.accepted = @ \cup {[id |-> i, rev |-> c.base + 1]}]
    BY <1>4 DEF pushOne
  <2>2. /\ w.log = u.log /\ w.row = u.row /\ w.conflicts = u.conflicts
        /\ w.accepted = u.accepted \cup {[id |-> i, rev |-> c.base + 1]}
    BY <1>2, <2>1
  <2> HIDE DEF w
  <2> QED
    BY <1>7, <2>2 DEF Kept, w
<1>5. CASE ~(isStored(u.log, i) /\ i \notin missed) /\ c.base = u.row[e].rev
  <2> DEFINE g == [entity |-> e, rev |-> rev, content |-> c.content, id |-> i]
             head == [rev |-> rev, content |-> c.content]
  <2>1. w = [log |-> Append(u.log, g), row |-> [u.row EXCEPT ![e] = head],
             accepted |-> u.accepted \cup {[id |-> i, rev |-> rev]}, conflicts |-> u.conflicts]
    BY <1>5 DEF pushOne
  <2>2. /\ w.log = Append(u.log, g) /\ w.row = [u.row EXCEPT ![e] = head] /\ w.conflicts = u.conflicts
        /\ w.accepted = u.accepted \cup {[id |-> i, rev |-> rev]}
    BY <2>1
  <2> HIDE DEF w
  <2>3. row[e].rev = u.row[e].rev
    BY <1>1, <1>3, <1>5
  <2>4. Covers(u.log, waived, e, u.row[e].rev, c.content)
    <3>1. SUFFICES ASSUME NEW n \in DOMAIN u.log, u.log[n].entity = e, u.log[n].rev <= u.row[e].rev
                   PROVE  u.log[n].content \subseteq c.content \cup waived
      BY DEF Covers
    <3>2. u.log[n].rev \in Nat
      <4>1. u.log[n] \in Changes
        BY <1>2, ElementOfSeq
      <4> QED
        BY <4>1 DEF Changes
    <3>3. n \in DOMAIN log
      BY <1>1, <2>3, <3>1, <3>2 DEF Kept
    <3>4. u.log[n] = log[n]
      BY <3>3, TypedNow DEF Handled, Typed
    <3> QED
      BY <1>1, <1>5, <3>1, <3>3, <3>4 DEF Covers
  <2>5. Lasting(w.log, w.row, waived)
    <3>1. Lasting(u.log, u.row, waived)
      BY DEF Kept
    <3> HIDE DEF e
    <3>2. Lasting(Append(u.log, [entity |-> e, rev |-> u.row[e].rev + 1, content |-> c.content, id |-> i]),
                  [u.row EXCEPT ![e] = [rev |-> u.row[e].rev + 1, content |-> c.content]], waived)
      BY <1>1, <1>2, <2>4, <3>1, Appended
    <3> QED
      BY <2>2, <3>2
  <2>6. g.entity = e /\ g.rev = u.row[e].rev + 1 /\ g \in Changes /\ head.rev = u.row[e].rev + 1
    BY <1>1, <1>3 DEF Changes
  <2> HIDE DEF g, head
  <2>7. \A n \in DOMAIN w.log : w.log[n] = g \/ (n \in DOMAIN u.log /\ w.log[n] = u.log[n])
    BY <1>2, <2>2, <2>6, AppendProperties
  <2>8. ASSUME NEW n \in DOMAIN w.log PROVE n \in DOMAIN log \/ row[w.log[n].entity].rev < w.log[n].rev
    <3>1. row[e].rev < u.row[e].rev + 1
      BY <1>1, <2>3
    <3> QED
      BY <2>6, <2>7, <3>1 DEF Kept
  <2>9. ASSUME NEW f \in Entities PROVE row[f].rev <= w.row[f].rev
    <3>1. f # e => w.row[f] = u.row[f]
      BY <1>2, <2>2 DEF Heads
    <3>2. f = e => w.row[f].rev = u.row[e].rev + 1
      BY <1>1, <1>2, <2>2, <2>6 DEF Heads
    <3>3. u.row[e].rev <= u.row[e].rev + 1 /\ row[e].rev <= u.row[e].rev + 1
      BY <1>1, <1>3
    <3> QED
      BY <3>1, <3>2, <3>3 DEF Kept
  <2>10. Kept(w)
    BY <1>7, <2>2, <2>5, <2>8, <2>9 DEF Kept
  <2> QED
    BY <2>10 DEF w
<1>6. CASE ~(isStored(u.log, i) /\ i \notin missed) /\ c.base # u.row[e].rev
  <2> DEFINE a == [id |-> i, rev |-> u.row[e].rev]
  <2>1. w = [u EXCEPT !.conflicts = @ \cup {a}]
    BY <1>6 DEF pushOne
  <2>2. w.log = u.log /\ w.row = u.row /\ w.conflicts = u.conflicts \cup {a} /\ w.accepted = u.accepted
    BY <1>2, <2>1
  <2> HIDE DEF w
  <2>3. a.id \in DOMAIN outbox /\ outbox[a.id].base < a.rev /\ a.id = i
    BY <1>1, <1>3, <1>6
  <2> HIDE DEF a
  <2>4. \A x \in w.conflicts :
          x.id \in DOMAIN outbox /\ outbox[x.id].base < x.rev /\ \A b \in w.accepted : b.id # x.id
    BY <1>7, <2>2, <2>3 DEF Kept
  <2>5. Kept(w)
    BY <2>2, <2>4 DEF Kept
  <2> QED
    BY <2>5 DEF w
<1> QED
  BY <1>4, <1>5, <1>6

(* So is the whole batch.                                                   *)
LEMMA pushAllKept ==
  ASSUME IInv, Clean, NEW ids \in SUBSET DOMAIN outbox, \A i \in ids : Built(i), NEW missed
  PROVE  Kept(pushAll(ids, missed))
<1> DEFINE b == Len(outbox)
<1>0. b \in Nat /\ DOMAIN outbox = 1 .. b
  BY Types
<1>1. PICK t : /\ IsWay(t, ids, missed, b) /\ pushAll(ids, missed) = t[b]
               /\ \A n \in 0 .. b : Handled(t[n], ids \cap (1 .. n))
  BY WayHandled
<1> HIDE DEF b
<1> DEFINE S == {n \in 0 .. b : Kept(t[n])}
<1>2. \A n \in 0 .. b : t[n] = After(t, ids, missed, n)
  BY <1>1 DEF IsWay
<1>3. 0 \in S
  <2>1. t[0] = Start /\ 0 \in 0 .. b
    BY <1>0, <1>2 DEF After
  <2>2. Start.log = log /\ Start.row = row /\ Start.conflicts = {}
    BY DEF Start
  <2>3. Kept(Start)
    BY <2>2, TypedNow DEF Kept, Clean, Typed
  <2> QED
    BY <2>1, <2>3
<1>4. ASSUME NEW n \in 0 .. b, n \in S, n < b PROVE n + 1 \in S
  <2>1. n + 1 \in 0 .. b /\ n + 1 \in DOMAIN outbox /\ (n + 1) - 1 = n /\ n + 1 # 0
    BY <1>0, <1>4
  <2>2. t[n + 1] = IF n + 1 \in ids THEN pushOne(t[n], n + 1, missed) ELSE t[n]
    BY <1>2, <2>1 DEF After
  <2>3. Handled(t[n], ids \cap (1 .. n)) /\ Kept(t[n])
    BY <1>1, <1>4
  <2>4. CASE n + 1 \in ids
    <3>1. n + 1 \notin ids \cap (1 .. n)
      BY <1>0, <1>4
    <3> QED
      BY <2>1, <2>2, <2>3, <2>4, <3>1, pushOneKept
  <2>5. CASE n + 1 \notin ids
    BY <2>1, <2>2, <2>3, <2>5
  <2> QED
    BY <2>4, <2>5
<1>5. 0 .. b \subseteq S
  <2> HIDE DEF S
  <2> QED
    BY <1>0, <1>3, <1>4, UpTo
<1>6. b \in S
  BY <1>0, <1>5
<1> QED
  BY <1>1, <1>6

(* push: the gateway adds what covers all it has, and reports revisions     *)
(* later than the bases of what it refuses.                                 *)
LEMMA pushK ==
  ASSUME IInv, IInv', KInv, NEW q \in requests, NEW missed, push(q, missed)
  PROVE  KInv'
<1> DEFINE t == pushAll(q.ids, missed)
           awaited == pc = "pushing" /\ q.ids = InFlight /\ q.sent = faults
           refused == TooLarge(q.ids)
<1>1. /\ UNCHANGED <<outbox, status, state, local, conflict, cursor, waived>>
      /\ requests' \subseteq requests
      /\ IF refused THEN UNCHANGED <<log, row>> ELSE log' = t.log /\ row' = t.row
      /\ \/ UNCHANGED <<reply, exposed>>
         \/ UNCHANGED exposed /\ reply' = [NoReply EXCEPT !.kind = "refused"]
         \/ /\ ~refused
            /\ \E raced \in SUBSET Raced(q, t.conflicts) :
                 /\ reply' = [kind |-> "ok", accepted |-> t.accepted,
                              conflicts |-> Reported(t.conflicts, raced)]
                 /\ exposed' = (exposed \/ raced # {})
  BY DEF push, server, database
<1>2. SUFFICES ASSUME ~exposed', Clean PROVE Clean'
  <2>1. exposed \in BOOLEAN
    BY DEF IInv, TypeOK
  <2>2. exposed => exposed'
    <3> HIDE DEF t, refused
    <3> QED
      BY <1>1, <2>1
  <2> QED
    BY <2>2 DEF KInv
<1>3. q.ids \in SUBSET DOMAIN outbox /\ \A i \in q.ids : Built(i)
  BY <1>2 DEF IInv, TypeOK, Clean, Requested
<1>4. Handled(t, q.ids) /\ Kept(t)
  BY <1>2, <1>3, pushAllHandled, pushAllKept
<1> HIDE DEF t, refused
<1>5. ServerGrown /\ Lasting(log', row', waived')
  <2>1. CASE refused
    BY <1>1, <1>2, <2>1, TypedNow DEF ServerGrown, Clean, Typed
  <2>2. CASE ~refused
    <3>1. log' = t.log /\ row' = t.row /\ waived' = waived
      BY <1>1, <2>2
    <3>2. \A n \in DOMAIN log : n \in DOMAIN t.log /\ t.log[n] = log[n]
      BY <1>4, TypedNow DEF Handled, Typed
    <3> QED
      BY <1>4, <3>1, <3>2 DEF ServerGrown, Kept
  <2> QED
    BY <2>1, <2>2
<1>6. Answers'
  <2>1. CASE UNCHANGED <<reply, exposed>>
    BY <1>1, <1>2, <2>1 DEF Clean, Answers
  <2>2. CASE reply' = [NoReply EXCEPT !.kind = "refused"]
    BY <2>2 DEF Answers, NoReply
  <2>3. CASE \E raced \in SUBSET Raced(q, t.conflicts) :
               /\ reply' = [kind |-> "ok", accepted |-> t.accepted,
                            conflicts |-> Reported(t.conflicts, raced)]
               /\ exposed' = (exposed \/ raced # {})
    <3>1. PICK raced \in SUBSET Raced(q, t.conflicts) :
               /\ reply' = [kind |-> "ok", accepted |-> t.accepted,
                            conflicts |-> Reported(t.conflicts, raced)]
               /\ exposed' = (exposed \/ raced # {})
      BY <2>3
    <3>2. raced = {}
      BY <1>2, <3>1
    <3>3. reply'.conflicts = {[id |-> c.id, rev |-> c.rev] : c \in t.conflicts}
      BY <3>1, <3>2 DEF Reported
    <3>4. \A c \in reply'.conflicts :
            c.id \in DOMAIN outbox /\ outbox[c.id].base < c.rev /\ \A a \in reply'.accepted : a.id # c.id
      BY <1>4, <3>1, <3>3 DEF Kept
    <3> QED
      BY <1>1, <3>4 DEF Answers
  <2> QED
    BY <1>1, <2>1, <2>2, <2>3
<1> QED
  BY <1>1, <1>2, <1>5, <1>6, ServerStep

-----------------------------------------------------------------------------
(* Steps that only change where rows of the outbox wait                     *)

(* What is unsynced of an entity stays so; only what is in flight, and so   *)
(* the first, leaves its queue.                                             *)
LEMMA StatusOf ==
  ASSUME UNCHANGED <<log, row, outbox, waived>>, NEW e \in Entities, DeviceOf(e),
         state'[e] = state[e], local'[e] = local[e],
         \A i \in DOMAIN outbox : outbox[i].entity = e =>
           /\ status'[i] \in Unsynced <=> status[i] \in Unsynced
           /\ status'[i] \in Active => status[i] \in Active
           /\ status[i] \in Active /\ status'[i] \notin Active => status[i] = "in_flight"
           /\ status'[i] = "in_flight" => IsFirst(i)
  PROVE  Chained(e)' /\ FirstBuilt(e)' /\ RowIsLast(e)'
<1>3. Chained(e) /\ FirstBuilt(e) /\ RowIsLast(e)
  BY DEF DeviceOf
<1>4. /\ \A i, j \in DOMAIN outbox : Before(i, j)' <=> Before(i, j)
      /\ \A i, j \in DOMAIN outbox : Before(i, j) => (outbox[i].entity = e <=> outbox[j].entity = e)
  BY DEF Before
<1>5. \A i \in DOMAIN outbox : outbox[i].entity = e => (IsFirst(i)' => IsFirst(i)) /\ (IsLast(i)' => IsLast(i))
  BY <1>4 DEF IsFirst, IsLast
<1>6. ASSUME NEW i \in DOMAIN outbox, NEW j \in DOMAIN outbox, outbox[i].entity = e,
             status[i] \in Active, IsNext(i, j)'
      PROVE  IsNext(i, j)
  <2>1. Before(i, j) /\ \A k \in DOMAIN outbox : Before(i, k) /\ k < j => status'[k] \notin Active
    BY <1>4, <1>6 DEF IsNext
  <2>2. status[i] \in Unsynced
    BY <1>6 DEF Active, Unsynced
  <2>3. \A k \in DOMAIN outbox : Before(i, k) => status[k] # "in_flight"
    BY <1>3, <1>6, <2>2 DEF Chained
  <2> QED
    BY <1>4, <1>6, <2>1, <2>3 DEF IsNext
<1>7. Chained(e)'
  <2>1. SUFFICES ASSUME NEW i \in DOMAIN outbox, NEW j \in DOMAIN outbox, outbox[i].entity = e, Before(i, j)
                 PROVE  /\ status'[i] \in Unsynced /\ status'[j] \in Unsynced => outbox[i].content \subseteq outbox[j].content
                        /\ status'[j] = "in_flight" => status'[i] \notin Unsynced
                        /\ status'[i] \in Active /\ status'[j] \in Active /\ IsNext(i, j)' => outbox[j].base = outbox[i].base + 1
    BY <1>4 DEF Chained
  <2>2. outbox[j].entity = e
    BY <1>4, <2>1
  <2>3. status'[i] \in Unsynced /\ status'[j] \in Unsynced => outbox[i].content \subseteq outbox[j].content
    BY <1>3, <2>1, <2>2 DEF Chained
  <2>4. status'[j] = "in_flight" => status'[i] \notin Unsynced
    BY <2>1, <2>2 DEF IsFirst
  <2>5. status'[i] \in Active /\ status'[j] \in Active /\ IsNext(i, j)' => outbox[j].base = outbox[i].base + 1
    BY <1>3, <1>6, <2>1, <2>2 DEF Chained
  <2> QED
    BY <2>3, <2>4, <2>5
<1>8. FirstBuilt(e)'
  BY <1>3, <1>5 DEF FirstBuilt, Built
<1>9. RowIsLast(e)'
  BY <1>3, <1>5 DEF RowIsLast
<1> QED
  BY <1>7, <1>8, <1>9

(* A step that does no more than that.                                      *)
LEMMA StatusStep ==
  ASSUME IInv, IInv', Clean, UNCHANGED <<log, row, outbox, state, local, conflict, cursor, waived>>,
         \A i \in DOMAIN outbox :
           /\ status'[i] \in Unsynced <=> status[i] \in Unsynced
           /\ status'[i] \in Active => status[i] \in Active
           /\ status[i] \in Active /\ status'[i] \notin Active => status[i] = "in_flight"
           /\ status'[i] = "in_flight" => IsFirst(i),
         Requested', Answers'
  PROVE  Clean'
<1>1. CursorCovers' /\ Lasting(log', row', waived')
  BY DEF Clean, CursorCovers
<1>2. SUFFICES ASSUME NEW e \in Entities PROVE DeviceOf(e)'
  BY <1>1 DEF Clean
<1>3. DeviceOf(e)
  BY DEF Clean
<1>4. Chained(e)' /\ FirstBuilt(e)' /\ RowIsLast(e)'
  BY <1>3, StatusOf
<1>5. Known(e)'
  BY <1>3 DEF DeviceOf, Known
<1> QED
  BY <1>4, <1>5 DEF DeviceOf

(* What is claimed, one change of an entity at a time, is the first of it.  *)
LEMMA ClaimedFirst ==
  ASSUME IInv, \A i \in DOMAIN outbox : status[i] # "in_flight", Claimed # {},
         \A i, j \in Claimed : outbox[i].entity = outbox[j].entity => i = j, NEW i \in Claimed
  PROVE  IsFirst(i)
<1>1. /\ Claimed \subseteq DOMAIN outbox
      /\ \A j \in Claimed : status[j] = "pending" /\ j \in Claimable
      /\ \A j \in Claimable : j <= i => j \in Claimed
  BY ClaimedIs
<1>2. \A j \in DOMAIN outbox : j \in Nat
  BY TypedNow DEF Typed
<1>3. SUFFICES ASSUME NEW j \in DOMAIN outbox, Before(j, i), status[j] \in Unsynced PROVE FALSE
  BY DEF IsFirst
<1>4. outbox[j].entity = outbox[i].entity /\ j < i /\ i \in Nat /\ j \in Nat /\ i \in DOMAIN outbox
  BY <1>3, <1>1, <1>2 DEF Before
<1>5. \A k \in DOMAIN outbox : outbox[k].entity = outbox[i].entity
          /\ status[k] \in {"conflict", "dead_letter", "in_flight"} => k > i
  BY <1>1 DEF Claimable, RowsIn, Rows
<1>6. status[j] = "pending"
  BY <1>3, <1>4, <1>5 DEF Unsynced
<1>7. \A k \in DOMAIN outbox : outbox[k].entity = outbox[j].entity
          /\ status[k] \in {"conflict", "dead_letter", "in_flight"} => k > j
  BY <1>4, <1>5, <1>2
<1>8. j \in Claimable
  BY <1>6, <1>7 DEF Claimable, RowsIn, Rows
<1>9. j \in Claimed
  BY <1>4, <1>1, <1>8
<1> QED
  BY <1>4, <1>9

(* claim_pending: as no two changes of an entity are claimed, each claimed  *)
(* one is the first of its entity.                                          *)
LEMMA claim_pendingK == IInv /\ IInv' /\ KInv /\ claim_pending => KInv'
<1> SUFFICES ASSUME IInv, IInv', KInv, claim_pending PROVE KInv'
  OBVIOUS
<1> DEFINE q == [ids |-> Claimed, sent |-> faults, at |-> Len(log)]
<1>1. /\ UNCHANGED <<log, row, outbox, state, local, conflict, cursor, reply, waived>>
      /\ pc = "push" /\ Claimed # {}
      /\ status' = Marked(status, Claimed, "in_flight") /\ requests' = requests \cup {q}
      /\ exposed' = (exposed \/ \E i, j \in Claimed : i # j /\ outbox[i].entity = outbox[j].entity)
  BY DEF claim_pending, server
<1>2. SUFFICES ASSUME ~exposed', Clean PROVE Clean'
  <2>1. exposed \in BOOLEAN
    BY DEF IInv, TypeOK
  <2>2. exposed => exposed'
    <3> HIDE DEF q
    <3> QED
      BY <1>1, <2>1
  <2> QED
    BY <2>2 DEF KInv
<1>3. \A i, j \in Claimed : outbox[i].entity = outbox[j].entity => i = j
  BY <1>1, <1>2
<1>4. /\ Claimed \subseteq DOMAIN outbox
      /\ \A i \in Claimed : status[i] = "pending" /\ i \in Claimable
      /\ \A i \in Claimed : \A j \in Claimable : j <= i => j \in Claimed
  BY <1>1, ClaimedIs
<1>5. \A i \in DOMAIN outbox : status[i] # "in_flight" /\ status[i] \in Statuses /\ i \in Nat
  BY <1>1, TypedNow DEF IInv, ReplyTrue, InFlight, Typed
<1>6. \A i \in DOMAIN outbox : status'[i] = IF i \in Claimed THEN "in_flight" ELSE status[i]
  <2>1. "in_flight" \in Statuses /\ status \in [DOMAIN outbox -> Statuses]
    BY DEF Statuses, Unsynced, IInv, TypeOK
  <2> QED
    BY <1>1, <2>1, MarkedIs
<1>7. ASSUME NEW i \in Claimed PROVE IsFirst(i)
  BY <1>1, <1>3, <1>5, ClaimedFirst
<1>8. ASSUME NEW i \in Claimed PROVE Built(i)
  <2>1. i \in DOMAIN outbox /\ outbox[i].entity \in Entities /\ status[i] \in Active
    BY <1>4, TypedNow DEF Typed, Active
  <2> QED
    BY <1>2, <1>7, <2>1 DEF Clean, DeviceOf, FirstBuilt
<1>9. Requested'
  <2>1. \A i \in DOMAIN outbox : Built(i)' <=> Built(i)
    BY <1>1 DEF Built
  <2>2. \A p \in requests : p.ids \subseteq DOMAIN outbox
    BY DEF IInv, TypeOK
  <2>3. q.ids = Claimed
    OBVIOUS
  <2> HIDE DEF q
  <2> QED
    BY <1>1, <1>2, <1>4, <1>8, <2>1, <2>2, <2>3 DEF Clean, Requested
<1>10. Answers'
  BY <1>1, <1>2 DEF Clean, Answers
<1>11. \A i \in DOMAIN outbox :
         /\ status'[i] \in Unsynced <=> status[i] \in Unsynced
         /\ status'[i] \in Active => status[i] \in Active
         /\ status[i] \in Active /\ status'[i] \notin Active => status[i] = "in_flight"
         /\ status'[i] = "in_flight" => IsFirst(i)
  BY <1>4, <1>5, <1>6, <1>7 DEF Active, Unsynced
<1> QED
  BY <1>1, <1>2, <1>9, <1>10, <1>11, StatusStep

(* What was in flight waits again, or is stuck.                             *)
LEMMA UnflownK ==
  ASSUME IInv, IInv', KInv, UNCHANGED <<log, row, outbox, state, local, conflict, cursor, waived, exposed>>,
         NEW s \in {"pending", "dead_letter"}, status' = Marked(status, InFlight, s),
         requests' \subseteq requests, reply' = NoReply
  PROVE  KInv'
<1>1. SUFFICES ASSUME Clean PROVE Clean'
  BY DEF KInv
<1>2. \A i \in DOMAIN outbox : status'[i] = IF status[i] = "in_flight" THEN s ELSE status[i]
  <2>1. s \in Statuses /\ status \in [DOMAIN outbox -> Statuses]
    BY DEF Statuses, Unsynced, IInv, TypeOK
  <2>2. \A i \in DOMAIN outbox : status'[i] = IF i \in InFlight THEN s ELSE status[i]
    BY <2>1, MarkedIs
  <2> QED
    BY <2>2 DEF InFlight
<1>3. \A i \in DOMAIN outbox :
         /\ status'[i] \in Unsynced <=> status[i] \in Unsynced
         /\ status'[i] \in Active => status[i] \in Active
         /\ status[i] \in Active /\ status'[i] \notin Active => status[i] = "in_flight"
         /\ status'[i] = "in_flight" => IsFirst(i)
  BY <1>2 DEF Active, Unsynced
<1>4. Requested'
  <2>1. ServerGrown /\ Grown
    BY TypedNow DEF ServerGrown, Grown, Typed
  <2> QED
    BY <1>1, <2>1, RequestedKept DEF Clean
<1>5. Answers'
  BY DEF Answers, NoReply
<1> QED
  BY <1>1, <1>3, <1>4, <1>5, StatusStep

(* Fault and mark_dead_letter.                                              *)
LEMMA FaultK == ASSUME IInv, IInv', KInv, Fault PROVE KInv'
<1>1. /\ UNCHANGED <<log, row, outbox, state, local, conflict, cursor, waived, exposed>>
      /\ status' = Marked(status, InFlight, "pending")
      /\ requests' \subseteq requests /\ reply' = NoReply
  BY DEF Fault, requeued, server, ghost
<1> QED
  BY <1>1, UnflownK

(* A batch that is refused for good.                                        *)
LEMMA mark_dead_letterK == ASSUME IInv, IInv', KInv, mark_dead_letter PROVE KInv'
<1>1. /\ UNCHANGED <<log, row, requests, outbox, state, local, conflict, cursor, waived, exposed>>
      /\ status' = Marked(status, InFlight, "dead_letter") /\ reply' = NoReply
  BY DEF mark_dead_letter, server, ghost
<1> QED
  BY <1>1, UnflownK

-----------------------------------------------------------------------------
(* The row and its queue                                                    *)

(* The latest unsynced change of an entity is its row, which has all of them.*)
UnsyncedOf(e) == {i \in DOMAIN outbox : outbox[i].entity = e /\ status[i] \in Unsynced}

(* If it has one.                                                           *)
LEMMA AllInRow ==
  ASSUME IInv, NEW e \in Entities, DeviceOf(e), UnsyncedOf(e) # {}
  PROVE  LET S == UnsyncedOf(e) IN
         /\ Latest(S) \in S /\ local[e] = outbox[Latest(S)].content
         /\ \A i \in S : outbox[i].content \subseteq local[e]
<1> DEFINE S == UnsyncedOf(e)
           j == Latest(S)
<1>1. Len(outbox) \in Nat /\ DOMAIN outbox = 1 .. Len(outbox) /\ S \in SUBSET (1 .. Len(outbox)) /\ S # {}
  BY Types DEF UnsyncedOf
<1>0. \A i \in S : i \in DOMAIN outbox /\ outbox[i].entity = e /\ status[i] \in Unsynced /\ i \in Nat
  BY <1>1 DEF UnsyncedOf
<1>9. \A i \in DOMAIN outbox : outbox[i].entity = e /\ status[i] \in Unsynced => i \in S
  BY DEF UnsyncedOf
<1> HIDE DEF S
<1>2. j \in S /\ \A i \in S : i <= j
  BY <1>1, LatestOf
<1> HIDE DEF j
<1>3. j \in DOMAIN outbox /\ outbox[j].entity = e /\ status[j] \in Unsynced /\ j \in Nat
  BY <1>0, <1>2
<1>4. IsLast(j)
  <2>1. \A i \in DOMAIN outbox : Before(j, i) => ~(i <= j) /\ outbox[i].entity = e
    BY <1>1, <1>3 DEF Before
  <2> QED
    BY <1>2, <1>9, <2>1 DEF IsLast
<1>5. local[e] = outbox[j].content
  BY <1>3, <1>4 DEF DeviceOf, RowIsLast
<1>6. ASSUME NEW i \in S PROVE outbox[i].content \subseteq local[e]
  <2>1. i \in DOMAIN outbox /\ outbox[i].entity = e /\ status[i] \in Unsynced /\ i \in Nat /\ i <= j
    BY <1>0, <1>2
  <2>2. i = j \/ Before(i, j)
    BY <1>3, <2>1 DEF Before
  <2> QED
    BY <1>3, <1>5, <2>1, <2>2 DEF DeviceOf, Chained
<1> QED
  BY <1>2, <1>5, <1>6 DEF j, S

(* What a device knows is in the row, unless a conflict holds it.           *)
LEMMA BaseCovered ==
  ASSUME IInv, NEW e \in Entities, Known(e), conflict[e].phase # "ready"
  PROVE  state[e].base \subseteq local[e] \cup waived
<1>1. state[e].rev \in Nat
  BY Types
<1>2. CASE state[e].rev = 0
  BY <1>2 DEF Known
<1>3. CASE state[e].rev > 0
  <2>1. PICK n \in DOMAIN log : log[n].entity = e /\ log[n].rev = state[e].rev /\ log[n].content = state[e].base
    BY <1>3 DEF IInv, StateMatchesLog
  <2> QED
    BY <1>1, <2>1 DEF Known, Covers
<1> QED
  BY <1>1, <1>2, <1>3

(* enqueue_projection adds one row k, the last.                             *)
RowAdded(k, st, base, e, content) ==
  /\ DOMAIN outbox' = DOMAIN outbox \cup {k} /\ k \notin DOMAIN outbox
  /\ k \in Nat /\ \A i \in DOMAIN outbox : i < k /\ i \in Nat
  /\ Grown /\ \A i \in DOMAIN outbox : status'[i] = st[i]
  /\ outbox'[k].entity = e /\ outbox'[k].content = content /\ outbox'[k].base = base
  /\ status'[k] = "pending"

(* It does, whatever the status of the others then.                         *)
LEMMA NewRow ==
  ASSUME IInv, NEW st \in [DOMAIN outbox -> Statuses], NEW e, NEW known, NEW content, NEW ed,
         enqueue_projection(st, known, e, content, ed)
  PROVE  RowAdded(Len(outbox) + 1, st, planned_base_revision(st, known, e), e, content)
<1> DEFINE new == [entity |-> e, content |-> content, edit |-> ed,
                   base |-> planned_base_revision(st, known, e)]
           Elem == [entity : Entities, content : SUBSET Edits, edit : Nat, base : Nat]
           k == Len(outbox) + 1
<1>1. outbox' = Append(outbox, new) /\ status' = Append(st, "pending")
  BY DEF enqueue_projection
<1>2. Len(outbox) \in Nat /\ DOMAIN outbox = 1 .. Len(outbox) /\ outbox \in Seq(Elem)
  BY Types DEF IInv, TypeOK
<1>3. /\ new.entity = e /\ new.content = content /\ new.base = planned_base_revision(st, known, e)
  OBVIOUS
<1> HIDE DEF new
<1>4. outbox \in Seq(Elem \cup {new}) /\ new \in Elem \cup {new}
  <2> HIDE DEF Elem
  <2> QED
    BY <1>2
<1>5. /\ DOMAIN outbox' = 1 .. k /\ \A i \in 1 .. Len(outbox) : outbox'[i] = outbox[i]
      /\ outbox'[k] = new
  <2> HIDE DEF Elem
  <2> QED
    BY <1>1, <1>2, <1>4, AppendProperties
<1>6. st \in Seq(Statuses) /\ Len(st) = Len(outbox) /\ "pending" \in Statuses
  <2>1. "pending" \in Statuses
    BY DEF Statuses, Unsynced
  <2>2. st \in Seq(Statuses) /\ Len(st) = Len(outbox)
    <3> HIDE DEF Elem, k
    <3> QED
      BY <1>2, SeqDef
  <2> QED
    BY <2>1, <2>2
<1>7. (\A i \in 1 .. Len(outbox) : status'[i] = st[i]) /\ status'[k] = "pending"
  BY <1>1, <1>2, <1>6, AppendProperties
<1>8. DOMAIN outbox' = DOMAIN outbox \cup {k} /\ k \notin DOMAIN outbox
  BY <1>2, <1>5
<1>9. k \in Nat /\ \A i \in DOMAIN outbox : i < k /\ i \in Nat
  BY <1>2
<1>10. Grown
  BY <1>2, <1>5, <1>8 DEF Grown
<1> QED
  BY <1>2, <1>3, <1>5, <1>7, <1>8, <1>9, <1>10 DEF RowAdded

(* One new change in place of all, on what the device knows.                *)
LEMMA EnqueuedAlone ==
  ASSUME NEW e \in Entities, NEW k, k \notin DOMAIN outbox, DOMAIN outbox' = DOMAIN outbox \cup {k},
         Grown, k \in Nat, outbox'[k].entity = e, status'[k] = "pending",
         \A i \in DOMAIN outbox : outbox[i].entity = e => status'[i] = "synced",
         outbox'[k].base = state'[e].rev, outbox'[k].content = local'[e], conflict'[e].phase = "none",
         Covers(log', waived', e, state'[e].rev, local'[e]),
         state'[e].rev <= row'[e].rev, state'[e].rev = 0 => state'[e].base = {}
  PROVE  DeviceOf(e)'
<1>1. /\ "synced" \notin Unsynced /\ "synced" \notin Active /\ "pending" \in Unsynced
      /\ "synced" # "in_flight" /\ "pending" # "in_flight"
  BY DEF Unsynced, Active
<1>2. \A i \in DOMAIN outbox' : outbox'[i].entity = e => i = k \/ status'[i] = "synced"
  BY DEF Grown
<1>3. \A i, j \in DOMAIN outbox' : Before(i, j)' => ~(i = k /\ j = k) /\ outbox'[i].entity = outbox'[j].entity
  BY DEF Before
<1>4. Chained(e)'
  <2>1. SUFFICES ASSUME NEW i \in DOMAIN outbox', NEW j \in DOMAIN outbox', outbox'[i].entity = e, Before(i, j)'
                 PROVE  /\ ~(status'[i] \in Unsynced /\ status'[j] \in Unsynced)
                        /\ status'[j] # "in_flight"
                        /\ ~(status'[i] \in Active /\ status'[j] \in Active)
    BY DEF Chained
  <2>2. outbox'[j].entity = e /\ ~(i = k /\ j = k)
    BY <1>3, <2>1
  <2> QED
    BY <1>1, <1>2, <2>1, <2>2
<1>5. FirstBuilt(e)'
  <2>1. Built(k)'
    BY DEF Built, BuiltOn
  <2> QED
    BY <1>1, <1>2, <2>1 DEF FirstBuilt
<1>6. RowIsLast(e)'
  BY <1>1, <1>2 DEF RowIsLast
<1>7. Known(e)'
  BY DEF Known
<1> QED
  BY <1>4, <1>5, <1>6, <1>7 DEF DeviceOf

(* Nothing left to publish: the row is what the device knows.               *)
LEMMA NothingQueued ==
  ASSUME NEW e \in Entities,
         \A i \in DOMAIN outbox' : outbox'[i].entity = e => status'[i] = "synced",
         local'[e] = state'[e].base, conflict'[e].phase = "none",
         Covers(log', waived', e, state'[e].rev, local'[e]),
         state'[e].rev = 0 => state'[e].base = {}
  PROVE  DeviceOf(e)'
<1>1. "synced" \notin Unsynced /\ "synced" \notin Active /\ "synced" # "in_flight"
  BY DEF Unsynced, Active
<1>2. \A i, j \in DOMAIN outbox' : Before(i, j)' => outbox'[i].entity = outbox'[j].entity
  BY DEF Before
<1>3. Chained(e)'
  BY <1>1, <1>2 DEF Chained
<1>4. FirstBuilt(e)'
  BY <1>1 DEF FirstBuilt
<1>5. RowIsLast(e)'
  BY <1>1 DEF RowIsLast
<1>6. Known(e)'
  BY DEF Known
<1> QED
  BY <1>3, <1>4, <1>5, <1>6 DEF DeviceOf

(* A step that concerns one entity.                                         *)
LEMMA OneEntity ==
  ASSUME IInv, IInv', Clean, UNCHANGED <<log, row>>, waived \subseteq waived', requests' \subseteq requests,
         reply' = reply \/ reply' = NoReply, CursorCovers', Grown,
         NEW e \in Entities, DeviceOf(e)',
         \A f \in Entities : f # e => state'[f] = state[f] /\ local'[f] = local[f] /\ conflict'[f] = conflict[f],
         \A i \in DOMAIN outbox : outbox[i].entity # e => status'[i] = status[i],
         \A i \in DOMAIN outbox' : i \notin DOMAIN outbox => outbox'[i].entity = e
  PROVE  Clean'
<1>1. ServerGrown /\ Lasting(log', row', waived')
  BY TypedNow, LastingMore DEF ServerGrown, Clean, Typed
<1>2. ASSUME NEW f \in Entities PROVE DeviceOf(f)'
  <2>1. CASE f = e
    BY <2>1
  <2>2. CASE f # e
    BY <1>1, <2>2, DeviceKept DEF Clean
  <2> QED
    BY <2>1, <2>2
<1>3. Requested' /\ Answers'
  BY <1>1, RequestedKept, AnswersKept DEF Clean
<1> QED
  BY <1>1, <1>2, <1>3 DEF Clean

-----------------------------------------------------------------------------
(* The user                                                                 *)

(* The pages pulled so far are known still.                                 *)
LEMMA PagesKept ==
  ASSUME IInv, IInv', Clean, UNCHANGED <<log, cursor>>,
         \A e \in Entities : state'[e].rev >= state[e].rev
  PROVE  CursorCovers'
<1>1. \A n \in DOMAIN log :
        /\ log[n].entity \in Entities /\ log[n].rev \in Nat
        /\ state[log[n].entity].rev \in Nat /\ state'[log[n].entity].rev \in Nat
  BY TypedNow, TypedNext DEF Typed
<1> QED
  BY <1>1 DEF Clean, CursorCovers

(* edit: the change takes account of the row, and with it of all that is    *)
(* queued; if nothing is, of what the device knows.                         *)
LEMMA editOf ==
  ASSUME IInv, IInv', Clean, NEW e \in Entities, NEW k, k = Len(outbox) + 1, NEW content,
         local[e] \subseteq content, local'[e] = content, NEW ed,
         enqueue_projection(status, state[e].rev, e, content, ed),
         UNCHANGED <<log, row, state, conflict, waived>>
  PROVE  DeviceOf(e)'
<1> DEFINE queued == RowsIn(status, e, {"pending", "in_flight"})
<1>1. /\ DOMAIN outbox' = DOMAIN outbox \cup {k} /\ k \notin DOMAIN outbox
      /\ k \in Nat /\ \A i \in DOMAIN outbox : i < k /\ i \in Nat
      /\ Grown /\ \A i \in DOMAIN outbox : status'[i] = status[i]
      /\ outbox'[k].entity = e /\ outbox'[k].content = content
      /\ outbox'[k].base = planned_base_revision(status, state[e].rev, e)
      /\ status'[k] = "pending"
  <2>1. status \in [DOMAIN outbox -> Statuses]
    BY DEF IInv, TypeOK
  <2>2. RowAdded(k, status, planned_base_revision(status, state[e].rev, e), e, content)
    BY <2>1, NewRow
  <2> QED
    BY <2>2 DEF RowAdded
<1>2. outbox'[k].base = IF queued = {} THEN state[e].rev ELSE outbox[Latest(queued)].base + 1
  BY <1>1 DEF planned_base_revision
<1>3. queued = {i \in DOMAIN outbox : outbox[i].entity = e /\ status[i] \in Active}
  BY DEF RowsIn, Rows, Active
<1>4. DeviceOf(e) /\ Lasting(log, row, waived)
  BY DEF Clean
<1>5. \A i \in DOMAIN outbox : outbox[i].entity = e /\ status[i] \in Unsynced => outbox[i].content \subseteq content
  <2>1. \A i \in UnsyncedOf(e) : outbox[i].content \subseteq local[e]
    BY <1>4, AllInRow
  <2> QED
    BY <2>1 DEF UnsyncedOf
<1> HIDE DEF queued
<1>6. \A i \in DOMAIN outbox : outbox'[i] = outbox[i]
  BY <1>1 DEF Grown
<1>7. \A i, j \in DOMAIN outbox : Before(i, j)' <=> Before(i, j)
  BY <1>6 DEF Before
<1>8. ASSUME NEW i \in DOMAIN outbox, outbox[i].entity = e
      PROVE  Before(i, k)' /\ ~Before(k, i)'
  BY <1>1, <1>6, <1>8 DEF Before
<1>9. "pending" \in Unsynced /\ "pending" \in Active /\ "pending" # "in_flight"
  BY DEF Unsynced, Active
<1>10. Chained(e)'
  <2>1. SUFFICES ASSUME NEW i \in DOMAIN outbox', NEW j \in DOMAIN outbox', outbox'[i].entity = e, Before(i, j)'
                 PROVE  /\ status'[i] \in Unsynced /\ status'[j] \in Unsynced => outbox'[i].content \subseteq outbox'[j].content
                        /\ status'[j] = "in_flight" => status'[i] \notin Unsynced
                        /\ status'[i] \in Active /\ status'[j] \in Active /\ IsNext(i, j)' => outbox'[j].base = outbox'[i].base + 1
    BY DEF Chained
  <2>2. i \in DOMAIN outbox
    <3>1. ASSUME i = k PROVE FALSE
      <4>1. i < j /\ j \in Nat /\ (j = k \/ j < k)
        BY <1>1, <2>1 DEF Before
      <4> QED
        BY <1>1, <3>1, <4>1
    <3> QED
      BY <1>1, <3>1
  <2>3. outbox'[i] = outbox[i] /\ status'[i] = status[i] /\ outbox[i].entity = e
    BY <1>1, <1>6, <2>1, <2>2
  <2>4. CASE j = k
    <3>1. status[i] \in Unsynced => outbox'[i].content \subseteq outbox'[j].content
      BY <1>1, <1>5, <2>2, <2>3, <2>4
    <3>2. ASSUME status[i] \in Active, IsNext(i, k)' PROVE outbox'[k].base = outbox[i].base + 1
      <4>1. i \in queued /\ queued # {}
        BY <1>3, <2>2, <2>3, <3>2
      <4>2. Latest(queued) \in queued /\ \A l \in queued : l <= Latest(queued)
        <5>1. Len(outbox) \in Nat /\ queued \in SUBSET (1 .. Len(outbox))
          BY <1>3, Types
        <5> QED
          BY <4>1, <5>1, LatestOf
      <4> PICK l \in queued : l = Latest(queued)
        BY <4>2
      <4>3. l \in DOMAIN outbox /\ outbox[l].entity = e /\ status[l] \in Active /\ i <= l /\ l \in Nat /\ i \in Nat
        BY <1>1, <1>3, <2>2, <4>1, <4>2
      <4>4. l = i
        <5>1. SUFFICES ASSUME l # i PROVE FALSE
          OBVIOUS
        <5>2. i < l /\ l < k
          BY <1>1, <2>2, <4>3, <5>1
        <5>3. Before(i, l)'
          <6>1. Before(i, l)
            BY <2>3, <4>3, <5>2 DEF Before
          <6> QED
            BY <1>7, <2>2, <4>3, <6>1
        <5>4. status'[l] \notin Active
          <6>1. l \in DOMAIN outbox' /\ \A m \in DOMAIN outbox' : Before(i, m)' /\ m < k => status'[m] \notin Active
            BY <1>1, <3>2, <4>3 DEF IsNext
          <6> QED
            BY <5>2, <5>3, <6>1
        <5> QED
          BY <1>1, <4>3, <5>4
      <4> QED
        BY <1>2, <4>1, <4>4
    <3> QED
      BY <1>1, <1>9, <2>3, <2>4, <3>1, <3>2
  <2>5. CASE j \in DOMAIN outbox
    <3>1. outbox'[j] = outbox[j] /\ status'[j] = status[j] /\ Before(i, j)
      BY <1>1, <1>6, <1>7, <2>1, <2>2, <2>5
    <3>2. IsNext(i, j)' => IsNext(i, j)
      BY <1>1, <1>7, <2>2, <3>1 DEF IsNext
    <3> QED
      BY <1>4, <2>2, <2>3, <2>5, <3>1, <3>2 DEF DeviceOf, Chained
  <2> QED
    BY <1>1, <2>1, <2>4, <2>5
<1>11. FirstBuilt(e)'
  <2>1. SUFFICES ASSUME NEW i \in DOMAIN outbox', outbox'[i].entity = e, status'[i] \in Active, IsFirst(i)'
                 PROVE  Built(i)'
    BY DEF FirstBuilt
  <2>2. CASE i \in DOMAIN outbox
    <3>1. outbox'[i] = outbox[i] /\ status'[i] = status[i]
      BY <1>1, <1>6, <2>2
    <3>2. IsFirst(i)
      BY <1>1, <1>7, <2>1, <2>2 DEF IsFirst
    <3>3. Built(i)
      BY <1>4, <2>1, <2>2, <3>1, <3>2 DEF DeviceOf, FirstBuilt
    <3> QED
      BY <3>1, <3>3 DEF Built
  <2>3. CASE i = k
    <3>1. \A j \in DOMAIN outbox : outbox[j].entity = e => status[j] \notin Unsynced
      BY <1>1, <1>8, <2>1, <2>3 DEF IsFirst
    <3>2. conflict[e].phase = "none"
      BY <3>1 DEF IInv, VisibleFor, Stuck, Unsynced
    <3>3. queued = {}
      BY <1>3, <3>1 DEF Active, Unsynced
    <3>4. Covers(log, waived, e, state[e].rev, local[e])
      BY <1>4, <3>2 DEF DeviceOf, Known
    <3>5. Covers(log, waived, e, state[e].rev, content)
      BY <3>4, CoversMore
    <3>6. state[e].rev <= row[e].rev
      BY <1>4, StateBehind
    <3> QED
      BY <1>1, <1>2, <2>3, <3>3, <3>5, <3>6 DEF Built, BuiltOn
  <2> QED
    BY <1>1, <2>2, <2>3
<1>12. RowIsLast(e)'
  <2>1. ASSUME NEW i \in DOMAIN outbox', outbox'[i].entity = e, status'[i] \in Unsynced, IsLast(i)'
        PROVE  local'[e] = outbox'[i].content
    <3>1. i = k
      <4>1. SUFFICES ASSUME i \in DOMAIN outbox PROVE FALSE
        BY <1>1
      <4> QED
        BY <1>1, <1>6, <1>8, <1>9, <2>1, <4>1 DEF IsLast
    <3> QED
      BY <1>1, <3>1
  <2>2. k \in DOMAIN outbox' /\ outbox'[k].entity = e /\ status'[k] \in Unsynced
    BY <1>1, <1>9
  <2> QED
    BY <2>1, <2>2 DEF RowIsLast
<1>13. Known(e)'
  <2>1. Known(e)
    BY <1>4 DEF DeviceOf
  <2>2. conflict[e].phase # "ready" => Covers(log, waived, e, state[e].rev, content)
    BY <2>1, CoversMore DEF Known
  <2>3. conflict[e].phase # "none" => conflict[e].base \subseteq content \cup waived
    BY <2>1 DEF Known
  <2> QED
    BY <2>1, <2>2, <2>3 DEF Known
<1> QED
  BY <1>10, <1>11, <1>12, <1>13 DEF DeviceOf

(* The step of the user.                                                    *)
LEMMA editK == ASSUME IInv, IInv', KInv, NEW e \in Entities, edit(e) PROVE KInv'
<1> DEFINE content == local[e] \cup {NewEdit}
           k == Len(outbox) + 1
<1>1. /\ UNCHANGED <<log, row, requests, state, conflict, cursor, reply, waived, exposed>>
      /\ local' = [local EXCEPT ![e] = content]
      /\ enqueue_projection(status, state[e].rev, e, content, NewEdit)
  BY DEF edit, server, run
<1>2. SUFFICES ASSUME Clean PROVE Clean'
  BY <1>1 DEF KInv
<1>3. /\ Grown /\ \A i \in DOMAIN outbox : status'[i] = status[i]
      /\ DOMAIN outbox' = DOMAIN outbox \cup {k} /\ outbox'[k].entity = e
  <2>1. status \in [DOMAIN outbox -> Statuses]
    BY DEF IInv, TypeOK
  <2>2. RowAdded(k, status, planned_base_revision(status, state[e].rev, e), e, content)
    BY <1>1, <2>1, NewRow
  <2> HIDE DEF content, k
  <2> QED
    BY <2>2 DEF RowAdded
<1>4. local'[e] = content /\ \A f \in Entities : f # e => local'[f] = local[f]
  BY <1>1 DEF IInv, TypeOK
<1>5. k = Len(outbox) + 1 /\ local[e] \subseteq content
  OBVIOUS
<1> HIDE DEF content, k
<1>6. DeviceOf(e)'
  BY <1>1, <1>2, <1>4, <1>5, editOf
<1>7. CursorCovers'
  <2>1. \A f \in Entities : state'[f].rev >= state[f].rev
    BY <1>1, Types
  <2> QED
    BY <1>1, <1>2, <2>1, PagesKept
<1> QED
  BY <1>1, <1>2, <1>3, <1>4, <1>6, <1>7, OneEntity

(* keep_local: the side that is kept covers what the device knows, but for  *)
(* what is decided against.                                                 *)
LEMMA keep_localK == ASSUME IInv, IInv', KInv, NEW e \in Entities, keep_local(e) PROVE KInv'
<1> DEFINE cleared == Marked(status, RowsIn(status, e, Unsynced), "synced")
           chosen == conflict[e].local
           k == Len(outbox) + 1
<1>1. /\ UNCHANGED <<log, row, requests, state, cursor, reply, exposed>>
      /\ conflict[e].phase = "ready" /\ conflict' = [conflict EXCEPT ![e] = NoConflict]
      /\ local' = [local EXCEPT ![e] = chosen]
      /\ waived' = waived \cup (conflict[e].remote \ chosen)
      /\ enqueue_projection(cleared, state[e].rev, e, chosen, 0)
  BY DEF keep_local, Superseded, server, run
<1>2. SUFFICES ASSUME Clean PROVE Clean'
  BY <1>1 DEF KInv
<1>3. /\ cleared \in [DOMAIN outbox -> Statuses]
      /\ \A i \in DOMAIN outbox : cleared[i] = IF outbox[i].entity = e THEN "synced" ELSE status[i]
  <2>1. status \in [DOMAIN outbox -> Statuses] /\ QueuedIn(status) /\ AheadOf(status, state)
    BY DEF IInv, TypeOK
  <2> QED
    BY <2>1, GiveWay
<1>4. RowsIn(cleared, e, {"pending", "in_flight"}) = {}
  <2> HIDE DEF cleared
  <2> QED
    BY <1>3 DEF RowsIn, Rows
<1>5. k = Len(outbox) + 1
  OBVIOUS
<1> HIDE DEF cleared, k
<1>6. /\ DOMAIN outbox' = DOMAIN outbox \cup {k} /\ k \notin DOMAIN outbox /\ k \in Nat
      /\ Grown /\ \A i \in DOMAIN outbox : status'[i] = cleared[i]
      /\ outbox'[k].entity = e /\ outbox'[k].content = chosen
      /\ outbox'[k].base = planned_base_revision(cleared, state[e].rev, e)
      /\ status'[k] = "pending"
  <2>1. RowAdded(k, cleared, planned_base_revision(cleared, state[e].rev, e), e, chosen)
    BY <1>1, <1>3, <1>5, NewRow
  <2> QED
    BY <2>1 DEF RowAdded
<1>7. /\ local'[e] = chosen /\ conflict'[e] = NoConflict /\ NoConflict.phase = "none"
      /\ \A f \in Entities : f # e => local'[f] = local[f] /\ conflict'[f] = conflict[f]
  BY <1>1 DEF IInv, TypeOK, NoConflict
<1>8. outbox'[k].base = state'[e].rev
  BY <1>1, <1>4, <1>6 DEF planned_base_revision
<1>9. Known(e) /\ Lasting(log, row, waived)
  BY <1>2 DEF Clean, DeviceOf
<1>10. state[e].rev <= row[e].rev /\ Covers(log, waived, e, state[e].rev, state[e].base)
  BY <1>9, StateBehind
<1>11. Covers(log, waived', e, state[e].rev, chosen)
  <2>1. state[e].base \subseteq chosen \cup waived' /\ waived \subseteq waived'
    BY <1>1, <1>9 DEF Known
  <2> QED
    BY <1>10, <2>1, CoversMore
<1>12. DeviceOf(e)'
  <2>1. \A i \in DOMAIN outbox : outbox[i].entity = e => status'[i] = "synced"
    BY <1>3, <1>6
  <2>2. state'[e].rev = 0 => state'[e].base = {}
    BY <1>1, <1>9 DEF Known
  <2>3. Covers(log', waived', e, state'[e].rev, local'[e]) /\ state'[e].rev <= row'[e].rev
    BY <1>1, <1>7, <1>10, <1>11
  <2>4. conflict'[e].phase = "none" /\ outbox'[k].content = local'[e]
    BY <1>6, <1>7
  <2> HIDE DEF chosen
  <2> QED
    BY <1>6, <1>8, <2>1, <2>2, <2>3, <2>4, EnqueuedAlone
<1>13. CursorCovers'
  <2>1. \A f \in Entities : state'[f].rev >= state[f].rev
    BY <1>1, Types
  <2> QED
    BY <1>1, <1>2, <2>1, PagesKept
<1>14. waived \subseteq waived' /\ \A i \in DOMAIN outbox : outbox[i].entity # e => status'[i] = status[i]
  BY <1>1, <1>3, <1>6
<1> QED
  BY <1>1, <1>2, <1>6, <1>7, <1>12, <1>13, <1>14, OneEntity

(* keep_remote: the row is what the device knows.                           *)
LEMMA keep_remoteK == ASSUME IInv, IInv', KInv, NEW e \in Entities, keep_remote(e) PROVE KInv'
<1> DEFINE cleared == Marked(status, RowsIn(status, e, Unsynced), "synced")
<1>1. /\ UNCHANGED <<log, row, requests, outbox, state, cursor, reply, exposed>>
      /\ conflict[e].phase = "ready" /\ conflict' = [conflict EXCEPT ![e] = NoConflict]
      /\ local' = [local EXCEPT ![e] = conflict[e].remote]
      /\ waived' = waived \cup (conflict[e].local \ conflict[e].remote)
      /\ status' = cleared
  BY DEF keep_remote, Superseded, server, run
<1>2. SUFFICES ASSUME Clean PROVE Clean'
  BY <1>1 DEF KInv
<1>3. \A i \in DOMAIN outbox : status'[i] = IF outbox[i].entity = e THEN "synced" ELSE status[i]
  <2>1. status \in [DOMAIN outbox -> Statuses] /\ QueuedIn(status) /\ AheadOf(status, state)
    BY DEF IInv, TypeOK
  <2> QED
    BY <1>1, <2>1, GiveWay
<1> HIDE DEF cleared
<1>4. /\ local'[e] = conflict[e].remote /\ conflict'[e] = NoConflict /\ NoConflict.phase = "none"
      /\ \A f \in Entities : f # e => local'[f] = local[f] /\ conflict'[f] = conflict[f]
  BY <1>1 DEF IInv, TypeOK, NoConflict
<1>5. Known(e) /\ Lasting(log, row, waived)
  BY <1>2 DEF Clean, DeviceOf
<1>6. local'[e] = state'[e].base /\ (state'[e].rev = 0 => state'[e].base = {})
  BY <1>1, <1>4, <1>5 DEF Known
<1>7. Covers(log', waived', e, state'[e].rev, local'[e])
  <2>1. Covers(log, waived, e, state[e].rev, state[e].base) /\ waived \subseteq waived'
    BY <1>1, <1>5, StateBehind
  <2>2. Covers(log, waived', e, state[e].rev, state[e].base)
    BY <2>1, CoversMore
  <2> QED
    BY <1>1, <1>6, <2>2
<1>8. DeviceOf(e)'
  BY <1>1, <1>3, <1>4, <1>6, <1>7, NothingQueued
<1>9. CursorCovers'
  <2>1. \A f \in Entities : state'[f].rev >= state[f].rev
    BY <1>1, Types
  <2> QED
    BY <1>1, <1>2, <2>1, PagesKept
<1>10. Grown /\ waived \subseteq waived' /\ \A i \in DOMAIN outbox : outbox[i].entity # e => status'[i] = status[i]
  BY <1>1, <1>3 DEF Grown
<1> QED
  BY <1>1, <1>2, <1>4, <1>8, <1>9, <1>10, OneEntity

-----------------------------------------------------------------------------
(* The answer to a push                                                     *)

(* The change of an entity that is in flight is the only one, and the first *)
(* of its queue.                                                            *)
LEMMA FlightIs ==
  ASSUME IInv, NEW e \in Entities, DeviceOf(e), NEW i \in DOMAIN outbox, outbox[i].entity = e, status[i] = "in_flight"
  PROVE  /\ IsFirst(i) /\ conflict[e].phase = "none"
         /\ \A j \in DOMAIN outbox : outbox[j].entity = e /\ j # i /\ status[j] \in Unsynced =>
              Before(i, j) /\ status[j] # "in_flight"
<1>1. status[i] \in Unsynced
  BY DEF Unsynced
<1>2. ASSUME NEW j \in DOMAIN outbox, outbox[j].entity = e, status[j] \in Unsynced
      PROVE  ~Before(j, i) /\ (Before(i, j) => status[j] # "in_flight")
  BY <1>1, <1>2 DEF DeviceOf, Chained
<1>3. IsFirst(i)
  BY <1>2 DEF IsFirst, Before
<1>4. conflict[e].phase = "none"
  BY ConflictRests
<1>5. ASSUME NEW j \in DOMAIN outbox, outbox[j].entity = e, j # i, status[j] \in Unsynced
      PROVE  Before(i, j) /\ status[j] # "in_flight"
  <2>1. i \in Nat /\ j \in Nat
    BY Types
  <2>2. Before(i, j) \/ Before(j, i)
    BY <1>5, <2>1 DEF Before
  <2> QED
    BY <1>2, <1>5, <2>2
<1> QED
  BY <1>3, <1>4, <1>5

(* The first change is accepted: what the device knows then is that change, *)
(* and the next one is built on it.                                         *)
LEMMA AcceptedK ==
  ASSUME IInv, Lasting(log, row, waived), NEW e \in Entities, DeviceOf(e),
         UNCHANGED <<log, row, outbox, local, waived>>, conflict'[e] = conflict[e],
         NEW i \in DOMAIN outbox, outbox[i].entity = e, status[i] = "in_flight", status'[i] = "synced",
         \A j \in DOMAIN outbox : outbox[j].entity = e /\ j # i => status'[j] = status[j],
         state'[e].rev = outbox[i].base + 1, state'[e].base = outbox[i].content,
         \E n \in DOMAIN log :
           log[n].entity = e /\ log[n].rev = outbox[i].base + 1 /\ log[n].content = outbox[i].content
  PROVE  DeviceOf(e)'
<1> DEFINE c == outbox[i]
<1>1. /\ IsFirst(i) /\ conflict[e].phase = "none"
      /\ \A j \in DOMAIN outbox : outbox[j].entity = e /\ j # i /\ status[j] \in Unsynced =>
           Before(i, j) /\ status[j] # "in_flight"
  BY FlightIs
<1>2. /\ "in_flight" \in Unsynced /\ "in_flight" \in Active /\ "synced" \notin Unsynced /\ "synced" \notin Active
      /\ Active \subseteq Unsynced
  BY DEF Unsynced, Active
<1>3. \A j \in DOMAIN outbox : outbox[j].entity = e =>
        /\ status'[j] \in Unsynced <=> j # i /\ status[j] \in Unsynced
        /\ status'[j] \in Active <=> j # i /\ status[j] \in Active
        /\ status'[j] # "in_flight"
  BY <1>1, <1>2
<1>4. /\ \A j, k \in DOMAIN outbox : Before(j, k)' <=> Before(j, k)
      /\ \A j, k \in DOMAIN outbox : Before(j, k) => (outbox[j].entity = e <=> outbox[k].entity = e)
      /\ \A j \in DOMAIN outbox : ~Before(j, j)
  <2>1. \A j \in DOMAIN outbox : j \in Nat
    BY Types
  <2> QED
    BY <2>1 DEF Before
<1>5. Covers(log, waived, e, c.base + 1, c.content) /\ c.base + 1 <= row[e].rev
  BY DEF Lasting
<1>6. Chained(e) /\ RowIsLast(e)
  BY DEF DeviceOf
<1>7. Chained(e)'
  <2>1. SUFFICES ASSUME NEW j \in DOMAIN outbox, NEW k \in DOMAIN outbox, outbox[j].entity = e, Before(j, k)
                 PROVE  /\ status'[j] \in Unsynced /\ status'[k] \in Unsynced => outbox[j].content \subseteq outbox[k].content
                        /\ status'[k] = "in_flight" => status'[j] \notin Unsynced
                        /\ status'[j] \in Active /\ status'[k] \in Active /\ IsNext(j, k)' => outbox[k].base = outbox[j].base + 1
    BY <1>4 DEF Chained
  <2>2. outbox[k].entity = e
    BY <1>4, <2>1
  <2>3. ASSUME status'[j] \in Active, IsNext(j, k)' PROVE IsNext(j, k)
    <3>1. j # i /\ status[j] \in Unsynced
      BY <1>2, <1>3, <2>1, <2>3
    <3>2. ~Before(j, i)
      BY <1>1, <2>1, <3>1 DEF IsFirst
    <3>3. \A l \in DOMAIN outbox : Before(j, l) /\ l < k => status'[l] \notin Active
      BY <1>4, <2>3 DEF IsNext
    <3>4. \A l \in DOMAIN outbox : Before(j, l) /\ l < k => status[l] \notin Active
      BY <1>3, <1>4, <2>1, <3>2, <3>3
    <3> QED
      BY <2>1, <3>4 DEF IsNext
  <2> QED
    BY <1>3, <1>6, <2>1, <2>2, <2>3 DEF Chained
<1>8. FirstBuilt(e)'
  <2>1. SUFFICES ASSUME NEW j \in DOMAIN outbox, outbox[j].entity = e, status'[j] \in Active, IsFirst(j)'
                 PROVE  Built(j)
    BY DEF FirstBuilt, Built
  <2>2. j # i /\ status[j] \in Active /\ status[j] \in Unsynced /\ Before(i, j)
    BY <1>1, <1>2, <1>3, <2>1
  <2>3. IsNext(i, j)
    <3>1. \A l \in DOMAIN outbox : Before(l, j) => status'[l] \notin Unsynced
      BY <1>4, <2>1 DEF IsFirst
    <3>2. ASSUME NEW l \in DOMAIN outbox, Before(i, l), l < j PROVE status[l] \notin Active
      <4>1. Before(l, j) /\ outbox[l].entity = e /\ l # i
        BY <1>4, <2>1, <3>2 DEF Before
      <4> QED
        BY <1>2, <1>3, <3>1, <4>1
    <3> QED
      BY <2>2, <3>2 DEF IsNext
  <2>4. outbox[j].base = c.base + 1 /\ c.content \subseteq outbox[j].content
    BY <1>2, <1>6, <2>2, <2>3 DEF Chained
  <2>5. Covers(log, waived, e, outbox[j].base, outbox[j].content)
    BY <1>5, <2>4, CoversMore
  <2> QED
    BY <1>5, <2>1, <2>4, <2>5 DEF Built, BuiltOn
<1>9. RowIsLast(e)'
  <2>1. ASSUME \A j \in DOMAIN outbox : outbox[j].entity = e => status'[j] \notin Unsynced
        PROVE  local[e] = c.content
    <3>1. IsLast(i)
      BY <1>3, <1>4, <2>1 DEF IsLast
    <3> QED
      BY <1>2, <1>6, <3>1 DEF RowIsLast
  <2>2. ASSUME NEW j \in DOMAIN outbox, outbox[j].entity = e, status'[j] \in Unsynced, IsLast(j)'
        PROVE  local[e] = outbox[j].content
    <3>1. j # i /\ status[j] \in Unsynced
      BY <1>3, <2>2
    <3>2. ~Before(j, i)
      BY <1>1, <2>2, <3>1 DEF IsFirst
    <3>3. IsLast(j)
      <4>1. \A l \in DOMAIN outbox : Before(j, l) => status'[l] \notin Unsynced
        BY <1>4, <2>2 DEF IsLast
      <4> QED
        BY <1>3, <1>4, <2>2, <3>2, <4>1 DEF IsLast
    <3> QED
      BY <1>6, <2>2, <3>1, <3>3 DEF RowIsLast
  <2> QED
    BY <2>1, <2>2 DEF RowIsLast
<1>10. Known(e)'
  <2>1. c.content \subseteq local[e]
    <3>1. i \in UnsyncedOf(e)
      BY <1>2 DEF UnsyncedOf
    <3> QED
      BY <3>1, AllInRow
  <2>2. Covers(log, waived, e, c.base + 1, local[e])
    BY <1>5, <2>1, CoversMore
  <2>3. state'[e].rev # 0
    BY Types
  <2> QED
    BY <1>1, <2>2, <2>3 DEF Known
<1> QED
  BY <1>7, <1>8, <1>9, <1>10 DEF DeviceOf

(* It is refused: what the device knows is the base of the conflict, which  *)
(* waits for a later revision.                                              *)
LEMMA RefusedK ==
  ASSUME IInv, Lasting(log, row, waived), NEW e \in Entities, DeviceOf(e),
         UNCHANGED <<log, row, outbox, local, waived>>, state'[e] = state[e],
         NEW i \in DOMAIN outbox, outbox[i].entity = e, status[i] = "in_flight", status'[i] = "conflict",
         \A j \in DOMAIN outbox : outbox[j].entity = e /\ j # i => status'[j] = status[j],
         NEW rev \in Nat, outbox[i].base < rev,
         conflict'[e].phase = "waiting", conflict'[e].rev = rev, conflict'[e].base = state[e].base
  PROVE  DeviceOf(e)'
<1>1. /\ IsFirst(i) /\ conflict[e].phase = "none"
      /\ \A j \in DOMAIN outbox : outbox[j].entity = e /\ j # i /\ status[j] \in Unsynced =>
           Before(i, j) /\ status[j] # "in_flight"
  BY FlightIs
<1>2. /\ "in_flight" \in Unsynced /\ "in_flight" \in Active /\ "conflict" \in Unsynced /\ "conflict" \notin Active
  BY DEF Unsynced, Active
<1>3. \A j \in DOMAIN outbox : outbox[j].entity = e =>
        /\ status'[j] \in Unsynced <=> status[j] \in Unsynced
        /\ status'[j] \in Active => status[j] \in Active
        /\ status[j] \in Active /\ status'[j] \notin Active => status[j] = "in_flight"
        /\ status'[j] = "in_flight" => IsFirst(j)
  BY <1>1, <1>2
<1>4. Chained(e)' /\ FirstBuilt(e)' /\ RowIsLast(e)'
  BY <1>3, StatusOf
<1>5. Known(e)'
  <2>1. Known(e)
    BY DEF DeviceOf
  <2>2. state[e].base \subseteq local[e] \cup waived
    BY <1>1, <2>1, BaseCovered
  <2>3. state[e].rev < rev
    <3>1. state[e].rev <= outbox[i].base
      BY <1>2 DEF IInv, AheadOf
    <3>2. state[e].rev \in Nat /\ outbox[i].base \in Nat
      BY Types
    <3> QED
      BY <3>1, <3>2
  <2> QED
    BY <1>1, <2>1, <2>2, <2>3 DEF Known
<1> QED
  BY <1>4, <1>5 DEF DeviceOf

(* What the answer says of the change of an entity that is in flight.       *)
LEMMA AnswerOf ==
  ASSUME IInv, Clean, apply_push_result, NEW e \in Entities,
         NEW i \in DOMAIN outbox, outbox[i].entity = e, status[i] = "in_flight"
  PROVE  /\ \A j \in DOMAIN outbox : outbox[j].entity = e /\ j # i => status'[j] = status[j]
         /\ \/ /\ status'[i] = "conflict" /\ state'[e] = state[e]
               /\ conflict'[e].rev \in Nat /\ outbox[i].base < conflict'[e].rev
               /\ conflict'[e].phase = "waiting" /\ conflict'[e].base = state[e].base
            \/ /\ status'[i] = "synced" /\ conflict'[e] = conflict[e]
               /\ state'[e].rev = outbox[i].base + 1 /\ state'[e].base = outbox[i].content
               /\ \E n \in DOMAIN log :
                    log[n].entity = e /\ log[n].rev = outbox[i].base + 1 /\ log[n].content = outbox[i].content
<1>1. /\ reply.kind = "ok" /\ status' = StatusAfter
      /\ state'[e] = KnownOf(e)
      /\ conflict'[e] = IF RefusedOf(e) = {} THEN conflict[e]
                        ELSE localConflict(e, StatusAfter, KnownOf(e), LastRefused(e).rev)
      /\ Ids(reply.accepted) \cup Ids(reply.conflicts) = InFlight
      /\ reply.conflicts \subseteq Revs
      /\ \A j \in DOMAIN outbox : StatusAfter[j] = IF j \in Ids(reply.conflicts) THEN "conflict"
                                                   ELSE IF status[j] = "in_flight" THEN "synced" ELSE status[j]
  BY AnswerIs
<1>2. DeviceOf(e) /\ Answers
  BY DEF Clean
<1>3. /\ conflict[e].phase = "none"
      /\ \A j \in DOMAIN outbox : outbox[j].entity = e /\ j # i /\ status[j] \in Unsynced => status[j] # "in_flight"
  BY <1>2, FlightIs
<1>4. \A j \in DOMAIN outbox : outbox[j].entity = e /\ status[j] = "in_flight" => j = i
  BY <1>3 DEF Unsynced
<1>5. /\ \A a \in reply.accepted : a.id \in InFlight
      /\ \A c \in reply.conflicts : c.id \in InFlight /\ c.rev \in Nat
      /\ \A j \in InFlight : j \in DOMAIN outbox /\ status[j] = "in_flight"
  BY <1>1 DEF Ids, InFlight, Revs
<1>6. \A j \in DOMAIN outbox : outbox[j].entity = e /\ j # i => status'[j] = status[j]
  BY <1>1, <1>4, <1>5 DEF Ids
<1>7. /\ \A a \in AcceptedOf(e) : a \in reply.accepted /\ a.id = i
      /\ \A c \in RefusedOf(e) : c \in reply.conflicts /\ c.id = i /\ c.rev \in Nat
  BY <1>4, <1>5 DEF AcceptedOf, RefusedOf
<1>8. CASE i \in Ids(reply.conflicts)
  <2>1. PICK c \in reply.conflicts : c.id = i
    BY <1>8 DEF Ids
  <2>2. c \in RefusedOf(e) /\ RefusedOf(e) # {}
    BY <2>1 DEF RefusedOf
  <2>3. AcceptedOf(e) = {}
    BY <1>2, <1>7, <2>1 DEF Answers
  <2>4. LastRefused(e) \in RefusedOf(e)
    <3>1. \A d \in RefusedOf(e) : d.id \in DOMAIN outbox
      BY <1>7
    <3> QED
      BY <2>2, <3>1, LastById DEF LastRefused
  <2> DEFINE rev == LastRefused(e).rev
  <2>5. rev \in Nat /\ outbox[i].base < rev
    BY <1>2, <1>7, <2>4 DEF Answers
  <2>6. state'[e] = state[e] /\ conflict'[e] = localConflict(e, StatusAfter, state[e], rev)
    BY <1>1, <2>2, <2>3 DEF KnownOf
  <2> HIDE DEF rev
  <2>7. conflict'[e].phase = "waiting" /\ conflict'[e].rev = rev /\ conflict'[e].base = state[e].base
    BY <1>3, <2>6 DEF localConflict
  <2>8. status'[i] = "conflict"
    BY <1>1, <1>8
  <2> QED
    BY <1>6, <2>5, <2>6, <2>7, <2>8
<1>9. CASE i \notin Ids(reply.conflicts)
  <2>1. RefusedOf(e) = {}
    BY <1>7, <1>9 DEF Ids
  <2>2. i \in Ids(reply.accepted)
    BY <1>1, <1>9 DEF InFlight
  <2>3. AcceptedOf(e) # {}
    BY <2>2 DEF AcceptedOf, Ids
  <2> DEFINE a == LastOf(e)
  <2>4. /\ a \in reply.accepted /\ a.id \in InFlight /\ outbox[a.id].entity = e
        /\ a.rev = outbox[a.id].base + 1
        /\ acceptedState(a) = [rev |-> a.rev, base |-> outbox[a.id].content]
        /\ \E n \in DOMAIN log :
             log[n].entity = e /\ log[n].rev = a.rev /\ log[n].content = outbox[a.id].content
    BY <1>1, <2>3, AcceptedIs
  <2>5. state'[e] = acceptedState(a)
    BY <1>1, <2>3 DEF KnownOf
  <2> HIDE DEF a
  <2>6. a.id = i
    BY <1>4, <1>5, <2>4
  <2>7. state'[e].rev = outbox[i].base + 1 /\ state'[e].base = outbox[i].content
    BY <2>4, <2>5, <2>6
  <2>8. status'[i] = "synced" /\ conflict'[e] = conflict[e]
    BY <1>1, <1>9, <2>1
  <2> QED
    BY <1>6, <2>4, <2>6, <2>7, <2>8
<1> QED
  BY <1>8, <1>9

(* Of an entity of which nothing is in flight it says nothing.              *)
LEMMA AnswerNone ==
  ASSUME IInv, apply_push_result, NEW e \in Entities,
         \A i \in DOMAIN outbox : outbox[i].entity = e => status[i] # "in_flight"
  PROVE  /\ state'[e] = state[e] /\ conflict'[e] = conflict[e] /\ local'[e] = local[e]
         /\ \A i \in DOMAIN outbox : outbox[i].entity = e => status'[i] = status[i]
<1>1. /\ local' = local /\ status' = StatusAfter
      /\ state'[e] = KnownOf(e)
      /\ conflict'[e] = IF RefusedOf(e) = {} THEN conflict[e]
                        ELSE localConflict(e, StatusAfter, KnownOf(e), LastRefused(e).rev)
      /\ Ids(reply.accepted) \cup Ids(reply.conflicts) = InFlight
      /\ \A j \in DOMAIN outbox : StatusAfter[j] = IF j \in Ids(reply.conflicts) THEN "conflict"
                                                   ELSE IF status[j] = "in_flight" THEN "synced" ELSE status[j]
  BY AnswerIs
<1>2. \A i \in Ids(reply.accepted) \cup Ids(reply.conflicts) : i \in DOMAIN outbox /\ status[i] = "in_flight"
  BY <1>1 DEF InFlight
<1>3. AcceptedOf(e) = {} /\ RefusedOf(e) = {}
  BY <1>2 DEF AcceptedOf, RefusedOf, Ids
<1> QED
  BY <1>1, <1>2, <1>3 DEF KnownOf

(* apply_push_result: every entity of which a change was in flight is told  *)
(* the one or the other.                                                    *)
LEMMA apply_push_resultK == ASSUME IInv, IInv', KInv, apply_push_result PROVE KInv'
<1>1. /\ UNCHANGED <<log, row, requests, outbox, local, cursor, waived, exposed>>
      /\ reply' = NoReply
  BY AnswerIs
<1>2. SUFFICES ASSUME Clean PROVE Clean'
  BY <1>1 DEF KInv
<1>3. Grown /\ ServerGrown /\ Lasting(log', row', waived')
  BY <1>1, <1>2, TypedNow DEF Grown, ServerGrown, Clean, Typed
<1>4. ASSUME NEW e \in Entities PROVE DeviceOf(e)'
  <2>1. DeviceOf(e) /\ Lasting(log, row, waived) /\ Answers
    BY <1>2 DEF Clean
  <2>2. CASE \A i \in DOMAIN outbox : outbox[i].entity = e => status[i] # "in_flight"
    <3>1. /\ state'[e] = state[e] /\ conflict'[e] = conflict[e] /\ local'[e] = local[e]
          /\ \A i \in DOMAIN outbox : outbox[i].entity = e => status'[i] = status[i]
      BY <2>2, AnswerNone
    <3>2. \A i \in DOMAIN outbox' : i \notin DOMAIN outbox => outbox'[i].entity # e
      BY <1>1
    <3> QED
      BY <1>3, <2>1, <3>1, <3>2, DeviceKept
  <2>3. ASSUME NEW i \in DOMAIN outbox, outbox[i].entity = e, status[i] = "in_flight"
        PROVE  DeviceOf(e)'
    <3>1. \A j \in DOMAIN outbox : outbox[j].entity = e /\ j # i => status'[j] = status[j]
      BY <1>2, <2>3, AnswerOf
    <3>2. CASE /\ status'[i] = "conflict" /\ state'[e] = state[e]
               /\ conflict'[e].rev \in Nat /\ outbox[i].base < conflict'[e].rev
               /\ conflict'[e].phase = "waiting" /\ conflict'[e].base = state[e].base
      BY <1>1, <2>1, <2>3, <3>1, <3>2, RefusedK
    <3>3. CASE /\ status'[i] = "synced" /\ conflict'[e] = conflict[e]
               /\ state'[e].rev = outbox[i].base + 1 /\ state'[e].base = outbox[i].content
               /\ \E n \in DOMAIN log :
                    log[n].entity = e /\ log[n].rev = outbox[i].base + 1 /\ log[n].content = outbox[i].content
      BY <1>1, <2>1, <2>3, <3>1, <3>3, AcceptedK
    <3> QED
      BY <1>2, <2>3, <3>2, <3>3, AnswerOf
  <2> QED
    BY <2>2, <2>3
<1>5. CursorCovers'
  BY <1>1, <1>2, PagesKept, apply_push_resultIInv
<1>6. Requested' /\ Answers'
  BY <1>1, <1>2, <1>3, RequestedKept, AnswersKept DEF Clean
<1> QED
  BY <1>3, <1>4, <1>5, <1>6 DEF Clean

-----------------------------------------------------------------------------
(* The pull                                                                 *)

(* The conflict that a new revision makes has the row on one side, the new  *)
(* revision on the other, and a base that is in the row.                    *)
Sides(e, st, g) ==
  [localConflict(e, st, state[e], g.rev) EXCEPT !.phase = "ready", !.remote = g.content]

(* As the user or a merge finds it.                                         *)
LEMMA SidesOf ==
  ASSUME IInv, NEW e \in Entities, DeviceOf(e), NEW st \in [DOMAIN outbox -> Statuses],
         \A i \in DOMAIN outbox : st[i] \in Unsynced <=> status[i] \in Unsynced,
         NEW i0 \in DOMAIN outbox, outbox[i0].entity = e, status[i0] \in Unsynced,
         NEW g \in Changes
  PROVE  LET c == Sides(e, st, g) IN
         /\ c \in Conflicts /\ c.phase = "ready" /\ c.local = local[e] /\ c.remote = g.content
         /\ c.base = IF conflict[e].phase = "none" THEN state[e].base ELSE conflict[e].base
         /\ c.base \subseteq local[e] \cup waived
<1> DEFINE S == UnsyncedOf(e)
           lc == localConflict(e, st, state[e], g.rev)
           change == outbox[Latest(S)].content
           c == Sides(e, st, g)
<1>1. RowsIn(st, e, Unsynced) = S
  BY DEF RowsIn, Rows, UnsyncedOf
<1>2. change = local[e]
  <2>1. i0 \in UnsyncedOf(e)
    BY DEF UnsyncedOf
  <2> QED
    BY <2>1, AllInRow
<1>3. lc = IF conflict[e].phase = "none"
           THEN [phase |-> "waiting", rev |-> g.rev, base |-> state[e].base, local |-> change, remote |-> {}]
           ELSE [conflict[e] EXCEPT !.rev = IF g.rev = 0 THEN @ ELSE g.rev, !.local = change]
  BY <1>1 DEF localConflict
<1> HIDE DEF change
<1>4. /\ g.rev \in Nat /\ g.content \in SUBSET Edits /\ state[e] \in [rev : Nat, base : SUBSET Edits]
      /\ conflict[e] \in Conflicts /\ st[i0] \in Unsynced
  BY TypedNow DEF Typed, Changes
<1>5. lc \in Conflicts
  BY <1>4, localConflictIs
<1>6. lc.local = local[e] /\ lc.base = IF conflict[e].phase = "none" THEN state[e].base ELSE conflict[e].base
  BY <1>2, <1>3, <1>4 DEF Conflicts
<1> HIDE DEF lc
<1>7. lc.base \subseteq local[e] \cup waived
  <2>1. Known(e)
    BY DEF DeviceOf
  <2>2. CASE conflict[e].phase = "none"
    BY <1>6, <2>1, <2>2, BaseCovered
  <2>3. CASE conflict[e].phase # "none"
    BY <1>6, <2>1, <2>3 DEF Known
  <2> QED
    BY <2>2, <2>3
<1>8. c = [lc EXCEPT !.phase = "ready", !.remote = g.content]
  BY DEF lc, Sides
<1> HIDE DEF c
<1> QED
  <2>1. c \in Conflicts /\ c.phase = "ready" /\ c.local = lc.local /\ c.remote = g.content /\ c.base = lc.base
    BY <1>4, <1>5, <1>8 DEF Conflicts
  <2> QED
    BY <1>6, <1>7, <2>1 DEF c

(* A merge has all that the remote side has, but what the local side does   *)
(* without although it was in the base.                                     *)
LEMMA MergeKeeps ==
  ASSUME NEW base, NEW mineIs, NEW theirs, NEW w, base \subseteq mineIs \cup w
  PROVE  theirs \subseteq merge(base, mineIs, theirs) \cup w
BY DEF merge

(* A conflict for the user: all that waited is stuck.                       *)
LEMMA StuckK ==
  ASSUME NEW e \in Entities, DeviceOf(e),
         UNCHANGED <<log, row, outbox, local, waived>>,
         \A i \in DOMAIN outbox : outbox[i].entity = e =>
           status'[i] \notin Active /\ (status'[i] \in Unsynced <=> status[i] \in Unsynced),
         NEW i0 \in DOMAIN outbox, outbox[i0].entity = e, status[i0] \in Unsynced,
         state'[e].rev # 0, conflict'[e].phase = "ready",
         conflict'[e].local = local[e], conflict'[e].remote = state'[e].base,
         conflict'[e].base \subseteq local[e] \cup waived
  PROVE  DeviceOf(e)'
<1>1. /\ \A i, j \in DOMAIN outbox : Before(i, j)' <=> Before(i, j)
      /\ \A i, j \in DOMAIN outbox : Before(i, j) => (outbox[i].entity = e <=> outbox[j].entity = e)
  BY DEF Before
<1>2. "in_flight" \in Active
  BY DEF Active
<1>3. Chained(e)'
  <2>1. ASSUME NEW i \in DOMAIN outbox, NEW j \in DOMAIN outbox, outbox[i].entity = e, Before(i, j)
        PROVE  /\ status'[i] \in Unsynced /\ status'[j] \in Unsynced => outbox[i].content \subseteq outbox[j].content
               /\ status'[j] # "in_flight" /\ status'[i] \notin Active
    BY <1>1, <1>2, <2>1 DEF DeviceOf, Chained
  <2> QED
    BY <1>1, <2>1 DEF Chained
<1>4. FirstBuilt(e)'
  BY DEF FirstBuilt
<1>5. RowIsLast(e)'
  <2>1. \A i \in DOMAIN outbox : outbox[i].entity = e => (IsLast(i)' => IsLast(i))
    BY <1>1 DEF IsLast
  <2> QED
    BY <2>1 DEF DeviceOf, RowIsLast
<1>6. Known(e)'
  BY DEF Known
<1> QED
  BY <1>3, <1>4, <1>5, <1>6 DEF DeviceOf

(* What a step leaves alone that concerns entity e.                         *)
OthersKept(e) ==
  /\ Grown
  /\ \A f \in Entities : f # e => local'[f] = local[f] /\ conflict'[f] = conflict[f]
  /\ \A i \in DOMAIN outbox : outbox[i].entity # e => status'[i] = status[i]
  /\ \A i \in DOMAIN outbox' : i \notin DOMAIN outbox => outbox'[i].entity = e

(* recordRemote, of a new revision.                                         *)
LEMMA recordRemoteK ==
  ASSUME IInv, NEW e \in Entities, DeviceOf(e), NEW st \in [DOMAIN outbox -> Statuses], QueuedIn(st),
         \A i \in DOMAIN outbox : st[i] = IF outbox[i].entity = e /\ status[i] \in Active THEN "conflict" ELSE status[i],
         NEW i0 \in DOMAIN outbox, outbox[i0].entity = e, status[i0] \in Unsynced,
         NEW g \in Changes, recordRemote(e, g, st, g.rev), AheadOf(st, state'),
         UNCHANGED <<log, row>>, state'[e].rev = g.rev, state'[e].base = g.content,
         0 < g.rev, g.rev <= row[e].rev, Covers(log, waived, e, g.rev, g.content)
  PROVE  DeviceOf(e)' /\ OthersKept(e) /\ waived \subseteq waived'
<1> DEFINE c == Sides(e, st, g)
           cleared == Marked(st, RowsIn(st, e, Unsynced), "synced")
           k == Len(outbox) + 1
<1>1. \/ /\ status' = st
         /\ conflict' = [conflict EXCEPT ![e] = c]
         /\ outbox' = outbox /\ local' = local /\ waived' = waived
      \/ /\ \E outvoted \in Outvoted(e, c) :
              /\ local' = [local EXCEPT ![e] = merge(c.base, c.local, c.remote) \ outvoted]
              /\ enqueue_projection(cleared, g.rev, e, merge(c.base, c.local, c.remote) \ outvoted, 0)
              /\ waived' = waived \cup outvoted
         /\ conflict' = [conflict EXCEPT ![e] = NoConflict]
  BY DEF recordRemote, Sides
<1>2. \A i \in DOMAIN outbox : st[i] \in Unsynced <=> status[i] \in Unsynced
  BY DEF Unsynced, Active
<1>3. /\ c \in Conflicts /\ c.phase = "ready" /\ c.local = local[e] /\ c.remote = g.content
      /\ c.base \subseteq local[e] \cup waived
  BY <1>2, SidesOf
<1> HIDE DEF c
<1>4. g.rev \in Nat
  BY DEF Changes
<1>5. CASE /\ status' = st
           /\ conflict' = [conflict EXCEPT ![e] = c]
           /\ outbox' = outbox /\ local' = local /\ waived' = waived
  <2>1. conflict'[e] = c /\ \A f \in Entities : f # e => conflict'[f] = conflict[f]
    BY <1>5 DEF IInv, TypeOK
  <2>2. \A i \in DOMAIN outbox : outbox[i].entity = e =>
          status'[i] \notin Active /\ (status'[i] \in Unsynced <=> status[i] \in Unsynced)
    BY <1>2, <1>5 DEF Active
  <2>3. state'[e].rev # 0
    BY <1>4
  <2>4. DeviceOf(e)'
    BY <1>3, <1>5, <2>1, <2>2, <2>3, StuckK
  <2>5. OthersKept(e)
    BY <1>5, <2>1 DEF OthersKept, Grown
  <2> QED
    BY <1>5, <2>4, <2>5
<1>6. CASE /\ \E outvoted \in Outvoted(e, c) :
                /\ local' = [local EXCEPT ![e] = merge(c.base, c.local, c.remote) \ outvoted]
                /\ enqueue_projection(cleared, g.rev, e, merge(c.base, c.local, c.remote) \ outvoted, 0)
                /\ waived' = waived \cup outvoted
           /\ conflict' = [conflict EXCEPT ![e] = NoConflict]
  <2>a. PICK outvoted \in Outvoted(e, c) :
          /\ local' = [local EXCEPT ![e] = merge(c.base, c.local, c.remote) \ outvoted]
          /\ enqueue_projection(cleared, g.rev, e, merge(c.base, c.local, c.remote) \ outvoted, 0)
          /\ waived' = waived \cup outvoted
    BY <1>6
  <2> DEFINE merged == merge(c.base, c.local, c.remote) \ outvoted
  <2>b. local' = [local EXCEPT ![e] = merged] /\ enqueue_projection(cleared, g.rev, e, merged, 0)
    BY <2>a
  <2>1. /\ cleared \in [DOMAIN outbox -> Statuses]
        /\ \A i \in DOMAIN outbox : cleared[i] = IF outbox[i].entity = e THEN "synced" ELSE st[i]
    BY GiveWay
  <2>2. RowsIn(cleared, e, {"pending", "in_flight"}) = {}
    <3> HIDE DEF cleared
    <3> QED
      BY <2>1 DEF RowsIn, Rows
  <2> HIDE DEF cleared
  <2>3. RowAdded(k, cleared, planned_base_revision(cleared, g.rev, e), e, merged)
    BY <2>b, <2>1, NewRow
  <2>4. Covers(log, waived', e, g.rev, merged) /\ waived \subseteq waived'
    <3>1. g.content \subseteq merge(c.base, c.local, c.remote) \cup waived
      BY <1>3, MergeKeeps
    <3>2. g.content \subseteq merged \cup waived' /\ waived \subseteq waived'
      BY <2>a, <3>1
    <3> HIDE DEF merged
    <3> QED
      BY <3>2, CoversMore
  <2> HIDE DEF merged, k
  <2>5. /\ DOMAIN outbox' = DOMAIN outbox \cup {k} /\ k \notin DOMAIN outbox /\ k \in Nat
        /\ Grown /\ \A i \in DOMAIN outbox : status'[i] = cleared[i]
        /\ outbox'[k].entity = e /\ outbox'[k].content = merged /\ outbox'[k].base = g.rev
        /\ status'[k] = "pending"
    BY <2>2, <2>3 DEF RowAdded, planned_base_revision
  <2>6. /\ local'[e] = merged /\ conflict'[e].phase = "none"
        /\ \A f \in Entities : f # e => local'[f] = local[f] /\ conflict'[f] = conflict[f]
    BY <1>6, <2>b DEF IInv, TypeOK, NoConflict
  <2>7. DeviceOf(e)'
    <3>1. \A i \in DOMAIN outbox : outbox[i].entity = e => status'[i] = "synced"
      BY <2>1, <2>5
    <3>2. Covers(log', waived', e, state'[e].rev, local'[e]) /\ state'[e].rev <= row'[e].rev
      BY <2>4, <2>6
    <3>3. outbox'[k].base = state'[e].rev /\ outbox'[k].content = local'[e] /\ state'[e].rev # 0
      BY <1>4, <2>5, <2>6
    <3> QED
      BY <2>5, <2>6, <3>1, <3>2, <3>3, EnqueuedAlone
  <2>8. OthersKept(e)
    BY <2>1, <2>5, <2>6 DEF OthersKept
  <2> QED
    BY <2>4, <2>7, <2>8
<1> QED
  BY <1>1, <1>5, <1>6

(* apply_pull_page: a known revision changes nothing, as a conflict waits   *)
(* for a later one; a new one replaces a row without unsynced changes, or   *)
(* meets them.                                                              *)
LEMMA apply_pull_pageK == ASSUME IInv, IInv', KInv, apply_pull_page PROVE KInv'
<1>1. /\ UNCHANGED <<log, row, requests, reply, exposed>> /\ pc = "pull"
      /\ cursor < Len(log) /\ cursor' = cursor + 1 /\ apply_remote_entity(log[cursor + 1])
  BY DEF apply_pull_page, server, run
<1>2. SUFFICES ASSUME Clean PROVE Clean'
  BY <1>1 DEF KInv
<1>3. Typed /\ cursor \in 0 .. Len(log) /\ cursor + 1 \in DOMAIN log
  <2>1. Typed /\ cursor \in 0 .. Len(log)
    BY TypedNow DEF IInv, TypeOK
  <2>2. Len(log) \in Nat /\ DOMAIN log = 1 .. Len(log)
    BY <2>1 DEF Typed
  <2> QED
    BY <1>1, <2>1, <2>2
<1>4. PICK g \in Changes : g = log[cursor + 1]
  <2>1. log[cursor + 1] \in Changes
    BY <1>3, ElementOfSeq DEF Typed
  <2> QED
    BY <2>1
<1>5. PICK e \in Entities : e = g.entity
  BY <1>4 DEF Changes
<1>6. /\ e \in Entities /\ g.rev \in Nat /\ g.content \in SUBSET Edits /\ state[e].rev \in Nat
      /\ conflict[e] \in Conflicts
  BY <1>3, <1>4, <1>5 DEF Changes, Typed
<1>7. /\ 0 < g.rev /\ g.rev <= row[e].rev /\ Covers(log, waived, e, g.rev, g.content)
      /\ DeviceOf(e) /\ Known(e)
  BY <1>2, <1>3, <1>4, <1>5, <1>6 DEF Clean, Lasting, DeviceOf
<1>8. /\ \A i \in DOMAIN outbox : status[i] # "in_flight"
      /\ status \in [DOMAIN outbox -> Statuses] /\ QueuedIn(status) /\ AheadOf(status, state)
      /\ local \in [Entities -> SUBSET Edits] /\ state \in States
  BY <1>1 DEF IInv, ReplyTrue, InFlight, TypeOK, States
<1>9. ASSUME state'[e].rev >= g.rev PROVE CursorCovers'
  <2>1. \A f \in Entities : state'[f].rev >= state[f].rev /\ state'[f].rev \in Nat /\ state[f].rev \in Nat
    BY TypedNow, TypedNext, apply_pull_pageIInv DEF Typed
  <2>2. SUFFICES ASSUME NEW n \in DOMAIN log, n <= cursor + 1 PROVE log[n].rev <= state'[log[n].entity].rev
    BY <1>1 DEF CursorCovers
  <2>3. log[n].entity \in Entities /\ log[n].rev \in Nat /\ n \in Nat
    BY <1>3 DEF Typed
  <2>4. CASE n = cursor + 1
    BY <1>4, <1>5, <1>9, <2>1, <2>3, <2>4
  <2>5. CASE n # cursor + 1
    <3>1. n <= cursor
      BY <1>3, <2>2, <2>3, <2>5
    <3>2. log[n].rev <= state[log[n].entity].rev
      BY <1>2, <3>1 DEF Clean, CursorCovers
    <3> QED
      BY <2>1, <2>3, <3>2
  <2> QED
    BY <2>4, <2>5
<1>10. ASSUME DeviceOf(e)', OthersKept(e), waived \subseteq waived', state'[e].rev >= g.rev,
             \A f \in Entities : f # e => state'[f] = state[f]
      PROVE  Clean'
  <2>1. CursorCovers'
    BY <1>9, <1>10
  <2> QED
    BY <1>1, <1>2, <1>6, <1>10, <2>1, OneEntity DEF OthersKept
<1>11. CASE state[e].rev >= g.rev
  <2>1. state' = state /\ IF hydrates(e, g)
                          THEN recordRemote(e, g, status, state[e].rev)
                          ELSE UNCHANGED <<outbox, status, local, conflict, waived>>
    BY <1>1, <1>4, <1>5, <1>11 DEF apply_remote_entity, applyKnown
  <2>2. ~hydrates(e, g)
    <3>1. SUFFICES ASSUME conflict[e].phase = "waiting" PROVE conflict[e].rev # 0 /\ conflict[e].rev # g.rev
      BY DEF hydrates
    <3>2. state[e].rev < conflict[e].rev /\ conflict[e].rev \in Nat
      BY <1>6, <1>7, <3>1 DEF Known, Conflicts
    <3> QED
      BY <1>6, <1>11, <3>2
  <2>3. UNCHANGED <<outbox, status, local, conflict, waived>>
    BY <2>1, <2>2
  <2>4. OthersKept(e)
    BY <2>3 DEF OthersKept, Grown
  <2>5. DeviceOf(e)'
    <3>1. ServerGrown /\ Grown /\ Lasting(log, row, waived)
      BY <1>1, <1>2, <1>3, <2>3 DEF ServerGrown, Grown, Clean, Typed
    <3> QED
      BY <1>6, <1>7, <2>1, <2>3, <3>1, DeviceKept
  <2>6. state'[e].rev >= g.rev
    BY <1>11, <2>1
  <2> QED
    BY <1>10, <2>1, <2>3, <2>4, <2>5, <2>6
<1>12. CASE ~(state[e].rev >= g.rev)
  <2> DEFINE head == [rev |-> g.rev, base |-> g.content]
             st == Marked(status, RowsIn(status, e, {"pending", "in_flight"}), "conflict")
  <2>1. /\ state' = [state EXCEPT ![e] = head]
        /\ IF RowsIn(status, e, Unsynced) = {}
           THEN /\ local' = [local EXCEPT ![e] = g.content]
                /\ UNCHANGED <<outbox, status, conflict, waived>>
           ELSE recordRemote(e, g, st, g.rev)
    BY <1>1, <1>4, <1>5, <1>12 DEF apply_remote_entity, applyNew
  <2>2. head.rev = g.rev /\ head.base = g.content
    OBVIOUS
  <2>3. state'[e] = head /\ \A f \in Entities : f # e => state'[f] = state[f]
    BY <1>6, <1>8, <2>1 DEF States
  <2>4. state'[e].rev = g.rev /\ state'[e].base = g.content /\ state'[e].rev >= g.rev
    BY <1>6, <2>2, <2>3
  <2> HIDE DEF head
  <2>5. CASE RowsIn(status, e, Unsynced) = {}
    <3>1. local' = [local EXCEPT ![e] = g.content] /\ UNCHANGED <<outbox, status, conflict, waived>>
      BY <2>1, <2>5
    <3>2. local'[e] = g.content /\ \A f \in Entities : f # e => local'[f] = local[f]
      BY <1>6, <1>8, <3>1
    <3>3. \A i \in DOMAIN outbox : outbox[i].entity = e => status[i] = "synced"
      <4>1. \A i \in DOMAIN outbox : outbox[i].entity = e => status[i] \notin Unsynced
        BY <2>5 DEF RowsIn, Rows
      <4> QED
        BY <1>8, <4>1 DEF Statuses
    <3>4. conflict[e].phase = "none"
      BY <1>6, <3>3 DEF IInv, VisibleFor, Stuck
    <3>5. OthersKept(e)
      BY <3>1, <3>2 DEF OthersKept, Grown
    <3>6. DeviceOf(e)'
      <4>1. /\ \A i \in DOMAIN outbox' : outbox'[i].entity = e => status'[i] = "synced"
            /\ local'[e] = state'[e].base /\ conflict'[e].phase = "none"
        BY <2>4, <3>1, <3>2, <3>3, <3>4
      <4>2. Covers(log', waived', e, state'[e].rev, local'[e])
        BY <1>1, <1>7, <2>4, <3>1, <3>2
      <4>3. state'[e].rev # 0
        BY <1>6, <1>7, <2>4
      <4> QED
        BY <1>6, <4>1, <4>2, <4>3, NothingQueued
    <3> QED
      BY <1>10, <2>3, <2>4, <3>1, <3>5, <3>6
  <2>6. CASE RowsIn(status, e, Unsynced) # {}
    <3>1. recordRemote(e, g, st, g.rev)
      BY <2>1, <2>6
    <3>2. /\ st \in [DOMAIN outbox -> Statuses]
          /\ \A i \in DOMAIN outbox : st[i] = IF outbox[i].entity = e /\ status[i] \in Active THEN "conflict" ELSE status[i]
      <4>1. "conflict" \in Statuses
        BY DEF Statuses, Unsynced
      <4>2. /\ st \in [DOMAIN outbox -> Statuses]
            /\ \A i \in DOMAIN outbox : st[i] = IF i \in RowsIn(status, e, {"pending", "in_flight"}) THEN "conflict" ELSE status[i]
        BY <1>8, <4>1, MarkedIs
      <4>3. \A i \in DOMAIN outbox : i \in RowsIn(status, e, {"pending", "in_flight"}) <=> outbox[i].entity = e /\ status[i] \in Active
        BY DEF RowsIn, Rows, Active
      <4> HIDE DEF st
      <4> QED
        BY <4>2, <4>3
    <3> HIDE DEF st
    <3>3. /\ \A i \in DOMAIN outbox : st[i] # "in_flight"
          /\ \A i \in DOMAIN outbox : outbox[i].entity = e => st[i] \notin Active
      BY <1>8, <3>2 DEF Active
    <3>4. QueuedIn(st)
      BY <1>8, <3>2, <3>3 DEF QueuedIn, Active
    <3>5. AheadOf(st, state')
      BY <1>8, <2>3, <3>2, <3>3, Types DEF AheadOf
    <3>6. PICK i \in DOMAIN outbox : outbox[i].entity = e /\ status[i] \in Unsynced
      BY <2>6 DEF RowsIn, Rows
    <3>7. DeviceOf(e)' /\ OthersKept(e) /\ waived \subseteq waived'
      <4> QED
        BY <1>1, <1>4, <1>6, <1>7, <2>4, <3>1, <3>2, <3>4, <3>5, <3>6, recordRemoteK
    <3> QED
      BY <1>10, <2>3, <2>4, <3>7
  <2> QED
    BY <2>5, <2>6
<1> QED
  BY <1>11, <1>12

-----------------------------------------------------------------------------
(* The first state.                                                         *)
LEMMA InitK == Init => KInv
<1> SUFFICES ASSUME Init PROVE Clean
  BY DEF KInv
<1>1. /\ log = <<>> /\ outbox = <<>> /\ DOMAIN log = {} /\ DOMAIN outbox = {} /\ requests = {}
      /\ reply.conflicts = {}
      /\ \A e \in Entities :
           /\ row[e].rev = 0 /\ row[e].content = {} /\ state[e].rev = 0 /\ state[e].base = {}
           /\ local[e] = {} /\ conflict[e].phase = "none"
  BY DEF Init, NoReply, NoConflict
<1>2. Lasting(log, row, waived) /\ Requested /\ Answers /\ CursorCovers
  BY <1>1 DEF Lasting, Requested, Answers, CursorCovers
<1>3. ASSUME NEW e \in Entities PROVE DeviceOf(e)
  BY <1>1 DEF DeviceOf, Chained, FirstBuilt, RowIsLast, Known, Covers
<1> QED
  BY <1>2, <1>3 DEF Clean

(* Every step.                                                              *)
LEMMA NextK == IInv /\ IInv' /\ KInv /\ [Next]_vars => KInv'
<1> SUFFICES ASSUME IInv, IInv', KInv, [Next]_vars PROVE KInv'
  OBVIOUS
<1>1. CASE \E e \in Entities : edit(e) \/ Commit(e) \/ keep_local(e) \/ keep_remote(e)
  BY <1>1, editK, CommitK, keep_localK, keep_remoteK
<1>2. CASE run_locked \/ pushedAll \/ pulledAll \/ UNCHANGED vars
  <2>1. /\ UNCHANGED <<log, row, requests, outbox, status, state, local, conflict, cursor>>
        /\ UNCHANGED <<waived, exposed>> /\ (reply' = reply \/ reply' = NoReply)
    BY <1>2 DEF run_locked, pushedAll, pulledAll, vars, server, database, run, ghost
  <2> QED
    BY <2>1, IdleStep
<1>3. CASE claim_pending \/ apply_push_result \/ mark_dead_letter \/ apply_pull_page
  BY <1>3, claim_pendingK, apply_push_resultK, mark_dead_letterK, apply_pull_pageK
<1>4. CASE Gateway
  BY <1>4, pushK DEF Gateway
<1>5. CASE Fault
  BY <1>5, FaultK
<1> QED
  BY <1>1, <1>2, <1>3, <1>4, <1>5 DEF Next, Device

(* It holds in every state, with the other one.                             *)
LEMMA CleanInvariant == Spec => [](IInv /\ KInv)
<1>1. IInv /\ KInv /\ [Next]_vars => (IInv /\ KInv)'
  BY NextIInv, NextK
<1> QED
  BY <1>1, InitIInv, InitK, PTL DEF Spec

(* No accepted edit is lost, unless a user decides against it or, in a      *)
(* session, a later edit of the same field does: whatever the others commit *)
(* meanwhile, whatever is lost, sent again or arrives late, and however     *)
(* conflicts are merged or resolved - as long as the device was not exposed *)
(* (claim_pending, push, apply_pull_page, merge_entity, resolve_conflict).  *)
THEOREM AcceptedEditsStay == Spec => []AcceptedStay
<1>1. IInv /\ KInv => AcceptedStay
  <2> SUFFICES ASSUME IInv, Clean, NEW n \in DOMAIN log
               PROVE  log[n].content \subseteq row[log[n].entity].content \cup waived
    BY DEF KInv, AcceptedStay, AcceptedEditsKept
  <2>1. /\ log[n].entity \in Entities /\ log[n].rev <= row[log[n].entity].rev
        /\ Lasting(log, row, waived) /\ log \in Seq(Changes) /\ row \in Heads
    BY TypedNow DEF Clean, Lasting, Typed
  <2>2. Covers(log, waived, log[n].entity, row[log[n].entity].rev, row[log[n].entity].content)
    BY <2>1, RowCovers
  <2> QED
    BY <2>1, <2>2 DEF Covers
<1> QED
  BY <1>1, CleanInvariant, PTL

(* A device that has nothing to publish and nothing to pull shows what the  *)
(* gateway holds, as long as it was not exposed (apply_remote_entity,       *)
(* apply_push_result).                                                      *)
THEOREM SynchronizedAgree == Spec => []Agreed
<1>1. IInv /\ KInv => Agreed
  <2> SUFFICES ASSUME IInv, Clean, NEW e \in Entities,
                      cursor = Len(log), RowsIn(status, e, Unsynced) = {}
               PROVE  local[e] = row[e].content
    BY DEF KInv, Agreed, Converged
  <2>1. Typed /\ Lasting(log, row, waived) /\ CursorCovers /\ DeviceOf(e)
    BY TypedNow DEF Clean
  <2>2. local[e] = state[e].base
    <3>1. \A i \in DOMAIN outbox : outbox[i].entity = e => status[i] \notin Unsynced
      BY DEF RowsIn, Rows
    <3> QED
      BY <2>1, <3>1 DEF DeviceOf, RowIsLast
  <2>3. state[e].rev <= row[e].rev /\ state[e].rev \in Nat /\ row[e].rev \in Nat
    BY <2>1, StateBehind DEF Typed
  <2>4. CASE row[e].rev = 0
    <3>1. row[e].content = {}
      <4>1. \A n \in DOMAIN log : log[n].rev \in Nat /\ 0 < log[n].rev
        BY <2>1 DEF Typed, Lasting
      <4> QED
        BY <2>1, <2>4, <4>1 DEF Lasting
    <3>2. state[e].rev = 0
      BY <2>3, <2>4
    <3> QED
      BY <2>1, <2>2, <3>1, <3>2 DEF DeviceOf, Known
  <2>5. CASE row[e].rev # 0
    <3>1. PICK n \in DOMAIN log : log[n].entity = e /\ log[n].rev = row[e].rev /\ log[n].content = row[e].content
      BY <2>1, <2>5 DEF Lasting
    <3>2. n <= cursor
      BY <2>1 DEF Typed
    <3>3. state[e].rev = row[e].rev
      <4>1. row[e].rev <= state[e].rev
        BY <2>1, <3>1, <3>2 DEF CursorCovers
      <4> QED
        BY <2>3, <4>1
    <3>4. PICK m \in DOMAIN log : log[m].entity = e /\ log[m].rev = state[e].rev /\ log[m].content = state[e].base
      <4>1. state[e].rev > 0
        BY <2>3, <2>5, <3>3
      <4> QED
        BY <4>1 DEF IInv, StateMatchesLog
    <3>5. m = n
      BY <2>1, <3>1, <3>3, <3>4 DEF Lasting
    <3> QED
      BY <2>2, <3>1, <3>4, <3>5
  <2> QED
    BY <2>4, <2>5
<1> QED
  BY <1>1, CleanInvariant, PTL

-----------------------------------------------------------------------------
(* What keeps the edits of this device in its rows, as long as the device   *)
(* is not exposed.                                                          *)

(* The edits are numbered, and nothing holds one that was not made yet.     *)
Made == mine \cup others
Numbered ==
  /\ \A x \in Made : x <= Cardinality(Made)
  /\ \A n \in DOMAIN log : log[n].content \subseteq Made
  /\ \A i \in DOMAIN outbox : outbox[i].content \subseteq Made
  /\ \A e \in Entities : local[e] \subseteq Made

(* An own edit that was accepted stays in its entity, also one that a user  *)
(* has decided against.                                                     *)
MineStays ==
  \A m, n \in DOMAIN log : log[m].entity = log[n].entity /\ log[m].rev <= log[n].rev =>
    mine \cap log[m].content \subseteq log[n].content

(* A change that may still be accepted is the first of its queue.           *)
Fresh ==
  \A q \in requests : \A i \in q.ids :
    outbox[i].base = row[outbox[i].entity].rev => status[i] \in Unsynced /\ IsFirst(i)

(* The first change is built on what the device knows, and has all own edits*)
(* that are in it, or is built on less: then it is never accepted.          *)
FirstKnows(e) ==
  \A i \in DOMAIN outbox : outbox[i].entity = e /\ status[i] \in Unsynced /\ IsFirst(i) =>
    /\ outbox[i].base <= state[e].rev
    /\ conflict[e].phase = "ready" => outbox[i].base < state[e].rev
    /\ outbox[i].base = state[e].rev => mine \cap state[e].base \subseteq outbox[i].content

(* The row has the own edits that are in what the device knows, and those   *)
(* in the base of a merge, which was accepted once.                         *)
Held(e) ==
  /\ mine \cap state[e].base \subseteq local[e]
  /\ conflict[e].phase # "none" =>
       /\ mine \cap conflict[e].base \subseteq local[e]
       /\ \/ conflict[e].base = {}
          \/ \E n \in DOMAIN log : log[n].entity = e /\ log[n].rev <= state[e].rev /\ log[n].content = conflict[e].base
  /\ conflict[e].phase = "ready" =>
       mine \cap state[e].base \subseteq conflict[e].local /\ conflict[e].local \subseteq local[e]

(* What the device has yet to learn has no own edits but those of the row,  *)
(* all of it the same: an own change is the first it can learn of.          *)
Later(e) ==
  \A n \in DOMAIN log : log[n].entity = e /\ state[e].rev < log[n].rev =>
    /\ mine \cap log[n].content \subseteq local[e]
    /\ conflict[e].phase = "ready" => mine \cap log[n].content \subseteq state[e].base
    /\ \A m \in DOMAIN log : log[m].entity = e /\ state[e].rev < log[m].rev =>
         mine \cap log[n].content \subseteq log[m].content

MineOf(e) == FirstKnows(e) /\ Held(e) /\ Later(e)
MineKept == Numbered /\ MineStays /\ Fresh /\ \A e \in Entities : MineOf(e)
OInv == ~exposed => MineKept

-----------------------------------------------------------------------------
(* What a device knows was accepted once, and if it is the last that was,   *)
(* it is the row of the gateway.                                            *)
LEMMA BaseLogged ==
  ASSUME IInv, NEW e \in Entities, Known(e)
  PROVE  \/ state[e].base = {}
         \/ \E n \in DOMAIN log : log[n].entity = e /\ log[n].rev = state[e].rev /\ log[n].content = state[e].base
<1>1. state[e].rev \in Nat
  BY Types
<1>2. CASE state[e].rev = 0
  BY <1>2 DEF Known
<1>3. CASE state[e].rev > 0
  BY <1>3 DEF IInv, StateMatchesLog
<1> QED
  BY <1>1, <1>2, <1>3

(* The row of the gateway is the last of its log.                           *)
LEMMA RowLogged ==
  ASSUME IInv, Lasting(log, row, waived), NEW e \in Entities
  PROVE  /\ \A n \in DOMAIN log : log[n].entity = e => 0 < log[n].rev /\ log[n].rev <= row[e].rev
         /\ \/ row[e].content = {}
            \/ \E n \in DOMAIN log : log[n].entity = e /\ log[n].rev = row[e].rev /\ log[n].content = row[e].content
         /\ state[e].rev < row[e].rev =>
              \E n \in DOMAIN log : log[n].entity = e /\ log[n].rev = row[e].rev /\ log[n].content = row[e].content
         /\ Known(e) /\ state[e].rev = row[e].rev => row[e].content = state[e].base
<1>1. Typed
  BY TypedNow
<1>2. \A n \in DOMAIN log : log[n].entity = e => 0 < log[n].rev /\ log[n].rev <= row[e].rev
  BY DEF Lasting
<1>3. \/ row[e].rev = 0 /\ row[e].content = {}
      \/ \E n \in DOMAIN log : log[n].entity = e /\ log[n].rev = row[e].rev /\ log[n].content = row[e].content
  BY DEF Lasting
<1>4. state[e].rev \in Nat /\ row[e].rev \in Nat
  BY <1>1 DEF Typed
<1>5. ASSUME Known(e), state[e].rev = row[e].rev PROVE row[e].content = state[e].base
  <2>1. CASE row[e].rev = 0
    <3>1. state[e].base = {}
      BY <1>5, <2>1 DEF Known
    <3>2. ~ \E n \in DOMAIN log : log[n].entity = e /\ log[n].rev = row[e].rev
      BY <1>2, <2>1
    <3> QED
      BY <1>3, <3>1, <3>2
  <2>2. CASE row[e].rev # 0
    <3>1. PICK n \in DOMAIN log : log[n].entity = e /\ log[n].rev = row[e].rev /\ log[n].content = row[e].content
      BY <1>3, <2>2
    <3>2. PICK m \in DOMAIN log : log[m].entity = e /\ log[m].rev = state[e].rev /\ log[m].content = state[e].base
      <4>1. state[e].rev > 0
        BY <1>4, <1>5, <2>2
      <4> QED
        BY <4>1 DEF IInv, StateMatchesLog
    <3>3. m = n
      BY <1>5, <3>1, <3>2 DEF Lasting
    <3> QED
      BY <3>1, <3>2, <3>3
  <2> QED
    BY <2>1, <2>2
<1>6. state[e].rev < row[e].rev => row[e].rev # 0
  BY <1>4
<1> QED
  BY <1>2, <1>3, <1>5, <1>6

-----------------------------------------------------------------------------
(* Steps that leave the gateway alone                                       *)

(* No edit of this device is new that an accepted change holds already.     *)
NoneNew == mine \subseteq mine' /\ \A n \in DOMAIN log : mine' \cap log[n].content \subseteq mine

(* Then none is in what the device knows, nor in the base of a merge.       *)
LEMMA NoneNewIn ==
  ASSUME IInv, NoneNew, NEW e \in Entities, Known(e), Held(e)
  PROVE  /\ mine' \cap state[e].base \subseteq mine
         /\ conflict[e].phase # "none" => mine' \cap conflict[e].base \subseteq mine
<1>1. mine' \cap state[e].base \subseteq mine
  BY BaseLogged DEF NoneNew
<1>2. ASSUME conflict[e].phase # "none" PROVE mine' \cap conflict[e].base \subseteq mine
  BY <1>2 DEF NoneNew, Held
<1> QED
  BY <1>1, <1>2

(* An entity a step of the device leaves alone, but that rows of its queue  *)
(* may wait elsewhere.                                                      *)
LEMMA MineOfKept ==
  ASSUME IInv, NEW e \in Entities, Known(e), MineOf(e), NoneNew, log' = log, Grown,
         state'[e] = state[e], local'[e] = local[e], conflict'[e] = conflict[e],
         \A i \in DOMAIN outbox : outbox[i].entity = e => (status'[i] \in Unsynced <=> status[i] \in Unsynced),
         \A i \in DOMAIN outbox' : i \notin DOMAIN outbox => outbox'[i].entity # e
  PROVE  MineOf(e)'
<1>1. FirstKnows(e) /\ Held(e) /\ Later(e)
  BY DEF MineOf
<1>2. /\ mine' \cap state[e].base \subseteq mine
      /\ conflict[e].phase # "none" => mine' \cap conflict[e].base \subseteq mine
  BY <1>1, NoneNewIn
<1>3. FirstKnows(e)'
  <2>1. SUFFICES ASSUME NEW i \in DOMAIN outbox', outbox'[i].entity = e, status'[i] \in Unsynced, IsFirst(i)'
                 PROVE  /\ outbox'[i].base <= state[e].rev
                        /\ conflict[e].phase = "ready" => outbox'[i].base < state[e].rev
                        /\ outbox'[i].base = state[e].rev => mine' \cap state[e].base \subseteq outbox'[i].content
    BY DEF FirstKnows
  <2>2. i \in DOMAIN outbox /\ outbox'[i] = outbox[i] /\ outbox[i].entity = e /\ status[i] \in Unsynced
    BY <2>1 DEF Grown
  <2>3. IsFirst(i)
    <3>1. SUFFICES ASSUME NEW j \in DOMAIN outbox, Before(j, i) PROVE status[j] \notin Unsynced
      BY DEF IsFirst
    <3>2. outbox[j].entity = e /\ j \in DOMAIN outbox' /\ outbox'[j] = outbox[j] /\ Before(j, i)'
      BY <2>2, <3>1 DEF Before, Grown
    <3>3. status'[j] \notin Unsynced
      BY <2>1, <3>2 DEF IsFirst
    <3> QED
      BY <3>2, <3>3
  <2> QED
    BY <1>1, <1>2, <2>2, <2>3 DEF FirstKnows
<1>4. Held(e)'
  BY <1>1, <1>2 DEF Held
<1>5. Later(e)'
  <2>1. \A n \in DOMAIN log : mine' \cap log[n].content \subseteq mine
    BY DEF NoneNew
  <2> QED
    BY <1>1, <2>1 DEF Later
<1> QED
  BY <1>3, <1>4, <1>5 DEF MineOf

(* What was accepted stays so.                                              *)
LEMMA MineStaysKept ==
  ASSUME MineStays, NoneNew, log' = log
  PROVE  MineStays'
BY DEF MineStays, NoneNew

(* What may still be accepted stays the first of its queue, unless it leaves*)
(* the queue, and then it may not be accepted any more.                     *)
LEMMA FreshKept ==
  ASSUME IInv, Requested, Fresh, requests' \subseteq requests, Grown, Typed',
         \A e \in Entities : row[e].rev <= row'[e].rev,
         \A i \in DOMAIN outbox : status'[i] \in Unsynced => status[i] \in Unsynced,
         \A i \in DOMAIN outbox : \A k \in DOMAIN outbox' : k \notin DOMAIN outbox => i < k,
         \A i \in DOMAIN outbox :
           outbox[i].base = row[outbox[i].entity].rev /\ status[i] \in Unsynced /\ IsFirst(i) => status'[i] \in Unsynced
  PROVE  Fresh'
<1>1. SUFFICES ASSUME NEW q \in requests', NEW i \in q.ids, outbox'[i].base = row'[outbox'[i].entity].rev
               PROVE  status'[i] \in Unsynced /\ IsFirst(i)'
  BY DEF Fresh
<1>2. q \in requests /\ i \in DOMAIN outbox /\ i \in DOMAIN outbox' /\ outbox'[i] = outbox[i]
  BY <1>1 DEF IInv, TypeOK, Grown
<1> DEFINE e == outbox[i].entity
<1>3. e \in Entities /\ row[e].rev \in Nat /\ row'[e].rev \in Nat /\ outbox[i].base \in Nat
  BY <1>2, TypedNow DEF Typed
<1>4. outbox[i].base <= row[e].rev
  BY <1>1, <1>2 DEF Requested, Built, BuiltOn
<1>5. outbox[i].base = row[e].rev
  <2>1. row[e].rev <= row'[e].rev /\ outbox[i].base = row'[e].rev
    BY <1>1, <1>2, <1>3
  <2> HIDE DEF e
  <2> QED
    BY <1>3, <1>4, <2>1
<1>6. status[i] \in Unsynced /\ IsFirst(i)
  BY <1>1, <1>2, <1>5 DEF Fresh
<1>7. status'[i] \in Unsynced
  BY <1>2, <1>5, <1>6
<1>8. IsFirst(i)'
  <2>1. SUFFICES ASSUME NEW j \in DOMAIN outbox', Before(j, i)' PROVE status'[j] \notin Unsynced
    BY DEF IsFirst
  <2>2. j < i /\ j \in Nat /\ i \in Nat
    BY <1>2, <2>1 DEF Before, Typed
  <2>3. j \in DOMAIN outbox
    <3>1. j \notin DOMAIN outbox => i < j
      BY <1>2
    <3> QED
      BY <2>2, <3>1
  <2>4. Before(j, i)
    BY <1>2, <2>1, <2>3 DEF Before, Grown
  <2> QED
    BY <1>6, <2>3, <2>4 DEF IsFirst
<1> QED
  BY <1>7, <1>8

-----------------------------------------------------------------------------
(* Steps of the gateway                                                     *)

(* A change n it has added comes after what it had; the own edits of the row*)
(* are in it, and it has no others, unless it is the one the device knows   *)
(* next.                                                                    *)
Adds(n) ==
  LET g == log'[n] IN
  /\ g.entity \in Entities /\ g.rev = row[g.entity].rev + 1
  /\ mine \cap row[g.entity].content \subseteq g.content
  /\ \/ mine \cap g.content \subseteq row[g.entity].content
     \/ /\ state[g.entity].rev = row[g.entity].rev /\ conflict[g.entity].phase # "ready"
        /\ mine \cap g.content \subseteq local[g.entity]

(* The row of the gateway has the own edits of its log.                     *)
LEMMA RowHasMine ==
  ASSUME IInv, Lasting(log, row, waived), MineStays, NEW m \in DOMAIN log
  PROVE  mine \cap log[m].content \subseteq row[log[m].entity].content
<1> DEFINE e == log[m].entity
<1>1. e \in Entities /\ 0 < log[m].rev /\ log[m].rev <= row[e].rev /\ log[m].rev \in Nat /\ row[e].rev \in Nat
  BY TypedNow DEF Lasting, Typed
<1>2. row[e].rev # 0
  BY <1>1
<1>3. PICK n \in DOMAIN log : log[n].entity = e /\ log[n].rev = row[e].rev /\ log[n].content = row[e].content
  BY <1>1, <1>2 DEF Lasting
<1> QED
  BY <1>1, <1>3 DEF MineStays

(* Own edits stay in what is added, and what the device has yet to learn is *)
(* in its row.                                                              *)
LEMMA GatewayMine ==
  ASSUME IInv, IInv', Clean, MineKept, ServerGrown, Lasting(log', row', waived'),
         UNCHANGED <<outbox, status, state, local, conflict, mine>>,
         \A n \in DOMAIN log' : n \notin DOMAIN log => Adds(n)
  PROVE  MineStays' /\ \A e \in Entities : MineOf(e)'
<1>1. Typed /\ Typed' /\ Lasting(log, row, waived) /\ MineStays
  BY TypedNow, TypedNext DEF Clean, MineKept
<1>2. \A n \in DOMAIN log : n \in DOMAIN log' /\ log'[n] = log[n]
  BY DEF ServerGrown
<1>3. \A n \in DOMAIN log : /\ log[n].entity \in Entities /\ log[n].rev \in Nat
                            /\ log[n].rev <= row[log[n].entity].rev /\ row[log[n].entity].rev \in Nat
  BY <1>1 DEF Typed, Lasting
<1>4. \A m, n \in DOMAIN log' : m \notin DOMAIN log /\ n \notin DOMAIN log /\ log'[m].entity = log'[n].entity => m = n
  BY DEF Lasting, Adds
<1>5. MineStays'
  <2>1. SUFFICES ASSUME NEW m \in DOMAIN log', NEW n \in DOMAIN log', log'[m].entity = log'[n].entity, log'[m].rev <= log'[n].rev
                 PROVE  mine \cap log'[m].content \subseteq log'[n].content
    BY DEF MineStays
  <2>2. CASE m \in DOMAIN log /\ n \in DOMAIN log
    BY <1>1, <1>2, <2>1, <2>2 DEF MineStays
  <2>3. CASE m \in DOMAIN log /\ n \notin DOMAIN log
    <3>1. mine \cap log[m].content \subseteq row[log[m].entity].content
      BY <1>1, <2>3, RowHasMine
    <3>2. mine \cap row[log'[n].entity].content \subseteq log'[n].content
      BY <2>3 DEF Adds
    <3> QED
      BY <1>2, <2>1, <2>3, <3>1, <3>2
  <2>4. CASE m \notin DOMAIN log /\ n \in DOMAIN log
    <3>1. log'[m].rev = row[log'[n].entity].rev + 1
      BY <2>1, <2>4 DEF Adds
    <3>2. log'[n] = log[n]
      BY <1>2, <2>4
    <3> QED
      BY <1>3, <2>1, <2>4, <3>1, <3>2
  <2>5. CASE m \notin DOMAIN log /\ n \notin DOMAIN log
    BY <1>4, <2>1, <2>5
  <2> QED
    BY <2>2, <2>3, <2>4, <2>5
<1>6. ASSUME NEW e \in Entities PROVE MineOf(e)'
  <2>1. FirstKnows(e) /\ Held(e) /\ Later(e) /\ Known(e)
    BY DEF MineKept, MineOf, Clean, DeviceOf
  <2>2. FirstKnows(e)'
    BY <2>1 DEF FirstKnows, IsFirst, Before
  <2>3. Held(e)'
    <3>1. ASSUME NEW n \in DOMAIN log, log[n].entity = e /\ log[n].rev <= state[e].rev /\ log[n].content = conflict[e].base
          PROVE  \E k \in DOMAIN log' : log'[k].entity = e /\ log'[k].rev <= state[e].rev /\ log'[k].content = conflict[e].base
      BY <1>2, <3>1
    <3> QED
      BY <2>1, <3>1 DEF Held
  <2>4. /\ state[e].rev < row[e].rev =>
             \E n \in DOMAIN log : log[n].entity = e /\ log[n].rev = row[e].rev /\ log[n].content = row[e].content
        /\ state[e].rev = row[e].rev => row[e].content = state[e].base
        /\ state[e].rev <= row[e].rev /\ state[e].rev \in Nat /\ row[e].rev \in Nat
    BY <1>1, <2>1, RowLogged, StateBehind DEF Typed
  <2>5. /\ mine \cap row[e].content \subseteq local[e]
        /\ conflict[e].phase = "ready" => mine \cap row[e].content \subseteq state[e].base
    <3>1. CASE state[e].rev < row[e].rev
      <4>1. PICK k \in DOMAIN log : log[k].entity = e /\ log[k].rev = row[e].rev /\ log[k].content = row[e].content
        BY <2>4, <3>1
      <4> QED
        BY <2>1, <3>1, <4>1 DEF Later
    <3>2. CASE state[e].rev = row[e].rev
      BY <2>1, <2>4, <3>2 DEF Held
    <3> QED
      BY <2>4, <3>1, <3>2
  <2>6. Later(e)'
    <3>1. SUFFICES ASSUME NEW n \in DOMAIN log', log'[n].entity = e, state[e].rev < log'[n].rev
                   PROVE  /\ mine \cap log'[n].content \subseteq local[e]
                          /\ conflict[e].phase = "ready" => mine \cap log'[n].content \subseteq state[e].base
                          /\ \A m \in DOMAIN log' : log'[m].entity = e /\ state[e].rev < log'[m].rev =>
                               mine \cap log'[n].content \subseteq log'[m].content
      BY DEF Later
    <3>2. CASE n \in DOMAIN log
      <4>1. log'[n] = log[n]
        BY <1>2, <3>2
      <4>2. ASSUME NEW m \in DOMAIN log', log'[m].entity = e, state[e].rev < log'[m].rev
            PROVE  mine \cap log'[n].content \subseteq log'[m].content
        <5>1. CASE m \in DOMAIN log
          BY <1>2, <2>1, <3>1, <3>2, <4>1, <4>2, <5>1 DEF Later
        <5>2. CASE m \notin DOMAIN log
          <6>1. log'[m].rev = row[e].rev + 1 /\ log'[n].rev <= row[e].rev /\ log'[n].rev \in Nat
            BY <1>3, <3>1, <3>2, <4>1, <4>2, <5>2 DEF Adds
          <6>2. log'[n].rev <= log'[m].rev
            BY <2>4, <6>1
          <6> QED
            BY <1>5, <3>1, <4>2, <6>2 DEF MineStays
        <5> QED
          BY <5>1, <5>2
      <4> QED
        BY <2>1, <3>1, <3>2, <4>1, <4>2 DEF Later
    <3>3. CASE n \notin DOMAIN log
      <4>1. Adds(n)
        BY <3>3
      <4>2. mine \cap log'[n].content \subseteq local[e] /\ (conflict[e].phase = "ready" => mine \cap log'[n].content \subseteq state[e].base)
        BY <2>5, <3>1, <4>1 DEF Adds
      <4>3. ASSUME NEW m \in DOMAIN log', log'[m].entity = e, state[e].rev < log'[m].rev
            PROVE  mine \cap log'[n].content \subseteq log'[m].content
        <5>1. CASE m \notin DOMAIN log
          BY <1>4, <3>1, <3>3, <4>3, <5>1
        <5>2. CASE m \in DOMAIN log
          <6>1. log'[m] = log[m] /\ log[m].rev <= row[e].rev /\ log[m].rev \in Nat
            BY <1>2, <1>3, <4>3, <5>2
          <6>2. state[e].rev < row[e].rev
            BY <2>4, <4>3, <6>1
          <6>3. mine \cap log'[n].content \subseteq row[e].content
            BY <2>4, <3>1, <4>1, <6>2 DEF Adds
          <6>4. PICK k \in DOMAIN log : log[k].entity = e /\ log[k].rev = row[e].rev /\ log[k].content = row[e].content
            BY <2>4, <6>2
          <6>5. mine \cap log[k].content \subseteq log[m].content
            BY <2>1, <4>3, <5>2, <6>1, <6>2, <6>4 DEF Later
          <6> QED
            BY <6>1, <6>3, <6>4, <6>5
        <5> QED
          BY <5>1, <5>2
      <4> QED
        BY <4>2, <4>3
    <3> QED
      BY <3>2, <3>3
  <2> QED
    BY <2>2, <2>3, <2>6 DEF MineOf
<1> QED
  BY <1>5, <1>6

(* The next edit is none of those made.                                     *)
LEMMA NextIsNew ==
  ASSUME IInv, Numbered
  PROVE  /\ NewEdit \notin Made
         /\ \A x \in Made \cup {NewEdit} : x <= Cardinality(Made \cup {NewEdit})
<1>1. IsFiniteSet(Made) /\ Cardinality(Made) \in Nat
  BY FS_Union, FS_CardinalityType DEF Made, IInv, Records
<1>2. NewEdit = Cardinality(Made) + 1
  BY DEF NewEdit, Made
<1>3. Made \subseteq Nat
  BY BoundAssumption DEF Made, IInv, TypeOK, Edits
<1>4. NewEdit \notin Made
  <2>1. \A x \in Made : x <= Cardinality(Made)
    BY DEF Numbered
  <2> QED
    BY <1>1, <1>2, <1>3, <2>1
<1>5. Cardinality(Made \cup {NewEdit}) = Cardinality(Made) + 1
  BY <1>1, <1>4, FS_AddElement
<1>6. ASSUME NEW x \in Made PROVE x <= Cardinality(Made) + 1
  <2>1. x <= Cardinality(Made) /\ x \in Nat
    BY <1>3 DEF Numbered
  <2> QED
    BY <1>1, <2>1
<1> QED
  BY <1>1, <1>2, <1>4, <1>5, <1>6

(* Commit: the own edits of the row are in the change, which adds an edit of*)
(* another device.                                                          *)
LEMMA CommitO ==
  ASSUME IInv, IInv', Clean, MineKept, NEW e \in Entities, Commit(e)
  PROVE  MineKept'
<1> DEFINE content == row[e].content \cup {NewEdit}
           g == [entity |-> e, rev |-> row[e].rev + 1, content |-> content, id |-> 0]
           head == [rev |-> row[e].rev + 1, content |-> content]
<1>1. /\ UNCHANGED <<requests, outbox, status, state, local, conflict, mine, waived>>
      /\ log' = Append(log, g) /\ row' = [row EXCEPT ![e] = head] /\ others' = others \cup {NewEdit}
      /\ Cardinality(others) < MaxCommits
  BY DEF Commit, database, run
<1>2. Typed /\ Typed' /\ Lasting(log, row, waived) /\ NewEdit \in Edits
  BY <1>1, TypedNow, TypedNext, NewEditIn DEF Clean
<1>3. /\ g \in Changes /\ g.entity = e /\ g.rev = row[e].rev + 1 /\ g.content = content
      /\ head.rev = row[e].rev + 1
  BY <1>2 DEF Changes, Typed
<1>4. Lasting(log', row', waived')
  <2>1. log \in Seq(Changes) /\ row \in Heads /\ content \in SUBSET Edits
    BY <1>2 DEF Typed
  <2>2. Covers(log, waived, e, row[e].rev, content)
    <3>1. Covers(log, waived, e, row[e].rev, row[e].content)
      BY <1>2, <2>1, RowCovers
    <3> QED
      BY <3>1, CoversMore
  <2> HIDE DEF content
  <2> QED
    BY <1>1, <1>2, <2>1, <2>2, Appended
<1> HIDE DEF g, head
<1>5. \A n \in DOMAIN log' : (n \in DOMAIN log /\ log'[n] = log[n]) \/ (n \notin DOMAIN log /\ log'[n] = g)
  BY <1>1, <1>2, <1>3, AppendProperties DEF Typed
<1>6. ServerGrown
  <2>1. \A n \in DOMAIN log : n \in DOMAIN log' /\ log'[n] = log[n]
    BY <1>1, <1>2, <1>3, AppendProperties DEF Typed
  <2>2. row'[e].rev = row[e].rev + 1 /\ \A f \in Entities : f # e => row'[f] = row[f]
    BY <1>1, <1>2, <1>3 DEF Typed, Heads
  <2>3. \A f \in Entities : row[f].rev \in Nat
    BY <1>2 DEF Typed
  <2>4. \A f \in Entities : row[f].rev <= row'[f].rev
    BY <2>2, <2>3
  <2>5. row[g.entity].rev < g.rev
    BY <1>3, <2>3
  <2>6. \A n \in DOMAIN log' : n \in DOMAIN log \/ row[log'[n].entity].rev < log'[n].rev
    BY <1>5, <2>5
  <2> QED
    BY <1>1, <2>1, <2>4, <2>6 DEF ServerGrown
<1>7. NewEdit \notin Made /\ (\A x \in Made' : x <= Cardinality(Made')) /\ Made' = Made \cup {NewEdit}
  <2>1. Made' = Made \cup {NewEdit}
    BY <1>1 DEF Made
  <2> QED
    BY <2>1, NextIsNew DEF MineKept
<1>8. row[e].content \subseteq Made
  BY <1>2, RowLogged DEF MineKept, Numbered
<1>9. Numbered'
  <2>1. \A n \in DOMAIN log' : log'[n].content \subseteq Made'
    BY <1>3, <1>5, <1>7, <1>8 DEF MineKept, Numbered
  <2>2. \A i \in DOMAIN outbox' : outbox'[i].content \subseteq Made'
    BY <1>1, <1>7 DEF MineKept, Numbered
  <2>3. \A f \in Entities : local'[f] \subseteq Made'
    BY <1>1, <1>7 DEF MineKept, Numbered
  <2> QED
    BY <1>7, <2>1, <2>2, <2>3 DEF Numbered
<1>10. \A n \in DOMAIN log' : n \notin DOMAIN log => Adds(n)
  <2>1. NewEdit \notin mine
    BY <1>7 DEF Made
  <2> QED
    BY <1>3, <1>5, <2>1 DEF Adds
<1>11. MineStays' /\ \A f \in Entities : MineOf(f)'
  BY <1>1, <1>4, <1>6, <1>10, GatewayMine
<1>12. Fresh'
  <2>1. Requested /\ Fresh /\ Grown /\ \A i \in DOMAIN outbox' : i \in DOMAIN outbox
    BY <1>1 DEF Clean, MineKept, Grown
  <2> QED
    BY <1>1, <1>2, <1>6, <2>1, FreshKept DEF ServerGrown
<1> QED
  BY <1>9, <1>11, <1>12 DEF MineKept

(* What the gateway adds on its way through a batch is of the batch.        *)
LEMMA AddedIs ==
  ASSUME IInv, NEW ids \in SUBSET DOMAIN outbox, NEW missed
  PROVE  LET t == pushAll(ids, missed) IN
         \A n \in DOMAIN t.log : n \in DOMAIN log \/ t.log[n].id \in ids
<1> DEFINE b == Len(outbox)
           Of(u) == \A n \in DOMAIN u.log : n \in DOMAIN log \/ u.log[n].id \in ids
<1>1. b \in Nat /\ DOMAIN outbox = 1 .. b
  BY Types
<1>2. PICK t : /\ IsWay(t, ids, missed, b) /\ pushAll(ids, missed) = t[b]
               /\ \A n \in 0 .. b : Handled(t[n], ids \cap (1 .. n))
  BY WayHandled
<1> HIDE DEF b
<1> DEFINE S == {n \in 0 .. b : Of(t[n])}
<1>3. \A n \in 0 .. b : t[n] = After(t, ids, missed, n)
  BY <1>2 DEF IsWay
<1>4. 0 \in S
  <2>1. t[0] = Start /\ 0 \in 0 .. b
    BY <1>1, <1>3 DEF After
  <2>2. Start.log = log
    BY DEF Start
  <2> QED
    BY <2>1, <2>2
<1>5. ASSUME NEW n \in 0 .. b, n \in S, n < b PROVE n + 1 \in S
  <2> DEFINE i == n + 1
             u == t[n]
             w == pushOne(u, i, missed)
  <2>1. i \in 0 .. b /\ i \in DOMAIN outbox /\ i - 1 = n /\ i # 0
    BY <1>1, <1>5
  <2>2. t[i] = IF i \in ids THEN w ELSE u
    BY <1>3, <2>1 DEF After
  <2>3. Of(u) /\ Handled(u, ids \cap (1 .. n))
    BY <1>2, <1>5
  <2> HIDE DEF i, u
  <2>4. ASSUME i \in ids PROVE Of(w)
    <3> DEFINE c == outbox[i]
               rev == u.row[c.entity].rev + 1
               g == [entity |-> c.entity, rev |-> rev, content |-> c.content, id |-> i]
    <3>1. /\ u.log \in Seq(Changes) /\ u.row \in Heads
          /\ u = [log |-> u.log, row |-> u.row, accepted |-> u.accepted, conflicts |-> u.conflicts]
          /\ Len(u.log) \in Nat /\ DOMAIN u.log = 1 .. Len(u.log)
      BY <2>3 DEF Handled
    <3>2. w.log = u.log \/ w.log = Append(u.log, g)
      BY <3>1 DEF pushOne
    <3>3. g.id = i /\ g \in Changes
      <4>1. c.entity \in Entities /\ c.content \in SUBSET Edits /\ i \in Nat
        BY <2>1, Types
      <4>2. rev \in Nat
        BY <3>1, <4>1 DEF Heads
      <4> QED
        BY <4>1, <4>2 DEF Changes
    <3> HIDE DEF g, w
    <3>4. CASE w.log = u.log
      BY <2>3, <3>4
    <3>5. CASE w.log = Append(u.log, g)
      <4>1. \A k \in DOMAIN w.log : w.log[k] = g \/ (k \in DOMAIN u.log /\ w.log[k] = u.log[k])
        BY <3>1, <3>3, <3>5, AppendProperties
      <4> QED
        BY <2>3, <2>4, <3>3, <4>1
    <3> QED
      BY <3>2, <3>4, <3>5
  <2> HIDE DEF w
  <2>5. Of(t[i])
    BY <2>2, <2>3, <2>4
  <2> QED
    BY <2>1, <2>5 DEF i
<1>6. 0 .. b \subseteq S
  <2> HIDE DEF S
  <2> QED
    BY <1>1, <1>4, <1>5, UpTo
<1>7. b \in S
  BY <1>1, <1>6
<1> QED
  BY <1>2, <1>7

(* push: a change that is accepted is the first of its queue, built on what *)
(* the device knows, and in its row.                                        *)
LEMMA AcceptedAdds ==
  ASSUME IInv, Clean, MineKept, NEW q \in requests, NEW i \in q.ids,
         outbox[i].base = row[outbox[i].entity].rev
  PROVE  LET e == outbox[i].entity IN
         /\ e \in Entities /\ state[e].rev = row[e].rev /\ conflict[e].phase # "ready"
         /\ mine \cap row[e].content \subseteq outbox[i].content
         /\ outbox[i].content \subseteq local[e]
<1> DEFINE e == outbox[i].entity
<1>1. i \in DOMAIN outbox /\ status[i] \in Unsynced /\ IsFirst(i)
  BY DEF MineKept, Fresh, IInv, TypeOK
<1>2. e \in Entities /\ state[e].rev \in Nat /\ row[e].rev \in Nat /\ Lasting(log, row, waived)
  BY <1>1, TypedNow DEF Typed, Clean
<1>3. DeviceOf(e) /\ Known(e) /\ FirstKnows(e)
  BY <1>2 DEF Clean, DeviceOf, MineKept, MineOf
<1>4. /\ row[e].rev <= state[e].rev
      /\ conflict[e].phase = "ready" => row[e].rev < state[e].rev
      /\ row[e].rev = state[e].rev => mine \cap state[e].base \subseteq outbox[i].content
  BY <1>1, <1>3 DEF FirstKnows
<1>5. state[e].rev <= row[e].rev
  BY <1>2, StateBehind
<1>6. state[e].rev = row[e].rev /\ conflict[e].phase # "ready" /\ mine \cap state[e].base \subseteq outbox[i].content
  <2> HIDE DEF e
  <2> QED
    BY <1>2, <1>4, <1>5
<1>7. row[e].content = state[e].base
  BY <1>2, <1>3, <1>6, RowLogged
<1>8. outbox[i].content \subseteq local[e]
  <2>1. i \in UnsyncedOf(e)
    BY <1>1 DEF UnsyncedOf
  <2> QED
    BY <1>2, <1>3, <2>1, AllInRow
<1> QED
  BY <1>2, <1>6, <1>7, <1>8

(* A batch at the gateway.                                                  *)
LEMMA pushO ==
  ASSUME IInv, IInv', Clean, MineKept, NEW q \in requests, NEW missed, push(q, missed)
  PROVE  MineKept'
<1> DEFINE t == pushAll(q.ids, missed)
           refused == TooLarge(q.ids)
<1>1. /\ UNCHANGED <<outbox, status, state, local, conflict, mine, others, waived>>
      /\ requests' \subseteq requests
      /\ IF refused THEN UNCHANGED <<log, row>> ELSE log' = t.log /\ row' = t.row
  BY DEF push, server, database
<1>2. Typed /\ Typed' /\ Lasting(log, row, waived) /\ Numbered
  BY TypedNow, TypedNext DEF Clean, MineKept
<1>3. q.ids \in SUBSET DOMAIN outbox /\ \A i \in q.ids : Built(i)
  BY DEF IInv, TypeOK, Clean, Requested
<1>4. Handled(t, q.ids) /\ Kept(t) /\ \A n \in DOMAIN t.log : n \in DOMAIN log \/ t.log[n].id \in q.ids
  BY <1>3, pushAllHandled, pushAllKept, AddedIs
<1> HIDE DEF t, refused
<1>5. ServerGrown /\ Lasting(log', row', waived')
  <2>1. CASE refused
    BY <1>1, <1>2, <2>1 DEF ServerGrown, Typed
  <2>2. CASE ~refused
    <3>1. log' = t.log /\ row' = t.row /\ waived' = waived
      BY <1>1, <2>2
    <3>2. \A n \in DOMAIN log : n \in DOMAIN t.log /\ t.log[n] = log[n]
      BY <1>2, <1>4 DEF Handled, Typed
    <3> QED
      BY <1>4, <3>1, <3>2 DEF ServerGrown, Kept
  <2> QED
    BY <2>1, <2>2
<1>6. ASSUME NEW n \in DOMAIN log', n \notin DOMAIN log
      PROVE  \E i \in q.ids :
               /\ log'[n].entity = outbox[i].entity /\ log'[n].content = outbox[i].content
               /\ log'[n].rev = row[outbox[i].entity].rev + 1 /\ outbox[i].base = row[outbox[i].entity].rev
  <2>1. log' = t.log
    BY <1>1, <1>6
  <2>2. PICK i \in q.ids : i = t.log[n].id
    BY <1>4, <1>6, <2>1
  <2>3. i # 0 /\ i \in DOMAIN outbox
    BY <1>3, Types
  <2>4. t.log[n].entity = outbox[i].entity /\ t.log[n].rev = outbox[i].base + 1 /\ t.log[n].content = outbox[i].content
    BY <1>4, <1>6, <2>1, <2>2, <2>3 DEF Handled, Logged
  <2>5. row[outbox[i].entity].rev < t.log[n].rev
    BY <1>4, <1>6, <2>1, <2>4 DEF Kept
  <2>6. outbox[i].base <= row[outbox[i].entity].rev
    BY <1>3 DEF Built, BuiltOn
  <2>7. outbox[i].base \in Nat /\ row[outbox[i].entity].rev \in Nat
    BY <1>2, <2>3 DEF Typed
  <2>8. outbox[i].base = row[outbox[i].entity].rev
    BY <2>4, <2>5, <2>6, <2>7
  <2> QED
    BY <2>1, <2>4, <2>8
<1>7. \A n \in DOMAIN log' : n \notin DOMAIN log => Adds(n)
  BY <1>6, AcceptedAdds DEF Adds
<1>8. MineStays' /\ \A e \in Entities : MineOf(e)'
  BY <1>1, <1>5, <1>7, GatewayMine
<1>9. Fresh'
  <2>1. Requested /\ Fresh /\ Grown /\ \A i \in DOMAIN outbox' : i \in DOMAIN outbox
    BY <1>1 DEF Clean, MineKept, Grown
  <2> QED
    BY <1>1, <1>2, <1>5, <2>1, FreshKept DEF ServerGrown
<1>10. Numbered'
  <2>1. Made' = Made
    BY <1>1 DEF Made
  <2>2. \A n \in DOMAIN log' : log'[n].content \subseteq Made
    <3>1. \A n \in DOMAIN log : log'[n] = log[n]
      BY <1>5 DEF ServerGrown
    <3>2. \A i \in q.ids : outbox[i].content \subseteq Made
      BY <1>2, <1>3 DEF Numbered
    <3> QED
      BY <1>2, <1>6, <3>1, <3>2 DEF Numbered
  <2> QED
    BY <1>1, <1>2, <2>1, <2>2 DEF Numbered
<1> QED
  BY <1>8, <1>9, <1>10 DEF MineKept

-----------------------------------------------------------------------------
(* Steps that only change where rows of the outbox wait                     *)

(* What is unsynced stays so.                                               *)
LEMMA QuietO ==
  ASSUME IInv, Clean, MineKept, UNCHANGED <<log, outbox, state, local, conflict, mine, others>>,
         \A i \in DOMAIN outbox : status'[i] \in Unsynced <=> status[i] \in Unsynced
  PROVE  Numbered' /\ MineStays' /\ \A e \in Entities : MineOf(e)'
<1>1. NoneNew /\ Grown
  BY DEF NoneNew, Grown
<1>2. ASSUME NEW e \in Entities PROVE MineOf(e)'
  <2>1. Known(e) /\ MineOf(e)
    BY DEF Clean, DeviceOf, MineKept
  <2> QED
    BY <1>1, <2>1, MineOfKept
<1>3. MineStays'
  BY <1>1, MineStaysKept DEF MineKept
<1>4. Numbered'
  BY DEF MineKept, Numbered, Made
<1> QED
  BY <1>2, <1>3, <1>4

(* run_locked, pushedAll, pulledAll, Fault and mark_dead_letter.            *)
LEMMA WaitingO ==
  ASSUME IInv, IInv', Clean, MineKept, UNCHANGED <<log, row, outbox, state, local, conflict, mine, others>>,
         requests' \subseteq requests,
         \A i \in DOMAIN outbox : status'[i] \in Unsynced <=> status[i] \in Unsynced
  PROVE  MineKept'
<1>1. Numbered' /\ MineStays' /\ \A e \in Entities : MineOf(e)'
  BY QuietO
<1>2. Fresh'
  <2>1. Requested /\ Fresh /\ Grown /\ \A i \in DOMAIN outbox' : i \in DOMAIN outbox
    BY DEF Clean, MineKept, Grown
  <2>2. Typed' /\ \A e \in Entities : row[e].rev <= row'[e].rev
    BY TypedNow, TypedNext DEF Typed
  <2> QED
    BY <2>1, <2>2, FreshKept
<1> QED
  BY <1>1, <1>2 DEF MineKept

(* What was in flight waits again, or is stuck.                             *)
LEMMA UnflownO ==
  ASSUME IInv, IInv', Clean, MineKept, UNCHANGED <<log, row, outbox, state, local, conflict, mine, others>>,
         NEW s \in {"pending", "dead_letter"}, status' = Marked(status, InFlight, s), requests' \subseteq requests
  PROVE  MineKept'
<1>1. \A i \in DOMAIN outbox : status'[i] = IF status[i] = "in_flight" THEN s ELSE status[i]
  <2>1. s \in Statuses /\ status \in [DOMAIN outbox -> Statuses]
    BY DEF Statuses, Unsynced, IInv, TypeOK
  <2>2. \A i \in DOMAIN outbox : status'[i] = IF i \in InFlight THEN s ELSE status[i]
    BY <2>1, MarkedIs
  <2> QED
    BY <2>2 DEF InFlight
<1>2. \A i \in DOMAIN outbox : status'[i] \in Unsynced <=> status[i] \in Unsynced
  BY <1>1 DEF Unsynced
<1> QED
  BY <1>2, WaitingO

(* claim_pending: a new request holds first changes only.                   *)
LEMMA claim_pendingO == ASSUME IInv, IInv', Clean, MineKept, claim_pending, ~exposed' PROVE MineKept'
<1> DEFINE q == [ids |-> Claimed, sent |-> faults, at |-> Len(log)]
<1>1. /\ UNCHANGED <<log, row, outbox, state, local, conflict, mine, others>>
      /\ pc = "push" /\ Claimed # {}
      /\ status' = Marked(status, Claimed, "in_flight") /\ requests' = requests \cup {q}
      /\ exposed' = (exposed \/ \E i, j \in Claimed : i # j /\ outbox[i].entity = outbox[j].entity)
  BY DEF claim_pending, server
<1>2. \A i, j \in Claimed : outbox[i].entity = outbox[j].entity => i = j
  BY <1>1
<1>3. Claimed \subseteq DOMAIN outbox /\ \A i \in Claimed : status[i] = "pending"
  BY <1>1, ClaimedIs
<1>4. \A i \in DOMAIN outbox : status[i] # "in_flight"
  BY <1>1 DEF IInv, ReplyTrue, InFlight
<1>5. \A i \in DOMAIN outbox : status'[i] = IF i \in Claimed THEN "in_flight" ELSE status[i]
  <2>1. "in_flight" \in Statuses /\ status \in [DOMAIN outbox -> Statuses]
    BY DEF Statuses, Unsynced, IInv, TypeOK
  <2> QED
    BY <1>1, <2>1, MarkedIs
<1>6. \A i \in DOMAIN outbox : status'[i] \in Unsynced <=> status[i] \in Unsynced
  BY <1>3, <1>5 DEF Unsynced
<1>7. Numbered' /\ MineStays' /\ \A e \in Entities : MineOf(e)'
  BY <1>1, <1>6, QuietO
<1>8. \A i \in DOMAIN outbox : IsFirst(i) => IsFirst(i)'
  BY <1>1, <1>6 DEF IsFirst, Before
<1>9. Fresh'
  <2>1. SUFFICES ASSUME NEW p \in requests', NEW i \in p.ids, outbox[i].base = row[outbox[i].entity].rev
                 PROVE  status'[i] \in Unsynced /\ IsFirst(i)'
    BY <1>1 DEF Fresh
  <2>2. i \in DOMAIN outbox /\ status[i] \in Unsynced /\ IsFirst(i)
    <3>1. CASE p \in requests
      BY <2>1, <3>1 DEF MineKept, Fresh, IInv, TypeOK
    <3>2. CASE p = q
      <4>1. i \in Claimed
        BY <3>2
      <4>2. IsFirst(i)
        BY <1>1, <1>2, <1>4, <4>1, ClaimedFirst
      <4> QED
        BY <1>3, <4>1, <4>2 DEF Unsynced
    <3> HIDE DEF q
    <3> QED
      BY <1>1, <3>1, <3>2
  <2> QED
    BY <1>6, <1>8, <2>2
<1> QED
  BY <1>7, <1>9 DEF MineKept

-----------------------------------------------------------------------------
(* The answer to a push                                                     *)

(* An accepted change is what the device knows next, and the one after it is*)
(* built on it.                                                             *)
LEMMA AcceptedO ==
  ASSUME IInv, Lasting(log, row, waived), NEW e \in Entities, DeviceOf(e), MineOf(e),
         UNCHANGED <<log, outbox, local, mine>>, conflict'[e] = conflict[e],
         NEW i \in DOMAIN outbox, outbox[i].entity = e, status[i] = "in_flight", status'[i] = "synced",
         \A j \in DOMAIN outbox : outbox[j].entity = e /\ j # i => status'[j] = status[j],
         state'[e].rev = outbox[i].base + 1, state'[e].base = outbox[i].content,
         NEW p \in DOMAIN log, log[p].entity = e, log[p].rev = outbox[i].base + 1
  PROVE  MineOf(e)' /\ outbox[i].base < row[e].rev
<1> DEFINE c == outbox[i]
<1>1. /\ IsFirst(i) /\ conflict[e].phase = "none"
      /\ \A j \in DOMAIN outbox : outbox[j].entity = e /\ j # i /\ status[j] \in Unsynced =>
           Before(i, j) /\ status[j] # "in_flight"
  BY FlightIs
<1>2. /\ "in_flight" \in Unsynced /\ "in_flight" \in Active /\ "synced" \notin Unsynced
      /\ \A s \in Unsynced : s \in Active \/ s \in Stuck
  BY DEF Unsynced, Active, Stuck
<1>3. c.base = state[e].rev /\ c.base \in Nat
  <2>1. c.base <= state[e].rev
    BY <1>1, <1>2 DEF MineOf, FirstKnows
  <2>2. state[e].rev <= c.base
    BY <1>2 DEF IInv, AheadOf
  <2>3. c.base \in Nat /\ state[e].rev \in Nat
    BY Types
  <2> HIDE DEF c
  <2> QED
    BY <2>1, <2>2, <2>3
<1>4. outbox[i].base < row[e].rev
  <2>1. log[p].rev <= row[e].rev /\ row[e].rev \in Nat
    BY Types DEF Lasting
  <2> QED
    BY <1>3, <2>1
<1>5. FirstKnows(e)'
  <2>1. SUFFICES ASSUME NEW j \in DOMAIN outbox, outbox[j].entity = e, status'[j] \in Unsynced, IsFirst(j)'
                 PROVE  outbox[j].base = c.base + 1 /\ c.content \subseteq outbox[j].content
    <3>1. c.base + 1 \in Nat
      BY <1>3
    <3> QED
      BY <1>1, <3>1 DEF FirstKnows
  <2>2. j # i /\ status[j] \in Unsynced /\ Before(i, j) /\ status[j] # "in_flight"
    BY <1>1, <1>2, <2>1
  <2>3. status[j] \in Active
    <3>1. SUFFICES ASSUME status[j] \in Stuck PROVE FALSE
      BY <1>2, <2>2
    <3> QED
      BY <1>2, <2>1, <3>1 DEF IInv, QueuedIn
  <2>4. IsNext(i, j)
    <3>1. \A l \in DOMAIN outbox : Before(l, j) => status'[l] \notin Unsynced
      BY <2>1 DEF IsFirst, Before
    <3>2. ASSUME NEW l \in DOMAIN outbox, Before(i, l), l < j PROVE status[l] \notin Active
      <4>1. Before(l, j) /\ outbox[l].entity = e /\ l # i
        <5>1. i < l /\ i \in Nat /\ l \in Nat
          BY <3>2, Types DEF Before
        <5> QED
          BY <2>1, <3>2, <5>1 DEF Before
      <4> QED
        BY <3>1, <4>1 DEF Active, Unsynced
    <3> QED
      BY <2>2, <3>2 DEF IsNext
  <2> QED
    BY <1>2, <2>2, <2>3, <2>4 DEF DeviceOf, Chained
<1>6. Held(e)'
  <2>1. i \in UnsyncedOf(e)
    BY <1>2 DEF UnsyncedOf
  <2>2. c.content \subseteq local[e]
    BY <2>1, AllInRow
  <2> QED
    BY <1>1, <2>2 DEF Held
<1>7. Later(e)'
  <2>1. \A n \in DOMAIN log : state'[e].rev < log[n].rev => state[e].rev < log[n].rev
    <3>1. \A n \in DOMAIN log : log[n].rev \in Nat
      BY Types
    <3> QED
      BY <1>3, <3>1
  <2> QED
    BY <1>1, <2>1 DEF MineOf, Later
<1> QED
  BY <1>4, <1>5, <1>6, <1>7 DEF MineOf

(* A refused one begins a conflict, whose base is what the device knows.    *)
LEMMA RefusedO ==
  ASSUME IInv, NEW e \in Entities, DeviceOf(e), MineOf(e),
         UNCHANGED <<log, outbox, local, mine>>, state'[e] = state[e],
         NEW i \in DOMAIN outbox, outbox[i].entity = e, status[i] = "in_flight", status'[i] = "conflict",
         \A j \in DOMAIN outbox : outbox[j].entity = e /\ j # i => status'[j] = status[j],
         conflict'[e].phase = "waiting", conflict'[e].base = state[e].base
  PROVE  MineOf(e)'
<1>1. \A j \in DOMAIN outbox : outbox[j].entity = e => (status'[j] \in Unsynced <=> status[j] \in Unsynced)
  BY DEF Unsynced
<1>2. FirstKnows(e)'
  <2>1. \A j \in DOMAIN outbox : outbox[j].entity = e /\ IsFirst(j)' => IsFirst(j)
    BY <1>1 DEF IsFirst, Before
  <2> QED
    BY <1>1, <2>1 DEF MineOf, FirstKnows
<1>3. Held(e)'
  <2>1. Known(e) /\ state[e].rev \in Nat
    BY Types DEF DeviceOf
  <2>2. \/ state[e].base = {}
        \/ \E n \in DOMAIN log : log[n].entity = e /\ log[n].rev <= state[e].rev /\ log[n].content = state[e].base
    BY <2>1, BaseLogged
  <2> QED
    BY <2>2 DEF MineOf, Held
<1>4. Later(e)'
  BY DEF MineOf, Later
<1> QED
  BY <1>2, <1>3, <1>4 DEF MineOf

(* apply_push_result.                                                       *)
LEMMA apply_push_resultO == ASSUME IInv, IInv', Clean, MineKept, apply_push_result PROVE MineKept'
<1>1. UNCHANGED <<log, row, requests, outbox, local, mine, others>>
  BY AnswerIs
<1>2. Grown /\ NoneNew /\ Lasting(log, row, waived) /\ Requested /\ Fresh /\ Typed'
  BY <1>1, TypedNext DEF Grown, NoneNew, Clean, MineKept
<1>3. ASSUME NEW e \in Entities
      PROVE  /\ MineOf(e)'
             /\ \A i \in DOMAIN outbox : outbox[i].entity = e =>
                  /\ status'[i] \in Unsynced => status[i] \in Unsynced
                  /\ outbox[i].base = row[e].rev /\ status[i] \in Unsynced => status'[i] \in Unsynced
  <2>1. DeviceOf(e) /\ Known(e) /\ MineOf(e)
    BY DEF Clean, DeviceOf, MineKept
  <2>2. CASE \A i \in DOMAIN outbox : outbox[i].entity = e => status[i] # "in_flight"
    <3>1. /\ state'[e] = state[e] /\ conflict'[e] = conflict[e] /\ local'[e] = local[e]
          /\ \A i \in DOMAIN outbox : outbox[i].entity = e => status'[i] = status[i]
      BY <2>2, AnswerNone
    <3>2. \A i \in DOMAIN outbox' : i \notin DOMAIN outbox => outbox'[i].entity # e
      BY <1>1
    <3>3. MineOf(e)'
      BY <1>1, <1>2, <2>1, <3>1, <3>2, MineOfKept
    <3> QED
      BY <3>1, <3>3
  <2>3. ASSUME NEW i \in DOMAIN outbox, outbox[i].entity = e, status[i] = "in_flight"
        PROVE  /\ MineOf(e)'
               /\ status[i] \in Unsynced
               /\ \A j \in DOMAIN outbox : outbox[j].entity = e /\ j # i => status'[j] = status[j]
               /\ outbox[i].base = row[e].rev => status'[i] \in Unsynced
    <3>1. /\ \A j \in DOMAIN outbox : outbox[j].entity = e /\ j # i => status'[j] = status[j]
          /\ \/ /\ status'[i] = "conflict" /\ state'[e] = state[e]
                /\ conflict'[e].rev \in Nat /\ outbox[i].base < conflict'[e].rev
                /\ conflict'[e].phase = "waiting" /\ conflict'[e].base = state[e].base
             \/ /\ status'[i] = "synced" /\ conflict'[e] = conflict[e]
                /\ state'[e].rev = outbox[i].base + 1 /\ state'[e].base = outbox[i].content
                /\ \E n \in DOMAIN log :
                     log[n].entity = e /\ log[n].rev = outbox[i].base + 1 /\ log[n].content = outbox[i].content
      BY <2>3, AnswerOf
    <3>2. status[i] \in Unsynced
      BY <2>3 DEF Unsynced
    <3>3. CASE /\ status'[i] = "conflict" /\ state'[e] = state[e]
               /\ conflict'[e].phase = "waiting" /\ conflict'[e].base = state[e].base
      <4>1. MineOf(e)'
        BY <1>1, <2>1, <2>3, <3>1, <3>3, RefusedO
      <4> QED
        BY <3>1, <3>2, <3>3, <4>1 DEF Unsynced
    <3>4. CASE /\ status'[i] = "synced" /\ conflict'[e] = conflict[e]
               /\ state'[e].rev = outbox[i].base + 1 /\ state'[e].base = outbox[i].content
               /\ \E n \in DOMAIN log :
                    log[n].entity = e /\ log[n].rev = outbox[i].base + 1 /\ log[n].content = outbox[i].content
      <4>1. PICK p \in DOMAIN log : log[p].entity = e /\ log[p].rev = outbox[i].base + 1
        BY <3>4
      <4>2. MineOf(e)' /\ outbox[i].base < row[e].rev
        BY <1>1, <1>2, <2>1, <2>3, <3>1, <3>4, <4>1, AcceptedO
      <4>3. outbox[i].base \in Nat /\ row[e].rev \in Nat
        BY Types
      <4> QED
        BY <3>1, <3>2, <4>2, <4>3
    <3> QED
      BY <3>1, <3>3, <3>4
  <2> QED
    BY <2>2, <2>3
<1>4. Fresh'
  <2>1. \A i \in DOMAIN outbox : outbox[i].entity \in Entities
    BY Types
  <2>2. \A i \in DOMAIN outbox : status'[i] \in Unsynced => status[i] \in Unsynced
    BY <1>3, <2>1
  <2>3. \A i \in DOMAIN outbox :
          outbox[i].base = row[outbox[i].entity].rev /\ status[i] \in Unsynced /\ IsFirst(i) => status'[i] \in Unsynced
    BY <1>3, <2>1
  <2>4. /\ \A i \in DOMAIN outbox' : i \in DOMAIN outbox
        /\ \A e \in Entities : row[e].rev <= row'[e].rev
    BY <1>1, Types
  <2> QED
    BY <1>1, <1>2, <2>2, <2>3, <2>4, FreshKept
<1>5. MineStays' /\ Numbered'
  BY <1>1, <1>2, MineStaysKept DEF MineKept, Numbered, Made
<1> QED
  BY <1>3, <1>4, <1>5 DEF MineKept

-----------------------------------------------------------------------------
(* The user                                                                 *)

(* A step that concerns one entity.                                         *)
LEMMA OneEntityO ==
  ASSUME IInv, IInv', Clean, MineKept, UNCHANGED <<log, row>>, requests' \subseteq requests, NoneNew,
         NEW e \in Entities, OthersKept(e), \A f \in Entities : f # e => state'[f] = state[f],
         \A i \in DOMAIN outbox : outbox[i].entity = e =>
           /\ status'[i] \in Unsynced => status[i] \in Unsynced
           /\ outbox[i].base = row[e].rev /\ status[i] \in Unsynced /\ IsFirst(i) => status'[i] \in Unsynced,
         MineOf(e)', Numbered'
  PROVE  MineKept'
<1>1. /\ Grown
      /\ \A f \in Entities : f # e => local'[f] = local[f] /\ conflict'[f] = conflict[f]
      /\ \A i \in DOMAIN outbox : outbox[i].entity # e => status'[i] = status[i]
      /\ \A i \in DOMAIN outbox' : i \notin DOMAIN outbox => outbox'[i].entity = e
  BY DEF OthersKept
<1>2. ASSUME NEW f \in Entities PROVE MineOf(f)'
  <2>1. CASE f = e
    BY <2>1
  <2>2. CASE f # e
    <3>1. Known(f) /\ MineOf(f)
      BY DEF Clean, DeviceOf, MineKept
    <3> QED
      BY <1>1, <2>2, <3>1, MineOfKept
  <2> QED
    BY <2>1, <2>2
<1>3. Fresh'
  <2>1. Requested /\ Fresh /\ Typed /\ Typed'
    BY TypedNow, TypedNext DEF Clean, MineKept
  <2>2. ASSUME NEW i \in DOMAIN outbox, NEW k \in DOMAIN outbox', k \notin DOMAIN outbox PROVE i < k
    <3>1. DOMAIN outbox = 1 .. Len(outbox) /\ DOMAIN outbox' = 1 .. Len(outbox') /\ Len(outbox) \in Nat /\ Len(outbox') \in Nat
      BY <2>1 DEF Typed
    <3> QED
      BY <2>2, <3>1
  <2>3. \A i \in DOMAIN outbox : status'[i] \in Unsynced => status[i] \in Unsynced
    BY <1>1
  <2>4. \A i \in DOMAIN outbox :
          outbox[i].base = row[outbox[i].entity].rev /\ status[i] \in Unsynced /\ IsFirst(i) => status'[i] \in Unsynced
    BY <1>1
  <2>5. \A f \in Entities : row[f].rev <= row'[f].rev
    BY <2>1 DEF Typed
  <2> QED
    BY <1>1, <2>1, <2>2, <2>3, <2>4, <2>5, FreshKept
<1>4. MineStays'
  BY MineStaysKept DEF MineKept
<1> QED
  BY <1>2, <1>3, <1>4 DEF MineKept

(* One new change in place of all, on what the device knows.                *)
LEMMA AloneMine ==
  ASSUME NEW e \in Entities, NEW k, DOMAIN outbox' = DOMAIN outbox \cup {k}, Grown,
         \A i \in DOMAIN outbox : outbox[i].entity = e => status'[i] = "synced",
         outbox'[k].base = state'[e].rev, state'[e].rev \in Nat, outbox'[k].content = local'[e],
         conflict'[e].phase = "none", mine' \cap state'[e].base \subseteq local'[e], Later(e)'
  PROVE  MineOf(e)'
<1>1. \A i \in DOMAIN outbox' : outbox'[i].entity = e /\ status'[i] \in Unsynced => i = k
  BY DEF Grown, Unsynced
<1>2. FirstKnows(e)'
  BY <1>1 DEF FirstKnows
<1>3. Held(e)'
  BY DEF Held
<1> QED
  BY <1>2, <1>3 DEF MineOf

(* Nothing left to publish: the row is what the device knows.               *)
LEMMA NothingMine ==
  ASSUME NEW e \in Entities,
         \A i \in DOMAIN outbox' : outbox'[i].entity = e => status'[i] = "synced",
         local'[e] = state'[e].base, conflict'[e].phase = "none", Later(e)'
  PROVE  MineOf(e)'
<1>1. FirstKnows(e)'
  BY DEF FirstKnows, Unsynced
<1>2. Held(e)'
  BY DEF Held
<1> QED
  BY <1>1, <1>2 DEF MineOf

(* edit: the row has one more own edit, that nobody else has yet.           *)
LEMMA editO == ASSUME IInv, IInv', Clean, MineKept, NEW e \in Entities, edit(e) PROVE MineKept'
<1> DEFINE content == local[e] \cup {NewEdit}
           k == Len(outbox) + 1
           base == planned_base_revision(status, state[e].rev, e)
<1>1. /\ UNCHANGED <<log, row, requests, state, conflict, others>>
      /\ local' = [local EXCEPT ![e] = content] /\ mine' = mine \cup {NewEdit}
      /\ enqueue_projection(status, state[e].rev, e, content, NewEdit)
  BY DEF edit, server
<1>2. /\ Grown /\ \A i \in DOMAIN outbox : status'[i] = status[i]
      /\ DOMAIN outbox' = DOMAIN outbox \cup {k} /\ k \notin DOMAIN outbox
      /\ \A i \in DOMAIN outbox : i < k
      /\ outbox'[k].entity = e /\ outbox'[k].content = content /\ outbox'[k].base = base
  <2>1. status \in [DOMAIN outbox -> Statuses]
    BY DEF IInv, TypeOK
  <2>2. RowAdded(k, status, base, e, content)
    BY <1>1, <2>1, NewRow
  <2> HIDE DEF content, k, base
  <2> QED
    BY <2>2 DEF RowAdded
<1>3. local'[e] = content /\ \A f \in Entities : f # e => local'[f] = local[f]
  BY <1>1 DEF IInv, TypeOK
<1>4. /\ NewEdit \notin Made /\ Made' = Made \cup {NewEdit}
      /\ \A x \in Made' : x <= Cardinality(Made')
  <2>1. Made' = Made \cup {NewEdit}
    BY <1>1 DEF Made
  <2> QED
    BY <2>1, NextIsNew DEF MineKept
<1>5. NoneNew
  BY <1>1, <1>4 DEF NoneNew, MineKept, Numbered
<1>6. Known(e) /\ FirstKnows(e) /\ Held(e) /\ Later(e)
  BY DEF Clean, DeviceOf, MineKept, MineOf
<1>7. /\ mine' \cap state[e].base \subseteq mine
      /\ conflict[e].phase # "none" => mine' \cap conflict[e].base \subseteq mine
  BY <1>5, <1>6, NoneNewIn
<1>8. local[e] \subseteq content
  OBVIOUS
<1>9. base = IF RowsIn(status, e, {"pending", "in_flight"}) = {} THEN state[e].rev
             ELSE outbox[Latest(RowsIn(status, e, {"pending", "in_flight"}))].base + 1
  BY DEF planned_base_revision
<1>10. Numbered'
  <2>1. \A i \in DOMAIN outbox' : outbox'[i].content \subseteq Made'
    <3>1. content \subseteq Made'
      BY <1>4 DEF MineKept, Numbered
    <3> HIDE DEF content, k
    <3> QED
      BY <1>2, <1>4, <3>1 DEF MineKept, Numbered, Grown
  <2>2. \A f \in Entities : local'[f] \subseteq Made'
    BY <1>3, <1>4 DEF MineKept, Numbered
  <2>3. \A n \in DOMAIN log' : log'[n].content \subseteq Made'
    BY <1>1, <1>4 DEF MineKept, Numbered
  <2> QED
    BY <1>4, <2>1, <2>2, <2>3 DEF Numbered
<1> HIDE DEF content, k, base
<1>11. FirstKnows(e)'
  <2>1. SUFFICES ASSUME NEW i \in DOMAIN outbox', outbox'[i].entity = e, status'[i] \in Unsynced, IsFirst(i)'
                 PROVE  /\ outbox'[i].base <= state[e].rev
                        /\ conflict[e].phase = "ready" => outbox'[i].base < state[e].rev
                        /\ outbox'[i].base = state[e].rev => mine' \cap state[e].base \subseteq outbox'[i].content
    BY <1>1 DEF FirstKnows
  <2>2. ASSUME NEW j \in DOMAIN outbox, Before(j, i)' PROVE status[j] \notin Unsynced
    BY <1>2, <2>1, <2>2 DEF IsFirst
  <2>3. CASE i \in DOMAIN outbox
    <3>1. outbox'[i] = outbox[i] /\ status[i] \in Unsynced /\ outbox[i].entity = e
      BY <1>2, <2>1, <2>3 DEF Grown
    <3>2. IsFirst(i)
      BY <1>2, <2>2, <3>1 DEF IsFirst, Before, Grown
    <3> QED
      BY <1>6, <1>7, <2>3, <3>1, <3>2 DEF FirstKnows
  <2>4. CASE i = k
    <3>1. \A j \in DOMAIN outbox : outbox[j].entity = e => status[j] \notin Unsynced
      BY <1>2, <2>2, <2>4 DEF Before, Grown
    <3>2. conflict[e].phase = "none"
      BY <3>1 DEF IInv, VisibleFor, Stuck, Unsynced
    <3>3. RowsIn(status, e, {"pending", "in_flight"}) = {}
      BY <3>1 DEF RowsIn, Rows, Unsynced
    <3>4. state[e].rev \in Nat
      BY Types
    <3> QED
      BY <1>2, <1>6, <1>7, <1>8, <1>9, <2>4, <3>2, <3>3, <3>4 DEF Held
  <2> QED
    BY <1>2, <2>3, <2>4
<1>12. Held(e)'
  BY <1>1, <1>3, <1>6, <1>7, <1>8 DEF Held
<1>13. Later(e)'
  <2>1. \A n \in DOMAIN log : mine' \cap log[n].content \subseteq mine
    BY <1>5 DEF NoneNew
  <2> QED
    BY <1>1, <1>3, <1>6, <1>8, <2>1 DEF Later
<1>14. MineOf(e)'
  BY <1>11, <1>12, <1>13 DEF MineOf
<1>15. OthersKept(e)
  BY <1>1, <1>2, <1>3 DEF OthersKept
<1> QED
  BY <1>1, <1>2, <1>5, <1>10, <1>14, <1>15, OneEntityO

(* While a conflict is ready, no change of its entity is accepted any more. *)
LEMMA ReadyRests ==
  ASSUME IInv, Clean, MineKept, NEW e \in Entities, conflict[e].phase = "ready",
         NEW i \in DOMAIN outbox, outbox[i].entity = e, status[i] \in Unsynced, IsFirst(i)
  PROVE  outbox[i].base # row[e].rev
<1>1. outbox[i].base < state[e].rev
  BY DEF MineKept, MineOf, FirstKnows
<1>2. state[e].rev <= row[e].rev
  BY StateBehind DEF Clean
<1>3. outbox[i].base \in Nat /\ state[e].rev \in Nat /\ row[e].rev \in Nat
  BY Types
<1> QED
  BY <1>1, <1>2, <1>3

(* keep_local: the side that is kept has the own edits that the gateway has.*)
LEMMA keep_localO == ASSUME IInv, IInv', Clean, MineKept, NEW e \in Entities, keep_local(e) PROVE MineKept'
<1> DEFINE cleared == Marked(status, RowsIn(status, e, Unsynced), "synced")
           chosen == conflict[e].local
           k == Len(outbox) + 1
<1>1. /\ UNCHANGED <<log, row, requests, state, mine, others>>
      /\ conflict[e].phase = "ready" /\ conflict' = [conflict EXCEPT ![e] = NoConflict]
      /\ local' = [local EXCEPT ![e] = chosen]
      /\ enqueue_projection(cleared, state[e].rev, e, chosen, 0)
  BY DEF keep_local, Superseded, server
<1>2. /\ cleared \in [DOMAIN outbox -> Statuses]
      /\ \A i \in DOMAIN outbox : cleared[i] = IF outbox[i].entity = e THEN "synced" ELSE status[i]
  <2>1. status \in [DOMAIN outbox -> Statuses] /\ QueuedIn(status) /\ AheadOf(status, state)
    BY DEF IInv, TypeOK
  <2> QED
    BY <2>1, GiveWay
<1> HIDE DEF cleared
<1>3. RowsIn(cleared, e, {"pending", "in_flight"}) = {}
  BY <1>2 DEF RowsIn, Rows
<1>4. RowAdded(k, cleared, state[e].rev, e, chosen)
  <2>1. RowAdded(k, cleared, planned_base_revision(cleared, state[e].rev, e), e, chosen)
    BY <1>1, <1>2, NewRow
  <2> QED
    BY <1>3, <2>1 DEF planned_base_revision
<1> HIDE DEF k
<1>5. /\ DOMAIN outbox' = DOMAIN outbox \cup {k} /\ Grown
      /\ \A i \in DOMAIN outbox : status'[i] = IF outbox[i].entity = e THEN "synced" ELSE status[i]
      /\ outbox'[k].entity = e /\ outbox'[k].content = chosen /\ outbox'[k].base = state[e].rev
  BY <1>2, <1>4 DEF RowAdded
<1>6. /\ local'[e] = chosen /\ conflict'[e] = NoConflict /\ NoConflict.phase = "none"
      /\ \A f \in Entities : f # e => local'[f] = local[f] /\ conflict'[f] = conflict[f]
  BY <1>1 DEF IInv, TypeOK, NoConflict
<1>7. Held(e) /\ Later(e) /\ Numbered
  BY DEF MineKept, MineOf
<1>8. chosen \subseteq local[e] /\ mine \cap state[e].base \subseteq chosen
  BY <1>1, <1>7 DEF Held
<1> HIDE DEF chosen
<1>9. Later(e)'
  BY <1>1, <1>6, <1>7, <1>8 DEF Later
<1>10. MineOf(e)'
  <2>1. \A i \in DOMAIN outbox : outbox[i].entity = e => status'[i] = "synced"
    BY <1>5
  <2>2. state'[e].rev \in Nat /\ outbox'[k].base = state'[e].rev /\ mine' \cap state'[e].base \subseteq local'[e]
    BY <1>1, <1>5, <1>6, <1>8, Types
  <2>3. conflict'[e].phase = "none" /\ outbox'[k].content = local'[e]
    BY <1>5, <1>6
  <2> QED
    BY <1>5, <1>9, <2>1, <2>2, <2>3, AloneMine
<1>11. Numbered'
  <2>1. Made' = Made /\ chosen \subseteq Made
    BY <1>1, <1>7, <1>8 DEF Made, Numbered
  <2>2. \A i \in DOMAIN outbox' : outbox'[i].content \subseteq Made
    BY <1>5, <1>7, <2>1 DEF Numbered, Grown
  <2>3. \A f \in Entities : local'[f] \subseteq Made
    BY <1>6, <1>7, <2>1 DEF Numbered
  <2> QED
    BY <1>1, <1>7, <2>1, <2>2, <2>3 DEF Numbered
<1>12. OthersKept(e)
  BY <1>5, <1>6 DEF OthersKept
<1>13. \A i \in DOMAIN outbox : outbox[i].entity = e =>
         /\ status'[i] \notin Unsynced
         /\ ~(outbox[i].base = row[e].rev /\ status[i] \in Unsynced /\ IsFirst(i))
  BY <1>1, <1>5, ReadyRests DEF Unsynced
<1>14. NoneNew
  BY <1>1 DEF NoneNew
<1> QED
  BY <1>1, <1>10, <1>11, <1>12, <1>13, <1>14, OneEntityO

(* keep_remote: the row is what the device knows.                           *)
LEMMA keep_remoteO == ASSUME IInv, IInv', Clean, MineKept, NEW e \in Entities, keep_remote(e) PROVE MineKept'
<1> DEFINE cleared == Marked(status, RowsIn(status, e, Unsynced), "synced")
<1>1. /\ UNCHANGED <<log, row, requests, outbox, state, mine, others>>
      /\ conflict[e].phase = "ready" /\ conflict' = [conflict EXCEPT ![e] = NoConflict]
      /\ local' = [local EXCEPT ![e] = conflict[e].remote] /\ status' = cleared
  BY DEF keep_remote, Superseded, server
<1>2. \A i \in DOMAIN outbox : status'[i] = IF outbox[i].entity = e THEN "synced" ELSE status[i]
  <2>1. status \in [DOMAIN outbox -> Statuses] /\ QueuedIn(status) /\ AheadOf(status, state)
    BY DEF IInv, TypeOK
  <2> QED
    BY <1>1, <2>1, GiveWay
<1> HIDE DEF cleared
<1>3. /\ local'[e] = conflict[e].remote /\ conflict'[e] = NoConflict /\ NoConflict.phase = "none"
      /\ \A f \in Entities : f # e => local'[f] = local[f] /\ conflict'[f] = conflict[f]
  BY <1>1 DEF IInv, TypeOK, NoConflict
<1>4. Known(e) /\ Later(e) /\ Numbered
  BY DEF MineKept, MineOf, Clean, DeviceOf
<1>5. local'[e] = state[e].base
  BY <1>1, <1>3, <1>4 DEF Known
<1>6. Later(e)'
  BY <1>1, <1>3, <1>4, <1>5 DEF Later
<1>7. MineOf(e)'
  BY <1>1, <1>2, <1>3, <1>5, <1>6, NothingMine
<1>8. Numbered'
  <2>1. Made' = Made
    BY <1>1 DEF Made
  <2>2. state[e].base \subseteq Made
    BY <1>4, BaseLogged DEF Numbered
  <2>3. \A f \in Entities : local'[f] \subseteq Made
    BY <1>3, <1>4, <1>5, <2>2 DEF Numbered
  <2> QED
    BY <1>1, <1>4, <2>1, <2>3 DEF Numbered
<1>9. OthersKept(e)
  BY <1>1, <1>2, <1>3 DEF OthersKept, Grown
<1>10. \A i \in DOMAIN outbox : outbox[i].entity = e =>
         /\ status'[i] \notin Unsynced
         /\ ~(outbox[i].base = row[e].rev /\ status[i] \in Unsynced /\ IsFirst(i))
  BY <1>1, <1>2, ReadyRests DEF Unsynced
<1>11. NoneNew
  BY <1>1 DEF NoneNew
<1> QED
  BY <1>1, <1>7, <1>8, <1>9, <1>10, <1>11, OneEntityO

-----------------------------------------------------------------------------
(* The pull                                                                 *)

(* What is new at the gateway has no own edit that is not in the row, and   *)
(* all that the device knows of.                                            *)
LEMMA NewHasMine ==
  ASSUME IInv, Clean, MineKept, NEW e \in Entities, NEW p \in DOMAIN log, log[p].entity = e, state[e].rev < log[p].rev
  PROVE  /\ mine \cap log[p].content \subseteq local[e]
         /\ mine \cap state[e].base \subseteq log[p].content
         /\ conflict[e].phase # "none" => mine \cap conflict[e].base \subseteq log[p].content
         /\ \A n \in DOMAIN log : log[n].entity = e /\ log[p].rev < log[n].rev =>
              /\ mine \cap log[n].content \subseteq log[p].content
              /\ \A m \in DOMAIN log : log[m].entity = e /\ log[p].rev < log[m].rev =>
                   mine \cap log[n].content \subseteq log[m].content
<1>1. Known(e) /\ Held(e) /\ Later(e) /\ MineStays
  BY DEF Clean, DeviceOf, MineKept, MineOf
<1>2. state[e].rev \in Nat /\ \A n \in DOMAIN log : log[n].rev \in Nat
  BY Types
<1>3. \A n \in DOMAIN log : log[n].rev <= state[e].rev => log[n].rev <= log[p].rev
  BY <1>2
<1>4. \A n \in DOMAIN log : log[p].rev < log[n].rev => state[e].rev < log[n].rev
  BY <1>2
<1>5. mine \cap state[e].base \subseteq log[p].content
  <2>1. CASE state[e].base = {}
    BY <2>1
  <2>2. ASSUME NEW n \in DOMAIN log, log[n].entity = e, log[n].rev = state[e].rev, log[n].content = state[e].base
        PROVE  mine \cap state[e].base \subseteq log[p].content
    <3>1. log[n].rev <= log[p].rev
      BY <1>2, <1>3, <2>2
    <3> QED
      BY <1>1, <2>2, <3>1 DEF MineStays
  <2> QED
    BY <1>1, <2>1, <2>2, BaseLogged
<1>6. conflict[e].phase # "none" => mine \cap conflict[e].base \subseteq log[p].content
  BY <1>1, <1>3 DEF Held, MineStays
<1> QED
  BY <1>1, <1>4, <1>5, <1>6 DEF Later

(* A conflict for the user has all own edits on the local side.             *)
LEMMA StuckO ==
  ASSUME IInv, Clean, MineKept, NEW e \in Entities, NEW p \in DOMAIN log, log[p].entity = e, state[e].rev < log[p].rev,
         UNCHANGED <<log, outbox, local, mine>>,
         state'[e].rev = log[p].rev, state'[e].base = log[p].content,
         \A i \in DOMAIN outbox : outbox[i].entity = e => (status'[i] \in Unsynced <=> status[i] \in Unsynced),
         conflict'[e].phase = "ready", conflict'[e].local = local[e],
         conflict'[e].base = IF conflict[e].phase = "none" THEN state[e].base ELSE conflict[e].base
  PROVE  MineOf(e)'
<1>1. Known(e) /\ FirstKnows(e) /\ Held(e)
  BY DEF Clean, DeviceOf, MineKept, MineOf
<1>2. /\ mine \cap log[p].content \subseteq local[e]
      /\ \A n \in DOMAIN log : log[n].entity = e /\ log[p].rev < log[n].rev =>
           /\ mine \cap log[n].content \subseteq log[p].content
           /\ \A m \in DOMAIN log : log[m].entity = e /\ log[p].rev < log[m].rev =>
                mine \cap log[n].content \subseteq log[m].content
  BY NewHasMine
<1>3. /\ state[e].rev \in Nat /\ \A n \in DOMAIN log : log[n].rev \in Nat
      /\ \A i \in DOMAIN outbox : outbox[i].base \in Nat
  BY Types
<1>4. FirstKnows(e)'
  <2>1. SUFFICES ASSUME NEW i \in DOMAIN outbox, outbox[i].entity = e, status'[i] \in Unsynced, IsFirst(i)'
                 PROVE  outbox[i].base < log[p].rev
    <3>1. \A i \in DOMAIN outbox : outbox[i].base < log[p].rev => outbox[i].base <= log[p].rev /\ outbox[i].base # log[p].rev
      BY <1>3
    <3> QED
      BY <2>1, <3>1 DEF FirstKnows
  <2>2. IsFirst(i)
    BY <2>1 DEF IsFirst, Before
  <2>3. outbox[i].base <= state[e].rev
    BY <1>1, <2>1, <2>2 DEF FirstKnows
  <2> QED
    BY <1>3, <2>3
<1>5. Held(e)'
  <2>1. \A n \in DOMAIN log : log[n].rev <= state[e].rev => log[n].rev <= log[p].rev
    BY <1>3
  <2>2. mine \cap conflict'[e].base \subseteq local[e]
    BY <1>1 DEF Held
  <2>3. \/ conflict'[e].base = {}
        \/ \E n \in DOMAIN log : log[n].entity = e /\ log[n].rev <= log[p].rev /\ log[n].content = conflict'[e].base
    <3>1. CASE conflict[e].phase = "none"
      <4>1. state[e].rev <= log[p].rev
        BY <1>3
      <4> QED
        BY <1>1, <3>1, <4>1, BaseLogged
    <3>2. CASE conflict[e].phase # "none"
      BY <1>1, <2>1, <3>2 DEF Held
    <3> QED
      BY <3>1, <3>2
  <2> QED
    BY <1>2, <2>2, <2>3 DEF Held
<1>6. Later(e)'
  BY <1>2 DEF Later
<1> QED
  BY <1>4, <1>5, <1>6 DEF MineOf

(* A merge has the own edits of both sides.                                 *)
LEMMA MergeMine ==
  ASSUME NEW own, NEW base, NEW mineIs, NEW theirs, own \cap base \subseteq theirs, own \cap theirs \subseteq mineIs
  PROVE  own \cap mineIs \subseteq merge(base, mineIs, theirs) /\ own \cap theirs \subseteq merge(base, mineIs, theirs)
BY DEF merge

(* recordRemote, of a new revision.                                         *)
LEMMA recordRemoteO ==
  ASSUME IInv, Clean, MineKept, NEW e \in Entities, NEW p \in DOMAIN log, log[p].entity = e, state[e].rev < log[p].rev,
         NEW st \in [DOMAIN outbox -> Statuses], QueuedIn(st), AheadOf(st, state'),
         \A i \in DOMAIN outbox : st[i] = IF outbox[i].entity = e /\ status[i] \in Active THEN "conflict" ELSE status[i],
         NEW i0 \in DOMAIN outbox, outbox[i0].entity = e, status[i0] \in Unsynced,
         recordRemote(e, log[p], st, log[p].rev), UNCHANGED <<log, mine, others>>,
         state'[e].rev = log[p].rev, state'[e].base = log[p].content
  PROVE  /\ MineOf(e)' /\ OthersKept(e) /\ Numbered'
         /\ \/ mine \cap local[e] \subseteq local'[e]
            \/ /\ e \in Sessions /\ (log[p].content \ local[e]) \cap local'[e] # {}
               /\ log[p].content \subseteq local'[e] \cup waived
         /\ \/ \A i \in DOMAIN outbox : outbox[i].entity = e => (status'[i] \in Unsynced <=> status[i] \in Unsynced)
            \/ \A i \in DOMAIN outbox : outbox[i].entity = e => status'[i] = "synced"
<1>1. PICK g \in Changes : g = log[p]
  BY TypedNow, ElementOfSeq DEF Typed
<1> DEFINE c == Sides(e, st, g)
           cleared == Marked(st, RowsIn(st, e, Unsynced), "synced")
           k == Len(outbox) + 1
<1>2. \/ /\ status' = st
         /\ conflict' = [conflict EXCEPT ![e] = c]
         /\ outbox' = outbox /\ local' = local
      \/ /\ \E outvoted \in Outvoted(e, c) :
              /\ local' = [local EXCEPT ![e] = merge(c.base, c.local, c.remote) \ outvoted]
              /\ enqueue_projection(cleared, g.rev, e, merge(c.base, c.local, c.remote) \ outvoted, 0)
              /\ waived' = waived \cup outvoted
         /\ conflict' = [conflict EXCEPT ![e] = NoConflict]
  BY <1>1 DEF recordRemote, Sides
<1>3. \A i \in DOMAIN outbox : st[i] \in Unsynced <=> status[i] \in Unsynced
  BY DEF Unsynced, Active
<1>4. /\ c.phase = "ready" /\ c.local = local[e] /\ c.remote = g.content
      /\ c.base = IF conflict[e].phase = "none" THEN state[e].base ELSE conflict[e].base
      /\ c.base \subseteq local[e] \cup waived
  <2>1. DeviceOf(e)
    BY DEF Clean
  <2> QED
    BY <1>3, <2>1, SidesOf
<1> HIDE DEF c
<1>5. /\ mine \cap g.content \subseteq local[e]
      /\ mine \cap c.base \subseteq g.content
      /\ \A n \in DOMAIN log : log[n].entity = e /\ g.rev < log[n].rev =>
           /\ mine \cap log[n].content \subseteq g.content
           /\ \A m \in DOMAIN log : log[m].entity = e /\ g.rev < log[m].rev =>
                mine \cap log[n].content \subseteq log[m].content
  BY <1>1, <1>4, NewHasMine
<1>6. Numbered /\ Made' = Made /\ g.content \subseteq Made /\ local[e] \subseteq Made
  BY <1>1 DEF MineKept, Numbered, Made
<1>7. CASE /\ status' = st
           /\ conflict' = [conflict EXCEPT ![e] = c]
           /\ outbox' = outbox /\ local' = local
  <2>1. conflict'[e] = c /\ \A f \in Entities : f # e => conflict'[f] = conflict[f]
    BY <1>7 DEF IInv, TypeOK
  <2>2. \A i \in DOMAIN outbox : outbox[i].entity = e => (status'[i] \in Unsynced <=> status[i] \in Unsynced)
    BY <1>3, <1>7
  <2>3. MineOf(e)'
    BY <1>4, <1>7, <2>1, <2>2, StuckO
  <2>4. OthersKept(e)
    BY <1>7, <2>1 DEF OthersKept, Grown
  <2>5. Numbered'
    BY <1>6, <1>7 DEF Numbered
  <2> QED
    BY <1>7, <2>2, <2>3, <2>4, <2>5
<1>8. CASE /\ \E outvoted \in Outvoted(e, c) :
                /\ local' = [local EXCEPT ![e] = merge(c.base, c.local, c.remote) \ outvoted]
                /\ enqueue_projection(cleared, g.rev, e, merge(c.base, c.local, c.remote) \ outvoted, 0)
                /\ waived' = waived \cup outvoted
           /\ conflict' = [conflict EXCEPT ![e] = NoConflict]
  <2>a. PICK outvoted \in Outvoted(e, c) :
          /\ local' = [local EXCEPT ![e] = merge(c.base, c.local, c.remote) \ outvoted]
          /\ enqueue_projection(cleared, g.rev, e, merge(c.base, c.local, c.remote) \ outvoted, 0)
          /\ waived' = waived \cup outvoted
    BY <1>8
  <2> DEFINE merged == merge(c.base, c.local, c.remote) \ outvoted
  <2>b. local' = [local EXCEPT ![e] = merged] /\ enqueue_projection(cleared, g.rev, e, merged, 0)
    BY <2>a
  <2>1. /\ cleared \in [DOMAIN outbox -> Statuses]
        /\ \A i \in DOMAIN outbox : cleared[i] = IF outbox[i].entity = e THEN "synced" ELSE st[i]
    BY GiveWay
  <2> HIDE DEF cleared
  <2>2. RowsIn(cleared, e, {"pending", "in_flight"}) = {}
    BY <2>1 DEF RowsIn, Rows
  <2>3. RowAdded(k, cleared, planned_base_revision(cleared, g.rev, e), e, merged)
    BY <2>b, <2>1, NewRow
  <2>c. /\ \/ outvoted \subseteq local[e] \ (c.base \cup g.content)
           \/ outvoted \subseteq g.content \ (c.base \cup local[e])
        /\ outvoted # {} => e \in Sessions /\ g.content \ (c.base \cup local[e]) # {}
    BY <1>4, OutvotedIs
  <2>d. LET whole == merge(c.base, local[e], g.content)
        IN  /\ mine \cap local[e] \subseteq whole /\ mine \cap g.content \subseteq whole
            /\ g.content \subseteq whole \cup waived /\ g.content \ (c.base \cup local[e]) \subseteq whole
    <3>1. g.content \ (c.base \cup local[e]) \subseteq merge(c.base, local[e], g.content)
      BY DEF merge
    <3> QED
      BY <1>4, <1>5, <3>1, MergeMine, MergeKeeps
  <2>e. mine \cap g.content \cap outvoted = {}
    BY <1>5, <2>c
  <2>4. /\ mine \cap g.content \subseteq merged
        /\ \/ mine \cap local[e] \subseteq merged
           \/ /\ e \in Sessions /\ (g.content \ local[e]) \cap merged # {}
              /\ g.content \subseteq merged \cup waived
    <3>1. merged = merge(c.base, local[e], g.content) \ outvoted
      BY <1>4
    <3> HIDE DEF merged
    <3>2. CASE outvoted \subseteq g.content \ (c.base \cup local[e])
      BY <2>d, <2>e, <3>1, <3>2
    <3>3. CASE outvoted \subseteq local[e] \ (c.base \cup g.content) /\ outvoted # {}
      <4>1. g.content \ (c.base \cup local[e]) # {} /\ e \in Sessions
        BY <2>c, <3>3
      <4>2. g.content \ (c.base \cup local[e]) \subseteq merged
        BY <2>d, <3>1, <3>3
      <4>3. (g.content \ local[e]) \cap merged # {}
        BY <4>1, <4>2
      <4>4. g.content \subseteq merged \cup waived
        BY <2>d, <3>1, <3>3
      <4> QED
        BY <2>d, <2>e, <3>1, <4>1, <4>3, <4>4
    <3> QED
      BY <2>c, <3>2, <3>3
  <2>5. merged \subseteq Made
    <3>1. merged \subseteq local[e] \cup g.content
      BY <1>4 DEF merge
    <3> HIDE DEF merged
    <3> QED
      BY <1>6, <3>1
  <2> HIDE DEF merged, k
  <2>6. /\ DOMAIN outbox' = DOMAIN outbox \cup {k} /\ Grown
        /\ \A i \in DOMAIN outbox : status'[i] = cleared[i]
        /\ outbox'[k].entity = e /\ outbox'[k].content = merged /\ outbox'[k].base = g.rev
    BY <2>2, <2>3 DEF RowAdded, planned_base_revision
  <2>7. /\ local'[e] = merged /\ conflict'[e].phase = "none"
        /\ \A f \in Entities : f # e => local'[f] = local[f] /\ conflict'[f] = conflict[f]
    BY <1>8, <2>b DEF IInv, TypeOK, NoConflict
  <2>8. \A i \in DOMAIN outbox : outbox[i].entity = e => status'[i] = "synced"
    BY <2>1, <2>6
  <2>9. MineOf(e)'
    <3>1. Later(e)'
      BY <1>1, <1>5, <2>4, <2>7 DEF Later
    <3>2. /\ outbox'[k].base = state'[e].rev /\ state'[e].rev \in Nat /\ outbox'[k].content = local'[e]
          /\ mine' \cap state'[e].base \subseteq local'[e]
      BY <1>1, <2>4, <2>6, <2>7 DEF Changes
    <3> QED
      BY <2>6, <2>7, <2>8, <3>1, <3>2, AloneMine
  <2>10. OthersKept(e)
    BY <2>1, <2>6, <2>7 DEF OthersKept
  <2>11. Numbered'
    <3>1. \A i \in DOMAIN outbox' : outbox'[i].content \subseteq Made
      BY <1>6, <2>5, <2>6 DEF Numbered, Grown
    <3>2. \A f \in Entities : local'[f] \subseteq Made
      BY <1>6, <2>5, <2>7 DEF Numbered
    <3> QED
      BY <1>6, <3>1, <3>2 DEF Numbered
  <2> QED
    BY <1>1, <2>4, <2>7, <2>8, <2>9, <2>10, <2>11
<1> QED
  BY <1>2, <1>7, <1>8

(* A new revision of an entity with unsynced changes, or of one without.    *)
LEMMA apply_pull_pageO ==
  ASSUME IInv, IInv', Clean, MineKept, apply_pull_page
  PROVE  MineKept' /\ \A e \in Entities : mine \cap local[e] \subseteq local'[e] \/ OutvotedIn(e)
<1>1. /\ UNCHANGED <<log, row, requests, mine, others>> /\ pc = "pull"
      /\ cursor < Len(log) /\ cursor' = cursor + 1 /\ apply_remote_entity(log[cursor + 1])
  BY DEF apply_pull_page, server, run
<1>2. Typed /\ cursor + 1 \in DOMAIN log
  <2>1. Typed /\ cursor \in 0 .. Len(log)
    BY TypedNow DEF IInv, TypeOK
  <2>2. Len(log) \in Nat /\ DOMAIN log = 1 .. Len(log)
    BY <2>1 DEF Typed
  <2> QED
    BY <1>1, <2>1, <2>2
<1>3. PICK p \in DOMAIN log : p = cursor + 1
  BY <1>2
<1>4. PICK g \in Changes : g = log[p]
  BY <1>2, ElementOfSeq DEF Typed
<1>5. PICK e \in Entities : e = log[p].entity
  BY <1>2 DEF Typed
<1>6. g.entity = e /\ log[cursor + 1] = g
  BY <1>3, <1>4, <1>5
<1>7. /\ e \in Entities /\ g.rev \in Nat /\ g.content \in SUBSET Edits /\ state[e].rev \in Nat /\ row[e].rev \in Nat
      /\ conflict[e] \in Conflicts /\ 0 < g.rev /\ g.rev <= row[e].rev
  <2>1. 0 < g.rev /\ g.rev <= row[e].rev
    BY <1>4, <1>5 DEF Clean, Lasting
  <2> QED
    BY <1>2, <1>4, <2>1 DEF Typed
<1>8. DeviceOf(e) /\ Known(e) /\ MineOf(e)
  BY <1>7 DEF Clean, DeviceOf, MineKept
<1>9. /\ \A i \in DOMAIN outbox : status[i] # "in_flight"
      /\ status \in [DOMAIN outbox -> Statuses] /\ QueuedIn(status) /\ AheadOf(status, state)
      /\ local \in [Entities -> SUBSET Edits] /\ state \in States
  BY <1>1 DEF IInv, ReplyTrue, InFlight, TypeOK, States
<1>10. NoneNew
  BY <1>1 DEF NoneNew
<1>11. CASE state[e].rev >= g.rev
  <2>1. state' = state /\ IF hydrates(e, g)
                          THEN recordRemote(e, g, status, state[e].rev)
                          ELSE UNCHANGED <<outbox, status, local, conflict, waived>>
    BY <1>1, <1>6, <1>11 DEF apply_remote_entity, applyKnown
  <2>2. ~hydrates(e, g)
    <3>1. SUFFICES ASSUME conflict[e].phase = "waiting" PROVE conflict[e].rev # 0 /\ conflict[e].rev # g.rev
      BY DEF hydrates
    <3>2. state[e].rev < conflict[e].rev /\ conflict[e].rev \in Nat
      BY <1>7, <1>8, <3>1 DEF Known, Conflicts
    <3> QED
      BY <1>7, <1>11, <3>2
  <2>3. UNCHANGED <<outbox, status, local, conflict, waived>>
    BY <2>1, <2>2
  <2>4. MineKept'
    BY <1>1, <2>1, <2>3, WaitingO
  <2> QED
    BY <2>3, <2>4
<1>12. CASE ~(state[e].rev >= g.rev)
  <2> DEFINE head == [rev |-> g.rev, base |-> g.content]
             st == Marked(status, RowsIn(status, e, {"pending", "in_flight"}), "conflict")
  <2>1. /\ state' = [state EXCEPT ![e] = head]
        /\ IF RowsIn(status, e, Unsynced) = {}
           THEN /\ local' = [local EXCEPT ![e] = g.content]
                /\ UNCHANGED <<outbox, status, conflict, waived>>
           ELSE recordRemote(e, g, st, g.rev)
    BY <1>1, <1>6, <1>12 DEF apply_remote_entity, applyNew
  <2>2. head.rev = g.rev /\ head.base = g.content
    OBVIOUS
  <2>3. state'[e] = head /\ \A f \in Entities : f # e => state'[f] = state[f]
    BY <1>7, <1>9, <2>1 DEF States
  <2>4. state'[e].rev = g.rev /\ state'[e].base = g.content /\ state[e].rev < g.rev
    BY <1>7, <1>12, <2>2, <2>3
  <2> HIDE DEF head
  <2>5. ASSUME MineOf(e)', OthersKept(e), Numbered',
               \/ \A i \in DOMAIN outbox : outbox[i].entity = e => (status'[i] \in Unsynced <=> status[i] \in Unsynced)
               \/ \A i \in DOMAIN outbox : outbox[i].entity = e => status'[i] = "synced"
        PROVE  MineKept'
    <3>1. ASSUME NEW i \in DOMAIN outbox, outbox[i].entity = e, status[i] \in Unsynced, IsFirst(i)
          PROVE  outbox[i].base # row[e].rev
      <4>1. outbox[i].base <= state[e].rev
        BY <1>8, <3>1 DEF MineOf, FirstKnows
      <4>2. outbox[i].base \in Nat
        BY Types
      <4> QED
        BY <1>7, <2>4, <4>1, <4>2
    <3>2. \A i \in DOMAIN outbox : outbox[i].entity = e =>
            /\ status'[i] \in Unsynced => status[i] \in Unsynced
            /\ outbox[i].base = row[e].rev /\ status[i] \in Unsynced /\ IsFirst(i) => status'[i] \in Unsynced
      BY <2>5, <3>1 DEF Unsynced
    <3>3. e \in Entities /\ requests' \subseteq requests
      BY <1>1, <1>7
    <3> QED
      BY <1>1, <1>10, <2>3, <2>5, <3>2, <3>3, OneEntityO
  <2>6. CASE RowsIn(status, e, Unsynced) = {}
    <3>1. local' = [local EXCEPT ![e] = g.content] /\ UNCHANGED <<outbox, status, conflict, waived>>
      BY <2>1, <2>6
    <3>2. local'[e] = g.content /\ \A f \in Entities : f # e => local'[f] = local[f]
      BY <1>7, <1>9, <3>1
    <3>3. \A i \in DOMAIN outbox : outbox[i].entity = e => status[i] \notin Unsynced /\ status[i] = "synced"
      <4>1. \A i \in DOMAIN outbox : outbox[i].entity = e => status[i] \notin Unsynced
        BY <2>6 DEF RowsIn, Rows
      <4> QED
        BY <1>9, <4>1 DEF Statuses
    <3>4. conflict[e].phase = "none"
      BY <1>7, <3>3 DEF IInv, VisibleFor, Stuck
    <3>5. OthersKept(e)
      BY <3>1, <3>2 DEF OthersKept, Grown
    <3>6. /\ mine \cap state[e].base \subseteq g.content
          /\ \A n \in DOMAIN log : log[n].entity = e /\ g.rev < log[n].rev =>
               /\ mine \cap log[n].content \subseteq g.content
               /\ \A m \in DOMAIN log : log[m].entity = e /\ g.rev < log[m].rev =>
                    mine \cap log[n].content \subseteq log[m].content
      BY <1>7, <1>4, <1>6, <2>4, NewHasMine
    <3>7. MineOf(e)'
      <4>1. Later(e)'
        BY <1>1, <2>4, <3>1, <3>2, <3>4, <3>6 DEF Later
      <4> QED
        BY <1>7, <2>4, <3>1, <3>2, <3>3, <3>4, <4>1, NothingMine
    <3>8. Numbered'
      <4>1. Made' = Made /\ Numbered /\ g.content \subseteq Made
        BY <1>1, <1>4 DEF Made, MineKept, Numbered
      <4> QED
        BY <1>1, <3>1, <3>2, <4>1 DEF Numbered
    <3>9. MineKept'
      BY <2>5, <3>1, <3>5, <3>7, <3>8
    <3>10. mine \cap local[e] \subseteq local'[e]
      <4>1. local[e] = state[e].base
        BY <1>8, <3>3 DEF DeviceOf, RowIsLast
      <4> QED
        BY <3>2, <3>6, <4>1
    <3> QED
      BY <3>2, <3>9, <3>10
  <2>7. CASE RowsIn(status, e, Unsynced) # {}
    <3>1. recordRemote(e, g, st, g.rev)
      BY <2>1, <2>7
    <3>2. /\ st \in [DOMAIN outbox -> Statuses]
          /\ \A i \in DOMAIN outbox : st[i] = IF outbox[i].entity = e /\ status[i] \in Active THEN "conflict" ELSE status[i]
      <4>1. "conflict" \in Statuses
        BY DEF Statuses, Unsynced
      <4>2. /\ st \in [DOMAIN outbox -> Statuses]
            /\ \A i \in DOMAIN outbox : st[i] = IF i \in RowsIn(status, e, {"pending", "in_flight"}) THEN "conflict" ELSE status[i]
        BY <1>9, <4>1, MarkedIs
      <4>3. \A i \in DOMAIN outbox : i \in RowsIn(status, e, {"pending", "in_flight"}) <=> outbox[i].entity = e /\ status[i] \in Active
        BY DEF RowsIn, Rows, Active
      <4> HIDE DEF st
      <4> QED
        BY <4>2, <4>3
    <3> HIDE DEF st
    <3>3. /\ \A i \in DOMAIN outbox : st[i] # "in_flight"
          /\ \A i \in DOMAIN outbox : outbox[i].entity = e => st[i] \notin Active
      BY <1>9, <3>2 DEF Active
    <3>4. QueuedIn(st)
      BY <1>9, <3>2, <3>3 DEF QueuedIn, Active
    <3>5. AheadOf(st, state')
      BY <1>9, <2>3, <3>2, <3>3, Types DEF AheadOf
    <3>6. PICK i \in DOMAIN outbox : outbox[i].entity = e /\ status[i] \in Unsynced
      BY <2>7 DEF RowsIn, Rows
    <3>7. /\ MineOf(e)' /\ OthersKept(e) /\ Numbered'
          /\ \/ mine \cap local[e] \subseteq local'[e]
             \/ /\ e \in Sessions /\ (g.content \ local[e]) \cap local'[e] # {}
                /\ g.content \subseteq local'[e] \cup waived
          /\ \/ \A j \in DOMAIN outbox : outbox[j].entity = e => (status'[j] \in Unsynced <=> status[j] \in Unsynced)
             \/ \A j \in DOMAIN outbox : outbox[j].entity = e => status'[j] = "synced"
      BY <1>1, <1>7, <1>4, <1>6, <2>4, <3>1, <3>2, <3>4, <3>5, <3>6, recordRemoteO
    <3>8. MineKept'
      BY <2>5, <3>7
    <3>9. \A f \in Entities : f # e => local'[f] = local[f]
      BY <3>7 DEF OthersKept
    <3>10. mine \cap local[e] \subseteq local'[e] \/ OutvotedIn(e)
      <4>1. ASSUME e \in Sessions, (g.content \ local[e]) \cap local'[e] # {}, g.content \subseteq local'[e] \cup waived
            PROVE  OutvotedIn(e)
        <5>1. p = cursor' /\ p # cursor /\ log[p].entity = e
          BY <1>1, <1>2, <1>3, <1>5 DEF Typed
        <5> QED
          BY <1>4, <4>1, <5>1 DEF OutvotedIn
      <4> QED
        BY <3>7, <4>1
    <3> QED
      BY <3>8, <3>9, <3>10
  <2> QED
    BY <2>6, <2>7
<1> QED
  BY <1>11, <1>12

-----------------------------------------------------------------------------
LEMMA InitO == Init => OInv
<1> SUFFICES ASSUME Init PROVE MineKept
  BY DEF OInv
<1>1. /\ DOMAIN log = {} /\ DOMAIN outbox = {} /\ requests = {} /\ mine = {} /\ others = {}
      /\ \A e \in Entities :
           /\ state[e].rev = 0 /\ state[e].base = {} /\ local[e] = {} /\ conflict[e].phase = "none"
  BY DEF Init, NoConflict
<1>2. Numbered /\ MineStays /\ Fresh
  BY <1>1 DEF Numbered, Made, MineStays, Fresh
<1>3. ASSUME NEW e \in Entities PROVE MineOf(e)
  BY <1>1 DEF MineOf, FirstKnows, Held, Later
<1> QED
  BY <1>2, <1>3 DEF MineKept

(* A device that was exposed stays so.                                      *)
LEMMA ExposedStays == IInv /\ exposed /\ [Next]_vars => exposed'
<1> SUFFICES ASSUME IInv, exposed, [Next]_vars PROVE exposed'
  OBVIOUS
<1>1. CASE \E e \in Entities : edit(e) \/ Commit(e) \/ keep_local(e) \/ keep_remote(e)
  BY <1>1 DEF edit, Commit, keep_local, keep_remote
<1>2. CASE run_locked \/ pushedAll \/ pulledAll \/ UNCHANGED vars
  BY <1>2 DEF run_locked, pushedAll, pulledAll, vars, ghost
<1>3. CASE claim_pending
  BY <1>3 DEF claim_pending
<1>4. CASE apply_push_result \/ mark_dead_letter \/ apply_pull_page \/ Fault
  BY <1>4 DEF apply_push_result, mark_dead_letter, apply_pull_page, Fault, ghost
<1>5. CASE Gateway
  BY <1>5 DEF Gateway, push
<1> QED
  BY <1>1, <1>2, <1>3, <1>4, <1>5 DEF Next, Device

(* Every step keeps the edits in the rows, and takes none out of a row that *)
(* is not decided against.                                                  *)
LEMMA StepO ==
  ASSUME IInv, IInv', Clean, MineKept, ~exposed', [Next]_vars
  PROVE  MineKept' /\ DropsDecided
<1>1. local' = local => DropsDecided
  BY DEF DropsDecided
<1>2. ASSUME NEW e \in Entities, edit(e) PROVE MineKept' /\ DropsDecided
  <2>1. local' = [local EXCEPT ![e] = local[e] \cup {NewEdit}]
    BY <1>2 DEF edit
  <2>2. \A f \in Entities : local[f] \subseteq local'[f]
    BY <2>1 DEF IInv, TypeOK
  <2> QED
    BY <1>2, <2>2, editO DEF DropsDecided
<1>3. ASSUME NEW e \in Entities, Commit(e) PROVE MineKept' /\ DropsDecided
  <2>1. local' = local
    BY <1>3 DEF Commit, database
  <2> QED
    BY <1>1, <1>3, <2>1, CommitO
<1>4. ASSUME NEW e \in Entities, keep_local(e) \/ keep_remote(e) PROVE MineKept' /\ DropsDecided
  <2>1. \A f \in Entities : f = e \/ local'[f] = local[f]
    BY <1>4 DEF keep_local, keep_remote, IInv, TypeOK
  <2> QED
    BY <1>4, <2>1, keep_localO, keep_remoteO DEF DropsDecided
<1>5. CASE run_locked \/ pushedAll \/ pulledAll \/ UNCHANGED vars
  <2>1. UNCHANGED <<log, row, requests, outbox, status, state, local, conflict, mine, others>>
    BY <1>5 DEF run_locked, pushedAll, pulledAll, vars, server, database, ghost
  <2> QED
    BY <1>1, <2>1, WaitingO
<1>6. CASE claim_pending
  <2>1. local' = local
    BY <1>6 DEF claim_pending
  <2> QED
    BY <1>1, <1>6, <2>1, claim_pendingO
<1>7. CASE apply_push_result
  <2>1. local' = local
    BY <1>7, AnswerIs
  <2> QED
    BY <1>1, <1>7, <2>1, apply_push_resultO
<1>8. CASE mark_dead_letter \/ Fault
  <2>1. UNCHANGED <<log, row, outbox, state, local, conflict, mine, others>> /\ requests' \subseteq requests
    BY <1>8 DEF mark_dead_letter, Fault, server, ghost
  <2>2. PICK s \in {"pending", "dead_letter"} : status' = Marked(status, InFlight, s)
    BY <1>8 DEF mark_dead_letter, Fault, requeued
  <2> QED
    BY <1>1, <2>1, <2>2, UnflownO
<1>9. CASE apply_pull_page
  BY <1>9, apply_pull_pageO DEF DropsDecided
<1>10. CASE Gateway
  <2>1. PICK q \in requests : \E missed \in SUBSET Missable(q) : push(q, missed)
    BY <1>10 DEF Gateway
  <2>2. PICK missed \in SUBSET Missable(q) : push(q, missed)
    BY <2>1
  <2>3. local' = local
    BY <2>2 DEF push, database
  <2> QED
    BY <1>1, <2>2, <2>3, pushO
<1> QED
  BY <1>2, <1>3, <1>4, <1>5, <1>6, <1>7, <1>8, <1>9, <1>10 DEF Next, Device

LEMMA NextO == IInv /\ IInv' /\ KInv /\ OInv /\ [Next]_vars => OInv' /\ (exposed' \/ DropsDecided)
BY ExposedStays, StepO DEF KInv, OInv

(* It holds in every state, with the other two.                             *)
LEMMA OwnInvariant == Spec => [](IInv /\ KInv /\ OInv)
<1>1. IInv /\ KInv /\ OInv /\ [Next]_vars => (IInv /\ KInv /\ OInv)'
  BY NextIInv, NextK, NextO
<1> QED
  BY <1>1, InitIInv, InitK, InitO, PTL DEF Spec

(* No step of the engine takes an edit of the user out of a row, as long as *)
(* the device was not exposed: not the change another device made, not the  *)
(* merge of a conflict, not the revision that answers a push. Only the user *)
(* does, who decides a conflict, and in a session a pull, for an edit that  *)
(* the device had not seen: the payload this edit came in stays whole, but  *)
(* for what had been decided against (apply_remote_entity, merge_entity,    *)
(* try_auto_resolve_conflict, resolve_conflict).                            *)
THEOREM OwnEditsStay == Spec => OnlyDecidedDrops
<1>1. IInv /\ IInv' /\ KInv /\ OInv /\ [Next]_vars => [exposed' \/ DropsDecided]_vars
  BY NextO
<1> QED
  BY <1>1, OwnInvariant, PTL DEF Spec, OnlyDecidedDrops

(* A batch of one change holds no two changes of an entity, and a gateway   *)
(* in which no push overtakes another always names the current revision.    *)
LEMMA NeverExposed ==
  ASSUME PushLimit = 1, ~Races, IInv, ~exposed, [Next]_vars
  PROVE  ~exposed'
<1>1. CASE claim_pending
  <2>1. Claimed # {} /\ exposed' = (exposed \/ \E i, j \in Claimed : i # j /\ outbox[i].entity = outbox[j].entity)
    BY <1>1 DEF claim_pending
  <2>2. IsFiniteSet(Claimed) /\ Cardinality(Claimed) = 1
    BY <2>1, ClaimedIs
  <2>3. PICK c : Claimed = {c}
    BY <2>2, FS_Singleton
  <2> QED
    BY <2>1, <2>3
<1>2. ASSUME NEW q \in requests, NEW missed \in SUBSET Missable(q), push(q, missed)
      PROVE  ~exposed'
  <2>1. \A conflicts : Raced(q, conflicts) = {}
    BY DEF Raced
  <2> QED
    BY <1>2, <2>1 DEF push
<1>3. ASSUME UNCHANGED exposed
      PROVE  ~exposed'
  BY <1>3
<1>4. CASE UNCHANGED vars
  BY <1>3, <1>4 DEF vars, ghost
<1>5. CASE Next
  <2>1. ASSUME NEW e \in Entities, edit(e) \/ Commit(e) \/ keep_local(e) \/ keep_remote(e)
        PROVE  ~exposed'
    BY <2>1, <1>3 DEF edit, Commit, keep_local, keep_remote
  <2>2. CASE run_locked \/ pushedAll \/ apply_push_result \/ mark_dead_letter \/ apply_pull_page \/ pulledAll
    BY <2>2, <1>3 DEF run_locked, pushedAll, apply_push_result, mark_dead_letter, apply_pull_page,
                      pulledAll, ghost
  <2>3. CASE Fault
    BY <2>3, <1>3 DEF Fault, ghost
  <2> QED
    BY <1>5, <1>1, <1>2, <2>1, <2>2, <2>3 DEF Next, Device, Gateway
<1> QED
  BY <1>4, <1>5

(* Were it one change at a time, as CLOUDFLARE_SYNC.md 10.2 demands of the  *)
(* changes of an entity, and a gateway that names the current revision in   *)
(* every conflict, none of this would depend on the device not having been  *)
(* exposed: no accepted edit would leave its row but by a decision of the   *)
(* user or, in a session, for a later one; device and gateway would agree   *)
(* once all is synchronized (claim_pending, push).                          *)
THEOREM OneAtATime ==
  ASSUME PushLimit = 1, ~Races
  PROVE  Spec => [](AcceptedEditsKept /\ Converged) /\ [][DropsDecided]_vars
<1>1. Init => ~exposed
  BY DEF Init
<1>2. IInv /\ ~exposed /\ [Next]_vars => ~exposed'
  BY NeverExposed
<1>3. ~exposed /\ AcceptedStay /\ Agreed => AcceptedEditsKept /\ Converged
  BY DEF AcceptedStay, Agreed
<1>4. ~exposed' /\ [exposed' \/ DropsDecided]_vars => [DropsDecided]_vars
  OBVIOUS
<1> QED
  BY <1>1, <1>2, <1>3, <1>4, Invariant, AcceptedEditsStay, SynchronizedAgree, OwnEditsStay, PTL
  DEF Spec, OnlyDecidedDrops
=============================================================================
