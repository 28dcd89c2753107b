------------------------------- MODULE SyncLog -------------------------------
(****************************************************************************)
(* What the synchronisation gateway promises its devices, without saying    *)
(* how: one totally ordered log of accepted changes per owner.  The log is  *)
(* only ever extended, a change identifier is used once, and every accepted *)
(* change was built on the revision its entity had at that point, so that   *)
(* no accepted change is ever overwritten by one that had not seen it.      *)
(*                                                                          *)
(* A position of the log is the server_seq of the change stored there.      *)
(****************************************************************************)
EXTENDS Naturals, Sequences

VARIABLE log

(* The positions l holds for entity e, and the identifiers it uses.         *)
PositionsOf(l, e) == {i \in DOMAIN l : l[i].entity = e}
IdsOf(l) == {l[i].id : i \in DOMAIN l}

(* p is the position of the change that precedes position i on its entity.  *)
IsPredecessor(l, p, i) ==
  /\ p \in 1 .. (i - 1)
  /\ l[p].entity = l[i].entity
  /\ \A q \in DOMAIN l : q > p /\ q < i => l[q].entity # l[i].entity

(* The change at i creates its entity, or continues its latest revision.    *)
Follows(l, i) ==
  /\ l[i].rev = l[i].base + 1
  /\ IF l[i].base = 0
     THEN \A q \in DOMAIN l : q < i => l[q].entity # l[i].entity
     ELSE \E p \in DOMAIN l : IsPredecessor(l, p, i) /\ l[p].rev = l[i].base

UniqueIds(l) == \A i, j \in DOMAIN l : l[i].id = l[j].id => i = j
WellFormed(l) == UniqueIds(l) /\ \A i \in DOMAIN l : Follows(l, i)

Extends(new, old) ==
  /\ Len(new) >= Len(old)
  /\ \A i \in DOMAIN old : new[i] = old[i]

Init == log = <<>>

(* A batch of changes becomes visible at once.                              *)
Publish == WellFormed(log') /\ Extends(log', log)

Spec == Init /\ [][Publish]_log
=============================================================================
