------------------------------ MODULE MCSyncPush ------------------------------
(****************************************************************************)
(* A small instance of SyncPush.  Two devices share one entity; d1 has a    *)
(* second change built on its first, so that its batch forms a chain d2 can *)
(* cut, and a change of another entity; d2 reuses a change id of d1.        *)
(****************************************************************************)
EXTENDS SyncPush

CONSTANTS d1, d2, e1, e2, x1, x2, x3, y1, c1, c2, s1, s2

MCChange(id, d, e, b, c) ==
  [id |-> id, device |-> d, entity |-> e, base |-> b, content |-> c]

MCChanges ==
  {MCChange(x1, d1, e1, 0, c1), MCChange(x2, d1, e1, 1, c1), MCChange(x3, d1, e2, 0, c1),
   MCChange(y1, d2, e1, 0, c1), MCChange(x1, d2, e1, 0, c2)}

MCSmallChanges ==
  {MCChange(x1, d1, e1, 0, c1), MCChange(x2, d1, e1, 1, c1), MCChange(y1, d2, e1, 0, c1)}
=============================================================================
