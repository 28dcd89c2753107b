----------------------------- MODULE FieldMerge -----------------------------
(****************************************************************************)
(* The three-way merge of a conflict, field by field (sync/merge.rs), as    *)
(* both devices compute it: each with its own payload as the local and the  *)
(* other's as the remote one.                                               *)
(*                                                                          *)
(* Four fields stand for all: one that is ordered by stamps in a session,   *)
(* the text of an explicit memory, the time of creation, and one that is    *)
(* none of these.  A value is a number, 0 for a field that is absent; a     *)
(* text is its paragraphs.                                                  *)
(****************************************************************************)
EXTENDS Naturals, FiniteSets

CONSTANTS
  Values,           \* the values of a field, in the order of their JSON texts
  Inputs            \* the payloads that are tried

VARIABLES
  entity,           \* the entity type
  base, mine, other,  \* the payloads: last synchronized, and of two devices
  order,            \* how the stamps of mine and other compare
  here, there       \* the outcome on either device

vars == <<entity, base, mine, other, order, here, there>>

Fields == {"title", "summary", "content", "created_at"}
Payloads == [title : Values, summary : Values, content : Values \X Values, created_at : Values]

InputsAssumption == Values \subseteq Nat /\ Inputs \subseteq Payloads

NoBase == [title |-> 0, summary |-> 0, content |-> <<0, 0>>, created_at |-> 0, none |-> TRUE]
hasBase == "none" \notin DOMAIN base

\* diffy::merge: paragraphs that only one side changed are taken from it.
paragraph(b, l, r) == IF l = b THEN r ELSE l
clash(b, l, r) == l # r /\ l # b /\ r # b
merge_text(b, l, r) == <<paragraph(b[1], l[1], r[1]), paragraph(b[2], l[2], r[2])>>
textClash(b, l, r) == clash(b[1], l[1], r[1]) \/ clash(b[2], l[2], r[2])

max_json_value(l, r) == IF l >= r THEN l ELSE r
min_json_value(l, r) == IF l = 0 THEN r ELSE IF r = 0 THEN l ELSE IF l <= r THEN l ELSE r

select_by_order_Local(l, r, o) ==                                       \* mutant
  CASE o = "Greater" -> l [] o = "Less" -> r [] o = "Equal" -> l
select_by_order(l, r, o) ==
  CASE o = "Greater" -> l [] o = "Less" -> r [] o = "Equal" -> max_json_value(l, r)

\* What becomes of a field: a value, and whether it was decided or is left to
\* the user.
Taken(v) == [value |-> v, how |-> "taken"]
selected(f, b, l, r, o) ==
  IF f = "created_at" THEN Taken(IF b[f] # 0 THEN b[f] ELSE min_json_value(l[f], r[f]))
  ELSE IF l[f] = r[f] THEN Taken(l[f])
  ELSE IF hasBase /\ l[f] = b[f] THEN Taken(r[f])
  ELSE IF hasBase /\ r[f] = b[f] THEN Taken(l[f])
  ELSE IF entity = "session" /\ f = "title"
       THEN [value |-> select_by_order(l[f], r[f], o), how |-> "resolved"]
  ELSE IF entity = "explicit_memory" /\ f = "content" /\ hasBase /\ ~textClash(b[f], l[f], r[f])
       THEN [value |-> merge_text(b[f], l[f], r[f]), how |-> "resolved"]
  ELSE [value |-> b[f], how |-> "conflict"]

\* merge_entity: merged when no field is left to the user.
merge_entity(b, l, r, o) ==
  LET picked == [f \in Fields |-> selected(f, b, l, r, o)] IN
  [merged    |-> \A f \in Fields : picked[f].how # "conflict",
   payload   |-> [f \in Fields |-> picked[f].value],
   conflicts |-> {f \in Fields : picked[f].how = "conflict"},
   resolved  |-> {f \in Fields : picked[f].how = "resolved"}]

Opposite(o) == CASE o = "Less" -> "Greater" [] o = "Greater" -> "Less" [] o = "Equal" -> "Equal"

NoOutcome == [merged |-> FALSE, payload |-> NoBase, conflicts |-> {}, resolved |-> {}]

Init ==
  /\ entity \in {"session", "explicit_memory", "agent"}
  /\ base \in Inputs \cup {NoBase} /\ mine \in Inputs /\ other \in Inputs
  /\ order \in {"Less", "Equal", "Greater"}
  /\ here = NoOutcome /\ there = NoOutcome

\* try_auto_resolve_conflict on the one device and on the other
Merge ==
  /\ here = NoOutcome
  /\ here' = merge_entity(base, mine, other, order)
  /\ there' = merge_entity(base, other, mine, Opposite(order))
  /\ UNCHANGED <<entity, base, mine, other, order>>

Spec == Init /\ [][Merge]_vars

-----------------------------------------------------------------------------
(* Properties                                                               *)

TypeOK ==
  /\ here.merged \in BOOLEAN /\ there.merged \in BOOLEAN
  /\ here.conflicts \cup here.resolved \subseteq Fields

\* Both devices come to the same payload, or leave the same fields to the user.
SameOnBoth ==
  /\ here.merged = there.merged /\ here.conflicts = there.conflicts
  /\ here.merged => here.payload = there.payload

\* A field only one device changed keeps that change, an unchanged one stays,
\* and of two changes one is dropped only in a session's ordered fields.
ChangesKept ==
  here.merged =>
    \A f \in Fields \ {"created_at"} :
      LET l == mine[f]  r == other[f]  v == here.payload[f] IN
      /\ hasBase /\ l = base[f] => v = r
      /\ hasBase /\ r = base[f] => v = l
      /\ v \notin {l, r} => entity = "explicit_memory" /\ f = "content"
      /\ l # r /\ (~hasBase \/ (l # base[f] /\ r # base[f])) /\ entity # "session" =>
           \* Each paragraph somebody changed is there as it was changed.
           /\ entity = "explicit_memory" /\ f = "content" /\ hasBase
           /\ \A i \in 1 .. 2 : /\ l[i] # base[f][i] => v[i] = l[i]
                                /\ r[i] # base[f][i] => v[i] = r[i]

MergesSafe == SameOnBoth /\ ChangesKept
=============================================================================
