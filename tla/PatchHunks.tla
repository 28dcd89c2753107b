----------------------------- MODULE PatchHunks -----------------------------
(***************************************************************************)
(* An update of apply_patch (tools/builtin/apply_patch.rs): hunks are      *)
(* searched in the file one after the other and replaced.                  *)
(*                                                                         *)
(* The patch is written for a known file: hunk i replaces the lines        *)
(* first+before .. first+before+removed-1 by new lines, quoting the lines  *)
(* before and after.  A line is its text and its white space ("r" trailing *)
(* or "l" leading); a sloppy patch quotes lines without it.  nl says that  *)
(* the last line ends with a newline.                                      *)
(***************************************************************************)
EXTENDS Integers, Sequences, SequencesExt, FiniteSets, FiniteSetsExt

CONSTANTS Texts,      \* texts of lines
          MaxLines,   \* bound: lines of the file
          MaxHunks    \* bound: hunks of the patch

VARIABLES original,   \* the file the patch was written for
          sloppy,     \* the patch omits white space
          hunks,
          content,    \* the file as changed so far
          from,       \* search_from: the lines before it are done
          next,       \* the hunk to apply
          outcome     \* "running", "applied" or "refused"

vars == <<original, sloppy, hunks, content, from, next, outcome>>

Line(text, pad) == [t |-> <<text>>, pad |-> pad]
Added == Line("new", "")
Empty == [lines |-> <<>>, nl |-> TRUE]

\* Two pieces of text in a row; a piece without a final newline runs into the next.
Joined(x, y) ==
    CASE x.lines = <<>> -> y
      [] y.lines = <<>> -> x
      [] x.nl -> [lines |-> x.lines \o y.lines, nl |-> y.nl]
      [] OTHER -> [lines |-> Front(x.lines)
                               \o <<[t |-> Last(x.lines).t \o Head(y.lines).t, pad |-> Head(y.lines).pad]>>
                               \o Tail(y.lines),
                   nl |-> y.nl]

Piece(file, a, b) ==
    [lines |-> SubSeq(file.lines, a, b), nl |-> b < Len(file.lines) \/ file.nl \/ a > b]

Quoted(lines) == IF sloppy THEN [i \in DOMAIN lines |-> [lines[i] EXCEPT !.pad = ""]] ELSE lines

End(h) == h.first + h.before + h.removed + h.after - 1

\* parse_hunks: the old and the new lines of a hunk.
OldOf(h) == LET p == Piece(original, h.first, End(h)) IN [p EXCEPT !.lines = Quoted(@)]
NewOf(h) ==
    [lines |-> Quoted(SubSeq(original.lines, h.first, h.first + h.before - 1))
                 \o [i \in 1 .. h.new |-> Added]
                 \o Quoted(SubSeq(original.lines, End(h) - h.after + 1, End(h))),
     nl |-> (h.new = 0 /\ h.after = 0) \/ Piece(original, h.first, End(h)).nl]

\* What the patch means, from its last hunk to its first.
Meant ==
    LET change(h, file) ==
          LET rest == SubSeq(file.lines, h.first + h.before + h.removed, Len(file.lines))
          IN [lines |-> SubSeq(file.lines, 1, h.first + h.before - 1) \o [i \in 1 .. h.new |-> Added] \o rest,
              nl |-> file.nl \/ (rest = <<>> /\ (h.new = 0 \/ OldOf(h).lines = <<>>))]
    IN FoldRight(change, hunks, original)

Hunk(n) ==
    {h \in [first : 1 .. n + 1, before : 0 .. 1, removed : 0 .. 2, after : 0 .. 1, new : 0 .. 1,
            anchor : {"none", "text", "line"}, eof : BOOLEAN] :
       /\ End(h) <= n /\ h.removed + h.new > 0
       /\ h.anchor = "text" => h.first > 1
       /\ h.eof => End(h) = n /\ h.anchor = "none"}

Files(pads) == [lines : UNION {[1 .. n -> {Line(t, p) : t \in Texts, p \in pads}] : n \in 1 .. MaxLines},
                nl : BOOLEAN]

Init ==
    /\ sloppy \in BOOLEAN
    /\ IF sloppy THEN (\E pad \in {"r", "l"} : original \in Files({"", pad})) /\ original.nl
       ELSE original \in Files({""})
    /\ \E n \in 1 .. IF sloppy THEN 1 ELSE MaxHunks : hunks \in [1 .. n -> Hunk(Len(original.lines))]
    /\ \A i \in 1 .. Len(hunks) - 1 :
         End(hunks[i]) < hunks[i + 1].first /\ ~hunks[i].eof
    /\ \A i \in 2 .. Len(hunks) : hunks[i].anchor = "text" => hunks[i].first - 1 > End(hunks[i - 1])
    /\ content = original /\ from = 0 /\ next = 1 /\ outcome = "running"

-----------------------------------------------------------------------------
(* find_hunk_match.                                                        *)

N == Len(content.lines)
normalize_line(line, mode) ==
    [line EXCEPT !.pad = IF mode = "strip" \/ (mode = "rstrip" /\ @ = "r") THEN "" ELSE @]

\* The lines after which the search starts, or -1: the first line that is the
\* quoted anchor, exactly before up to white space.
find_anchor(anchor) ==
    LET At(mode) == {i \in from + 1 .. N : normalize_line(content.lines[i], mode) = normalize_line(anchor, mode)}
        modes == SelectSeq(<<"exact", "rstrip", "strip">>, LAMBDA mode : At(mode) # {})
    IN IF modes = <<>> THEN -1 ELSE Min(At(Head(modes)))

line_offset(line) ==
    IF line <= 1 THEN 0 ELSE IF line <= N \/ (line = N + 1 /\ content.nl) THEN line - 1 ELSE -1

anchor_start(h) ==
    CASE h.anchor = "none" -> from
      [] h.anchor = "text" -> find_anchor(Quoted(original.lines)[h.first - 1])
      [] h.anchor = "line" -> IF line_offset(h.first) < 0 THEN N ELSE line_offset(h.first)

\* Lines before each place at or after start where old stands.
Windows(old, start, mode) ==
    {p \in start .. N - Len(old.lines) :
       \A i \in 1 .. Len(old.lines) :
         normalize_line(content.lines[p + i], mode) = normalize_line(old.lines[i], mode)}

\* match_indices skips places that overlap the one before.
Disjoint(places, length) ==
    LET found[p \in -1 .. N] ==
          IF p < 0 THEN {}
          ELSE LET before == found[p - 1]
               IN IF p \in places /\ \A q \in before : q + length <= p THEN before \cup {p} ELSE before
    IN found[N]

Exact(old, start) ==
    LET Ends(p) == p + Len(old.lines) = N
        Whole(p) == IF old.nl THEN ~Ends(p) \/ content.nl ELSE Ends(p) /\ ~content.nl
        places == Windows(old, start, "exact")
    IN {p \in Disjoint({q \in places : old.nl => Whole(q)}, Len(old.lines)) : Whole(p)}

\* Old lines that end with a newline the file lacks.
Unterminated(old, start) ==
    IF old.nl /\ ~content.nl THEN {p \in Windows(old, start, "exact") : p + Len(old.lines) = N} ELSE {}

\* The places of the first way of matching that finds any.
find_hunk_match(h) ==
    LET old == OldOf(h)
        start == anchor_start(h)
        AtEnd(places) == {p \in places : h.eof => p + Len(old.lines) = N}
        ways == SelectSeq(<<AtEnd(Exact(old, start)), Unterminated(old, start),
                            AtEnd(Windows(old, start, "rstrip")), AtEnd(Windows(old, start, "strip"))>>,
                          LAMBDA places : places # {})
    IN IF start < 0 THEN {}
       ELSE IF old.lines = <<>>
         THEN IF h.anchor # "line" THEN {N}
              ELSE IF line_offset(h.first) < 0 THEN {} ELSE {line_offset(h.first)}
       ELSE IF ways = <<>> THEN {} ELSE Head(ways)

\* One place, or the patch is refused.
apply_hunk ==
    LET h == hunks[next]
        places == find_hunk_match(h)
        p == CHOOSE q \in places : TRUE
    IN /\ outcome = "running"
       /\ IF Cardinality(places) # 1 THEN outcome' = "refused" /\ UNCHANGED <<content, from, next>>
          ELSE /\ content' = Joined(Joined(Piece(content, 1, p), NewOf(h)),
                                    Piece(content, p + Len(OldOf(h).lines) + 1, N))
               /\ from' = p + Len(NewOf(h).lines)
               /\ next' = next + 1
               /\ outcome' = IF next = Len(hunks) THEN "applied" ELSE "running"
       /\ UNCHANGED <<original, sloppy, hunks>>

Next == apply_hunk

Spec == Init /\ [][Next]_vars

-----------------------------------------------------------------------------
TypeOK ==
    /\ from \in 0 .. N + 1 /\ next \in 1 .. Len(hunks) + 1
    /\ outcome \in {"running", "applied", "refused"}

\* Old lines that overlap themselves when they stand twice.
Overlapping(old) ==
    \E k \in 1 .. Len(old) - 1 : SubSeq(old, 1, k) = SubSeq(old, Len(old) - k + 1, Len(old))

WithoutSpace(file) == [i \in DOMAIN file.lines |-> file.lines[i].t]
SameTexts == \E i, j \in DOMAIN original.lines : i # j /\ original.lines[i].t = original.lines[j].t

\* An update is applied where its author meant it or refused, however often its
\* lines stand in the file and with or without a final newline.  Exceptions are
\* lines that overlap themselves, an insertion that quotes nothing (it goes to
\* the end), a line number behind a hunk that has moved the lines, and white
\* space that makes another place the exact one.
AppliedAsMeant ==
    (/\ outcome = "applied"
     /\ \A i \in DOMAIN hunks :
          /\ ~Overlapping(OldOf(hunks[i]).lines)
          /\ OldOf(hunks[i]).lines = <<>> =>
                hunks[i].first = Len(original.lines) + 1 /\ original.nl /\ i = Len(hunks)
     /\ \A i, j \in DOMAIN hunks : (i < j /\ hunks[j].anchor = "line") => hunks[i].new = hunks[i].removed
     /\ sloppy => ~SameTexts)
    => IF sloppy THEN WithoutSpace(content) = WithoutSpace(Meant) ELSE content = Meant

=============================================================================
