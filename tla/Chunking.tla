------------------------------ MODULE Chunking ------------------------------
(***************************************************************************)
(* How a text is cut into the chunks that are indexed: chunk_local_text of *)
(* commands/mod.rs.  A text is a sequence of paragraphs; of a paragraph    *)
(* only its length matters and whether it starts a section.  A character   *)
(* is the pair of its paragraph and its place there.                       *)
(***************************************************************************)
EXTENDS Naturals, Sequences, SequencesExt, FiniteSetsExt

CONSTANTS Size,          \* KNOWLEDGE_CHUNK_SIZE
          Overlap,       \* KNOWLEDGE_CHUNK_OVERLAP
          MaxParagraphs, \* bound: paragraphs of a text
          MaxLength      \* bound: characters of a paragraph

ASSUME ChunkingAssumption ==
    /\ Size \in Nat /\ Overlap \in Nat /\ Overlap + 2 < Size
    /\ MaxParagraphs \in Nat /\ MaxLength \in Nat

VARIABLES paragraphs,  \* the text
          cutting,     \* the paragraph that is being cut, and what is cut of it
          filling,     \* the chunk being filled
          textChunks   \* the chunks that are finished

chunkingVars == <<paragraphs, cutting, filling, textChunks>>

Paragraphs == [length : 1 .. MaxLength, heading : BOOLEAN]
Separator == <<0, 0>>

\* The characters of paragraph p after the first k.
Rest(p, k) == [j \in 1 .. paragraphs[p].length - k |-> <<p, k + j>>]
AllCut == cutting.paragraph > Len(paragraphs)

\* The heading that holds in paragraph p: 0 before the first.
Section(p) == Max({0} \cup {h \in 1 .. p : h <= Len(paragraphs) /\ paragraphs[h].heading})

(* trailing_chars: nth counts from zero, so this is one more than asked.   *)
trailing_chars(s) == IF Len(s) > Overlap THEN SubSeq(s, Len(s) - Overlap, Len(s)) ELSE s

(* push_text_chunk: a chunk of separators alone is dropped.                *)
Trimmed(s) ==
    LET letters == {j \in DOMAIN s : s[j] # Separator} IN
    IF letters = {} THEN <<>> ELSE SubSeq(s, Min(letters), Max(letters))

push_text_chunk(s, section) ==
    IF Trimmed(s) = <<>> THEN textChunks ELSE Append(textChunks, [text |-> Trimmed(s), section |-> section])

Emit(s, section) == textChunks' = push_text_chunk(s, section) /\ filling' = trailing_chars(s)

\* What is left of the chunk after the line break that comes first.
Room ==
    LET used == Len(filling) + (IF filling = <<>> THEN 0 ELSE 1) IN
    IF used > Size THEN 0 ELSE Size - used

(* The loop of chunk_local_text: a full chunk is emitted and its end kept. *)
emit_full ==
    /\ ~AllCut /\ Room = 0
    /\ Emit(filling, Section(cutting.paragraph))
    /\ UNCHANGED <<paragraphs, cutting>>

(* Or as much of the paragraph as fits is added; if some is left the chunk *)
(* is emitted.                                                             *)
fill ==
    LET rest == Rest(cutting.paragraph, cutting.cut)
        head == SubSeq(rest, 1, Min({Room, Len(rest)}))
        filled == IF filling = <<>> THEN head ELSE filling \o <<Separator>> \o head IN
    /\ ~AllCut /\ Room > 0
    /\ IF Len(head) < Len(rest)
       THEN Emit(filled, Section(cutting.paragraph)) /\ cutting' = [cutting EXCEPT !.cut = @ + Len(head)]
       ELSE /\ filling' = filled /\ UNCHANGED textChunks
            /\ cutting' = [paragraph |-> cutting.paragraph + 1, cut |-> 0]
    /\ UNCHANGED paragraphs

(* What is left is the last chunk.                                         *)
emit_last ==
    /\ AllCut /\ filling # <<>>
    /\ textChunks' = push_text_chunk(filling, Section(Len(paragraphs))) /\ filling' = <<>>
    /\ UNCHANGED <<paragraphs, cutting>>

ChunkingInit ==
    /\ paragraphs \in UNION {[1 .. n -> Paragraphs] : n \in 1 .. MaxParagraphs}
    /\ cutting = [paragraph |-> 1, cut |-> 0] /\ filling = <<>> /\ textChunks = <<>>

ChunkingNext == emit_full \/ fill \/ emit_last

ChunkingSpec == ChunkingInit /\ [][ChunkingNext]_chunkingVars

(***************************************************************************)
(* Properties.                                                             *)
(***************************************************************************)

\* No chunk is larger than the limit, the line breaks between paragraphs and the
\* end of the last chunk included.
ChunksBounded == \A j \in DOMAIN textChunks : Len(textChunks[j].text) <= Size

\* In the end every character is in a chunk, in the order of the text, and every
\* chunk has a character that the one before has not.
NothingLost ==
    AllCut /\ filling = <<>> =>
        /\ \A p \in DOMAIN paragraphs, k \in 1 .. MaxLength :
              k <= paragraphs[p].length => \E j \in DOMAIN textChunks : <<p, k>> \in ToSet(textChunks[j].text)
        /\ \A j \in DOMAIN textChunks : j > 1 =>
              ToSet(textChunks[j].text) \ (ToSet(textChunks[j - 1].text) \cup {Separator}) # {}

\* Two characters that follow each other in a paragraph are together in a chunk.
NeighboursTogether ==
    AllCut /\ filling = <<>> =>
        \A p \in DOMAIN paragraphs, k \in 2 .. MaxLength :
            k <= paragraphs[p].length =>
                \E j \in DOMAIN textChunks : {<<p, k - 1>>, <<p, k>>} \subseteq ToSet(textChunks[j].text)

ChunksSafe == ChunksBounded /\ NothingLost /\ NeighboursTogether
=============================================================================
