--------------------------- MODULE PayloadChecks ---------------------------
(****************************************************************************)
(* What a write stores against what another device accepts: the checks and  *)
(* normalisations of db/repo/reading.rs and db/repo/planner.rs before a row *)
(* is sent, and those of db/repo/sync.rs before it is applied.  A change    *)
(* that is not accepted fails its page, and every page after it waits.      *)
(*                                                                          *)
(* A text is its number of characters and the bytes each takes in UTF-8; an *)
(* instant counts the parts of a second it was given with.                  *)
(****************************************************************************)
EXTENDS Naturals, Sequences, FiniteSets

CONSTANTS
  Texts,          \* the texts the user may enter: records of chars and width
  QuoteBytes, NoteBytes, TitleChars,
  ContextLimit,   \* characters for truncate_context, bytes for the receiver
  Instants, Tick, \* instants, and how many of them make a second
  MaxWrites       \* bound: writes to the row

LimitsAssumption ==
  /\ \A t \in Texts : t.chars \in Nat /\ t.width \in 1 .. 4
  /\ {QuoteBytes, NoteBytes, TitleChars, ContextLimit, MaxWrites} \subseteq Nat
  /\ Instants \subseteq Nat /\ Tick \in Nat \ {0}

VARIABLES
  kind,           \* the entity type of the row
  written,        \* the revisions of the row, as they were sent
  accepted,       \* how many of them the other device applied
  theirs,         \* the row there
  stuck           \* the next one was refused

vars == <<kind, written, accepted, theirs, stuck>>

Bytes(t) == t.chars * t.width
Blank == [chars |-> 0, width |-> 1]
NoRow == [of |-> "none"]
Row == IF written = <<>> THEN NoRow ELSE written[Len(written)]

-----------------------------------------------------------------------------
(* The device that writes                                                   *)

truncate_context_None(t) == t                                           \* mutant
truncate_context(t) == IF t.chars > ContextLimit THEN [t EXCEPT !.chars = ContextLimit] ELSE t

Send(row) ==
  /\ Len(written) < MaxWrites
  /\ written' = Append(written, row)
  /\ UNCHANGED <<kind, accepted, theirs, stuck>>

insert_highlight(quote, context, note) ==
  /\ kind = "reading_highlight" /\ written = <<>>
  /\ quote.chars > 0 /\ Bytes(quote) <= QuoteBytes
  /\ Send([of |-> "reading_highlight", quote |-> quote, context |-> truncate_context(context), note |-> note])

update_highlight_Unchecked(note) ==                                     \* mutant
  /\ kind = "reading_highlight" /\ written # <<>>
  /\ Send([Row EXCEPT !.note = note])
update_highlight(note) ==
  /\ kind = "reading_highlight" /\ written # <<>>
  /\ Bytes(note) <= NoteBytes
  /\ Send([Row EXCEPT !.note = note])

\* A title comes from the EPUB; blank ones are "Untitled EPUB" there.
insert_book(title) ==
  /\ kind = "reading_book" /\ written = <<>>
  /\ title.chars > 0
  /\ Send([of |-> "reading_book", title |-> title, progress |-> Blank])

update_progress(cfi) ==
  /\ kind = "reading_book" /\ written # <<>>
  /\ cfi.chars > 0 /\ Bytes(cfi) <= NoteBytes
  /\ cfi # Row.progress
  /\ Send([Row EXCEPT !.progress = cfi])

\* Stored with whole seconds.
format_instant(t) == Tick * (t \div Tick)
Timed(s, e) == [of |-> "calendar_event", starts |-> format_instant(s), ends |-> format_instant(e)]

create_event(s, e) ==
  /\ kind = "calendar_event" /\ written = <<>>
  /\ e > s
  /\ Send(Timed(s, e))

\* What is omitted stays.
update_event(s, e) ==
  /\ kind = "calendar_event" /\ written # <<>>
  /\ \E starts \in {s, Row.starts}, ends \in {e, Row.ends} : ends > starts /\ Send(Timed(starts, ends))

\* A due date or a due time, with a zone; a rule only beside one of them.
normalize_task_schedule_Both(date, at, rule) ==                         \* mutant
  [of |-> "task", date |-> date, at |-> at, zone |-> date \/ at, rule |-> rule, ok |-> rule => date \/ at]
normalize_task_schedule(date, at, rule) ==
  [of |-> "task", date |-> date, at |-> at, zone |-> date \/ at, rule |-> rule,
   ok |-> ~(date /\ at) /\ (rule => date \/ at)]

create_task(date, at, rule) ==
  LET task == normalize_task_schedule(date, at, rule) IN
  /\ kind = "task" /\ written = <<>>
  /\ task.ok
  /\ Send(task)

\* Each field is omitted, cleared or set: "omitted" keeps the stored one.
patched(old, given) == IF given = "omitted" THEN old ELSE given = "set"
update_task(date, at, rule) ==
  LET task == normalize_task_schedule(patched(Row.date, date), patched(Row.at, at), patched(Row.rule, rule)) IN
  /\ kind = "task" /\ written # <<>>
  /\ {date, at, rule} # {"omitted"}
  /\ task.ok
  /\ Send(task)

-----------------------------------------------------------------------------
(* The device that receives                                                 *)

apply_remote_reading_highlight(p) ==
  /\ p.quote.chars > 0 /\ Bytes(p.quote) <= QuoteBytes
  /\ Bytes(p.context) <= ContextLimit
  /\ Bytes(p.note) <= NoteBytes

apply_remote_reading_book(p) ==
  /\ p.title.chars \in 1 .. TitleChars
  /\ Bytes(p.progress) <= NoteBytes

apply_remote_calendar_event(p) == p.ends > p.starts

apply_remote_task(p) == ~(p.date /\ p.at)

accepts(p) ==
  CASE p.of = "reading_highlight" -> apply_remote_reading_highlight(p)
    [] p.of = "reading_book" -> apply_remote_reading_book(p)
    [] p.of = "calendar_event" -> apply_remote_calendar_event(p)
    [] p.of = "task" -> apply_remote_task(p)

\* A refused change fails its page each time it is asked for.
apply_pull_page ==
  /\ accepted < Len(written) /\ ~stuck
  /\ LET p == written[accepted + 1] IN
     IF accepts(p)
     THEN /\ theirs' = p /\ accepted' = accepted + 1
          /\ UNCHANGED <<kind, written, stuck>>
     ELSE /\ stuck' = TRUE
          /\ UNCHANGED <<kind, written, accepted, theirs>>

-----------------------------------------------------------------------------
Kinds == {"reading_highlight", "reading_book", "calendar_event", "task"}

Init ==
  /\ kind \in Kinds
  /\ written = <<>> /\ accepted = 0 /\ theirs = NoRow /\ stuck = FALSE

Patches == {"omitted", "clear", "set"}
Next ==
  \/ \E q, c, n \in Texts : insert_highlight(q, c, n)
  \/ \E n \in Texts : update_highlight(n)
  \/ \E t \in Texts : insert_book(t)
  \/ \E t \in Texts : update_progress(t)
  \/ \E s, e \in Instants : create_event(s, e)
  \/ \E s, e \in Instants : update_event(s, e)
  \/ \E date, at, rule \in BOOLEAN : create_task(date, at, rule)
  \/ \E date, at, rule \in Patches : update_task(date, at, rule)
  \/ apply_pull_page

Spec == Init /\ [][Next]_vars

-----------------------------------------------------------------------------
(* Properties                                                               *)

TypeOK ==
  /\ kind \in Kinds
  /\ Len(written) <= MaxWrites /\ \A i \in DOMAIN written : written[i].of = kind
  /\ accepted \in 0 .. Len(written)
  /\ theirs.of \in {"none", kind}
  /\ stuck \in BOOLEAN

\* The rows a device stores and no other accepts: a context that fits by its
\* characters but not by its bytes, a note that was made with its highlight
\* (only a later change of it is measured), a long title, an event that began
\* and ended within one second.
Unacceptable(p) ==
  \/ p.of = "reading_highlight" /\ (Bytes(p.context) > ContextLimit \/ Bytes(p.note) > NoteBytes)
  \/ p.of = "reading_book" /\ p.title.chars > TitleChars
  \/ p.of = "calendar_event" /\ p.starts = p.ends

\* Only these stop another device.  Where every character takes one byte the
\* context is not among them, and a row that was accepted once stays
\* acceptable, whatever is changed in it, unless it is an event.
OnlyUnacceptable ==
  stuck =>
    LET p == written[accepted + 1] IN
    /\ Unacceptable(p)
    /\ p.of = "reading_highlight" /\ Bytes(p.note) <= NoteBytes => p.context.width > 1
    /\ accepted > 0 => p.of = "calendar_event"

\* A device that is up to date has the row as it was stored: the checks of the
\* receiver change nothing in it.
CopyEqual == accepted = Len(written) => theirs = Row

PayloadsSafe == OnlyUnacceptable /\ CopyEqual
=============================================================================
