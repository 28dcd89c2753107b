------------------------------ MODULE Calendar ------------------------------
(***************************************************************************)
(* An event of a calendar, its recurrence, and the exceptions to single    *)
(* occurrences (db/repo/planner.rs).  Time is a number; the event starts   *)
(* at master.start, takes master.len, and repeats every master.every units *)
(* (0: it does not).  An exception cancels an occurrence or names the row  *)
(* of a replacement event.  Every command is one transaction, and so is    *)
(* the page that brings another device's version of the event              *)
(* (db/repo/sync.rs); what that device did to exceptions comes by itself.  *)
(***************************************************************************)
EXTENDS Naturals, FiniteSets

CONSTANTS Instants,         \* bound: points in time, 0 .. n
          Lengths,       \* bound: durations
          Intervals,     \* bound: recurrence rules, 0 among them
          Replacements,  \* bound: ids of replacement events
          MAX_OCCURRENCES_PER_SERIES,
          MaxEdits       \* bound: commands

ASSUME CalendarAssumption ==
    /\ Instants \subseteq Nat /\ Lengths \subseteq Nat \ {0} /\ Intervals \subseteq Nat
    /\ "none" \notin Replacements

VARIABLES master,      \* the recurring event
          exceptions,  \* event_exceptions, by original occurrence
          replaced,    \* replacement events, by id
          synced,      \* what was enqueued last: event, exceptions, replacements
          strays,       \* exceptions in force whose occurrences another device's version
                       \* of the event does not have
          edits        \* number of commands

eventVars == <<master, exceptions, replaced, synced, strays, edits>>

NoException == [state |-> "none", by |-> "none", version |-> 0]
NoEvent == [state |-> "none", at |-> 0, len |-> 1, version |-> 0]

(* recurrence_set *)
OccurrencesOf(event) == IF event.every = 0 THEN {} ELSE {t \in Instants : \E k \in Instants : t = event.start + event.every * k}

overlaps(start, end, from, to) == start < to /\ end > from

LiveException(o) == exceptions[o].state \in {"moved", "cancelled"}

(* event_exceptions JOIN the live replacement event. *)
HasReplacement(o) == exceptions[o].state = "moved" /\ replaced[exceptions[o].by].state = "live"

Entry(o, at, len) == [original |-> o, at |-> at, len |-> len]
Moved(o) == Entry(o, replaced[exceptions[o].by].at, replaced[exceptions[o].by].len)

Shown(entry, from, to) == overlaps(entry.at, entry.at + entry.len, from, to)

(* list_events: occurrences that the rule generates around the range, with *)
(* their exceptions applied; then the exceptions that move an occurrence   *)
(* from elsewhere into the range, each checked by generated_occurrence.    *)
Expanded(from, to) == {o \in OccurrencesOf(master) : o + master.len >= from /\ o <= to}

InRange(from, to) ==
    {e \in {IF HasReplacement(o) THEN Moved(o) ELSE Entry(o, o, master.len) :
               o \in {p \in Expanded(from, to) : ~LiveException(p) \/ HasReplacement(p)}} :
        Shown(e, from, to)}

MovedIn(from, to) ==
    {o \in Instants : HasReplacement(o) /\ o \notin Expanded(from, to) /\ Shown(Moved(o), from, to)}

Crowded(from, to) == Cardinality(Expanded(from, to)) > MAX_OCCURRENCES_PER_SERIES

ListFails(from, to) ==
    master.every > 0 /\ (Crowded(from, to) \/ ~ (MovedIn(from, to) \subseteq OccurrencesOf(master)))

list_events(from, to) ==
    IF master.every = 0
    THEN {e \in {Entry(master.start, master.start, master.len)} : Shown(e, from, to)}
    ELSE InRange(from, to) \cup {Moved(o) : o \in MovedIn(from, to)}

(***************************************************************************)
(* Commands.                                                               *)
(***************************************************************************)

(* get_event_sync_source, get_exception_sync_source: rows as the           *)
(* transaction leaves them. *)
SyncSource == [event |-> master'.version,
               exceptions |-> [o \in Instants |-> exceptions'[o].version],
               replaced |-> [r \in Replacements |-> replaced'[r].version]]

(* enqueue_event and enqueue_exception for the rows of the transaction. *)
enqueue(event, occs, reps) ==
    synced' = [event |-> IF event THEN SyncSource.event ELSE synced.event,
               exceptions |-> [o \in Instants |-> IF o \in occs THEN SyncSource.exceptions[o] ELSE synced.exceptions[o]],
               replaced |-> [r \in Replacements |-> IF r \in reps THEN SyncSource.replaced[r] ELSE synced.replaced[r]]]

Bumped(row) == [row EXCEPT !.version = @ + 1]
DropException(row) == [Bumped(row) EXCEPT !.state = "deleted"]
DropEvent(row) == IF row.state = "live" THEN [Bumped(row) EXCEPT !.state = "deleted"] ELSE row

(* All exceptions of the event and their replacements are deleted. *)
Cleared == {o \in Instants : LiveException(o)}
Owned(occs) == {exceptions[o].by : o \in {p \in occs : exceptions[p].by # "none"}}

clear_exceptions ==
    /\ exceptions' = [o \in Instants |-> IF o \in Cleared THEN DropException(exceptions[o]) ELSE exceptions[o]]
    /\ replaced' = [r \in Replacements |-> IF r \in Owned(Instants) THEN DropEvent(replaced[r]) ELSE replaced[r]]
    /\ strays' = {}

\* mutant
schedule_changed_Rule(start, every) == every # master.every

schedule_changed(start, every) == start # master.start \/ every # master.every

update_event(start, len, every) ==
    /\ master.live
    /\ master' = [Bumped(master) EXCEPT !.start = start, !.len = len, !.every = every]
    /\ IF schedule_changed(start, every)
       THEN clear_exceptions /\ enqueue(TRUE, Cleared, Owned(Cleared))
       ELSE UNCHANGED <<exceptions, replaced, strays>> /\ enqueue(TRUE, {}, {})

(* generated_occurrence *)
Generated(o) == master.live /\ o \in OccurrencesOf(master)

(* update_occurrence: the replacement that is there is moved, or a new one *)
(* is made with the id of the request. *)
update_occurrence(o, new, at, len) ==
    LET r == IF LiveException(o) /\ exceptions[o].by # "none" THEN exceptions[o].by ELSE new IN
    /\ Generated(o) /\ (r = new => replaced[new].state = "none")
    /\ replaced' = [replaced EXCEPT ![r] = [state |-> "live", at |-> at, len |-> len, version |-> @.version + 1]]
    /\ exceptions' = [exceptions EXCEPT ![o] = [state |-> "moved", by |-> r, version |-> @.version + 1]]
    /\ UNCHANGED <<master, strays>> /\ enqueue(FALSE, {o}, {r})

cancel_occurrence(o) ==
    LET reps == IF LiveException(o) THEN Owned({o}) ELSE {} IN
    /\ Generated(o)
    /\ replaced' = [r \in Replacements |-> IF r \in reps THEN DropEvent(replaced[r]) ELSE replaced[r]]
    /\ exceptions' = [exceptions EXCEPT ![o] = [state |-> "cancelled", by |-> "none", version |-> @.version + 1]]
    /\ UNCHANGED <<master, strays>> /\ enqueue(FALSE, {o}, reps)

restore_occurrence(o) ==
    /\ Generated(o)
    /\ replaced' = [r \in Replacements |-> IF r \in Owned({o}) THEN DropEvent(replaced[r]) ELSE replaced[r]]
    /\ exceptions' = [exceptions EXCEPT ![o] = IF LiveException(o) THEN DropException(@) ELSE @]
    /\ UNCHANGED <<master, strays>>
    /\ enqueue(FALSE, IF LiveException(o) THEN {o} ELSE {}, Owned({o}))

delete_event ==
    /\ master.live
    /\ master' = [Bumped(master) EXCEPT !.live = FALSE]
    /\ clear_exceptions /\ enqueue(TRUE, Cleared, Owned(Cleared))

\* The row is written as the other device has it; the exceptions stay as they are.
apply_remote_calendar_event(start, len, every) ==
    /\ master.live
    /\ master' = [Bumped(master) EXCEPT !.start = start, !.len = len, !.every = every]
    /\ strays' = {o \in Cleared : o \notin OccurrencesOf(master')}
    /\ synced' = [synced EXCEPT !.event = master'.version]
    /\ UNCHANGED <<exceptions, replaced>>

(* create_event has run: any start, duration and rule. *)
EventInit ==
    /\ \E t \in Instants, n \in Lengths, k \in Intervals :
          master = [start |-> t, len |-> n, every |-> k, live |-> TRUE, version |-> 1]
    /\ exceptions = [o \in Instants |-> NoException]
    /\ replaced = [r \in Replacements |-> NoEvent]
    /\ synced = [event |-> 1, exceptions |-> [o \in Instants |-> 0], replaced |-> [r \in Replacements |-> 0]]
    /\ strays = {} /\ edits = 0

EventNext ==
    /\ edits < MaxEdits /\ edits' = edits + 1
    /\ \/ delete_event
       \/ \E t \in Instants, n \in Lengths, k \in Intervals :
             update_event(t, n, k) \/ apply_remote_calendar_event(t, n, k)
       \/ \E o \in Instants :
             \/ cancel_occurrence(o) \/ restore_occurrence(o)
             \/ \E r \in Replacements, t \in Instants, n \in Lengths : update_occurrence(o, r, t, n)

EventSpec == EventInit /\ [][EventNext]_eventVars

(***************************************************************************)
(* Properties.                                                             *)
(***************************************************************************)

\* The state has its type.
EventTypeOK ==
    /\ master.start \in Instants /\ master.len \in Lengths
    /\ strays \subseteq Instants
    /\ \A o \in Instants : exceptions[o].by \in Replacements \cup {"none"}
    /\ \A r \in Replacements : replaced[r].state \in {"none", "live", "deleted"}

\* What an occurrence of the series has become.
Effective(o) ==
    IF ~LiveException(o) THEN {Entry(o, o, master.len)}
    ELSE IF exceptions[o].state = "cancelled" THEN {} ELSE {Moved(o)}

Reference(from, to) ==
    {e \in UNION {Effective(o) : o \in OccurrencesOf(master)} : Shown(e, from, to)}

\* The calendar view of a range fails in two cases only: the series has too many
\* occurrences around it, or another device's version of the event came without the
\* occurrence of an exception that moves it into the range.  Otherwise it shows every
\* occurrence of the series once, moved or not, and none that was cancelled: the
\* expansion around the range and the second pass over the moved occurrences
\* together find what the whole series holds.  No command of the user leads there.
StrayIn(from, to) ==
    \E o \in strays : exceptions[o].state = "moved" /\ o \notin Expanded(from, to) /\ Shown(Moved(o), from, to)
ListingComplete ==
    \A from \in Instants, to \in Instants :
        from < to /\ master.live /\ master.every > 0 =>
            IF Crowded(from, to) \/ StrayIn(from, to)
            THEN ListFails(from, to)
            ELSE ~ListFails(from, to) /\ list_events(from, to) = Reference(from, to)

\* Replacement events and exceptions belong to each other one to one: no
\* replacement stays behind when its exception goes, and none is lost.
ReplacementsOwned ==
    /\ \A r \in Replacements : replaced[r].state = "live" =>
          Cardinality({o \in Instants : exceptions[o].state = "moved" /\ exceptions[o].by = r}) = 1
    /\ \A o \in Instants : exceptions[o].state = "moved" => replaced[exceptions[o].by].state = "live"

\* Every row a command changed was enqueued with its last version.
CalendarQueued ==
    /\ synced.event = master.version
    /\ \A o \in Instants : synced.exceptions[o] = exceptions[o].version
    /\ \A r \in Replacements : synced.replaced[r] = replaced[r].version

\* The calendar shows every occurrence once or fails for a named reason, replacement
\* events and exceptions match, and every change of an event is enqueued.
CalendarSafe == EventTypeOK /\ ListingComplete /\ ReplacementsOwned /\ CalendarQueued
=============================================================================
