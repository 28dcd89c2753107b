----------------------------- MODULE Reminders -----------------------------
(***************************************************************************)
(* The notification service (notifications.rs, db/repo/notifications.rs):  *)
(* a scan at a fixed interval that notifies of tasks and events due in the *)
(* window before it, and the notifications of tool approvals, which the    *)
(* WebSocket loop and approve_tool write.  A notification is skipped while *)
(* the window has the focus, stored once per key, and then shown.  One     *)
(* unit of time is the scan interval; a scan ends before the next one.     *)
(***************************************************************************)
EXTENDS Naturals, FiniteSets

CONSTANTS Items,                  \* open tasks and event occurrences
          MaxTime,                \* bound: last point in time
          MISSED_WINDOW_MINUTES,  \* in scan intervals
          Approvals               \* tool calls that need an approval

ASSUME RemindersAssumption == MaxTime \in Nat /\ MISSED_WINDOW_MINUTES \in Nat

VARIABLES time, running, focused,
          items,   \* remind time of each item and whether it is open
          steady,  \* since when the application runs unfocused and the item is unchanged
          scan,    \* the scan in progress: when it began, what is left, the stored row to show
          scanned, \* has the scan of this interval begun
          inbox,   \* notifications by dedupe key: absent, unread or read
          shown,   \* native alerts by key
          approval \* progress of each approval

reminderVars == <<time, running, focused, items, steady, scan, scanned, inbox, shown, approval>>

Times == 0 .. MaxTime
ItemKeys == Items \X Times
Keys == ItemKeys \cup {<<a>> : a \in Approvals}
NoScan == [pc |-> "idle", from |-> 0, todo |-> {}, key |-> <<>>]

inside_window(at, now) == at <= now /\ at + MISSED_WINDOW_MINUTES >= now

(* notification_time_for_task, notification_time_for_event: nine in the    *)
(* morning of a whole day, or the start. *)
notification_time(i) == items[i].at

\* A moved item is a new reminder.
dedupe_key(i, at) == <<i, at>>

(* persist: nothing is stored while the user looks at the window. *)
Stored(key) == inbox' = [inbox EXCEPT ![key] = "unread"]

create_if_absent(key) == inbox[key] = "absent"

(* mark_read, mark_all_read, mark_source_read *)
mark_read(keys) == inbox' = [k \in Keys |-> IF k \in keys /\ inbox[k] = "unread" THEN "read" ELSE inbox[k]]

Touched(changed) == [i \in Items |-> IF i \in changed THEN time ELSE steady[i]]

(***************************************************************************)
(* The scan.                                                               *)
(***************************************************************************)

\* mutant
scan_due_Exact ==
    /\ running /\ scan.pc = "idle" /\ ~scanned
    /\ scan' = [pc |-> "item", from |-> time, key |-> <<>>,
                todo |-> {i \in Items : items[i].open /\ items[i].at = time}]
    /\ scanned' = TRUE
    /\ UNCHANGED <<time, running, focused, items, steady, inbox, shown, approval>>

(* scan_due: the lists are read at the start. *)
scan_due ==
    /\ running /\ scan.pc = "idle" /\ ~scanned
    /\ scan' = [pc |-> "item", from |-> time, key |-> <<>>,
                todo |-> {i \in Items : items[i].open /\ inside_window(notification_time(i), time)}]
    /\ scanned' = TRUE
    /\ UNCHANGED <<time, running, focused, items, steady, inbox, shown, approval>>

(* persist of one reminder. *)
remind(i) ==
    LET key == dedupe_key(i, notification_time(i)) IN
    /\ scan.pc = "item" /\ i \in scan.todo
    /\ IF ~focused /\ create_if_absent(key)
       THEN Stored(key) /\ scan' = [scan EXCEPT !.pc = "show", !.key = key, !.todo = @ \ {i}]
       ELSE UNCHANGED inbox /\ scan' = [scan EXCEPT !.todo = @ \ {i}]
    /\ UNCHANGED <<time, running, focused, items, steady, scanned, shown, approval>>

show_native_notification ==
    /\ scan.pc = "show"
    /\ shown' = [shown EXCEPT ![scan.key] = @ + 1]
    /\ scan' = [scan EXCEPT !.pc = "item", !.key = <<>>]
    /\ UNCHANGED <<time, running, focused, items, steady, scanned, inbox, approval>>

(* The scan is over, or a call of the database failed and ends it. *)
scan_ends ==
    /\ scan.pc = "item" /\ scan' = NoScan
    /\ steady' = Touched(scan.todo)
    /\ UNCHANGED <<time, running, focused, items, scanned, inbox, shown, approval>>

(***************************************************************************)
(* Approvals.                                                              *)
(***************************************************************************)

(* The WebSocket loop notifies and only then registers the approval. *)
notify_approval_requested(a) ==
    /\ running /\ approval[a] = "new"
    /\ approval' = [approval EXCEPT ![a] = "notified"]
    /\ IF ~focused /\ create_if_absent(<<a>>) THEN Stored(<<a>>) ELSE UNCHANGED inbox
    /\ UNCHANGED <<time, running, focused, items, steady, scan, scanned, shown>>

register_approval(a) ==
    /\ running /\ approval[a] = "notified"
    /\ approval' = [approval EXCEPT ![a] = "registered"]
    /\ UNCHANGED <<time, running, focused, items, steady, scan, scanned, inbox, shown>>

(* approve_tool: only a registered approval is resolved; its notification  *)
(* is then marked as read. *)
approve_tool(a) ==
    /\ running /\ approval[a] = "registered"
    /\ approval' = [approval EXCEPT ![a] = "resolved"]
    /\ UNCHANGED <<time, running, focused, items, steady, scan, scanned, inbox, shown>>

resolve_approval(a) ==
    /\ running /\ approval[a] = "resolved"
    /\ approval' = [approval EXCEPT ![a] = "read"]
    /\ mark_read({<<a>>})
    /\ UNCHANGED <<time, running, focused, items, steady, scan, scanned, shown>>

(***************************************************************************)
(* The user, the clock and the application.                                *)
(***************************************************************************)

mark_all_read ==
    /\ running /\ \E k \in Keys : inbox[k] = "unread"
    /\ mark_read(Keys)
    /\ UNCHANGED <<time, running, focused, items, steady, scan, scanned, shown, approval>>

change_item(i) ==
    /\ scan.pc = "idle"
    /\ \E at \in Times, open \in BOOLEAN : items' = [items EXCEPT ![i] = [at |-> at, open |-> open]]
    /\ steady' = Touched({i})
    /\ UNCHANGED <<time, running, focused, scan, scanned, inbox, shown, approval>>

change_focus ==
    /\ running /\ focused' = ~focused /\ steady' = Touched(Items)
    /\ UNCHANGED <<time, running, items, scan, scanned, inbox, shown, approval>>

quit ==
    /\ running /\ running' = FALSE /\ scan' = NoScan
    /\ approval' = [a \in Approvals |-> IF approval[a] = "read" THEN "read" ELSE "new"]
    /\ inbox' = inbox /\ steady' = Touched(Items)
    /\ UNCHANGED <<time, focused, items, scanned, shown>>

start_background ==
    /\ ~running /\ running' = TRUE /\ scanned' = FALSE /\ steady' = Touched(Items)
    /\ UNCHANGED <<time, focused, items, scan, inbox, shown, approval>>

tick ==
    /\ time < MaxTime /\ scan.pc = "idle" /\ (running => scanned)
    /\ time' = time + 1 /\ scanned' = FALSE
    /\ UNCHANGED <<running, focused, items, steady, scan, inbox, shown, approval>>

RemindersInit ==
    /\ time = 0 /\ running = TRUE /\ scanned = FALSE
    /\ focused \in BOOLEAN
    /\ items \in [Items -> [at : Times, open : {TRUE}]]
    /\ steady = [i \in Items |-> 0]
    /\ scan = NoScan
    /\ inbox = [k \in Keys |-> "absent"]
    /\ shown = [k \in Keys |-> 0]
    /\ approval = [a \in Approvals |-> "new"]

RemindersNext ==
    \/ scan_due \/ show_native_notification \/ scan_ends \/ tick
    \/ mark_all_read \/ change_focus \/ quit \/ start_background
    \/ \E i \in Items : remind(i) \/ change_item(i)
    \/ \E a \in Approvals :
          notify_approval_requested(a) \/ register_approval(a) \/ approve_tool(a) \/ resolve_approval(a)

RemindersSpec == RemindersInit /\ [][RemindersNext]_reminderVars

(***************************************************************************)
(* Properties.                                                             *)
(***************************************************************************)

\* The state has its type.
RemindersTypeOK ==
    /\ time \in Times /\ scan.todo \subseteq Items
    /\ \A k \in Keys : inbox[k] \in {"absent", "unread", "read"}

\* A reminder is shown at most once and never before its time, whatever
\* restarts, focus changes and reads fall between the scans.
RemindedOnce ==
    \A k \in ItemKeys : shown[k] <= 1 /\ (inbox[k] # "absent" => k[2] <= time)

\* An item that is due, or was due within the window, is in the inbox one
\* scan after the application began to run in the background.
Reminded ==
    \A i \in Items :
        LET from == IF steady[i] > items[i].at THEN steady[i] ELSE items[i].at IN
        /\ running /\ ~focused /\ items[i].open
        /\ from + 1 < time /\ from + 1 <= items[i].at + MISSED_WINDOW_MINUTES
        => inbox[<<i, items[i].at>>] # "absent"

\* The notification of an approval the user has given is not left unread.
ApprovedIsRead ==
    \A a \in Approvals : approval[a] = "read" => inbox[<<a>>] # "unread"

\* What is due is in the inbox, shown at most once and not early, and a given
\* approval leaves no unread notification.
RemindersSafe == RemindersTypeOK /\ RemindedOnce /\ Reminded /\ ApprovedIsRead
=============================================================================
