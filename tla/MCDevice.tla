------------------------------ MODULE MCDevice ------------------------------
(***************************************************************************)
(* SyncDevice with an entity another device created (theirs) and one       *)
(* created here (ours), in two settings: batches of two changes that may   *)
(* be too large, with pushes that overtake each other inside the gateway;  *)
(* and one change at a time (so never two of an entity in a request, as    *)
(* CLOUDFLARE_SYNC.md 10.2 demands), where none overtakes another.  The    *)
(* one created here is a session.                                          *)
(***************************************************************************)
EXTENDS SyncDevice

CONSTANTS Parts,
          MaxRacing  \* bound: edits of all devices where pushes overtake each other

VARIABLE part

Single == INSTANCE SyncDevice WITH Bulky <- {1}, BulkLimit <- 0, Races <- FALSE, PushLimit <- 1

DeviceInit == part \in Parts /\ Init
DeviceNext ==
    /\ UNCHANGED part
    /\ IF part = "single" THEN Single!Next ELSE Next
    /\ part = "racing" => Cardinality(mine' \cup others') <= MaxRacing

\* The fairness of SyncDevice.
DeviceSpec ==
    /\ DeviceInit /\ [][DeviceNext]_<<part, vars>>
    /\ WF_vars(part = "single" /\ run_locked)
    /\ WF_vars(part = "single" /\ Single!Device)
    /\ WF_vars(part = "single" /\ Single!Gateway)

\* One change at a time: every change is eventually published, in conflict,
\* refused, or behind one of its entity that is.
SettledInTheEnd == part = "single" => EventuallySettled
=============================================================================
