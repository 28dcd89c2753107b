-------------------------- MODULE TransferContract --------------------------
(***************************************************************************)
(* What a download promises to the user who started it, without the        *)
(* provider, the partial file or the retries: the destination keeps its    *)
(* old content until the new one replaces it in one step, a job that is    *)
(* reported as completed has replaced it, a job that is reported as failed *)
(* has not, and a report is final.  StorageTransfers implements it.        *)
(***************************************************************************)
VARIABLES status,   \* the state shown in the transfer list
          content   \* what the destination holds: "old" or "new"

contract == <<status, content>>

Init == status = "queued" /\ content = "old"

Start == status = "queued" /\ status' = "running" /\ UNCHANGED content

Replace == status = "running" /\ content' = "new" /\ UNCHANGED status

Complete == status = "running" /\ content = "new" /\ status' = "completed" /\ UNCHANGED content

Fail == status = "running" /\ content = "old" /\ status' = "failed" /\ UNCHANGED content

Next == Start \/ Replace \/ Complete \/ Fail

Spec == Init /\ [][Next]_contract
=============================================================================
