--------------------------- MODULE ReleaseStatus ---------------------------
(***************************************************************************)
(* What an application release promises to everybody who reads its row:    *)
(* the status moves forward along the order in which the executor works,   *)
(* may fall to "failed" from every unfinished status, and is final once it *)
(* is "succeeded" or "failed".  Releases are never deleted.                *)
(*                                                                         *)
(* The statuses are the ones internal/model/release.go declares and the    *)
(* code assigns.  "verifying", "rolling_back" and "rolled_back" are        *)
(* declared there as well, but no code assigns them.                       *)
(***************************************************************************)
CONSTANT ReleaseId

VARIABLE status

Terminal == {"succeeded", "failed"}

InProgress == {"validating", "applying", "waiting_ready"}

Status == {"absent", "draft"} \cup InProgress \cup Terminal

(* The status that follows s when everything goes well. *)
Successor ==
  [s \in Status \ Terminal |->
     CASE s = "absent" -> "draft"
       [] s = "draft" -> "validating"
       [] s = "validating" -> "applying"
       [] s = "applying" -> "waiting_ready"
       [] s = "waiting_ready" -> "succeeded"]

Init == status = [r \in ReleaseId |-> "absent"]

Advance(r) ==
  /\ status[r] \notin Terminal
  /\ status' = [status EXCEPT ![r] = Successor[status[r]]]

Fail(r) ==
  /\ status[r] \in {"draft"} \cup InProgress
  /\ status' = [status EXCEPT ![r] = "failed"]

Next == \E r \in ReleaseId : Advance(r) \/ Fail(r)

Spec == Init /\ [][Next]_status
=============================================================================
