--------------------------- MODULE LeaveLifecycle ---------------------------
(***************************************************************************)
(* What a leave request promises, whoever handles it: the statuses it may  *)
(* go through, that its days are on the roster exactly while it is         *)
(* approved, that its own requester never decides it unless nobody else    *)
(* could, and that it does not wait for ever. LeaveApproval implements it. *)
(***************************************************************************)
CONSTANTS
  Requests,
  Owner,     \* request -> the person whose leave it is
  People

VARIABLES
  status,    \* request -> where it is in its life
  approver,  \* request -> the set of who approved it, empty unless approved
  onRoster,  \* the requests whose days are taken off the schedule
  able       \* the people able to decide requests in general

vars == <<status, approver, onRoster, able>>

Init ==
  /\ status = [r \in Requests |-> "unfiled"]
  /\ approver = [r \in Requests |-> {}]
  /\ onRoster = {}
  /\ able \subseteq People

File(r) ==
  /\ status[r] = "unfiled"
  /\ status' = [status EXCEPT ![r] = "pending"]
  /\ able' \subseteq People
  /\ UNCHANGED <<approver, onRoster>>

Approve(r, p) ==
  /\ status[r] = "pending"
  /\ p = Owner[r] => able \subseteq {p}
  /\ status' = [status EXCEPT ![r] = "approved"]
  /\ approver' = [approver EXCEPT ![r] = {p}]
  /\ onRoster' = onRoster \cup {r}
  /\ able' \subseteq People

(* Rejected by an approver or cancelled by the requester.                  *)
Decline(r, end) ==
  /\ status[r] = "pending"
  /\ status' = [status EXCEPT ![r] = end]
  /\ able' \subseteq People
  /\ UNCHANGED <<approver, onRoster>>

(* Requests that waited too long are closed together.                      *)
Expire(S) ==
  /\ S # {}
  /\ \A r \in S : status[r] = "pending"
  /\ status' = [r \in Requests |-> IF r \in S THEN "expired" ELSE status[r]]
  /\ able' \subseteq People
  /\ UNCHANGED <<approver, onRoster>>

(* An approval is undone: the request waits again, or is rejected.         *)
Undo(r, to) ==
  /\ status[r] = "approved"
  /\ status' = [status EXCEPT ![r] = to]
  /\ approver' = [approver EXCEPT ![r] = {}]
  /\ onRoster' = onRoster \ {r}
  /\ able' \subseteq People

(* People come and go, and the company changes who may decide.             *)
Turnover ==
  /\ able' \subseteq People
  /\ UNCHANGED <<status, approver, onRoster>>

Next ==
  \/ \E r \in Requests :
       \/ File(r)
       \/ \E p \in People : Approve(r, p)
       \/ \E end \in {"rejected", "cancelled"} : Decline(r, end)
       \/ \E to \in {"pending", "rejected"} : Undo(r, to)
  \/ \E S \in SUBSET Requests : Expire(S)
  \/ Turnover

SafeSpec == Init /\ [][Next]_vars

(* A waiting request is settled one way or another.                        *)
Settles == \A r \in Requests : status[r] = "pending" ~> status[r] # "pending"

Spec == SafeSpec /\ Settles
=============================================================================
