--------------------------- MODULE LeaveHandlers ---------------------------
(***************************************************************************)
(* What each leave handler does to one request, as functions of the record *)
(* it loaded (api/v1/leave.py, leave_approval_service.py,                  *)
(* leave_reminder_service.py, leave_events.py). No state of its own:       *)
(* LeaveApproval runs the handlers one at a time, LeaveApprovalRace lets   *)
(* two of them work on the same request from their own snapshots.          *)
(*                                                                         *)
(* A request `a` is the leave_applications row with its approval_steps and *)
(* what the code reads back of leave_approval_events:                      *)
(*   status, first, last   status, start_date, end_date                    *)
(*   reviewer              reviewed_by                                     *)
(*   steps                 in step_order, each with                        *)
(*     approver, status    approver_id, status                             *)
(*     decided             the day of decided_at, NoDay when NULL          *)
(*     created             the day of created_at                           *)
(*     moved               the last day it was reassigned or escalated     *)
(*     escalations         how many "escalate" rows it has                 *)
(***************************************************************************)
EXTENDS LeaveAccess, Sequences

CONSTANTS
  Requests,             \* the requests the model follows
  Owner,                \* request -> employee_id
  Spans,                \* the <<first, last>> days a request may ask for
  EscalateAfter,        \* AppSettings.leave_escalate_after_days, 0 = never
  RolesFor,             \* user -> the role combinations the user may be given
  Heads, Deputies,      \* the users who may head or deputise a unit
  RuleIds,              \* the approver rules
  MaxLevels,            \* the longest chain a policy asks for
  ResolveChain(_, _, _),\* (company, employee, banned) -> sequence of approvers
  InScope(_, _, _)      \* (company, user, employee): assert_manages passes

NoDay == -1

RoleMaps == {f \in [People -> SUBSET RoleCodes] : \A p \in People : f[p] \in RolesFor[p]}

Companies ==
  [active : SUBSET People, roles : RoleMaps,
   head : [Units -> Heads \cup {NoOne}], deputy : [Units -> Deputies \cup {NoOne}],
   away : SUBSET People, rules : SUBSET RuleIds]

ASSUME HandlersAssumption ==
  /\ Owner \in [Requests -> People]
  /\ Spans \subseteq {s \in Nat \X Nat : s[1] <= s[2]}
  /\ EscalateAfter \in Nat /\ MaxLevels \in Nat \ {0}
  /\ "leave_approver" \notin EditRoles
  /\ RolesFor \in [People -> SUBSET SUBSET RoleCodes]
  /\ \A p \in People : \A S \in RolesFor[p] :
       S \cap ReviewerRoles = {} => S \cup {"leave_approver"} \in RolesFor[p]
  /\ Heads \subseteq People /\ Deputies \subseteq People

(* resolve_approval_chain is used through its promise only; that           *)
(* ApprovalChain keeps it is checked there and on every company here.      *)
ASSUME ChainContract ==
  \A org \in Companies, e \in {Owner[r] : r \in Requests}, banned \in SUBSET People :
    ChainFor(org, e, banned, MaxLevels, ResolveChain(org, e, banned))

-----------------------------------------------------------------------------
IsOpen(a, i) == i \in DOMAIN a.steps /\ a.steps[i].status = "pending"

(* current_step: the first step not approved, if it is pending.            *)
IsCurrent(a, i) ==
  IsOpen(a, i) /\ \A j \in 1 .. i-1 : a.steps[j].status = "approved"

HasCurrent(a) == \E i \in DOMAIN a.steps : IsCurrent(a, i)

Current(a) == CHOOSE i \in DOMAIN a.steps : IsCurrent(a, i)

Approvers(a) == {a.steps[i].approver : i \in DOMAIN a.steps}

(* create_approval_steps.                                                  *)
NewSteps(chain, today) ==
  [i \in DOMAIN chain |->
     [approver |-> chain[i], status |-> "pending", decided |-> NoDay,
      created |-> today, moved |-> NoDay, escalations |-> 0]]

(* skip_open_steps.                                                        *)
SkipOpen(steps, today) ==
  [i \in DOMAIN steps |->
     IF steps[i].status = "pending"
     THEN [steps[i] EXCEPT !.status = "skipped", !.decided = today]
     ELSE steps[i]]

(* A slip: the steps are left as they were decided. *)
ReopenNothing(steps) == steps

(* The loop of update and revoke that puts every step back to pending.     *)
Reopen(steps) ==
  [i \in DOMAIN steps |->
     [steps[i] EXCEPT !.status = "pending", !.decided = NoDay]]

Marked(a, i, status, today) ==
  [a EXCEPT !.steps[i] = [@ EXCEPT !.status = status, !.decided = today]]

(* A slip: the open steps of a closed request are forgotten. *)
ClosedWithOpenSteps(a, status, today) == [a EXCEPT !.status = status]

Closed(a, status, today) ==
  [a EXCEPT !.status = status, !.steps = SkipOpen(@, today)]

-----------------------------------------------------------------------------
Unfiled ==
  [status |-> "unfiled", first |-> 0, last |-> 0, reviewer |-> NoOne, steps |-> <<>>]

(* create_leave_application, once the rules have passed.                   *)
Filed(org, r, span, today) ==
  [status |-> "pending", first |-> span[1], last |-> span[2], reviewer |-> NoOne,
   steps |-> NewSteps(ResolveChain(org, Owner[r], {}), today)]

(* A slip: a request filed without approvers stays without. *)
NeverEnsured(org, r, a, today) == a

(* ensure_steps, which _load_app runs before any handler looks.            *)
Ensured(org, r, a, today) ==
  IF a.status = "pending" /\ a.steps = <<>>
  THEN [a EXCEPT !.steps = NewSteps(ResolveChain(org, Owner[r], {}), today)]
  ELSE a

(* update_leave_application: new dates, and every step to decide again.    *)
Updated(a, span) ==
  [a EXCEPT !.first = span[1], !.last = span[2], !.steps = Reopen(@)]

(* process_step_decision on the current step i.                            *)
Approved(b, p) ==
  IF \E j \in DOMAIN b.steps : IsOpen(b, j) THEN b
  ELSE [b EXCEPT !.status = "approved", !.reviewer = p]

Rejected(b, p, today) == [Closed(b, "rejected", today) EXCEPT !.reviewer = p]

Reviewed(a, i, verdict, p, today) ==
  IF verdict = "approved" THEN Approved(Marked(a, i, "approved", today), p)
  ELSE Rejected(Marked(a, i, "rejected", today), p, today)

(* self_approve_leave_application: the other steps are not looked at.      *)
SelfApproved(r, a, i, today) ==
  [Marked(a, i, "approved", today)
     EXCEPT !.status = "approved", !.reviewer = Owner[r]]

(* override_leave_application: the current step, if any, is decided and    *)
(* the rest are skipped.                                                   *)
Overridden(a, verdict, p, today) ==
  [Closed(IF HasCurrent(a) THEN Marked(a, Current(a), verdict, today) ELSE a,
          verdict, today)
     EXCEPT !.reviewer = p]

(* reassign_step, by a person or by a separation.                          *)
Reassigned(a, i, q, today) ==
  [a EXCEPT !.steps[i] = [@ EXCEPT !.approver = q, !.moved = today]]

Cancelled(a, today) == Closed(a, "cancelled", today)

(* revoke_leave_application: back to the queue, or refused after all. The  *)
(* rejected step is the caller's own, else the last.                       *)
OwnApproved(a, p) ==
  {i \in DOMAIN a.steps : a.steps[i].approver = p /\ a.steps[i].status = "approved"}

Unapproved(a) ==
  [a EXCEPT !.status = "pending", !.reviewer = NoOne, !.steps = Reopen(@)]

RevokeTarget(a, p) ==
  IF OwnApproved(a, p) # {} THEN Least(OwnApproved(a, p)) ELSE Len(a.steps)

Refused(a, p, today) ==
  [Marked(a, RevokeTarget(a, p), "rejected", today)
     EXCEPT !.status = "rejected", !.reviewer = p]

-----------------------------------------------------------------------------
(* The daily job, leave_reminder_service.run_for_tenant, on one request.   *)

(* _waiting_since: creation, the decisions before it, its last move.       *)
WaitingDays(a, i, today) ==
  {today - d : d \in {a.steps[i].created, a.steps[i].moved}
                     \cup {a.steps[j].decided : j \in 1 .. i-1}}

Waited(a, i, n, today) == \A w \in WaitingDays(a, i, today) : w >= n

(* _escalation_target: the approver's manager, else the first HR.          *)
EscalationTarget(org, r, approver) ==
  LET banned  == {Owner[r], approver}
      manager == ReportsTo[approver]
      others  == FullScopeEditors(org) \ banned
  IN IF manager \in org.active \ banned THEN manager
     ELSE IF others # {} THEN FirstEditor(org, others)
     ELSE NoOne

Escalated(a, i, target, today) ==
  [a EXCEPT !.steps[i] =
     [@ EXCEPT !.approver = target, !.escalations = a.steps[i].escalations + 1,
               !.moved = today]]

Chased(a, i, target, today) ==
  IF /\ EscalateAfter > 0
     /\ Waited(a, i, EscalateAfter, today)
     /\ a.steps[i].escalations = 0
     /\ target # NoOne
  THEN Escalated(a, i, target, today)
  ELSE a

(* A request given its steps now waits for the next run; one past its last *)
(* day expires; a step of the requester's own is nobody's to escalate. The *)
(* reminder it may send instead leaves the request as it is.               *)
OnWaiting(org, r, a, i, today) ==
  IF a.steps[i].approver = Owner[r] THEN a
  ELSE Chased(a, i, EscalationTarget(org, r, a.steps[i].approver), today)

(* A slip: only requests with a step to chase are looked at by the job. *)
WorkedIfWaiting(org, r, a, today) ==
  IF HasCurrent(a) THEN OnWaiting(org, r, a, Current(a), today) ELSE a

Worked(org, r, a, today) ==
  IF a.last < today THEN Closed(a, "expired", today)
  ELSE IF HasCurrent(a) THEN OnWaiting(org, r, a, Current(a), today)
  ELSE a

(* A slip: the job takes requests of any status. *)
JobOnAny(org, r, a, chained, today) ==
  IF chained # a THEN chained ELSE Worked(org, r, a, today)

JobOn(org, r, a, chained, today) ==
  IF a.status # "pending" THEN a
  ELSE IF chained # a THEN chained
  ELSE Worked(org, r, a, today)

-----------------------------------------------------------------------------
(* leave_events.release_separated_approver on one request.                 *)

(* replacement_approver for a step of `leaving` on a request whose         *)
(* approvers are `taken`: the first of the chain resolved without them,    *)
(* else the fallback.                                                      *)
Successor(chain, banned, fallback) ==
  IF chain # <<>> /\ chain[1] \notin banned THEN chain[1] ELSE fallback

Replacement(org, r, leaving, taken) ==
  LET banned == {Owner[r], leaving}
  IN Successor(ResolveChain(org, Owner[r], banned \cup taken), banned \cup taken,
               Fallback(org, Owner[r], banned))

(* A slip: decided steps are handed over too. *)
HandsOverDecided(step, leaving, next, to) ==
  to = IF step.approver = leaving /\ next # NoOne THEN next ELSE step.approver

HandsOver(step, leaving, next, to) ==
  to = IF step.status = "pending" /\ step.approver = leaving /\ next # NoOne
       THEN next ELSE step.approver

(* `to` gives the approver of every step once the leaver's pending steps   *)
(* have been handed over one after the other, each seeing the earlier      *)
(* ones; a step nobody can take stays with the leaver.                     *)
HandedOver(org, r, a, leaving, to) ==
  \A i \in DOMAIN a.steps :
    LET taken == {to[j] : j \in 1 .. i-1}
                 \cup {a.steps[j].approver : j \in i .. Len(a.steps)}
    IN HandsOver(a.steps[i], leaving, Replacement(org, r, leaving, taken), to[i])

Released(a, to, today) ==
  [a EXCEPT !.steps = [i \in DOMAIN @ |->
     IF @[i].approver # to[i]
     THEN [@[i] EXCEPT !.approver = to[i], !.moved = today]
     ELSE @[i]]]
=============================================================================
