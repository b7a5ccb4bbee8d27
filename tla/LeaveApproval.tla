--------------------------- MODULE LeaveApproval ---------------------------
(***************************************************************************)
(* Leave requests of one tenant, from filing to the last decision: the     *)
(* handlers of api/v1/leave.py, the daily job, and the changes to people   *)
(* that reach into pending requests (separation, reinstatement, roles).    *)
(*                                                                         *)
(* A handler runs in one database transaction (get_db commits after it and *)
(* rolls back when it raises), so it is one action here; what two handlers *)
(* do to each other when they overlap is LeaveApprovalRace. A refusal      *)
(* changes nothing and has no action. Checks on data the model leaves out  *)
(* (leave rules, balances, a closed payroll period that vetoes the roster  *)
(* change) can refuse any handler that reaches them: the action is simply  *)
(* not taken.                                                              *)
(***************************************************************************)
EXTENDS LeaveHandlers

CONSTANTS
  RulesNaming,  \* user -> the approver rules with a step that names them
  FirstDays,    \* the companies the model starts from, on day 0
  MaxDay        \* bound: the model's last day

ASSUME ApprovalAssumption ==
  /\ RulesNaming \in [People -> SUBSET RuleIds]
  /\ FirstDays \subseteq Companies
  /\ MaxDay \in Nat

VARIABLES
  today,   \* the tenant's day
  active,  \* users.is_active
  roles,   \* user_roles
  head,    \* org_nodes.head_user_id
  deputy,  \* org_nodes.deputy_head_user_id
  rules,   \* the approver rules with is_active set
  app,     \* the leave requests
  roster   \* the requests whose days an approval has stamped on the schedule
           \* and no revocation has taken off since

people == <<active, head, deputy, rules>>
vars == <<today, people, roles, app, roster>>

(* _on_leave. *)
Away ==
  {p \in People : \E r \in Requests :
     /\ Owner[r] = p
     /\ app[r].status = "approved"
     /\ app[r].first <= today /\ today <= app[r].last}

Company ==
  [active |-> active, roles |-> roles, head |-> head, deputy |-> deputy,
   away |-> Away, rules |-> rules]

(* The people a change from `old` to `new` puts on a step; each is given a *)
(* reviewer role by create_approval_steps, reassign_step or the escalation.*)
Named(old, new) ==
  {new.steps[i].approver : i \in {j \in DOMAIN new.steps :
     j \in DOMAIN old.steps => old.steps[j].approver # new.steps[j].approver}}

Commit(new) ==
  /\ app' = new
  /\ roles' = WithReviewerRole(roles,
                UNION {Named(app[r], new[r]) \ {Owner[r]} : r \in Requests})

Save(r, a) == Commit([app EXCEPT ![r] = a])

(* A decision that approves is stamped on the roster (_apply_overlay).     *)
Decide(r, a) ==
  /\ Save(r, a)
  /\ roster' = IF a.status = "approved" THEN roster \cup {r} ELSE roster
  /\ UNCHANGED <<today, people>>

Keep(r, a) == Save(r, a) /\ UNCHANGED <<today, people, roster>>

-----------------------------------------------------------------------------
Verdicts == {"approved", "rejected"}

(* The handlers. `a` is request r as _load_app returned it: a pending one  *)
(* that had no steps has been given them, if anybody can approve it now.   *)

File(r, span) ==
  /\ app[r].status = "unfiled"
  /\ Owner[r] \in active
  /\ Keep(r, Filed(Company, r, span, today))

(* Opening a request commits the steps it was given; the new approvers may *)
(* read it, so there is always somebody who can open it.                   *)
Open(r, a) == a # app[r] /\ Keep(r, a)

Update(r, a, span) ==
  /\ a.status = "pending"
  /\ Owner[r] \in active
  /\ Keep(r, Updated(a, span))

Review(r, a, i, p, verdict) ==
  /\ a.status = "pending" /\ IsCurrent(a, i)
  /\ p \in active \ {Owner[r]}
  /\ a.steps[i].approver = p
  /\ Decide(r, Reviewed(a, i, verdict, p, today))

(* A slip: the check that nobody else can is left to the day of filing. *)
SelfApproveAnyway(r, a, i) ==
  /\ a.status = "pending" /\ IsCurrent(a, i)
  /\ Owner[r] \in active
  /\ a.steps[i].approver = Owner[r]
  /\ Decide(r, SelfApproved(r, a, i, today))

SelfApprove(r, a, i) ==
  /\ a.status = "pending" /\ IsCurrent(a, i)
  /\ Owner[r] \in active
  /\ a.steps[i].approver = Owner[r]
  /\ Editors(Company) \ {Owner[r]} = {}
  /\ Decide(r, SelfApproved(r, a, i, today))

(* LeaveViewer.can_override, and assert_manages after it.                  *)
CanOverride(p, r) ==
  p \in Editors(Company) \ {Owner[r]} /\ InScope(Company, p, Owner[r])

Override(r, a, p, verdict) ==
  /\ a.status = "pending"
  /\ CanOverride(p, r)
  /\ Decide(r, Overridden(a, verdict, p, today))

Reassign(r, a, p, i, q) ==
  /\ a.status = "pending" /\ IsOpen(a, i)
  /\ CanOverride(p, r)
  /\ q \in active \ {Owner[r], a.steps[i].approver}
  /\ Keep(r, Reassigned(a, i, q, today))

Cancel(r, a) ==
  /\ a.status = "pending"
  /\ Owner[r] \in active
  /\ Keep(r, Cancelled(a, today))

(* A slip: the days stay off the schedule. *)
RevokeLeavingTheRoster(r, a, p, b) ==
  /\ a.status = "approved"
  /\ p \in active
  /\ OwnApproved(a, p) # {} \/ CanOverride(p, r)
  /\ Keep(r, b)

(* An approver of the request takes the approval back, or whoever could    *)
(* override it. Either way the days come off the roster first.             *)
Revoke(r, a, p, b) ==
  /\ a.status = "approved"
  /\ p \in active
  /\ OwnApproved(a, p) # {} \/ CanOverride(p, r)
  /\ Save(r, b)
  /\ roster' = roster \ {r}
  /\ UNCHANGED <<today, people>>

Unapprove(r, a, p) == Revoke(r, a, p, Unapproved(a))

(* With no step at all, taking the last one raises.                        *)
Refuse(r, a, p) == a.steps # <<>> /\ Revoke(r, a, p, Refused(a, p, today))

Handle(r, a) ==
  \/ Open(r, a) \/ Cancel(r, a)
  \/ \E span \in Spans : Update(r, a, span)
  \/ \E i \in DOMAIN a.steps :
       \/ SelfApprove(r, a, i)
       \/ \E p \in People, v \in Verdicts : Review(r, a, i, p, v)
       \/ \E p, q \in People : Reassign(r, a, p, i, q)
  \/ \E p \in People : Unapprove(r, a, p) \/ Refuse(r, a, p)
  \/ \E p \in People, v \in Verdicts : Override(r, a, p, v)

-----------------------------------------------------------------------------
(* run_for_tenant. *)
Job ==
  /\ Commit([r \in Requests |-> JobOn(Company, r, app[r], Ensured(Company, r, app[r], today), today)])
  /\ UNCHANGED <<today, people, roster>>

(* employee_lifecycle.separate and its leave handler. The replacements are *)
(* resolved with the leaver gone but the rules that name them still on.    *)
Without(units, p) == [u \in Units |-> IF units[u] = p THEN NoOne ELSE units[u]]

CompanyWithout(p) ==
  [Company EXCEPT !.active = active \ {p},
                  !.head = Without(head, p), !.deputy = Without(deputy, p)]

HeldBy(p) ==
  {r \in Requests :
     /\ app[r].status = "pending" /\ Owner[r] # p
     /\ \E i \in DOMAIN app[r].steps : IsOpen(app[r], i) /\ app[r].steps[i].approver = p}

HandOver(p, held, org) ==
  \E to \in [held -> [1 .. MaxLevels -> People]] :
    /\ \A r \in held : HandedOver(org, r, app[r], p, to[r])
    /\ Commit([r \in Requests |->
         IF r \in held THEN Released(app[r], to[r], today) ELSE app[r]])

Separate(p) ==
  /\ p \in active
  /\ HandOver(p, HeldBy(p), CompanyWithout(p))
  /\ active' = active \ {p}
  /\ head' = Without(head, p) /\ deputy' = Without(deputy, p)
  /\ rules' = rules \ RulesNaming[p]
  /\ UNCHANGED <<today, roster>>

Reinstate(p) ==
  /\ p \notin active
  /\ active' = active \cup {p}
  /\ UNCHANGED <<today, roles, head, deputy, rules, app, roster>>

SetRoles(p, S) ==
  /\ S # roles[p]
  /\ roles' = [roles EXCEPT ![p] = S]
  /\ UNCHANGED <<today, people, app, roster>>

Tick ==
  /\ today < MaxDay
  /\ today' = today + 1
  /\ UNCHANGED <<people, roles, app, roster>>
Init ==
  /\ today = 0
  /\ \E org \in FirstDays :
       /\ active = org.active /\ roles = org.roles
       /\ head = org.head /\ deputy = org.deputy /\ rules = org.rules
  /\ app = [r \in Requests |-> Unfiled]
  /\ roster = {}

Next ==
  \/ \E r \in Requests, span \in Spans : File(r, span)
  \/ \E r \in Requests : \E a \in {Ensured(Company, r, app[r], today)} : Handle(r, a)
  \/ Job
  \/ \E p \in People : Separate(p) \/ Reinstate(p)
  \/ \E p \in People : \E S \in RolesFor[p] : SetRoles(p, S)
  \/ Tick

(* The clock goes on and the scheduler runs the job every day; nobody is   *)
(* obliged to decide anything.                                             *)
Fairness == WF_vars(Tick) /\ WF_vars(Job)

Spec == Init /\ [][Next]_vars /\ Fairness

-----------------------------------------------------------------------------
Statuses == {"unfiled", "pending", "approved", "rejected", "cancelled", "expired"}

Days == 0 .. MaxDay

StepRecords ==
  [approver : People, status : {"pending", "approved", "rejected", "skipped"},
   decided : Days \cup {NoDay}, created : Days, moved : Days \cup {NoDay},
   escalations : Nat]

RequestRecords ==
  [status : Statuses, first : Nat, last : Nat, reviewer : People \cup {NoOne},
   steps : {s \in Seq(StepRecords) : Len(s) <= MaxLevels}]

(* The types: a request never has more steps than a policy asks for, and   *)
(* the roles never leave the combinations the company uses.                *)
TypeOK ==
  /\ today \in Days
  /\ active \subseteq People
  /\ roles \in RoleMaps
  /\ head \in [Units -> Heads \cup {NoOne}]
  /\ deputy \in [Units -> Deputies \cup {NoOne}]
  /\ rules \subseteq RuleIds
  /\ app \in [Requests -> RequestRecords]
  /\ roster \subseteq Requests

(* A pending request with steps always has exactly one step whose turn it  *)
(* is: approved ones first, then pending ones, and at least one of these.  *)
(* Otherwise current_step is None, nobody can review it, and it is in no   *)
(* approver's queue (get_pending_for_approver).                            *)
SomebodysTurn(a) ==
  a.status = "pending" /\ a.steps # <<>> =>
    \E i \in DOMAIN a.steps :
      IsCurrent(a, i) /\ \A j \in DOMAIN a.steps : j >= i => IsOpen(a, j)

AlwaysSomebodysTurn == \A r \in Requests : SomebodysTurn(app[r])

(* The steps tell the story of the decision: an approved request has a     *)
(* step that approved it and none that is open or rejected, which revoke   *)
(* relies on when it takes the last one; a rejected request has exactly    *)
(* one rejected step; no closed request keeps an open step.                *)
Having(a, status) == {i \in DOMAIN a.steps : a.steps[i].status = status}

StepsTellThe(a) ==
  /\ a.status # "pending" => Having(a, "pending") = {}
  /\ a.status = "approved" => Having(a, "approved") # {} /\ Having(a, "rejected") = {}
  /\ a.status = "rejected" => \E i \in DOMAIN a.steps : Having(a, "rejected") = {i}

StepsTellTheDecision == \A r \in Requests : StepsTellThe(app[r])

(* A step of the requester's own never stands beside anybody else's: it is *)
(* only created when nobody else can approve, and no reassignment,         *)
(* escalation or handover gives the requester a step later.                *)
OwnStepAlone(r, a) == Owner[r] \in Approvers(a) => Len(a.steps) = 1

OwnStepStandsAlone == \A r \in Requests : OwnStepAlone(r, app[r])

(* The steps of every request make sense together, whatever the handlers,  *)
(* the daily job and the changes to people have made of them.              *)
StepsAreCoherent == AlwaysSomebodysTurn /\ StepsTellTheDecision /\ OwnStepStandsAlone

(* Somebody other than the requester approved, unless the requester's own  *)
(* step was the only one.                                                  *)
ElseApproved(r, a) ==
  a.status = "approved" =>
    /\ a.reviewer \in People
    /\ a.reviewer = Owner[r] => Approvers(a) = {Owner[r]}

SomebodyElseApproved == \A r \in Requests : ElseApproved(r, app[r])

(* The days on the roster are those of the approved requests, whichever    *)
(* way a request got approved and whichever way the approval was undone.   *)
RosterFollowsApproval ==
  roster = {r \in Requests : app[r].status = "approved"}

-----------------------------------------------------------------------------
(* Whoever is put on a step is active at that moment and, unless it is the *)
(* requester's own step, holds a reviewer role from then on, so a request  *)
(* is never routed to somebody with no screen to act on it.                *)
NewApproversCanActStep ==
  \A r \in Requests : \A p \in Named(app[r], app'[r]) :
    /\ p \in active'
    /\ p # Owner[r] => roles'[p] \cap ReviewerRoles # {}

NewApproversCanAct == [][NewApproversCanActStep]_vars

(* A request its owner approves is one nobody else could have approved at  *)
(* that moment, however long ago the owner's own step was created.         *)
SelfApprovalOnlyWhenAloneStep ==
  \A r \in Requests :
    /\ app[r].status = "pending" /\ app'[r].status = "approved"
    /\ app'[r].reviewer = Owner[r]
    => Editors(Company) \ {Owner[r]} = {}

SelfApprovalOnlyWhenAlone == [][SelfApprovalOnlyWhenAloneStep]_vars

(* Nobody approves their own leave: not but by the only step there was,    *)
(* and not while anybody else could have.                                  *)
NobodyApprovesTheirOwn == []SomebodyElseApproved /\ SelfApprovalOnlyWhenAlone

(* A decided step keeps its approver, and its day unless the step is       *)
(* reopened or turned round: a handover, an escalation or a separation     *)
(* never rewrites who decided. Steps are never removed.                    *)
DecisionsKeepTheirAuthorStep ==
  \A r \in Requests : \A i \in DOMAIN app[r].steps :
    LET old == app[r].steps[i]
        new == app'[r].steps[i]
    IN /\ i \in DOMAIN app'[r].steps
       /\ old.status # "pending" => new.approver = old.approver
       /\ new.status = old.status => new.decided = old.decided

DecisionsKeepTheirAuthor == [][DecisionsKeepTheirAuthorStep]_vars

(* Approval is for the dates that were approved: when a request is changed *)
(* no step keeps an approval given for the old dates.                      *)
ChangedDatesAreApprovedAgainStep ==
  \A r \in Requests :
    <<app'[r].first, app'[r].last>> # <<app[r].first, app[r].last>> =>
      \A i \in DOMAIN app'[r].steps : app'[r].steps[i].status = "pending"

ChangedDatesAreApprovedAgain == [][ChangedDatesAreApprovedAgainStep]_vars

(* A request filed when nobody could approve it is given approvers by the  *)
(* job as soon as there is one: it never expires without having been       *)
(* anybody's to decide while somebody could.                               *)
NothingExpiresUnroutedStep ==
  \A r \in Requests :
    /\ app[r].status = "pending" /\ app'[r].status = "expired"
    /\ app'[r].steps = <<>>
    => Editors(Company) = {}

NothingExpiresUnrouted == [][NothingExpiresUnroutedStep]_vars

-----------------------------------------------------------------------------
(* What the requests promise, in terms of this module's state.             *)
Lifecycle == INSTANCE LeaveLifecycle WITH
  status   <- [r \in Requests |-> app[r].status],
  approver <- [r \in Requests |->
                 IF app[r].status = "approved" THEN {app[r].reviewer} ELSE {}],
  onRoster <- roster,
  able     <- Editors(Company)

(* Every step of the handlers, the job and the changes to people is a step *)
(* of the request's life or none.                                          *)
KeepsThePromises == Lifecycle!SafeSpec

(* And no request waits for ever: the daily job closes what nobody decided *)
(* before its last day.                                                    *)
SettlesAsPromised == Lifecycle!Settles
=============================================================================
