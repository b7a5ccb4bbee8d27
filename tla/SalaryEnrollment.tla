-------------------------- MODULE SalaryEnrollment --------------------------
(***************************************************************************)
(* Who may see salary figures and who may agree to it: the requests for    *)
(* access, the approvers who decide them, and the one exception, a request *)
(* approved by the person who made it because nobody else could.           *)
(*                                                                         *)
(* grants[kind][p] is the row of salary_enrollments of p, one per kind;    *)
(* `told` is who was notified of it as a self-approved grant to review.    *)
(* Every handler commits before the next one reads.                        *)
(***************************************************************************)
EXTENDS Naturals, Sequences, FiniteSets

CONSTANTS
  Holders,
  Admins,      \* the tenant administrators
  FirstAdmin,     \* the administrator of the first boot
  Setup,       \* granted_by of what the first boot granted (NULL)
  MaxRequests  \* bound on requests

GrantKinds == {"viewer", "approver"}
Granters == Holders \cup {Setup}

ASSUME EnrollmentAssumption ==
  /\ IsFiniteSet(Holders) /\ FirstAdmin \in Admins /\ Admins \subseteq Holders
  /\ Setup \notin Holders /\ MaxRequests \in Nat

VARIABLES working, grants, requests

enrollmentVars == <<working, grants, requests>>

NoGrant == [status |-> "none", by |-> Setup, told |-> {}]

Grant == [status : {"none", "active", "revoked"}, by : Granters, told : SUBSET Holders]
AccessRequest == [for : Holders, kind : GrantKinds, by : Holders, decider : Granters,
                  status : {"pending", "approved", "declined", "cancelled"}]

EnrollmentTypeOK ==
  /\ working \subseteq Holders
  /\ grants \in [GrantKinds -> [Holders -> Grant]]
  /\ requests \in Seq(AccessRequest)

EnrollmentInit ==
  /\ working = Holders
  /\ grants = [k \in GrantKinds |-> [p \in Holders |->
       IF k = "approver" /\ p = FirstAdmin THEN [NoGrant EXCEPT !.status = "active"] ELSE NoGrant]]
  /\ requests = <<>>

-----------------------------------------------------------------------------
HasActive(p, kind) == grants[kind][p].status = "active"
Approving == {p \in Holders : HasActive(p, "approver")}
AppointedBy(a, p) == HasActive(a, "approver") /\ grants["approver"][a].by = p

(* Approvers, on active accounts, who could approve a request of p.        *)
OtherPossibleApprovers(p) == {a \in Approving \cap working : a # p /\ ~AppointedBy(a, p)}
CanSelfApprove(p) == HasActive(p, "approver") /\ OtherPossibleApprovers(p) = {}

MayApprove(a, p) == IF a = p THEN CanSelfApprove(p) ELSE ~AppointedBy(a, p)

SelfApproved(k, p) == HasActive(p, k) /\ grants[k][p].by = p

(* Everybody who hears of a change but the two it is about.                *)
Oversight == Approving \cup (Admins \cap working)

(* A slip: only those who approve already are told of a self-approval.     *)
GrantedQuietly(p, kind, a) ==
  [grants EXCEPT ![kind][p] =
    [status |-> "active", by |-> a, told |-> IF a = p THEN Oversight \ {p} ELSE {}]]

(* A new approver is told of the self-approved grants that stand.          *)
ToldOnAppointment(k, q, p) ==
  IF SelfApproved(k, q) /\ q # p THEN [grants[k][q] EXCEPT !.told = @ \cup {p}] ELSE grants[k][q]

(* The row of the subject is made, or active again.                        *)
Granted(p, kind, a) ==
  [k \in GrantKinds |-> [q \in Holders |->
    IF k = kind /\ q = p
    THEN [status |-> "active", by |-> a, told |-> IF a = p THEN Oversight \ {p} ELSE {}]
    ELSE IF kind = "approver" /\ a # p THEN ToldOnAppointment(k, q, p) ELSE grants[k][q]]]

-----------------------------------------------------------------------------
CreateRequest(p, subject, kind) ==
  /\ p \in working
  /\ subject # p => HasActive(p, "approver")
  /\ ~HasActive(subject, kind)
  /\ \A i \in DOMAIN requests :
       ~(requests[i].for = subject /\ requests[i].kind = kind /\ requests[i].status = "pending")
  /\ Len(requests) < MaxRequests
  /\ requests' = Append(requests,
       [for |-> subject, kind |-> kind, by |-> p, decider |-> Setup, status |-> "pending"])
  /\ UNCHANGED <<working, grants>>

Deciding(a, i) == a \in working /\ HasActive(a, "approver") /\ requests[i].status = "pending"

ApproveRequest(a, i) ==
  LET req == requests[i] IN
  /\ Deciding(a, i) /\ MayApprove(a, req.for)
  /\ requests' = [requests EXCEPT ![i].status = "approved", ![i].decider = a]
  /\ grants' = Granted(req.for, req.kind, a)
  /\ UNCHANGED working

DeclineRequest(a, i) ==
  /\ Deciding(a, i) /\ a # requests[i].for
  /\ requests' = [requests EXCEPT ![i].status = "declined", ![i].decider = a]
  /\ UNCHANGED <<working, grants>>

CancelRequest(p, i) ==
  /\ p \in working /\ requests[i].status = "pending"
  /\ p \in {requests[i].for, requests[i].by}
  /\ requests' = [requests EXCEPT ![i].status = "cancelled"]
  /\ UNCHANGED <<working, grants>>

RevokeEnrollment(a, p, kind) ==
  /\ a \in working /\ HasActive(a, "approver") /\ HasActive(p, kind)
  /\ kind = "approver" => Approving # {p}
  /\ grants' = [grants EXCEPT ![kind][p].status = "revoked"]
  /\ UNCHANGED <<working, requests>>

Deactivate(p) ==
  /\ p \in working /\ (Admins \cap working) \ {p} # {}
  /\ working' = working \ {p} /\ UNCHANGED <<grants, requests>>

Reactivate(p) ==
  /\ p \notin working
  /\ working' = working \cup {p} /\ UNCHANGED <<grants, requests>>

EnrollmentNext ==
  \/ \E p, q \in Holders, kind \in GrantKinds :
       CreateRequest(p, q, kind) \/ RevokeEnrollment(p, q, kind)
  \/ \E p \in Holders, i \in DOMAIN requests :
       ApproveRequest(p, i) \/ DeclineRequest(p, i) \/ CancelRequest(p, i)
  \/ \E p \in Holders : Deactivate(p) \/ Reactivate(p)

EnrollmentSpec == EnrollmentInit /\ [][EnrollmentNext]_enrollmentVars

-----------------------------------------------------------------------------
(* Access always has somebody behind it. Every grant that stands is the    *)
(* first boot's or the outcome of a request its granter approved, somebody *)
(* can still be asked (an approver always remains), and whoever approved   *)
(* their own access is known for it to every other approver, also to those *)
(* appointed, or appointed again, since.                                   *)
AccessIsAccountedFor ==
  /\ Approving # {}
  /\ \A k \in GrantKinds, p \in Holders : HasActive(p, k) =>
       \/ grants[k][p].by = Setup /\ k = "approver"
       \/ \E i \in DOMAIN requests :
            requests[i].for = p /\ requests[i].kind = k
            /\ requests[i].status = "approved" /\ requests[i].decider = grants[k][p].by
  /\ \A k \in GrantKinds, p \in Holders : SelfApproved(k, p) => Approving \ {p} \subseteq grants[k][p].told

(* Nobody comes by access alone while somebody independent could have been *)
(* asked: a new grant is approved by another approver whom the subject did *)
(* not appoint, unless every approver at work was appointed by the subject *)
(* or is the subject.                                                      *)
NobodyHelpsThemselves ==
  [][\A k \in GrantKinds, p \in Holders :
       ~HasActive(p, k) /\ HasActive(p, k)' =>
         LET by == grants'[k][p].by IN
         /\ by \in Approving /\ (by = p \/ grants["approver"][by].by # p)
         /\ by = p => \A a \in (Approving \cap working) \ {p} : grants["approver"][a].by = p]_enrollmentVars

(* Access to salaries has been earned by a request that somebody           *)
(* independent approved, or that everybody else was told of.               *)
AccessIsEarned ==
    [](EnrollmentTypeOK /\ AccessIsAccountedFor) /\ NobodyHelpsThemselves
=============================================================================
