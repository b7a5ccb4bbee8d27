--------------------------- MODULE Accounts_proofs ---------------------------
(***************************************************************************)
(* What the accounts promise, for any number of people, browsers and       *)
(* requests, and any life of a link, code, token or session: access to     *)
(* salaries (SalaryEnrollment), the password, links and second factor of   *)
(* an account (Credentials), its sessions (Sessions), and the roles and    *)
(* line managers of the people (Staff).                                    *)
(***************************************************************************)
EXTENDS SalaryEnrollment, Credentials, Sessions, Staff, Lists, FiniteSetTheorems, TLAPS

-----------------------------------------------------------------------------
(* Access to salaries. What accounts for it is an invariant as it stands:  *)
(* a request that was approved stays so, the last approver cannot be       *)
(* revoked, and whoever becomes an approver is told of the grants that     *)
(* their holders approved themselves.                                      *)
EnrollmentInv == EnrollmentTypeOK /\ AccessIsAccountedFor

Behind(k, p) ==
  \/ grants[k][p].by = Setup /\ k = "approver"
  \/ \E i \in DOMAIN requests :
       requests[i].for = p /\ requests[i].kind = k
       /\ requests[i].status = "approved" /\ requests[i].decider = grants[k][p].by

LEMMA AccountFacts ==
  ASSUME EnrollmentInv
  PROVE  /\ working \subseteq Holders
         /\ grants \in [GrantKinds -> [Holders -> Grant]]
         /\ requests \in Seq(AccessRequest)
         /\ Approving # {} /\ Approving \subseteq Holders
         /\ \A k \in GrantKinds, p \in Holders : HasActive(p, k) => Behind(k, p)
         /\ \A k \in GrantKinds, p \in Holders :
              SelfApproved(k, p) => Approving \ {p} \subseteq grants[k][p].told
BY DEF EnrollmentInv, EnrollmentTypeOK, AccessIsAccountedFor, Behind, Approving

LEMMA EnrollmentInitInv == EnrollmentInit => EnrollmentInv
<1> SUFFICES ASSUME EnrollmentInit PROVE EnrollmentInv
  OBVIOUS
<1> USE EnrollmentAssumption
<1>1. NoGrant \in Grant /\ [NoGrant EXCEPT !.status = "active"] \in Grant
  BY DEF NoGrant, Grant, Granters
<1>2. /\ grants \in [GrantKinds -> [Holders -> Grant]] /\ FirstAdmin \in Holders
      /\ \A k \in GrantKinds, p \in Holders :
           grants[k][p] = IF k = "approver" /\ p = FirstAdmin
                          THEN [NoGrant EXCEPT !.status = "active"] ELSE NoGrant
  BY <1>1 DEF EnrollmentInit
<1>3. EnrollmentTypeOK
  BY <1>2 DEF EnrollmentInit, EnrollmentTypeOK
<1>4. \A k \in GrantKinds, p \in Holders :
        /\ HasActive(p, k) <=> k = "approver" /\ p = FirstAdmin
        /\ grants[k][p].by = Setup
  BY <1>2 DEF HasActive, NoGrant, Grant
<1>5. Approving = {FirstAdmin}
  BY <1>2, <1>4 DEF Approving, GrantKinds
<1>6. \A k \in GrantKinds, p \in Holders : ~SelfApproved(k, p)
  BY <1>4 DEF SelfApproved
<1> QED BY <1>3, <1>4, <1>5, <1>6 DEF EnrollmentInv, AccessIsAccountedFor

(* A handler that does not touch the grants, and only adds to the requests *)
(* or settles a pending one.                                               *)
LEMMA GrantsRest ==
  ASSUME EnrollmentInv, UNCHANGED grants, working' \subseteq Holders,
         requests' \in Seq(AccessRequest),
         \A i \in DOMAIN requests : i \in DOMAIN requests' /\
           (requests[i].status = "approved" => requests'[i] = requests[i])
  PROVE  EnrollmentInv'
<1>1. Approving' = Approving /\ \A k, p : HasActive(p, k)' = HasActive(p, k) /\ SelfApproved(k, p)' = SelfApproved(k, p)
  BY DEF Approving, HasActive, SelfApproved
<1>2. \A k \in GrantKinds, p \in Holders : Behind(k, p) => Behind(k, p)'
  BY DEF Behind
<1> QED BY <1>1, <1>2, AccountFacts DEF EnrollmentInv, EnrollmentTypeOK, AccessIsAccountedFor, Behind

LEMMA CreateRequestKeeps ==
  ASSUME EnrollmentInv, NEW p \in Holders, NEW q \in Holders, NEW kind \in GrantKinds,
         CreateRequest(p, q, kind)
  PROVE  EnrollmentInv'
<1> DEFINE req == [for |-> q, kind |-> kind, by |-> p, decider |-> Setup, status |-> "pending"]
<1>1. req \in AccessRequest
  BY DEF AccessRequest, Granters
<1>2. requests \in Seq(AccessRequest) /\ requests' = Append(requests, req) /\ UNCHANGED <<working, grants>>
  BY AccountFacts DEF CreateRequest
<1> HIDE DEF req
<1>3. /\ requests' \in Seq(AccessRequest)
      /\ \A i \in DOMAIN requests : i \in DOMAIN requests' /\ requests'[i] = requests[i]
  BY <1>1, <1>2
<1> QED BY <1>2, <1>3, GrantsRest, AccountFacts

LEMMA SettleRequestKeeps ==
  ASSUME EnrollmentInv, NEW p \in Holders, NEW i \in DOMAIN requests,
         DeclineRequest(p, i) \/ CancelRequest(p, i)
  PROVE  EnrollmentInv'
<1>1. requests \in Seq(AccessRequest) /\ requests[i] \in AccessRequest
  BY AccountFacts
<1>2. PICK req \in AccessRequest :
        requests' = [requests EXCEPT ![i] = req] /\ requests[i].status = "pending" /\ UNCHANGED <<working, grants>>
  <2>1. CASE DeclineRequest(p, i)
    <3>1. requests' = [requests EXCEPT ![i] = [requests[i] EXCEPT !.status = "declined", !.decider = p]]
      BY <1>1, <2>1 DEF DeclineRequest
    <3>2. [requests[i] EXCEPT !.status = "declined", !.decider = p] \in AccessRequest
      BY <1>1 DEF AccessRequest, Granters
    <3> QED BY <2>1, <3>1, <3>2 DEF DeclineRequest, Deciding
  <2>2. CASE CancelRequest(p, i)
    <3>1. requests' = [requests EXCEPT ![i] = [requests[i] EXCEPT !.status = "cancelled"]]
      BY <1>1, <2>2 DEF CancelRequest
    <3>2. [requests[i] EXCEPT !.status = "cancelled"] \in AccessRequest
      BY <1>1 DEF AccessRequest
    <3> QED BY <2>2, <3>1, <3>2 DEF CancelRequest
  <2> QED BY <2>1, <2>2
<1>3. /\ requests' \in Seq(AccessRequest) /\ DOMAIN requests' = DOMAIN requests
      /\ \A j \in DOMAIN requests : j # i => requests'[j] = requests[j]
  BY <1>1, <1>2
<1> QED BY <1>2, <1>3, GrantsRest, AccountFacts

-----------------------------------------------------------------------------
(* An approval: what it does to the rows of the grants.                    *)
LEMMA ApprovalFacts ==
  ASSUME EnrollmentInv, NEW a \in Holders, NEW i \in DOMAIN requests, ApproveRequest(a, i)
  PROVE  LET p    == requests[i].for
             kind == requests[i].kind
         IN /\ p \in Holders /\ kind \in GrantKinds /\ requests[i].status = "pending"
            /\ HasActive(a, "approver") /\ a \in working /\ MayApprove(a, p)
            /\ grants' = Granted(p, kind, a) /\ working' = working
            /\ requests' \in Seq(AccessRequest) /\ DOMAIN requests' = DOMAIN requests
            /\ \A j \in DOMAIN requests : j # i => requests'[j] = requests[j]
            /\ requests'[i].for = p /\ requests'[i].kind = kind
            /\ requests'[i].status = "approved" /\ requests'[i].decider = a
<1>1. requests \in Seq(AccessRequest) /\ requests[i] \in AccessRequest
  BY AccountFacts
<1> DEFINE req == [requests[i] EXCEPT !.status = "approved", !.decider = a]
<1>2. requests' = [requests EXCEPT ![i] = req]
  BY <1>1 DEF ApproveRequest
<1>3. /\ req \in AccessRequest /\ req.for = requests[i].for /\ req.kind = requests[i].kind
      /\ req.status = "approved" /\ req.decider = a
  BY <1>1 DEF AccessRequest, Granters
<1>4. requests[i].for \in Holders /\ requests[i].kind \in GrantKinds
  BY <1>1 DEF AccessRequest
<1>5. /\ requests[i].status = "pending" /\ HasActive(a, "approver") /\ a \in working
      /\ MayApprove(a, requests[i].for) /\ working' = working
      /\ grants' = Granted(requests[i].for, requests[i].kind, a)
  BY DEF ApproveRequest, Deciding
<1> HIDE DEF req
<1>6. /\ requests' \in Seq(AccessRequest) /\ DOMAIN requests' = DOMAIN requests
      /\ requests'[i] = req /\ \A j \in DOMAIN requests : j # i => requests'[j] = requests[j]
  BY <1>1, <1>2, <1>3
<1> QED BY <1>3, <1>4, <1>5, <1>6

LEMMA GrantedFacts ==
  ASSUME EnrollmentInv, NEW p \in Holders, NEW kind \in GrantKinds, NEW a \in Holders,
         grants' = Granted(p, kind, a)
  PROVE  /\ grants' \in [GrantKinds -> [Holders -> Grant]]
         /\ grants'[kind][p].status = "active" /\ grants'[kind][p].by = a
         /\ a = p => grants'[kind][p].told = Oversight \ {p}
         /\ \A k \in GrantKinds, q \in Holders : ~(k = kind /\ q = p) =>
              /\ grants'[k][q].status = grants[k][q].status /\ grants'[k][q].by = grants[k][q].by
              /\ grants[k][q].told \subseteq grants'[k][q].told
              /\ kind = "approver" /\ a # p /\ SelfApproved(k, q) /\ q # p => p \in grants'[k][q].told
<1>1. grants \in [GrantKinds -> [Holders -> Grant]] /\ Oversight \subseteq Holders
  BY AccountFacts, EnrollmentAssumption DEF Oversight
<1> DEFINE new == [status |-> "active", by |-> a, told |-> IF a = p THEN Oversight \ {p} ELSE {}]
<1>2. new \in Grant
  BY <1>1 DEF Grant, Granters
<1> HIDE DEF new
<1>3. \A k \in GrantKinds, q \in Holders :
        /\ ToldOnAppointment(k, q, p) \in Grant
        /\ ToldOnAppointment(k, q, p).status = grants[k][q].status
        /\ ToldOnAppointment(k, q, p).by = grants[k][q].by
        /\ grants[k][q].told \subseteq ToldOnAppointment(k, q, p).told
        /\ SelfApproved(k, q) /\ q # p => p \in ToldOnAppointment(k, q, p).told
  <2>1. SUFFICES ASSUME NEW k \in GrantKinds, NEW q \in Holders
                 PROVE  /\ ToldOnAppointment(k, q, p) \in Grant
                        /\ ToldOnAppointment(k, q, p).status = grants[k][q].status
                        /\ ToldOnAppointment(k, q, p).by = grants[k][q].by
                        /\ grants[k][q].told \subseteq ToldOnAppointment(k, q, p).told
                        /\ SelfApproved(k, q) /\ q # p => p \in ToldOnAppointment(k, q, p).told
    OBVIOUS
  <2>2. grants[k][q] \in Grant
    BY <1>1
  <2> QED BY <2>2 DEF ToldOnAppointment, Grant
<1>4. grants' = [k \in GrantKinds |-> [q \in Holders |->
        IF k = kind /\ q = p THEN new
        ELSE IF kind = "approver" /\ a # p THEN ToldOnAppointment(k, q, p) ELSE grants[k][q]]]
  BY DEF Granted, new
<1>5. grants' \in [GrantKinds -> [Holders -> Grant]]
  BY <1>1, <1>2, <1>3, <1>4
<1>6. /\ grants'[kind][p].status = "active" /\ grants'[kind][p].by = a
      /\ a = p => grants'[kind][p].told = Oversight \ {p}
  <2>1. grants'[kind][p] = new
    BY <1>4
  <2>2. new.status = "active" /\ new.by = a /\ (a = p => new.told = Oversight \ {p})
    BY DEF new
  <2> QED BY <2>1, <2>2
<1>7. ASSUME NEW k \in GrantKinds, NEW q \in Holders, ~(k = kind /\ q = p)
      PROVE  /\ grants'[k][q].status = grants[k][q].status /\ grants'[k][q].by = grants[k][q].by
             /\ grants[k][q].told \subseteq grants'[k][q].told
             /\ kind = "approver" /\ a # p /\ SelfApproved(k, q) /\ q # p => p \in grants'[k][q].told
  <2>1. grants'[k][q] = IF kind = "approver" /\ a # p THEN ToldOnAppointment(k, q, p) ELSE grants[k][q]
    BY <1>4, <1>7
  <2> QED BY <1>3, <2>1
<1> QED BY <1>5, <1>6, <1>7

LEMMA ApproveRequestKeeps ==
  ASSUME EnrollmentInv, NEW a \in Holders, NEW i \in DOMAIN requests, ApproveRequest(a, i)
  PROVE  EnrollmentInv'
<1>1. PICK p \in Holders, kind \in GrantKinds :
      /\ requests[i].status = "pending"
      /\ HasActive(a, "approver") /\ MayApprove(a, p)
      /\ grants' = Granted(p, kind, a) /\ working' = working
      /\ requests' \in Seq(AccessRequest) /\ DOMAIN requests' = DOMAIN requests
      /\ \A j \in DOMAIN requests : j # i => requests'[j] = requests[j]
      /\ requests'[i].for = p /\ requests'[i].kind = kind
      /\ requests'[i].status = "approved" /\ requests'[i].decider = a
  BY ApprovalFacts
<1>2. /\ grants' \in [GrantKinds -> [Holders -> Grant]]
      /\ grants'[kind][p].status = "active" /\ grants'[kind][p].by = a
      /\ a = p => grants'[kind][p].told = Oversight \ {p}
      /\ \A k \in GrantKinds, q \in Holders : ~(k = kind /\ q = p) =>
           /\ grants'[k][q].status = grants[k][q].status /\ grants'[k][q].by = grants[k][q].by
           /\ grants[k][q].told \subseteq grants'[k][q].told
           /\ kind = "approver" /\ a # p /\ SelfApproved(k, q) /\ q # p => p \in grants'[k][q].told
  BY <1>1, GrantedFacts
<1>3. EnrollmentTypeOK'
  BY <1>1, <1>2, AccountFacts DEF EnrollmentTypeOK
<1>4. /\ Approving \subseteq Approving' /\ Approving' \subseteq Approving \cup {p}
      /\ Approving' # Approving => kind = "approver"
      /\ a = p => Approving' = Approving
  <2>1. "approver" \in GrantKinds
    BY DEF GrantKinds
  <2>2. \A q \in Holders : ~(kind = "approver" /\ q = p) => HasActive(q, "approver")' = HasActive(q, "approver")
    BY <1>2, <2>1 DEF HasActive
  <2>0. grants'[kind][p].status = "active"
    BY <1>2
  <2>3. kind = "approver" => HasActive(p, "approver")'
    BY <2>0, Zenon DEF HasActive
  <2>4. a = p => p \in Approving
    BY <1>1 DEF Approving
  <2>5. \A q \in Holders : q \in Approving' <=> q \in Approving \/ (kind = "approver" /\ q = p)
    <3>1. \A q \in Holders : q \in Approving' <=> HasActive(q, "approver")'
      BY DEF Approving
    <3>2. \A q \in Holders : q \in Approving <=> HasActive(q, "approver")
      BY DEF Approving
    <3> QED BY <1>1, <2>2, <2>3, <3>1, <3>2
  <2>6. Approving \subseteq Holders /\ Approving' \subseteq Holders
    BY DEF Approving
  <2> QED BY <2>4, <2>5, <2>6
<1>5. ASSUME NEW k \in GrantKinds, NEW q \in Holders, HasActive(q, k)'
      PROVE  Behind(k, q)'
  <2>1. CASE k = kind /\ q = p
    BY <1>1, <1>2, <2>1 DEF Behind
  <2>2. CASE ~(k = kind /\ q = p)
    <3>1. HasActive(q, k) /\ grants'[k][q].by = grants[k][q].by
      BY <1>2, <1>5, <2>2 DEF HasActive
    <3>2. Behind(k, q)
      BY <3>1, AccountFacts
    <3>3. \A j \in DOMAIN requests : requests[j].status = "approved" => requests'[j] = requests[j]
      BY <1>1
    <3> QED BY <1>1, <3>1, <3>2, <3>3 DEF Behind
  <2> QED BY <2>1, <2>2
<1>6. ASSUME NEW k \in GrantKinds, NEW q \in Holders, SelfApproved(k, q)'
      PROVE  Approving' \ {q} \subseteq grants'[k][q].told
  <2>1. CASE k = kind /\ q = p
    <3>1. a = p /\ grants'[k][q].told = Oversight \ {p}
      BY <1>2, <1>6, <2>1 DEF SelfApproved
    <3> QED BY <1>4, <2>1, <3>1 DEF Oversight
  <2>2. CASE ~(k = kind /\ q = p)
    <3>1. SelfApproved(k, q)
      BY <1>2, <1>6, <2>2 DEF SelfApproved, HasActive
    <3>2. Approving \ {q} \subseteq grants'[k][q].told
      BY <1>2, <2>2, <3>1, AccountFacts
    <3>3. p \in Approving' \ Approving => p = q \/ p \in grants'[k][q].told
      BY <1>2, <1>4, <2>2, <3>1
    <3> QED BY <1>4, <3>2, <3>3
  <2> QED BY <2>1, <2>2
<1>7. Approving' # {}
  BY <1>4, AccountFacts
<1> QED BY <1>3, <1>5, <1>6, <1>7 DEF EnrollmentInv, AccessIsAccountedFor, Behind

LEMMA RevokeKeeps ==
  ASSUME EnrollmentInv, NEW a \in Holders, NEW p \in Holders, NEW kind \in GrantKinds,
         RevokeEnrollment(a, p, kind)
  PROVE  EnrollmentInv'
<1>1. /\ grants \in [GrantKinds -> [Holders -> Grant]]
      /\ grants' = [grants EXCEPT ![kind][p].status = "revoked"]
      /\ HasActive(p, kind) /\ (kind = "approver" => Approving # {p})
      /\ UNCHANGED <<working, requests>>
  BY AccountFacts DEF RevokeEnrollment
<1> DEFINE gone == [grants[kind][p] EXCEPT !.status = "revoked"]
<1>2. gone \in Grant /\ gone.status = "revoked"
  <2>1. grants[kind][p] \in Grant
    BY <1>1
  <2> QED BY <2>1 DEF Grant
<1>3. grants' = [grants EXCEPT ![kind] = [grants[kind] EXCEPT ![p] = gone]]
  BY <1>1
<1> HIDE DEF gone
<1>4. /\ grants' \in [GrantKinds -> [Holders -> Grant]] /\ grants'[kind][p] = gone
      /\ \A k \in GrantKinds, q \in Holders : ~(k = kind /\ q = p) => grants'[k][q] = grants[k][q]
  BY <1>1, <1>2, <1>3
<1>5. EnrollmentTypeOK'
  BY <1>1, <1>4, AccountFacts DEF EnrollmentTypeOK
<1>6. \A k \in GrantKinds, q \in Holders :
        HasActive(q, k)' => ~(k = kind /\ q = p) /\ HasActive(q, k) /\ grants'[k][q] = grants[k][q]
  BY <1>2, <1>4 DEF HasActive
<1>7. Approving' \subseteq Approving /\ Approving' # {}
  <2>1. "approver" \in GrantKinds
    BY DEF GrantKinds
  <2>2. Approving' = IF kind = "approver" THEN Approving \ {p} ELSE Approving
    BY <1>2, <1>4, <2>1 DEF Approving, HasActive
  <2>3. p \in Approving \/ kind # "approver"
    BY <1>1 DEF Approving
  <2> QED BY <1>1, <2>2, <2>3, AccountFacts
<1>8. \A k \in GrantKinds, q \in Holders : HasActive(q, k)' => Behind(k, q)'
  BY <1>1, <1>6, AccountFacts DEF Behind
<1>9. \A k \in GrantKinds, q \in Holders : SelfApproved(k, q)' => Approving' \ {q} \subseteq grants'[k][q].told
  BY <1>6, <1>7, AccountFacts DEF SelfApproved
<1> QED BY <1>5, <1>7, <1>8, <1>9 DEF EnrollmentInv, AccessIsAccountedFor, Behind

LEMMA EnrollmentStep == EnrollmentInv /\ [EnrollmentNext]_enrollmentVars => EnrollmentInv'
<1> SUFFICES ASSUME EnrollmentInv, [EnrollmentNext]_enrollmentVars PROVE EnrollmentInv'
  OBVIOUS
<1>1. ASSUME NEW p \in Holders, NEW q \in Holders, NEW kind \in GrantKinds,
             CreateRequest(p, q, kind) \/ RevokeEnrollment(p, q, kind)
      PROVE  EnrollmentInv'
  BY <1>1, CreateRequestKeeps, RevokeKeeps
<1>2. ASSUME NEW p \in Holders, NEW i \in DOMAIN requests,
             ApproveRequest(p, i) \/ DeclineRequest(p, i) \/ CancelRequest(p, i)
      PROVE  EnrollmentInv'
  BY <1>2, ApproveRequestKeeps, SettleRequestKeeps
<1>3. ASSUME NEW p \in Holders, Deactivate(p) \/ Reactivate(p) PROVE EnrollmentInv'
  <2>1. working' \subseteq Holders /\ UNCHANGED <<grants, requests>>
    BY <1>3, AccountFacts DEF Deactivate, Reactivate
  <2> QED BY <2>1, GrantsRest, AccountFacts
<1>4. CASE UNCHANGED enrollmentVars
  BY <1>4, GrantsRest, AccountFacts DEF enrollmentVars
<1> QED BY <1>1, <1>2, <1>3, <1>4 DEF EnrollmentNext

(* Every new grant has an approver of its own behind it.                   *)
LEMMA GrantsAreIndependent ==
  ASSUME EnrollmentInv, [EnrollmentNext]_enrollmentVars,
         NEW k \in GrantKinds, NEW p \in Holders, ~HasActive(p, k), HasActive(p, k)'
  PROVE  LET by == grants'[k][p].by IN
         /\ by \in Approving /\ (by = p \/ grants["approver"][by].by # p)
         /\ by = p => \A a \in (Approving \cap working) \ {p} : grants["approver"][a].by = p
<1>1. grants' # grants
  BY DEF HasActive
<1>2. ASSUME NEW a \in Holders, NEW q \in Holders, NEW kind \in GrantKinds,
             RevokeEnrollment(a, q, kind)
      PROVE  FALSE
  <2>1. grants' = [grants EXCEPT ![kind][q].status = "revoked"] /\ grants \in [GrantKinds -> [Holders -> Grant]]
    BY <1>2, AccountFacts DEF RevokeEnrollment
  <2>2. grants[kind][q] \in Grant
    BY <2>1
  <2>3. grants'[k][p].status \in {"revoked", grants[k][p].status}
    BY <2>1, <2>2 DEF Grant
  <2> QED BY <2>3 DEF HasActive
<1>3. PICK a \in Holders, i \in DOMAIN requests : ApproveRequest(a, i)
  BY <1>1, <1>2 DEF EnrollmentNext, enrollmentVars, CreateRequest, DeclineRequest, CancelRequest,
     Deactivate, Reactivate
<1>4. PICK q \in Holders, kind \in GrantKinds :
      /\ HasActive(a, "approver") /\ a \in working /\ MayApprove(a, q)
      /\ grants' = Granted(q, kind, a)
  BY <1>3, ApprovalFacts
<1>5. /\ k = kind /\ p = q /\ grants'[k][p].by = a
  <2>1. ~(k = kind /\ p = q) => grants'[k][p].status = grants[k][p].status
    BY <1>4, GrantedFacts
  <2>2. k = kind /\ p = q
    BY <2>1 DEF HasActive
  <2> QED BY <1>4, <2>2, GrantedFacts
<1>6. a \in Approving
  BY <1>4 DEF Approving
<1>7. a # p => grants["approver"][a].by # p
  BY <1>4, <1>5 DEF MayApprove, AppointedBy
<1>8. a = p => \A b \in (Approving \cap working) \ {p} : grants["approver"][b].by = p
  BY <1>4, <1>5 DEF MayApprove, CanSelfApprove, OtherPossibleApprovers, AppointedBy, Approving
<1> QED BY <1>5, <1>6, <1>7, <1>8

(* Access to salaries is earned: every grant that stands is the first      *)
(* boot's or the outcome of a request somebody approved, an approver       *)
(* always remains, whoever approved their own access is known for it, and  *)
(* nobody does so while somebody independent could have been asked.        *)
THEOREM EarnedTheorem == EnrollmentSpec => AccessIsEarned
<1>1. EnrollmentInv => EnrollmentTypeOK /\ AccessIsAccountedFor
  BY DEF EnrollmentInv
<1>2. EnrollmentInv /\ [EnrollmentNext]_enrollmentVars =>
        [\A k \in GrantKinds, p \in Holders :
           ~HasActive(p, k) /\ HasActive(p, k)' =>
             LET by == grants'[k][p].by IN
             /\ by \in Approving /\ (by = p \/ grants["approver"][by].by # p)
             /\ by = p => \A a \in (Approving \cap working) \ {p} : grants["approver"][a].by = p]_enrollmentVars
  BY GrantsAreIndependent
<1> QED BY <1>1, <1>2, EnrollmentInitInv, EnrollmentStep, PTL
        DEF EnrollmentSpec, AccessIsEarned, NobodyHelpsThemselves

-----------------------------------------------------------------------------
(* The password, the links and the second factor. What makes the links     *)
(* sole is about the ones not used yet, expired or not, for time only      *)
(* takes links away. What keeps spent recovery codes out is that each set  *)
(* of codes belongs to one secret, and secrets are made once.              *)
Link == [kind : {"invite", "reset"}, until : Moments, used : BOOLEAN]

UnusedIsSole ==
  \A i, j \in DOMAIN links :
    links[i].kind = links[j].kind /\ ~links[i].used /\ ~links[j].used => i = j

LinksInv ==
  /\ UnusedIsSole
  /\ ~user.active => \A i \in DOMAIN links : links[i].kind = "invite" => links[i].used
  /\ user.password = "placeholder" => user.mustChange

FactorInv ==
  /\ AsksForCode => factor.secret \in proven
  /\ factor.secret <= secrets
  /\ \A code \in factor.codes : code[1] = factor.secret
  /\ \A code \in spent : code[1] <= secrets
  /\ factor.codes \cap spent = {}

CredentialInv == CredentialTypeOK /\ LinksInv /\ FactorInv

LEMMA CredentialParameters ==
  /\ InviteLife \in Nat /\ ResetLife \in Nat /\ ChallengeLife \in Nat /\ LockFor \in Nat
  /\ Attempts \in Nat /\ Attempts # 0 /\ CodeCount \in Nat
  /\ LatestInstant \in Nat /\ MaxLinks \in Nat /\ MaxSecrets \in Nat
BY CredentialAssumption

LEMMA MomentFacts ==
  ASSUME NEW t \in 0 .. LatestInstant
  PROVE  /\ 0 \in Moments /\ t \in Moments
         /\ t + InviteLife \in Moments /\ t + ResetLife \in Moments
         /\ t + ChallengeLife \in Moments /\ t + LockFor \in Moments
BY CredentialParameters DEF Moments

LEMMA NewLinkFacts ==
  ASSUME clock \in 0 .. LatestInstant, NEW kind \in {"invite", "reset"}
  PROVE  NewLink(kind) \in Link /\ NewLink(kind).kind = kind /\ NewLink(kind).used = FALSE
<1>1. clock + (IF kind = "invite" THEN InviteLife ELSE ResetLife) \in Moments
  BY MomentFacts
<1> QED BY <1>1 DEF NewLink, Link

LEMMA SpentFacts ==
  ASSUME links \in Seq(Link), NEW kinds
  PROVE  /\ Spent(kinds) \in Seq(Link) /\ Len(Spent(kinds)) = Len(links)
         /\ \A i \in DOMAIN links :
              /\ Spent(kinds)[i].kind = links[i].kind
              /\ Spent(kinds)[i].used = (links[i].used \/ links[i].kind \in kinds)
<1> DEFINE marked(link) == IF link.kind \in kinds THEN [link EXCEPT !.used = TRUE] ELSE link
<1>1. \A link \in Link :
        /\ marked(link) \in Link /\ marked(link).kind = link.kind
        /\ marked(link).used = (link.used \/ link.kind \in kinds)
  BY DEF Link
<1>2. Spent(kinds) = [i \in DOMAIN links |-> marked(links[i])]
  BY DEF Spent
<1> HIDE DEF marked
<1>3. DOMAIN links = 1 .. Len(links) /\ Len(links) \in Nat /\ \A i \in DOMAIN links : links[i] \in Link
  OBVIOUS
<1>4. /\ Spent(kinds) \in [1 .. Len(links) -> Link]
      /\ \A i \in DOMAIN links : Spent(kinds)[i] = marked(links[i])
  BY <1>1, <1>2, <1>3
<1>5. Spent(kinds) \in Seq(Link) /\ Len(Spent(kinds)) = Len(links)
  BY <1>3, <1>4
<1>6. \A i \in DOMAIN links :
        /\ Spent(kinds)[i].kind = links[i].kind
        /\ Spent(kinds)[i].used = (links[i].used \/ links[i].kind \in kinds)
  BY <1>1, <1>3, <1>4
<1> QED BY <1>5, <1>6

LEMMA UsedFacts ==
  ASSUME links \in Seq(Link), NEW n \in DOMAIN links, links' = [links EXCEPT ![n].used = TRUE]
  PROVE  /\ links' \in Seq(Link) /\ DOMAIN links' = DOMAIN links
         /\ \A i \in DOMAIN links :
              links'[i].kind = links[i].kind /\ (links[i].used => links'[i].used)
<1>1. PICK link : link = [links[n] EXCEPT !.used = TRUE]
  OBVIOUS
<1>2. links[n] \in Link
  OBVIOUS
<1>3. link \in Link /\ link.kind = links[n].kind /\ link.used = TRUE
  BY <1>1, <1>2 DEF Link
<1>4. links' = [links EXCEPT ![n] = link] /\ link \in Link
  BY <1>1, <1>3
<1>5. links' \in Seq(Link) /\ DOMAIN links' = DOMAIN links
  <2>1. links \in [1 .. Len(links) -> Link] /\ Len(links) \in Nat /\ n \in 1 .. Len(links)
    OBVIOUS
  <2>2. links' \in [1 .. Len(links) -> Link]
    BY <1>4, <2>1
  <2> QED BY <2>1, <2>2
<1>6. \A i \in DOMAIN links : links'[i] = IF i = n THEN link ELSE links[i]
  BY <1>4
<1> QED BY <1>3, <1>5, <1>6

(* Links that are only used up, and an account that keeps its rules.       *)
LEMMA LinksEnd ==
  ASSUME LinksInv, DOMAIN links' = DOMAIN links,
         \A i \in DOMAIN links : links'[i].kind = links[i].kind /\ (links[i].used => links'[i].used),
         ~user'.active => \A i \in DOMAIN links : links[i].kind = "invite" => links'[i].used,
         user'.password = "placeholder" => user'.mustChange
  PROVE  LinksInv'
BY DEF LinksInv, UnusedIsSole

(* A link sent: the ones of its kind that were sent before are used up.    *)
LEMMA IssueFacts ==
  ASSUME CredentialInv, NEW kind \in {"invite", "reset"}, Issue(kind), user.active, user' = user
  PROVE  links' \in Seq(Link) /\ LinksInv'
<1>1. links \in Seq(Link) /\ clock \in 0 .. LatestInstant
  BY DEF CredentialInv, CredentialTypeOK, Link
<1>2. PICK old : old = Spent({kind})
  OBVIOUS
<1>3. PICK new : new = NewLink(kind)
  OBVIOUS
<1>4. /\ old \in Seq(Link) /\ Len(old) = Len(links)
      /\ \A i \in DOMAIN links : old[i].kind = links[i].kind
                                /\ old[i].used = (links[i].used \/ links[i].kind = kind)
  BY <1>1, <1>2, SpentFacts
<1>5. new \in Link /\ new.kind = kind /\ new.used = FALSE
  BY <1>1, <1>3, NewLinkFacts
<1>6. links' = Append(old, new)
  BY <1>2, <1>3 DEF Issue
<1>7. /\ links' \in Seq(Link) /\ DOMAIN links' = 1 .. Len(links) + 1
      /\ Len(links) \in Nat /\ DOMAIN links = 1 .. Len(links)
      /\ \A i \in DOMAIN links : links'[i] = old[i]
      /\ links'[Len(links) + 1] = new
  BY <1>1, <1>4, <1>5, <1>6
<1>8. ASSUME NEW i \in DOMAIN links', NEW j \in DOMAIN links',
             links'[i].kind = links'[j].kind, ~links'[i].used, ~links'[j].used
      PROVE  i = j
  <2>1. CASE i \in DOMAIN links /\ j \in DOMAIN links
    <3>1. \A k \in DOMAIN links : links'[k].kind = links[k].kind /\ (links[k].used => links'[k].used)
      BY <1>4, <1>7
    <3>2. links[i].kind = links[j].kind /\ ~links[i].used /\ ~links[j].used
      BY <1>8, <2>1, <3>1
    <3> QED BY <2>1, <3>2 DEF CredentialInv, LinksInv, UnusedIsSole
  <2>2. ASSUME NEW k \in DOMAIN links, ~links'[k].used PROVE links'[k].kind # kind
    BY <1>4, <1>7, <2>2
  <2>3. \A k \in DOMAIN links' : ~(k \in DOMAIN links) => k = Len(links) + 1 /\ links'[k].kind = kind
    BY <1>5, <1>7
  <2>4. CASE ~(i \in DOMAIN links) /\ ~(j \in DOMAIN links)
    BY <2>3, <2>4
  <2> QED BY <1>8, <2>1, <2>2, <2>3, <2>4
<1> QED BY <1>7, <1>8 DEF LinksInv, UnusedIsSole, CredentialInv

(* The account: a step that leaves the clock, the lockout and the second   *)
(* factor alone.                                                           *)
LEMMA AccountKeeps ==
  ASSUME CredentialInv, UNCHANGED lockout, KeepFactor, LinksInv', links' \in Seq(Link),
         user' \in [active : BOOLEAN, password : {"placeholder", "own"}, mustChange : BOOLEAN]
  PROVE  CredentialInv'
BY DEF CredentialInv, CredentialTypeOK, FactorInv, AsksForCode, KeepFactor, Link

LEMMA LinkStep ==
  ASSUME CredentialInv,
         \/ ResendInvite \/ ForgotPassword
         \/ \E n \in DOMAIN links : ActivateUser(n) \/ ResetPassword(n)
  PROVE  CredentialInv'
<1>1. /\ links \in Seq(Link) /\ LinksInv
      /\ user \in [active : BOOLEAN, password : {"placeholder", "own"}, mustChange : BOOLEAN]
  BY DEF CredentialInv, CredentialTypeOK, Link
<1>2. CASE ResendInvite \/ ForgotPassword
  <2>1. /\ user.active /\ user' = user /\ UNCHANGED lockout /\ KeepFactor
        /\ Issue("invite") \/ Issue("reset")
    BY <1>2 DEF ResendInvite, ForgotPassword
  <2> QED BY <1>1, <2>1, IssueFacts, AccountKeeps
<1>3. ASSUME NEW n \in DOMAIN links, ActivateUser(n) \/ ResetPassword(n)
      PROVE  CredentialInv'
  <2>1. /\ links' = [links EXCEPT ![n].used = TRUE] /\ UNCHANGED lockout /\ KeepFactor
        /\ user' = [user EXCEPT !.password = "own", !.mustChange = FALSE]
    BY <1>3 DEF ActivateUser, ResetPassword
  <2>2. /\ user' \in [active : BOOLEAN, password : {"placeholder", "own"}, mustChange : BOOLEAN]
        /\ user'.active = user.active /\ user'.password = "own"
    BY <1>1, <2>1
  <2>3. /\ links' \in Seq(Link) /\ DOMAIN links' = DOMAIN links
        /\ \A i \in DOMAIN links :
             links'[i].kind = links[i].kind /\ (links[i].used => links'[i].used)
    BY <1>1, <2>1, UsedFacts
  <2>4. ~user'.active => \A i \in DOMAIN links : links[i].kind = "invite" => links'[i].used
    BY <1>1, <2>2, <2>3 DEF LinksInv
  <2>5. LinksInv'
    BY <1>1, <2>2, <2>3, <2>4, LinksEnd
  <2> QED BY <2>1, <2>2, <2>3, <2>5, AccountKeeps
<1> QED BY <1>2, <1>3

LEMMA UserStep ==
  ASSUME CredentialInv, OwnPassword \/ SeparateUser \/ ReinstateUser
  PROVE  CredentialInv'
<1>1. /\ links \in Seq(Link) /\ LinksInv
      /\ user \in [active : BOOLEAN, password : {"placeholder", "own"}, mustChange : BOOLEAN]
  BY DEF CredentialInv, CredentialTypeOK, Link
<1>2. UNCHANGED lockout /\ KeepFactor
  BY DEF OwnPassword, SeparateUser, ReinstateUser
<1>3. CASE OwnPassword \/ ReinstateUser
  <2>1. /\ links' = links
        /\ \/ user' = [user EXCEPT !.mustChange = FALSE] /\ user.password = "own"
           \/ user' = [user EXCEPT !.active = TRUE]
    BY <1>3 DEF OwnPassword, ReinstateUser, SignedIn
  <2>2. /\ user' \in [active : BOOLEAN, password : {"placeholder", "own"}, mustChange : BOOLEAN]
        /\ ~user'.active => ~user.active
        /\ user.password = "placeholder" => user'.mustChange = user.mustChange
        /\ user'.password = user.password
    BY <1>1, <2>1
  <2>3. LinksInv'
    BY <1>1, <2>1, <2>2, LinksEnd DEF LinksInv
  <2> QED BY <1>1, <1>2, <2>1, <2>2, <2>3, AccountKeeps
<1>4. CASE SeparateUser
  <2>1. links' = Spent({"invite"}) /\ user' = [user EXCEPT !.active = FALSE]
    BY <1>4 DEF SeparateUser
  <2>2. /\ user' \in [active : BOOLEAN, password : {"placeholder", "own"}, mustChange : BOOLEAN]
        /\ user'.mustChange = user.mustChange /\ user'.password = user.password
    BY <1>1, <2>1
  <2>3. /\ links' \in Seq(Link) /\ DOMAIN links' = DOMAIN links
        /\ \A i \in DOMAIN links :
             /\ links'[i].kind = links[i].kind
             /\ links'[i].used = (links[i].used \/ links[i].kind \in {"invite"})
    BY <1>1, <2>1, SpentFacts
  <2>4. LinksInv'
    BY <1>1, <2>2, <2>3, LinksEnd DEF LinksInv
  <2> QED BY <1>2, <2>2, <2>3, <2>4, AccountKeeps
<1> QED BY <1>3, <1>4

-----------------------------------------------------------------------------
(* The lockout, the second factor and the clock: user and links stay.      *)
LEMMA FactorKeeps ==
  ASSUME CredentialInv, UNCHANGED <<user, links>>, FactorInv',
         clock' \in 0 .. LatestInstant,
         lockout' \in [count : 0 .. Attempts - 1, forget : Moments, locked : Moments],
         factor' \in [status : {"disabled", "pending_setup", "enabled"}, secret : 0 .. MaxSecrets,
                      verified : BOOLEAN, codes : SUBSET RecoveryCodes],
         challenge' \in Moments,
         phone' \subseteq Secrets, proven' \subseteq Secrets, spent' \subseteq RecoveryCodes,
         secrets' \in 0 .. MaxSecrets
  PROVE  CredentialInv'
BY DEF CredentialInv, CredentialTypeOK, LinksInv, UnusedIsSole

Factor == [status : {"disabled", "pending_setup", "enabled"}, secret : 0 .. MaxSecrets,
           verified : BOOLEAN, codes : SUBSET RecoveryCodes]

LEMMA FactorFacts ==
  ASSUME CredentialInv
  PROVE  /\ clock \in 0 .. LatestInstant
         /\ lockout \in [count : 0 .. Attempts - 1, forget : Moments, locked : Moments]
         /\ factor \in Factor /\ challenge \in Moments
         /\ phone \subseteq Secrets /\ proven \subseteq Secrets /\ spent \subseteq RecoveryCodes
         /\ secrets \in 0 .. MaxSecrets
         /\ FactorInv
BY DEF CredentialInv, CredentialTypeOK, Factor

LEMMA DoorStep ==
  ASSUME CredentialInv, RecordFailure \/ PasswordSignIn \/ ClockTicks \/ LosePhone
  PROVE  CredentialInv'
<1> USE CredentialParameters
<1>1. /\ UNCHANGED <<user, links, factor, proven, spent, secrets>>
      /\ phone' \subseteq phone
  BY DEF RecordFailure, KeepFactor, PasswordSignIn, ClockTicks, LosePhone
<1>2. FactorInv'
  BY <1>1, FactorFacts DEF FactorInv, AsksForCode
<1>3. clock' \in 0 .. LatestInstant
  BY FactorFacts DEF RecordFailure, KeepFactor, PasswordSignIn, ClockTicks, LosePhone
<1>4. challenge' \in Moments
  BY FactorFacts, MomentFacts DEF RecordFailure, KeepFactor, PasswordSignIn, ClockTicks, LosePhone
<1>5. lockout' \in [count : 0 .. Attempts - 1, forget : Moments, locked : Moments]
  <2>1. CASE RecordFailure
    <3> DEFINE count == IF clock < lockout.forget THEN lockout.count + 1 ELSE 1
               forget == IF clock < lockout.forget THEN lockout.forget ELSE clock + LockFor
    <3>1. count \in Nat /\ count # 0 /\ forget \in Moments
      BY FactorFacts, MomentFacts
    <3>2. lockout' = IF count >= Attempts
                     THEN [count |-> 0, forget |-> 0, locked |-> clock + LockFor]
                     ELSE [lockout EXCEPT !.count = count, !.forget = forget]
      BY <2>1 DEF RecordFailure
    <3> HIDE DEF count, forget
    <3>3. CASE count >= Attempts
      BY <3>2, <3>3, FactorFacts, MomentFacts
    <3>4. CASE ~(count >= Attempts)
      <4>1. count \in 0 .. Attempts - 1
        BY <3>1, <3>4
      <4>2. lockout' = [lockout EXCEPT !.count = count, !.forget = forget]
        BY <3>2, <3>4
      <4> QED BY <3>1, <4>1, <4>2, FactorFacts
    <3> QED BY <3>3, <3>4
  <2>2. CASE ~RecordFailure
    <3>1. lockout' = lockout \/ lockout' = [count |-> 0, forget |-> 0, locked |-> 0]
      BY <2>2 DEF PasswordSignIn, ClockTicks, LosePhone
    <3> QED BY <3>1, FactorFacts, MomentFacts
  <2> QED BY <2>1, <2>2
<1> QED BY <1>1, <1>2, <1>3, <1>4, <1>5, FactorFacts, FactorKeeps DEF Factor

(* A code of the app is shown: what it turns on is proven by it.           *)
LEMMA AppStep ==
  ASSUME CredentialInv, VerifyByApp \/ Confirm2fa
  PROVE  CredentialInv'
<1>1. /\ factor.secret \in phone /\ proven' = proven \cup {factor.secret}
      /\ factor' \in {factor, [factor EXCEPT !.status = "enabled", !.verified = TRUE]}
      /\ UNCHANGED <<clock, user, links, lockout, phone, spent, secrets>>
      /\ challenge' \in {challenge, 0}
  BY DEF VerifyByApp, Confirm2fa, NoChallenge
<1>2. factor' \in Factor /\ factor'.secret = factor.secret /\ factor'.codes = factor.codes
  BY <1>1, FactorFacts DEF Factor
<1>3. FactorInv'
  BY <1>1, <1>2, FactorFacts DEF FactorInv
<1> QED BY <1>1, <1>2, <1>3, FactorFacts, MomentFacts, FactorKeeps DEF Factor

LEMMA CodeStep ==
  ASSUME CredentialInv, NEW code \in factor.codes, VerifyByCode(code)
  PROVE  CredentialInv'
<1>1. /\ factor' = [factor EXCEPT !.codes = factor.codes \ {code}] /\ spent' = spent \cup {code}
      /\ UNCHANGED <<clock, user, links, lockout, phone, proven, secrets>> /\ challenge' = 0
  BY DEF VerifyByCode, NoChallenge
<1>2. code \in RecoveryCodes
  BY FactorFacts DEF Factor
<1>3. /\ factor' \in Factor /\ factor'.secret = factor.secret
      /\ factor'.status = factor.status /\ factor'.verified = factor.verified
      /\ factor'.codes = factor.codes \ {code}
  BY <1>1, FactorFacts DEF Factor
<1>4. code[1] <= secrets
  BY FactorFacts DEF FactorInv
<1>5. FactorInv'
  BY <1>1, <1>3, <1>4, FactorFacts DEF FactorInv, AsksForCode
<1> QED BY <1>1, <1>2, <1>3, <1>5, FactorFacts, MomentFacts, FactorKeeps DEF Factor

(* A new secret: none of its codes was spent, for all of those are older.  *)
LEMMA SetupStep ==
  ASSUME CredentialInv, NEW arrives \in BOOLEAN, Setup2fa(arrives)
  PROVE  CredentialInv'
<1>1. PICK new : new = secrets + 1
  OBVIOUS
<1>2. new \in Secrets /\ new > secrets
  BY <1>1, FactorFacts, CredentialParameters DEF Setup2fa, Secrets
<1>3. /\ secrets' = new
      /\ factor' = [status |-> "pending_setup", secret |-> new, verified |-> FALSE,
                    codes |-> {new} \X (1 .. CodeCount)]
      /\ phone' \in {phone, phone \cup {new}}
      /\ UNCHANGED <<clock, user, links, lockout, challenge, proven, spent>>
  BY <1>1 DEF Setup2fa
<1>4. {new} \X (1 .. CodeCount) \subseteq RecoveryCodes
  BY <1>2 DEF RecoveryCodes
<1>5. factor' \in Factor
  BY <1>2, <1>3, <1>4, CredentialParameters DEF Factor, Secrets
<1>6. \A code \in spent : code[1] \in Secrets /\ code[1] <= secrets
  BY FactorFacts DEF FactorInv, RecoveryCodes
<1>7. \A code \in {new} \X (1 .. CodeCount) : code[1] = new
  OBVIOUS
<1>8. ~AsksForCode' /\ factor'.secret = new /\ factor'.codes = {new} \X (1 .. CodeCount)
  BY <1>3 DEF AsksForCode
<1>9. \A code \in spent : code[1] < new
  BY <1>2, <1>6, FactorFacts DEF Secrets
<1>10. FactorInv'
  <2>1. factor'.codes \cap spent' = {}
    <3>1. \A code \in spent : code[1] # new
      BY <1>2, <1>6, <1>9 DEF Secrets
    <3> QED BY <1>3, <1>7, <1>8, <3>1
  <2>2. \A code \in spent' : code[1] <= secrets'
    BY <1>2, <1>3, <1>6, FactorFacts DEF Secrets
  <2>3. factor'.secret <= secrets'
    BY <1>2, <1>3, <1>8 DEF Secrets
  <2> QED BY <1>7, <1>8, <2>1, <2>2, <2>3 DEF FactorInv
<1> QED BY <1>2, <1>3, <1>5, <1>10, FactorFacts, FactorKeeps DEF Factor, Secrets

LEMMA DisableStep == CredentialInv /\ Disable2fa => CredentialInv'
<1> SUFFICES ASSUME CredentialInv, Disable2fa PROVE CredentialInv'
  OBVIOUS
<1>1. factor' = NoFactor /\ UNCHANGED <<clock, user, links, lockout, challenge, phone, proven, spent, secrets>>
  BY DEF Disable2fa
<1>2. factor' \in Factor
  BY <1>1, CredentialParameters DEF NoFactor, Factor
<1>3. FactorInv'
  BY <1>1, FactorFacts DEF FactorInv, NoFactor, AsksForCode
<1> QED BY <1>1, <1>2, <1>3, FactorFacts, FactorKeeps DEF Factor

-----------------------------------------------------------------------------
LEMMA CredentialInitInv == CredentialInit => CredentialInv
<1> SUFFICES ASSUME CredentialInit PROVE CredentialInv
  OBVIOUS
<1> USE CredentialParameters
<1>1. /\ clock \in 0 .. LatestInstant /\ 0 \in Moments
      /\ user \in [active : BOOLEAN, password : {"placeholder", "own"}, mustChange : BOOLEAN]
      /\ user.active /\ user.mustChange
      /\ factor = NoFactor /\ factor \in Factor
      /\ challenge = 0 /\ phone = {} /\ proven = {} /\ spent = {} /\ secrets = 0
  <2>1. clock \in 0 .. LatestInstant /\ 0 \in Moments
    BY MomentFacts DEF CredentialInit
  <2>2. /\ user \in [active : BOOLEAN, password : {"placeholder", "own"}, mustChange : BOOLEAN]
        /\ user.active /\ user.mustChange
    <3>1. CASE user = [active |-> TRUE, password |-> "placeholder", mustChange |-> TRUE]
      BY <3>1
    <3>2. CASE user = [active |-> TRUE, password |-> "own", mustChange |-> TRUE]
      BY <3>2
    <3> QED BY <3>1, <3>2 DEF CredentialInit
  <2>3. factor = NoFactor /\ factor \in Factor
    BY DEF CredentialInit, NoFactor, Factor
  <2> QED BY <2>1, <2>2, <2>3 DEF CredentialInit, NoChallenge
<1>2. links \in Seq(Link) /\ \A i \in DOMAIN links : i = 1
  <2>1. CASE links = <<>>
    BY <2>1
  <2>2. CASE links = <<NewLink("invite")>>
    BY <1>1, <2>2, NewLinkFacts
  <2> QED BY <2>1, <2>2 DEF CredentialInit
<1>3. LinksInv
  BY <1>1, <1>2 DEF LinksInv, UnusedIsSole
<1>4. FactorInv
  BY <1>1 DEF FactorInv, AsksForCode, NoFactor
<1>5. lockout \in [count : 0 .. Attempts - 1, forget : Moments, locked : Moments]
  BY <1>1 DEF CredentialInit
<1> QED BY <1>1, <1>2, <1>3, <1>4, <1>5 DEF CredentialInv, CredentialTypeOK, Factor, Link

LEMMA CredentialStep == CredentialInv /\ [CredentialNext]_credentialVars => CredentialInv'
<1> SUFFICES ASSUME CredentialInv, [CredentialNext]_credentialVars PROVE CredentialInv'
  OBVIOUS
<1>1. CASE UNCHANGED credentialVars
  BY <1>1, FactorKeeps, FactorFacts DEF credentialVars, Factor, FactorInv, AsksForCode
<1>2. CASE CredentialNext
  BY <1>2, LinkStep, UserStep, DoorStep, AppStep, CodeStep, SetupStep, DisableStep DEF CredentialNext
<1> QED BY <1>1, <1>2

(* At most one link of a kind is unused, so at most one is good.           *)
LEMMA CredentialMeans == CredentialInv => CredentialsAreSound
<1> SUFFICES ASSUME CredentialInv PROVE CredentialsAreSound
  OBVIOUS
<1>1. ASSUME NEW kind \in {"invite", "reset"}
      PROVE  Cardinality({i \in DOMAIN links : Live(i, kind)}) <= 1
  <2> DEFINE good == {i \in DOMAIN links : Live(i, kind)}
  <2>1. \A i, j \in good : i = j
    BY DEF CredentialInv, LinksInv, UnusedIsSole, Live
  <2>4. good = {i \in DOMAIN links : Live(i, kind)}
    OBVIOUS
  <2> HIDE DEF good
  <2>3. ASSUME NEW i \in good PROVE Cardinality(good) = 1
    <3>1. good = {i}
      BY <2>1
    <3> QED BY <3>1, FS_Singleton
  <2>5. Cardinality(good) <= 1
    <3>1. CASE good = {}
      <4>1. Cardinality(good) = 0
        BY <3>1, FS_EmptySet
      <4> QED BY <4>1
    <3>2. CASE good # {}
      <4>1. Cardinality(good) = 1
        BY <2>3, <3>2
      <4> QED BY <4>1
    <3> QED BY <3>1, <3>2
  <2> QED BY <2>4, <2>5
<1>2. ~user.active => \A i \in DOMAIN links : ~Live(i, "invite")
  BY DEF CredentialInv, LinksInv, Live
<1>3. SecondFactorIsProven
  BY DEF CredentialInv, FactorInv, SecondFactorIsProven
<1> QED BY <1>1, <1>2, <1>3 DEF CredentialInv, LinksInv, CredentialsAreSound, LinksAreSole

(* Nobody is locked out by a second factor that was never proven, and no   *)
(* link or code that was replaced or used still works, however often they  *)
(* are sent, lost and set up again.                                        *)
THEOREM CredentialsTheorem == CredentialSpec => []CredentialsAreSound
BY CredentialInitInv, CredentialStep, CredentialMeans, PTL DEF CredentialSpec


-----------------------------------------------------------------------------
(* The sessions. A row says when it was last used, give or take a slide;   *)
(* it is open as long as nobody ended it; and no token in a browser, or on *)
(* its way to one, was minted after its session had ended, or at or after  *)
(* a cutoff that is later than its session.                                *)
RowIsSound(r, used, end, at) ==
  /\ r.last <= used /\ used <= at
  /\ r.portal \in Doors => used < r.last + SlideEvery
  /\ r.open <=> end = NoToken

RowsInv == \A s \in DOMAIN rows : RowIsSound(rows[s], touched[s], ended[s], now)

TokensInv ==
  \A p \in Held :
    /\ p.sid \in DOMAIN rows /\ p.at <= now
    /\ ended[p.sid] # NoToken => p.at <= ended[p.sid]
    /\ p.at >= account.validFrom => rows[p.sid].login >= account.validFrom \/ p.sid \in spared

SessionInv == SessionTypeOK /\ RowsInv /\ TokensInv

Entry == [kind : {"access", "refresh"}, token : Pair]
ToBrowser == [to : Browsers, token : Pair \cup {NoToken}]
Account == [active : BOOLEAN, roles : SUBSET Doors, validFrom : Instants]

LEMMA SessionParameters ==
  /\ AccessLife \in Nat /\ RefreshLife \in Nat /\ IdleLimit \in Nat /\ MaxAge \in Nat
  /\ SlideEvery \in Nat /\ SlideEvery # 0
  /\ MaxTime \in Nat /\ MaxSessions \in Nat /\ MaxTurns \in Nat
  /\ "employee" \notin Doors
  /\ NoToken \notin Instants /\ NoToken \notin Pair
<1>1. Instants \subseteq Nat /\ Pair \subseteq [sid : Nat, turn : Nat, at : Nat]
  BY SessionAssumption DEF Instants, Pair
<1> QED BY <1>1, SessionAssumption

LEMMA SessionFacts ==
  ASSUME SessionInv
  PROVE  /\ now \in Instants /\ now \in Nat /\ account \in Account
         /\ rows \in Seq(Row) /\ Len(rows) <= MaxSessions /\ Len(rows) \in Nat
         /\ DOMAIN rows = 1 .. Len(rows)
         /\ touched \in Seq(Instants) /\ Len(touched) = Len(rows)
         /\ ended \in Seq(Instants \cup {NoToken}) /\ Len(ended) = Len(rows)
         /\ cookies \in [Browsers -> Pair \cup {NoToken}] /\ answers \subseteq ToBrowser
         /\ redis \in BOOLEAN /\ denied \subseteq Entry
         /\ spared \subseteq 1 .. MaxSessions /\ upheavals \in 0 .. MaxUpheavals
         /\ RowsInv /\ TokensInv
BY SessionParameters DEF SessionInv, SessionTypeOK, Account, ToBrowser, Entry, Instants

LEMMA HeldFacts ==
  ASSUME SessionInv
  PROVE  /\ Held \subseteq Pair
         /\ \A b \in Browsers : Same(b) => cookies[b] \in Held
         /\ \A p \in Held : p.sid \in 1 .. MaxSessions /\ p.turn \in 0 .. MaxTurns /\ p.at \in Nat /\ p.sid \in Nat
<1>1. Held \subseteq Pair
  BY SessionFacts DEF Held, ToBrowser
<1>2. \A b \in Browsers : Same(b) => cookies[b] \in Held
  BY DEF Held, Same
<1>3. \A p \in Pair : p.sid \in 1 .. MaxSessions /\ p.turn \in 0 .. MaxTurns /\ p.at \in Nat /\ p.sid \in Nat
  BY SessionParameters DEF Pair, Instants
<1> QED BY <1>1, <1>2, <1>3

(* Rows that end: nothing else about them changes.                         *)
LEMMA WithoutFacts ==
  ASSUME SessionInv, NEW S
  PROVE  /\ Without(S) \in Seq(Row) /\ Len(Without(S)) = Len(rows)
         /\ EndedNow(S) \in Seq(Instants \cup {NoToken}) /\ Len(EndedNow(S)) = Len(rows)
         /\ \A s \in 1 .. Len(rows) :
              /\ Without(S)[s].portal = rows[s].portal /\ Without(S)[s].login = rows[s].login
              /\ Without(S)[s].last = rows[s].last
              /\ Without(S)[s].open = (rows[s].open /\ s \notin S)
              /\ EndedNow(S)[s] = IF s \in S /\ rows[s].open THEN now ELSE ended[s]
<1> DEFINE shut(r) == [r EXCEPT !.open = FALSE]
<1>1. \A r \in Row : /\ shut(r) \in Row /\ shut(r).portal = r.portal /\ shut(r).login = r.login
                     /\ shut(r).last = r.last /\ shut(r).open = FALSE /\ r.open \in BOOLEAN
  BY DEF Row
<1>2. Without(S) = [s \in DOMAIN rows |-> IF s \in S THEN shut(rows[s]) ELSE rows[s]]
  BY DEF Without
<1> HIDE DEF shut
<1>3. \A s \in 1 .. Len(rows) : rows[s] \in Row /\ ended[s] \in Instants \cup {NoToken}
  BY SessionFacts
<1>4. Without(S) \in [1 .. Len(rows) -> Row]
  BY <1>1, <1>2, <1>3, SessionFacts
<1>5. EndedNow(S) \in [1 .. Len(rows) -> Instants \cup {NoToken}]
  BY <1>3, SessionFacts DEF EndedNow
<1>6. Without(S) \in Seq(Row) /\ Len(Without(S)) = Len(rows)
  BY <1>4, SessionFacts
<1>7. EndedNow(S) \in Seq(Instants \cup {NoToken}) /\ Len(EndedNow(S)) = Len(rows)
  BY <1>5, SessionFacts
<1>8. \A s \in 1 .. Len(rows) :
        /\ Without(S)[s].portal = rows[s].portal /\ Without(S)[s].login = rows[s].login
        /\ Without(S)[s].last = rows[s].last
        /\ Without(S)[s].open = (rows[s].open /\ s \notin S)
  BY <1>1, <1>2, <1>3, SessionFacts
<1>9. \A s \in 1 .. Len(rows) : EndedNow(S)[s] = IF s \in S /\ rows[s].open THEN now ELSE ended[s]
  BY SessionFacts DEF EndedNow, Closing, HasRow
<1> QED BY <1>6, <1>7, <1>8, <1>9

LEMMA RevokeFacts ==
  ASSUME SessionInv, NEW entries, entries \subseteq Entry, Revoke(entries)
  PROVE  denied' \subseteq Entry
BY SessionFacts DEF Revoke

LEMMA LastTokensFacts ==
  ASSUME SessionInv, NEW S
  PROVE  LastTokens(S) \subseteq Entry
<1>1. ASSUME NEW s \in Closing(S) PROVE [kind |-> "access", token |-> LastToken(s)] \in Entry
  <2>1. s \in 1 .. Len(rows)
    BY <1>1, SessionFacts DEF Closing, HasRow
  <2>2. rows[s] \in Row /\ s \in 1 .. MaxSessions
    BY <2>1, SessionFacts, SessionParameters
  <2>3. LastToken(s) \in Pair
    BY <2>2 DEF LastToken, Row, Pair
  <2> QED BY <2>3 DEF Entry
<1> QED BY <1>1 DEF LastTokens

LEMMA PresentedFacts ==
  ASSUME SessionInv, NEW b \in Browsers
  PROVE  Tokens(Presented(b)) \subseteq Entry
<1>1. Presented(b) \subseteq Pair
  BY SessionFacts DEF Presented
<1> QED BY <1>1 DEF Tokens, Entry

LEMMA AnswerFacts ==
  ASSUME SessionInv, NEW b \in Browsers, NEW x \in Pair \cup {NoToken}, Answer(b, x), UNCHANGED cookies
  PROVE  /\ cookies' \in [Browsers -> Pair \cup {NoToken}] /\ answers' \subseteq ToBrowser
         /\ Held' \subseteq Held \cup ({x} \ {NoToken})
<1>1. [to |-> b, token |-> x] \in ToBrowser /\ answers' = answers \cup {[to |-> b, token |-> x]}
  BY DEF ToBrowser, Answer
<1> QED BY <1>1, SessionFacts DEF Held

-----------------------------------------------------------------------------
(* What becomes of the rows, and of the tokens that were out before.       *)
OldTokensStay ==
  \A p \in Held :
    /\ p.sid \in DOMAIN rows' /\ p.at <= now'
    /\ ended'[p.sid] # NoToken => p.at <= ended'[p.sid]
    /\ rows'[p.sid].login = rows[p.sid].login

RowsTyped ==
  /\ rows \in Seq(Row) /\ Len(rows) <= MaxSessions
  /\ touched \in Seq(Instants) /\ Len(touched) = Len(rows)
  /\ ended \in Seq(Instants \cup {NoToken}) /\ Len(ended) = Len(rows)

LEMMA RowsRest ==
  ASSUME SessionInv, UNCHANGED <<now, rows, touched, ended>>
  PROVE  RowsTyped' /\ RowsInv' /\ OldTokensStay
BY SessionFacts DEF RowsTyped, RowsInv, OldTokensStay, TokensInv

LEMMA RowsEnd ==
  ASSUME SessionInv, NEW S, End(S), now' = now
  PROVE  RowsTyped' /\ RowsInv' /\ OldTokensStay
<1>1. /\ rows' \in Seq(Row) /\ Len(rows') = Len(rows)
      /\ ended' \in Seq(Instants \cup {NoToken}) /\ Len(ended') = Len(rows) /\ touched' = touched
      /\ \A s \in 1 .. Len(rows) :
           /\ rows'[s].portal = rows[s].portal /\ rows'[s].login = rows[s].login
           /\ rows'[s].last = rows[s].last
           /\ rows'[s].open = (rows[s].open /\ s \notin S)
           /\ ended'[s] = IF s \in S /\ rows[s].open THEN now ELSE ended[s]
  BY WithoutFacts DEF End
<1>2. RowsTyped'
  BY <1>1, SessionFacts DEF RowsTyped
<1>3. DOMAIN rows' = 1 .. Len(rows) /\ DOMAIN rows = 1 .. Len(rows)
  BY <1>1, SessionFacts
<1>4. now \in Instants /\ NoToken \notin Instants
  BY SessionFacts, SessionParameters
<1>5. RowsInv'
  <2>1. SUFFICES ASSUME NEW s \in 1 .. Len(rows)
                 PROVE  RowIsSound(rows'[s], touched'[s], ended'[s], now')
    BY <1>3 DEF RowsInv
  <2>2. RowIsSound(rows[s], touched[s], ended[s], now)
    BY <1>3, SessionFacts DEF RowsInv
  <2>3. rows'[s].open <=> ended'[s] = NoToken
    BY <1>1, <1>4, <2>2 DEF RowIsSound
  <2> QED BY <1>1, <2>2, <2>3 DEF RowIsSound
<1>6. OldTokensStay
  <2>1. SUFFICES ASSUME NEW p \in Held
                 PROVE  /\ p.sid \in DOMAIN rows' /\ p.at <= now'
                        /\ ended'[p.sid] # NoToken => p.at <= ended'[p.sid]
                        /\ rows'[p.sid].login = rows[p.sid].login
    BY DEF OldTokensStay
  <2>2. /\ p.sid \in 1 .. Len(rows) /\ p.at <= now
        /\ ended[p.sid] # NoToken => p.at <= ended[p.sid]
    BY <1>3, SessionFacts DEF TokensInv
  <2> QED BY <1>1, <1>3, <2>2
<1> QED BY <1>2, <1>5, <1>6

LEMMA RowsBegin ==
  ASSUME SessionInv, NEW S, NEW portal \in Portals, Begin(S, portal), now' = now
  PROVE  /\ RowsTyped' /\ RowsInv' /\ OldTokensStay
         /\ FirstPair \in Pair /\ FirstPair.at = now /\ FirstPair.sid \in DOMAIN rows'
         /\ rows'[FirstPair.sid].login = now /\ ended'[FirstPair.sid] = NoToken
<1> DEFINE first == [portal |-> portal, login |-> now, last |-> now, turn |-> 0, at |-> now, open |-> TRUE]
           n == Len(rows)
<1>1. /\ Len(rows) < MaxSessions /\ rows' = Append(Without(S), first)
      /\ ended' = Append(EndedNow(S), NoToken) /\ touched' = Append(touched, now)
  BY DEF Begin
<1>2. /\ first \in Row /\ first.portal = portal /\ first.login = now /\ first.last = now /\ first.open = TRUE
      /\ now \in Instants /\ now \in Nat /\ NoToken \notin Instants /\ n \in Nat
  BY SessionFacts, SessionParameters DEF Row
<1> HIDE DEF first
<1>3. /\ Without(S) \in Seq(Row) /\ Len(Without(S)) = n
      /\ EndedNow(S) \in Seq(Instants \cup {NoToken}) /\ Len(EndedNow(S)) = n
      /\ touched \in Seq(Instants) /\ Len(touched) = n
  BY WithoutFacts, SessionFacts
<1>4. /\ rows' \in Seq(Row) /\ Len(rows') = n + 1 /\ rows'[n + 1] = first
      /\ \A s \in 1 .. n : rows'[s] = Without(S)[s]
  BY <1>1, <1>2, <1>3
<1>5. /\ ended' \in Seq(Instants \cup {NoToken}) /\ Len(ended') = n + 1 /\ ended'[n + 1] = NoToken
      /\ \A s \in 1 .. n : ended'[s] = EndedNow(S)[s]
  BY <1>1, <1>2, <1>3
<1>6. /\ touched' \in Seq(Instants) /\ Len(touched') = n + 1 /\ touched'[n + 1] = now
      /\ \A s \in 1 .. n : touched'[s] = touched[s]
  BY <1>1, <1>2, <1>3
<1>7. \A s \in 1 .. n :
        /\ rows'[s].portal = rows[s].portal /\ rows'[s].login = rows[s].login
        /\ rows'[s].last = rows[s].last
        /\ rows'[s].open = (rows[s].open /\ s \notin S)
        /\ ended'[s] = IF s \in S /\ rows[s].open THEN now ELSE ended[s]
  BY <1>4, <1>5, WithoutFacts
<1>8. DOMAIN rows' = 1 .. n + 1 /\ DOMAIN rows = 1 .. n
  BY <1>4, SessionFacts
<1>9. RowsTyped'
  BY <1>1, <1>2, <1>4, <1>5, <1>6, SessionParameters DEF RowsTyped
<1>10. RowsInv'
  <2>1. ASSUME NEW s \in 1 .. n PROVE RowIsSound(rows'[s], touched'[s], ended'[s], now')
    <3>1. RowIsSound(rows[s], touched[s], ended[s], now)
      BY <1>8, SessionFacts DEF RowsInv
    <3>2. rows'[s].open <=> ended'[s] = NoToken
      BY <1>2, <1>7, <3>1 DEF RowIsSound
    <3> QED BY <1>6, <1>7, <3>1, <3>2 DEF RowIsSound
  <2>2. RowIsSound(rows'[n + 1], touched'[n + 1], ended'[n + 1], now')
    BY <1>2, <1>4, <1>5, <1>6, SessionParameters DEF RowIsSound
  <2>3. \A s \in 1 .. n + 1 : s \in 1 .. n \/ s = n + 1
    BY <1>2
  <2> QED BY <1>8, <2>1, <2>2, <2>3 DEF RowsInv
<1>11. OldTokensStay
  <2>1. SUFFICES ASSUME NEW p \in Held
                 PROVE  /\ p.sid \in DOMAIN rows' /\ p.at <= now'
                        /\ ended'[p.sid] # NoToken => p.at <= ended'[p.sid]
                        /\ rows'[p.sid].login = rows[p.sid].login
    BY DEF OldTokensStay
  <2>2. /\ p.sid \in 1 .. n /\ p.at <= now
        /\ ended[p.sid] # NoToken => p.at <= ended[p.sid]
    BY <1>8, SessionFacts DEF TokensInv
  <2>3. p.sid \in 1 .. n + 1
    BY <1>2, <2>2
  <2> QED BY <1>7, <1>8, <2>2, <2>3
<1>12. /\ FirstPair = [sid |-> n + 1, turn |-> 0, at |-> now] /\ n + 1 \in 1 .. MaxSessions
  BY <1>1, <1>2, SessionParameters DEF FirstPair
<1>13. FirstPair \in Pair /\ FirstPair.at = now /\ FirstPair.sid = n + 1
  BY <1>2, <1>12, SessionParameters DEF Pair
<1>14. n + 1 \in DOMAIN rows'
  BY <1>2, <1>8
<1> QED BY <1>2, <1>4, <1>5, <1>9, <1>10, <1>11, <1>13, <1>14

(* The account and its cutoff stay, or the cutoff is now.                  *)
LEMMA TokensRest ==
  ASSUME SessionInv, OldTokensStay, spared' = spared, account'.validFrom = account.validFrom, Held' \subseteq Held
  PROVE  TokensInv'
<1>1. TokensInv
  BY SessionFacts
<1> QED BY <1>1 DEF TokensInv, OldTokensStay

LEMMA TokensAdded ==
  ASSUME SessionInv, OldTokensStay, spared' = spared, account'.validFrom = account.validFrom, NEW x,
         Held' \subseteq Held \cup {x},
         x.sid \in DOMAIN rows', x.at <= now', ended'[x.sid] = NoToken,
         x.at >= account.validFrom => rows'[x.sid].login >= account.validFrom \/ x.sid \in spared
  PROVE  TokensInv'
<1>1. TokensInv
  BY SessionFacts
<1> QED BY <1>1 DEF TokensInv, OldTokensStay

LEMMA TokensCut ==
  ASSUME SessionInv, OldTokensStay, now' = now, account'.validFrom = now,
         spared' = {p.sid : p \in {q \in Held : q.at = now}},
         \A p \in Held' \ Held :
           /\ p.sid \in DOMAIN rows' /\ p.at <= now /\ ended'[p.sid] = NoToken
           /\ rows'[p.sid].login = now
  PROVE  TokensInv' /\ spared' \subseteq 1 .. MaxSessions
<1>1. TokensInv /\ now \in Nat /\ \A p \in Held : p.at \in Nat /\ p.sid \in 1 .. MaxSessions
  BY SessionFacts, HeldFacts
<1>2. ASSUME NEW p \in Held, p.at >= now PROVE p.sid \in spared'
  <2>1. p.at = now
    BY <1>1, <1>2 DEF TokensInv
  <2> QED BY <2>1
<1>3. spared' \subseteq 1 .. MaxSessions
  BY <1>1
<1>4. ASSUME NEW p \in Held'
      PROVE  /\ p.sid \in DOMAIN rows' /\ p.at <= now'
             /\ ended'[p.sid] # NoToken => p.at <= ended'[p.sid]
             /\ p.at >= account'.validFrom => rows'[p.sid].login >= account'.validFrom \/ p.sid \in spared'
  <2>1. CASE p \in Held
    BY <1>2, <2>1 DEF OldTokensStay
  <2>2. CASE p \notin Held
    BY <1>1, <2>2
  <2> QED BY <2>1, <2>2
<1> QED BY <1>3, <1>4 DEF TokensInv

(* A step that leaves clock and account alone is judged by its rows, its   *)
(* answers and its deny-list.                                              *)
LEMMA Assembled ==
  ASSUME SessionInv, KeepAccount, RowsTyped', RowsInv', TokensInv',
         cookies' \in [Browsers -> Pair \cup {NoToken}], answers' \subseteq ToBrowser, denied' \subseteq Entry
  PROVE  SessionInv'
<1>1. /\ now' \in Instants /\ account' \in Account /\ redis' \in BOOLEAN
      /\ spared' \subseteq 1 .. MaxSessions /\ upheavals' \in 0 .. MaxUpheavals
  BY SessionFacts DEF KeepAccount
<1>2. SessionTypeOK'
  BY <1>1 DEF SessionTypeOK, RowsTyped, Instants, Account, ToBrowser, Entry
<1> QED BY <1>2 DEF SessionInv

LEMMA AssembledAnew ==
  ASSUME SessionInv, UNCHANGED <<now, redis>>, Upheaval, account' \in Account, spared' \subseteq 1 .. MaxSessions,
         RowsTyped', RowsInv', TokensInv',
         cookies' \in [Browsers -> Pair \cup {NoToken}], answers' \subseteq ToBrowser, denied' \subseteq Entry
  PROVE  SessionInv'
<1>1. now' \in Instants /\ redis' \in BOOLEAN /\ upheavals' \in 0 .. MaxUpheavals
  <2>1. MaxUpheavals \in Nat
    BY SessionAssumption
  <2> QED BY <2>1, SessionFacts DEF Upheaval
<1>2. SessionTypeOK'
  BY <1>1 DEF SessionTypeOK, RowsTyped, Instants, Account, ToBrowser, Entry
<1> QED BY <1>2 DEF SessionInv

(* A session begins, and its first pair goes out.                          *)
LEMMA BeginStep ==
  ASSUME SessionInv, KeepAccount, UNCHANGED cookies,
         NEW S, NEW portal \in Portals, Begin(S, portal), NEW b \in Browsers, Answer(b, FirstPair),
         NEW entries, entries \subseteq Entry, Revoke(entries)
  PROVE  SessionInv'
<1>1. now' = now /\ UNCHANGED <<account, spared>>
  BY DEF KeepAccount
<1>2. /\ RowsTyped' /\ RowsInv' /\ OldTokensStay
      /\ FirstPair \in Pair /\ FirstPair.at = now /\ FirstPair.sid \in DOMAIN rows'
      /\ rows'[FirstPair.sid].login = now /\ ended'[FirstPair.sid] = NoToken
  BY <1>1, RowsBegin
<1>3. /\ cookies' \in [Browsers -> Pair \cup {NoToken}] /\ answers' \subseteq ToBrowser
      /\ Held' \subseteq Held \cup {FirstPair}
  BY <1>2, AnswerFacts
<1>4. now <= now'
  BY <1>1, SessionFacts
<1>5. TokensInv'
  BY <1>1, <1>2, <1>3, <1>4, TokensAdded
<1>6. denied' \subseteq Entry
  BY RevokeFacts
<1> QED BY <1>2, <1>3, <1>5, <1>6, Assembled

LEMMA SignInStep ==
  ASSUME SessionInv, NEW b \in Browsers, NEW door \in Portals, SignIn(b, door)
  PROVE  SessionInv'
<1> DEFINE S == SidsOf(Presented(b))
           E == Tokens(Presented(b)) \cup LastTokens(S)
<1>1. Begin(S, door) /\ Revoke(E) /\ Answer(b, FirstPair) /\ UNCHANGED cookies /\ KeepAccount
  BY DEF SignIn, Start
<1>2. E \subseteq Entry
  BY LastTokensFacts, PresentedFacts
<1> HIDE DEF S, E
<1> QED BY <1>1, <1>2, BeginStep

LEMMA ExitStep ==
  ASSUME SessionInv, NEW b \in Browsers, ExitPrivileged(b)
  PROVE  SessionInv'
<1> DEFINE S == {cookies[b].sid}
           E == LastTokens(S) \cup {[kind |-> "refresh", token |-> cookies[b]]}
<1>1. /\ Begin(S, "employee") /\ Revoke(E) /\ Answer(b, FirstPair) /\ UNCHANGED cookies /\ KeepAccount
      /\ Same(b)
  BY DEF ExitPrivileged
<1>2. cookies[b] \in Pair
  BY <1>1, HeldFacts
<1>3. E \subseteq Entry
  BY <1>2, LastTokensFacts DEF Entry
<1>4. "employee" \in Portals
  BY DEF Portals
<1> HIDE DEF S, E
<1> QED BY <1>1, <1>3, <1>4, BeginStep

(* Sessions end, and nothing new goes out.                                 *)
LEMMA EndStep ==
  ASSUME SessionInv, KeepAccount, UNCHANGED cookies, NEW S, End(S),
         NEW entries, entries \subseteq Entry, Revoke(entries),
         UNCHANGED answers \/ \E b \in Browsers : Answer(b, NoToken)
  PROVE  SessionInv'
<1>1. now' = now /\ UNCHANGED <<account, spared>>
  BY DEF KeepAccount
<1>2. RowsTyped' /\ RowsInv' /\ OldTokensStay
  BY <1>1, RowsEnd
<1>3. /\ cookies' \in [Browsers -> Pair \cup {NoToken}] /\ answers' \subseteq ToBrowser
      /\ Held' \subseteq Held
  <2>1. CASE UNCHANGED answers
    BY <2>1, SessionFacts DEF Held
  <2>2. CASE \E b \in Browsers : Answer(b, NoToken)
    BY <2>2, AnswerFacts
  <2> QED BY <2>1, <2>2
<1>4. TokensInv'
  BY <1>1, <1>2, <1>3, TokensRest
<1>5. denied' \subseteq Entry
  BY RevokeFacts
<1> QED BY <1>2, <1>3, <1>4, <1>5, Assembled

LEMMA FindLapsedStep ==
  ASSUME SessionInv, NEW b \in Browsers, FindLapsed(b)
  PROVE  SessionInv'
BY LastTokensFacts, EndStep DEF FindLapsed

LEMMA RefuseStep ==
  ASSUME SessionInv, NEW b \in Browsers, RefuseRefresh(b)
  PROVE  SessionInv'
BY LastTokensFacts, EndStep DEF RefuseRefresh

LEMMA RevokeStep ==
  ASSUME SessionInv, NEW b \in Browsers, NEW s \in DOMAIN rows, RevokeSession(b, s)
  PROVE  SessionInv'
BY LastTokensFacts, EndStep DEF RevokeSession

LEMMA SignOutStep ==
  ASSUME SessionInv, NEW b \in Browsers, SignOut(b)
  PROVE  SessionInv'
<1> DEFINE S == SidsOf(Presented(b))
           E == Tokens(Presented(b)) \cup LastTokens(S \cap {s \in DOMAIN rows : rows[s].portal \in Doors})
<1>1. End(S) /\ Revoke(E) /\ Answer(b, NoToken) /\ UNCHANGED cookies /\ KeepAccount
  BY DEF SignOut
<1>2. E \subseteq Entry
  BY LastTokensFacts, PresentedFacts
<1> HIDE DEF S, E
<1> QED BY <1>1, <1>2, EndStep

-----------------------------------------------------------------------------
(* A request keeps its session in use; a renewal moves its tokens on.      *)
LEMMA UseStep ==
  ASSUME SessionInv, NEW b \in Browsers, NEW polling \in BOOLEAN, Use(b, polling)
  PROVE  SessionInv'
<1>1. /\ Same(b) /\ UNCHANGED <<cookies, answers, denied, ended>> /\ KeepAccount
      /\ UNCHANGED <<now, account, spared>>
  BY DEF Use, KeepAccount
<1>2. CASE polling
  <2>1. UNCHANGED <<rows, touched>>
    BY <1>2 DEF Use
  <2>2. RowsTyped' /\ RowsInv' /\ OldTokensStay
    BY <1>1, <2>1, RowsRest
  <2>3. Held' \subseteq Held
    BY <1>1 DEF Held
  <2>4. TokensInv'
    BY <1>1, <2>2, <2>3, TokensRest
  <2> QED BY <1>1, <2>2, <2>4, Assembled, SessionFacts
<1>3. CASE ~polling
  <2> DEFINE s == cookies[b].sid
             slid(r) == IF r.portal \in Doors /\ now - r.last >= SlideEvery THEN [r EXCEPT !.last = now] ELSE r
  <2>1. /\ cookies[b] \in Held /\ s \in 1 .. Len(rows) /\ DOMAIN rows = 1 .. Len(rows)
    BY <1>1, HeldFacts, SessionFacts DEF TokensInv
  <2>2. rows' = [rows EXCEPT ![s] = slid(rows[s])] /\ touched' = [touched EXCEPT ![s] = now]
    <3>1. rows' = Slid(s) /\ touched' = [touched EXCEPT ![s] = now]
      BY <1>3 DEF Use
    <3>2. rows[s] = [rows EXCEPT ![s] = rows[s]][s] /\ rows = [rows EXCEPT ![s] = rows[s]]
      BY <2>1, SessionFacts
    <3> QED BY <3>1, <3>2 DEF Slid
  <2>3. now \in Nat /\ now \in Instants
    BY SessionFacts
  <2>4. \A r \in Row : /\ slid(r) \in Row /\ slid(r).portal = r.portal /\ slid(r).login = r.login
                       /\ slid(r).open = r.open
                       /\ slid(r).last = IF r.portal \in Doors /\ now - r.last >= SlideEvery THEN now ELSE r.last
                       /\ r.last \in Nat
    BY <2>3, SessionParameters DEF Row, Instants
  <2> HIDE DEF s, slid
  <2>5. /\ rows' \in Seq(Row) /\ Len(rows') = Len(rows)
        /\ touched' \in Seq(Instants) /\ Len(touched') = Len(rows)
    <3>1. rows \in [1 .. Len(rows) -> Row] /\ touched \in [1 .. Len(rows) -> Instants]
      BY <2>1, SessionFacts
    <3>2. rows' \in [1 .. Len(rows) -> Row] /\ touched' \in [1 .. Len(rows) -> Instants]
      BY <2>1, <2>2, <2>3, <2>4, <3>1
    <3>3. Len(rows) \in Nat
      BY SessionFacts
    <3>4. rows' \in Seq(Row) /\ Len(rows') = Len(rows)
      BY <3>2, <3>3
    <3>5. touched' \in Seq(Instants) /\ Len(touched') = Len(rows)
      BY <3>2, <3>3
    <3> QED BY <3>4, <3>5
  <2>6. RowsTyped'
    BY <1>1, <2>5, SessionFacts DEF RowsTyped
  <2>7. DOMAIN rows' = 1 .. Len(rows)
    BY <2>1, <2>2
  <2>8. /\ rows'[s] = slid(rows[s]) /\ touched'[s] = now /\ rows[s] \in Row
        /\ \A k \in 1 .. Len(rows) : k # s => rows'[k] = rows[k] /\ touched'[k] = touched[k]
    BY <2>1, <2>2, SessionFacts
  <2>9. RowsInv'
    <3>1. ASSUME NEW k \in 1 .. Len(rows) PROVE RowIsSound(rows'[k], touched'[k], ended'[k], now')
      <4>1. RowIsSound(rows[k], touched[k], ended[k], now)
        BY <2>1, SessionFacts DEF RowsInv
      <4>2. CASE k # s
        BY <1>1, <2>8, <4>1, <4>2
      <4>3. CASE k = s
        <5>1. touched[s] \in Nat
          <6>1. touched[s] \in Instants
            BY <2>1, SessionFacts
          <6> QED BY <6>1, SessionParameters DEF Instants
        <5>2. rows[s].last \in Nat /\ rows[s].last <= now
          BY <2>3, <2>4, <2>8, <4>1, <4>3, <5>1 DEF RowIsSound
        <5>3. /\ slid(rows[s]).portal = rows[s].portal /\ slid(rows[s]).open = rows[s].open
              /\ slid(rows[s]).last = IF rows[s].portal \in Doors /\ now - rows[s].last >= SlideEvery THEN now ELSE rows[s].last
          BY <2>4, <2>8
        <5>4. slid(rows[s]).last <= now
          BY <2>3, <5>2, <5>3
        <5>5. slid(rows[s]).portal \in Doors => now < slid(rows[s]).last + SlideEvery
          BY <2>3, <5>2, <5>3, SessionParameters
        <5> QED BY <1>1, <2>3, <2>8, <4>1, <4>3, <5>3, <5>4, <5>5 DEF RowIsSound
      <4> QED BY <4>2, <4>3
    <3> QED BY <2>7, <3>1 DEF RowsInv
  <2>10. OldTokensStay
    <3>1. \A k \in 1 .. Len(rows) : rows'[k].login = rows[k].login
      BY <2>4, <2>8
    <3> QED BY <1>1, <2>1, <2>7, <3>1, SessionFacts DEF OldTokensStay, TokensInv
  <2>11. Held' \subseteq Held
    BY <1>1 DEF Held
  <2>12. TokensInv'
    BY <1>1, <2>10, <2>11, TokensRest
  <2> QED BY <1>1, <2>6, <2>9, <2>12, Assembled, SessionFacts
<1> QED BY <1>2, <1>3

LEMMA RefreshStep ==
  ASSUME SessionInv, NEW b \in Browsers, Refresh(b)
  PROVE  SessionInv'
<1> DEFINE s == cookies[b].sid
           minted(r) == [r EXCEPT !.turn = r.turn + 1, !.at = now]
           q == [sid |-> s, turn |-> rows[s].turn + 1, at |-> now]
<1>1. /\ Same(b) /\ Renewed(cookies[b]) /\ rows[s].turn < MaxTurns
      /\ Revoke({[kind |-> "refresh", token |-> cookies[b]]}) /\ Answer(b, q)
      /\ UNCHANGED <<cookies, touched, ended>> /\ KeepAccount /\ UNCHANGED <<now, account, spared>>
  BY DEF Refresh, KeepAccount
<1>2. /\ cookies[b] \in Held /\ cookies[b] \in Pair /\ s \in 1 .. Len(rows) /\ DOMAIN rows = 1 .. Len(rows)
      /\ s \in 1 .. MaxSessions
  BY <1>1, HeldFacts, SessionFacts DEF TokensInv
<1>3. rows' = [rows EXCEPT ![s] = minted(rows[s])]
  BY <1>2 DEF Refresh
<1>4. /\ now \in Nat /\ now \in Instants /\ rows[s] \in Row /\ rows \in [1 .. Len(rows) -> Row] /\ Len(rows) \in Nat
  BY <1>2, SessionFacts
<1>5. PICK n \in Nat : n = rows[s].turn + 1
  BY <1>4, SessionParameters DEF Row
<1>6. n \in 0 .. MaxTurns
  BY <1>1, <1>4, <1>5, SessionParameters DEF Row
<1>7. minted(rows[s]) = [rows[s] EXCEPT !.turn = n, !.at = now] /\ q = [sid |-> s, turn |-> n, at |-> now]
  BY <1>5
<1>8. /\ minted(rows[s]) \in Row
      /\ minted(rows[s]).portal = rows[s].portal /\ minted(rows[s]).login = rows[s].login
      /\ minted(rows[s]).last = rows[s].last /\ minted(rows[s]).open = rows[s].open
  BY <1>4, <1>6, <1>7 DEF Row
<1>9. q \in Pair /\ q.sid = s /\ q.at = now
  BY <1>2, <1>4, <1>6, <1>7 DEF Pair
<1> HIDE DEF s, minted, q
<1>10. /\ rows'[s] = minted(rows[s]) /\ DOMAIN rows' = 1 .. Len(rows)
       /\ \A k \in 1 .. Len(rows) : k # s => rows'[k] = rows[k]
  BY <1>2, <1>3, <1>4
<1>11. rows' \in Seq(Row) /\ Len(rows') = Len(rows)
  <2>1. rows' \in [1 .. Len(rows) -> Row]
    BY <1>2, <1>3, <1>4, <1>8
  <2> QED BY <1>4, <2>1
<1>12. RowsTyped'
  BY <1>1, <1>11, SessionFacts DEF RowsTyped
<1>13. \A k \in 1 .. Len(rows) :
         /\ rows'[k].portal = rows[k].portal /\ rows'[k].login = rows[k].login
         /\ rows'[k].last = rows[k].last /\ rows'[k].open = rows[k].open
  BY <1>8, <1>10
<1>14. RowsInv'
  <2>1. ASSUME NEW k \in 1 .. Len(rows) PROVE RowIsSound(rows'[k], touched'[k], ended'[k], now')
    <3>1. RowIsSound(rows[k], touched[k], ended[k], now)
      BY <1>2, SessionFacts DEF RowsInv
    <3> QED BY <1>1, <1>13, <3>1 DEF RowIsSound
  <2> QED BY <1>10, <2>1 DEF RowsInv
<1>15. OldTokensStay
  BY <1>1, <1>2, <1>10, <1>13, SessionFacts DEF OldTokensStay, TokensInv
<1>16. /\ cookies' \in [Browsers -> Pair \cup {NoToken}] /\ answers' \subseteq ToBrowser
       /\ Held' \subseteq Held \cup {q}
  BY <1>1, <1>9, AnswerFacts
<1>17. ended[s] = NoToken
  <2>1. rows[s].open
    BY <1>1 DEF Renewed, Renewable, s
  <2> QED BY <1>2, <2>1, SessionFacts DEF RowsInv, RowIsSound
<1>18. rows[s].login >= account.validFrom \/ s \in spared
  <2>1. cookies[b].at >= account.validFrom
    BY <1>1 DEF Renewed, Renewable
  <2> QED BY <1>2, <2>1, SessionFacts DEF TokensInv, s
<1>19. /\ q.sid \in DOMAIN rows' /\ q.at <= now' /\ ended'[q.sid] = NoToken
       /\ rows'[q.sid].login >= account.validFrom \/ q.sid \in spared
  BY <1>1, <1>2, <1>4, <1>9, <1>10, <1>13, <1>17, <1>18
<1>20. TokensInv'
  BY <1>1, <1>15, <1>16, <1>19, TokensAdded
<1>21. denied' \subseteq Entry
  <2>1. {[kind |-> "refresh", token |-> cookies[b]]} \subseteq Entry
    BY <1>2 DEF Entry
  <2> QED BY <1>1, <2>1, RevokeFacts
<1> QED BY <1>1, <1>12, <1>14, <1>16, <1>20, <1>21, Assembled

-----------------------------------------------------------------------------
(* The cutoffs.                                                            *)
LEMMA CutoffFacts ==
  ASSUME SessionInv, NEW changed, Cutoff(changed),
         changed \in Account
  PROVE  account' \in Account /\ account'.validFrom = now /\ spared' = {p.sid : p \in {q \in Held : q.at = now}}
BY SessionFacts DEF Cutoff, Account

LEMMA PasswordStep ==
  ASSUME SessionInv, NEW b \in Browsers, ChangePassword(b)
  PROVE  SessionInv'
<1>1. /\ Upheaval /\ Cutoff(account) /\ Begin(DOMAIN rows, "employee") /\ Revoke(LastTokens(DOMAIN rows))
      /\ Answer(b, FirstPair) /\ now' = now /\ cookies' = cookies /\ redis' = redis
  BY DEF ChangePassword
<1>2. "employee" \in Portals
  BY DEF Portals
<1>3. /\ RowsTyped' /\ RowsInv' /\ OldTokensStay
      /\ FirstPair \in Pair /\ FirstPair.at = now /\ FirstPair.sid \in DOMAIN rows'
      /\ rows'[FirstPair.sid].login = now /\ ended'[FirstPair.sid] = NoToken
  BY <1>1, <1>2, RowsBegin
<1>4. /\ cookies' \in [Browsers -> Pair \cup {NoToken}] /\ answers' \subseteq ToBrowser
      /\ Held' \subseteq Held \cup {FirstPair}
  BY <1>1, <1>3, AnswerFacts
<1>5. account' \in Account /\ account'.validFrom = now /\ spared' = {p.sid : p \in {q \in Held : q.at = now}}
  BY <1>1, CutoffFacts, SessionFacts
<1>6. now <= now
  BY SessionFacts
<1>7. \A p \in Held' \ Held :
        /\ p.sid \in DOMAIN rows' /\ p.at <= now /\ ended'[p.sid] = NoToken
        /\ rows'[p.sid].login = now
  BY <1>3, <1>4, <1>6
<1>8. TokensInv' /\ spared' \subseteq 1 .. MaxSessions
  BY <1>1, <1>3, <1>5, <1>7, TokensCut
<1>9. denied' \subseteq Entry
  BY <1>1, LastTokensFacts, RevokeFacts
<1> QED BY <1>1, <1>3, <1>4, <1>5, <1>8, <1>9, AssembledAnew

LEMMA CutoffStep ==
  ASSUME SessionInv, Upheaval, NEW changed \in Account, Cutoff(changed),
         UNCHANGED <<now, rows, cookies, answers, redis, denied, touched, ended>>
  PROVE  SessionInv'
<1>1. RowsTyped' /\ RowsInv' /\ OldTokensStay
  BY RowsRest
<1>2. Held' = Held
  BY DEF Held
<1>3. account' \in Account /\ account'.validFrom = now /\ spared' = {p.sid : p \in {q \in Held : q.at = now}}
  BY CutoffFacts
<1>4. TokensInv' /\ spared' \subseteq 1 .. MaxSessions
  BY <1>1, <1>2, <1>3, TokensCut
<1> QED BY <1>1, <1>3, <1>4, AssembledAnew, SessionFacts

LEMMA ResetStep == SessionInv /\ CompleteReset => SessionInv'
BY CutoffStep, SessionFacts DEF CompleteReset

LEMMA RolesStep ==
  ASSUME SessionInv, NEW roles \in SUBSET Doors, SetRoles(roles)
  PROVE  SessionInv'
<1>1. [account EXCEPT !.roles = roles] \in Account
  BY SessionFacts DEF Account
<1> QED BY <1>1, CutoffStep DEF SetRoles

LEMMA ReinstateStep == SessionInv /\ ReinstateAccount => SessionInv'
<1>1. SessionInv => [account EXCEPT !.active = TRUE] \in Account
  BY SessionFacts DEF Account
<1> QED BY <1>1, CutoffStep DEF ReinstateAccount

LEMMA SeparatedStep == SessionInv /\ SignOutSeparated => SessionInv'
<1> SUFFICES ASSUME SessionInv, SignOutSeparated PROVE SessionInv'
  OBVIOUS
<1>1. /\ Upheaval /\ Cutoff([account EXCEPT !.active = FALSE])
      /\ End(DOMAIN rows) /\ Revoke(LastTokens(DOMAIN rows))
      /\ UNCHANGED <<now, cookies, answers, redis>>
  BY DEF SignOutSeparated
<1>2. RowsTyped' /\ RowsInv' /\ OldTokensStay
  BY <1>1, RowsEnd
<1>3. Held' = Held
  BY <1>1 DEF Held
<1>4. [account EXCEPT !.active = FALSE] \in Account
  BY SessionFacts DEF Account
<1>5. account' \in Account /\ account'.validFrom = now /\ spared' = {p.sid : p \in {q \in Held : q.at = now}}
  BY <1>1, <1>4, CutoffFacts
<1>6. TokensInv' /\ spared' \subseteq 1 .. MaxSessions
  BY <1>1, <1>2, <1>3, <1>5, TokensCut
<1>7. denied' \subseteq Entry
  BY <1>1, LastTokensFacts, RevokeFacts
<1> QED BY <1>1, <1>2, <1>5, <1>6, <1>7, AssembledAnew, SessionFacts

-----------------------------------------------------------------------------
(* Redis, the browsers and the clock.                                      *)
LEMMA RedisStep == SessionInv /\ (RedisFails \/ RedisReturns) => SessionInv'
<1> SUFFICES ASSUME SessionInv, RedisFails \/ RedisReturns PROVE SessionInv'
  OBVIOUS
<1>1. /\ UNCHANGED <<now, account, rows, cookies, answers, denied, touched, ended, spared>>
      /\ redis' \in BOOLEAN /\ upheavals' \in 0 .. MaxUpheavals
  <2>1. MaxUpheavals \in Nat /\ upheavals \in 0 .. MaxUpheavals
    BY SessionAssumption, SessionFacts
  <2>2. CASE RedisFails
    <3>1. upheavals < MaxUpheavals /\ upheavals' = upheavals + 1
      BY <2>2 DEF RedisFails, Upheaval
    <3>2. upheavals' \in 0 .. MaxUpheavals
      BY <2>1, <3>1
    <3> QED BY <2>2, <3>2 DEF RedisFails
  <2>3. CASE RedisReturns
    BY <2>1, <2>3 DEF RedisReturns
  <2> QED BY <2>2, <2>3
<1>2. SessionTypeOK'
  BY <1>1 DEF SessionInv, SessionTypeOK, Instants, Row, Pair
<1>3. RowsInv' /\ Held' = Held
  BY <1>1 DEF SessionInv, RowsInv, Held
<1>4. TokensInv'
  BY <1>1, <1>3 DEF SessionInv, TokensInv
<1> QED BY <1>2, <1>3, <1>4 DEF SessionInv

LEMMA BrowserStep ==
  ASSUME SessionInv, NEW a \in answers, Receive(a) \/ Lose(a)
  PROVE  SessionInv'
<1>1. UNCHANGED <<rows, denied, touched, ended>> /\ KeepAccount /\ UNCHANGED <<now, account, spared>>
  BY DEF Receive, Lose, KeepAccount
<1>2. RowsTyped' /\ RowsInv' /\ OldTokensStay
  BY <1>1, RowsRest
<1>3. a.to \in Browsers /\ a.token \in Pair \cup {NoToken} /\ cookies \in [Browsers -> Pair \cup {NoToken}]
  BY SessionFacts DEF ToBrowser
<1>4. /\ cookies' \in [Browsers -> Pair \cup {NoToken}] /\ answers' \subseteq ToBrowser
      /\ \A b \in Browsers : cookies'[b] = cookies[b] \/ cookies'[b] = a.token
  <2>1. answers' = answers \ {a}
    BY DEF Receive, Lose
  <2>2. CASE Receive(a)
    <3>1. cookies' = [cookies EXCEPT ![a.to] = a.token]
      BY <2>2 DEF Receive
    <3> QED BY <1>3, <2>1, <3>1, SessionFacts
  <2>3. CASE Lose(a)
    BY <1>3, <2>1, <2>3, SessionFacts DEF Lose
  <2> QED BY <2>2, <2>3
<1>5. Held' \subseteq Held
  <2>1. answers' \subseteq answers
    BY DEF Receive, Lose
  <2> QED BY <1>4, <2>1 DEF Held
<1>6. TokensInv'
  BY <1>1, <1>2, <1>5, TokensRest
<1> QED BY <1>1, <1>2, <1>4, <1>6, Assembled, SessionFacts

LEMMA ClockStep == SessionInv /\ SessionTick => SessionInv'
<1> SUFFICES ASSUME SessionInv, SessionTick PROVE SessionInv'
  OBVIOUS
<1>1. /\ now < MaxTime /\ now' = now + 1 /\ denied' \subseteq denied
      /\ UNCHANGED <<account, rows, cookies, answers, redis, touched, ended, spared, upheavals>>
  BY DEF SessionTick
<1>2. now \in Nat /\ now' \in Instants /\ Held' = Held
  BY <1>1, SessionFacts, SessionParameters DEF Instants, Held
<1>3. SessionTypeOK'
  BY <1>1, <1>2 DEF SessionInv, SessionTypeOK, Instants, Row, Pair
<1>4. RowsInv'
  <2>1. ASSUME NEW s \in DOMAIN rows PROVE RowIsSound(rows[s], touched[s], ended[s], now + 1)
    <3>1. RowIsSound(rows[s], touched[s], ended[s], now) /\ touched[s] \in Instants
      BY SessionFacts DEF RowsInv
    <3> QED BY <1>2, <3>1, SessionParameters DEF RowIsSound, Instants
  <2> QED BY <1>1, <2>1 DEF RowsInv
<1>5. TokensInv'
  <2>1. \A p \in Held : p.at \in Nat /\ p.at <= now
    BY HeldFacts, SessionFacts DEF TokensInv
  <2>2. \A p \in Held : p.at <= now + 1
    BY <1>2, <2>1
  <2> QED BY <1>1, <1>2, <2>2, SessionFacts DEF TokensInv
<1> QED BY <1>3, <1>4, <1>5 DEF SessionInv

LEMMA SessionInitInv == SessionInit => SessionInv
<1> SUFFICES ASSUME SessionInit PROVE SessionInv
  OBVIOUS
<1>1. /\ now = 0 /\ account = [active |-> TRUE, roles |-> Doors, validFrom |-> 0]
      /\ rows = <<>> /\ touched = <<>> /\ ended = <<>>
      /\ cookies = [b \in Browsers |-> NoToken]
      /\ answers = {} /\ redis = TRUE /\ denied = {} /\ spared = {} /\ upheavals = 0
  BY DEF SessionInit
<1>2. MaxUpheavals \in Nat
  BY SessionAssumption
<1>3. now \in Instants /\ account \in [active : BOOLEAN, roles : SUBSET Doors, validFrom : Instants]
  BY <1>1, SessionParameters DEF Instants
<1>4. SessionTypeOK
  BY <1>1, <1>2, <1>3, SessionParameters DEF SessionTypeOK
<1>5. Held = {}
  BY <1>1 DEF Held
<1>6. RowsInv /\ TokensInv
  BY <1>1, <1>5 DEF RowsInv, TokensInv
<1> QED BY <1>4, <1>6 DEF SessionInv

LEMMA SessionStep == SessionInv /\ [SessionNext]_sessionVars => SessionInv'
<1> SUFFICES ASSUME SessionInv, [SessionNext]_sessionVars PROVE SessionInv'
  OBVIOUS
<1>1. ASSUME NEW b \in Browsers, Handlers(b) PROVE SessionInv'
  BY <1>1, SignInStep, UseStep, FindLapsedStep, RefreshStep, RefuseStep, SignOutStep, ExitStep, RevokeStep,
     PasswordStep DEF Handlers
<1>2. CASE UNCHANGED sessionVars
  BY <1>2 DEF sessionVars, SessionInv, SessionTypeOK, RowsInv, TokensInv, Held, Instants, Row, Pair
<1> QED BY <1>1, <1>2, BrowserStep, ResetStep, RolesStep, SeparatedStep, ReinstateStep, RedisStep, ClockStep
        DEF SessionNext

-----------------------------------------------------------------------------
LEMMA SessionMeans == SessionInv => SessionsEnd
<1> SUFFICES ASSUME SessionInv PROVE SessionsEnd
  OBVIOUS
<1>1. ASSUME NEW p \in Held
      PROVE  /\ p.sid \in DOMAIN rows /\ rows[p.sid] \in Row /\ RowIsSound(rows[p.sid], touched[p.sid], ended[p.sid], now)
             /\ touched[p.sid] \in Nat /\ ended[p.sid] \in Nat \cup {NoToken} /\ p.at \in Nat /\ now \in Nat
             /\ rows[p.sid].last \in Nat /\ rows[p.sid].login \in Nat
  <2>1. p.sid \in 1 .. Len(rows) /\ p.at \in Nat /\ now \in Nat
    BY <1>1, HeldFacts, SessionFacts DEF TokensInv
  <2>2. rows[p.sid] \in Row /\ touched[p.sid] \in Instants /\ ended[p.sid] \in Instants \cup {NoToken}
    BY <2>1, SessionFacts
  <2>3. Instants \subseteq Nat
    BY SessionParameters DEF Instants
  <2>4. rows[p.sid].last \in Nat /\ rows[p.sid].login \in Nat
    BY <2>2, <2>3 DEF Row
  <2>5. p.sid \in DOMAIN rows /\ RowIsSound(rows[p.sid], touched[p.sid], ended[p.sid], now)
    BY <2>1, SessionFacts DEF RowsInv
  <2> QED BY <2>1, <2>2, <2>3, <2>4, <2>5
<1>2. LapsesWhenUnattended
  <2>1. SUFFICES ASSUME NEW p \in Held, Privileged(p)
                 PROVE  /\ Served(p) \/ Renewed(p) =>
                             now < touched[p.sid] + IdleLimit /\ now < rows[p.sid].login + MaxAge
                        /\ /\ now < touched[p.sid] + IdleLimit - SlideEvery /\ now < rows[p.sid].login + MaxAge
                           /\ rows[p.sid].open /\ rows[p.sid].portal \in account.roles
                           => ~Lapsed(p.sid)
    BY DEF LapsesWhenUnattended
  <2>2. /\ rows[p.sid].last <= touched[p.sid] /\ touched[p.sid] < rows[p.sid].last + SlideEvery
        /\ touched[p.sid] \in Nat /\ now \in Nat /\ rows[p.sid].last \in Nat /\ rows[p.sid].login \in Nat
    BY <1>1, <2>1 DEF RowIsSound, Privileged
  <2>3. ASSUME Served(p) \/ Renewed(p)
        PROVE  now < touched[p.sid] + IdleLimit /\ now < rows[p.sid].login + MaxAge
    <3>1. ~(now >= rows[p.sid].last + IdleLimit) /\ ~(now >= rows[p.sid].login + MaxAge)
      BY <2>1, <2>3 DEF Served, Renewed, Lapsed
    <3> QED BY <2>2, <3>1, SessionParameters
  <2>4. ASSUME now < touched[p.sid] + IdleLimit - SlideEvery, now < rows[p.sid].login + MaxAge,
               rows[p.sid].open, rows[p.sid].portal \in account.roles
        PROVE  ~Lapsed(p.sid)
    <3>1. ~(now >= rows[p.sid].last + IdleLimit) /\ ~(now >= rows[p.sid].login + MaxAge)
      BY <2>2, <2>4, SessionParameters
    <3> QED BY <2>4, <3>1 DEF Lapsed
  <2> QED BY <2>3, <2>4
<1>3. EndedIsOver
  <2>1. SUFFICES ASSUME NEW p \in Held, ended[p.sid] # NoToken
                 PROVE  ~Renewed(p) /\ (Served(p) => ~Privileged(p) /\ now < ended[p.sid] + AccessLife)
    BY DEF EndedIsOver
  <2>2. ~rows[p.sid].open
    BY <1>1, <2>1 DEF RowIsSound
  <2>3. p.at <= ended[p.sid] /\ ended[p.sid] \in Nat /\ p.at \in Nat /\ now \in Nat
    BY <1>1, <2>1, SessionFacts DEF TokensInv
  <2>4. ASSUME Served(p) PROVE ~Privileged(p) /\ now < ended[p.sid] + AccessLife
    <3>1. now < p.at + AccessLife
      BY <2>4 DEF Served, Authentic, Lifetime
    <3>2. ~Privileged(p)
      BY <2>2, <2>4 DEF Served, Lapsed
    <3> QED BY <2>3, <3>1, <3>2, SessionParameters
  <2> QED BY <2>2, <2>4 DEF Renewed, Renewable
<1>4. CutoffsSignOut
  BY SessionFacts DEF CutoffsSignOut, TokensInv, Served, Authentic, Renewed, Renewable
<1> QED BY <1>2, <1>3, <1>4 DEF SessionInv, SessionsEnd

(* A session is over when it should be: whatever the people, the browsers, *)
(* Redis and the administrators do, and in whatever order their answers    *)
(* arrive, a privileged session lapses on neglect and by age, an ended one *)
(* renews nothing, and a cutoff signs out every session from before it.    *)
THEOREM SessionsTheorem == SessionSpec => []SessionsEnd
<1> QED BY SessionInitInv, SessionStep, SessionMeans, PTL DEF SessionSpec

-----------------------------------------------------------------------------
(* Who is what. A role sleeps behind every door but its own, so whoever    *)
(* uses the role of administrator has signed in at the admin dashboard.    *)

LEMMA AdminsUseTheirDoor ==
  ASSUME StaffAssumption, NEW a \in Staff, NEW door \in StaffDoors
  PROVE  Admin \in RoleInForce(holds[a], door) => door = "admin" /\ Admin \in holds[a]
<1>1. CASE door = "employee"
  BY <1>1 DEF RoleInForce, DoorRoles, Admin, Base
<1>2. CASE door = "finance"
  BY <1>2 DEF RoleInForce, DoorRole, Admin, Base
<1>3. CASE door = "admin"
  BY <1>3 DEF RoleInForce, DoorRole, Admin, Base
<1> QED BY <1>1, <1>2, <1>3 DEF StaffDoors

LEMMA DutiesAreApart ==
  ASSUME StaffAssumption
  PROVE  DutiesStayApart
<1> SUFFICES ASSUME NEW p \in Staff, NEW door \in StaffDoors, NEW module \in Operations,
                    SignedInAs(p, door), Can(p, door, module)
             PROVE  /\ <<Base, module>> \notin ticked => holds[p] # {Admin}
                    /\ module = "finances" => door = "finance" /\ "finance" \in holds[p]
  BY DEF DutiesStayApart
<1>1. module \notin Administration
  BY DEF Operations, Administration
<1>2. PICK r \in Counting(p, door, module) : <<r, module>> \in ticked
  BY <1>1 DEF Can
<1>3. ~(module = "finances" /\ door # "finance") /\ r \in RoleInForce(holds[p], door) \ {Admin}
  BY <1>2 DEF Counting
<1>4. ASSUME holds[p] = {Admin} PROVE <<Base, module>> \in ticked
  <2>1. r = Base
    BY <1>3, <1>4 DEF RoleInForce
  <2> QED BY <1>2, <2>1
<1>5. ASSUME module = "finances" PROVE door = "finance" /\ "finance" \in holds[p]
  BY <1>3, <1>5 DEF SignedInAs, DoorRole
<1> QED BY <1>4, <1>5

-----------------------------------------------------------------------------
(* Who reports to whom.                                                    *)

ManagersAreThere == \A p \in Staff : manager[p] # Nobody => employment[manager[p]] # "none"

StaffInv == StaffTypeOK /\ ManagersAreThere

LEMMA WalksUp ==
  ASSUME StaffAssumption, StaffTypeOK, NEW p \in Staff, NEW m \in Staff, ~LeadsBackTo(p, m)
  PROVE  \E f \in [Nat -> Staff \cup {Nobody}] :
           /\ f[0] = m /\ \A n \in Nat : f[n] # Nobody => f[n + 1] = manager[f[n]]
           /\ \A n \in 0 .. MaxDepth : f[n] # p
<1> DEFINE S == Staff \cup {Nobody}
           up(x) == IF x = Nobody THEN Nobody ELSE manager[x]
           F == [z \in Nat \X S |-> up(z[2])]
           body(g) == [n \in Nat |-> IF n = 0 THEN m
                                     ELSE IF g[n - 1] = Nobody THEN Nobody ELSE manager[g[n - 1]]]
           above == CHOOSE g : g = body(g)
<1>1. ~(p = m \/ \E n \in 1 .. MaxDepth : above[n] = p)
  BY DEF LeadsBackTo
<1>2. \A x \in S : up(x) \in S
  BY DEF StaffTypeOK
<1>3. F \in [Nat \X S -> S]
  <2>1. \A z \in Nat \X S : z[2] \in S
    OBVIOUS
  <2> HIDE DEF S, up
  <2> QED BY <1>2, <2>1
<1>4. PICK f \in [Nat -> S] : f[0] = m /\ \A n \in Nat : f[n + 1] = F[<<n, f[n]>>]
  <2>1. m \in S
    OBVIOUS
  <2> HIDE DEF F, S
  <2>2. \E f \in [Nat -> S] : Leads(f, m, F)
    BY <1>3, <2>1, Recursion
  <2> QED BY <2>2 DEF Leads
<1>5. \A n \in Nat : f[n + 1] = up(f[n])
  <2> SUFFICES ASSUME NEW n \in Nat PROVE f[n + 1] = up(f[n])
    OBVIOUS
  <2>1. <<n, f[n]>> \in Nat \X S /\ <<n, f[n]>>[2] = f[n]
    OBVIOUS
  <2> HIDE DEF up, S
  <2> QED BY <1>4, <2>1
<1>6. f = body(f)
  <2>1. ASSUME NEW n \in Nat
        PROVE  f[n] = IF n = 0 THEN m ELSE IF f[n - 1] = Nobody THEN Nobody ELSE manager[f[n - 1]]
    <3>1. CASE n = 0
      BY <3>1, <1>4
    <3>2. CASE n # 0
      <4>1. n - 1 \in Nat /\ (n - 1) + 1 = n
        BY <3>2
      <4>2. f[(n - 1) + 1] = up(f[n - 1])
        BY <4>1, <1>5
      <4> QED BY <3>2, <4>1, <4>2
    <3> QED BY <3>1, <3>2
  <2> QED BY <2>1
<1>7. above = body(above)
  BY <1>6
<1> HIDE DEF above, body
<1>8. \A n \in Nat : above[n] = f[n]
  <2> DEFINE T == {n \in Nat : above[n] = f[n]}
  <2>1. \A n \in Nat : above[n] = IF n = 0 THEN m
                                  ELSE IF above[n - 1] = Nobody THEN Nobody ELSE manager[above[n - 1]]
    BY <1>7 DEF body
  <2>2. 0 \in T
    BY <2>1, <1>4
  <2>3. ASSUME NEW n \in Nat, n \in T PROVE n + 1 \in T
    <3>1. above[n + 1] = IF above[n] = Nobody THEN Nobody ELSE manager[above[n]]
      <4>1. n + 1 \in Nat /\ n + 1 # 0 /\ (n + 1) - 1 = n
        OBVIOUS
      <4> QED BY <2>1, <4>1
    <3>2. above[n] = f[n]
      BY <2>3
    <3>3. f[n + 1] = up(f[n])
      BY <1>5
    <3> QED BY <3>1, <3>2, <3>3
  <2> HIDE DEF T
  <2>4. \A n \in Nat : n \in T
    BY <2>2, <2>3, Induction
  <2> QED BY <2>4 DEF T
<1>9. \A n \in 0 .. MaxDepth : f[n] # p
  <2>1. MaxDepth \in Nat
    BY DEF StaffAssumption
  <2>2. \A n \in 0 .. MaxDepth : n \in Nat /\ (n = 0 \/ n \in 1 .. MaxDepth)
    BY <2>1
  <2> QED BY <1>1, <1>4, <1>8, <2>2
<1> QED BY <1>4, <1>5, <1>9

(* Between two places of a walk at which the same person stands there is   *)
(* a circle.                                                               *)
Climbs(f, n, over, S) ==
  /\ n \in Nat /\ \A k \in 0 .. n : f[k] \in S /\ (k < n => f[k + 1] = over[f[k]])
  /\ \A group : group # {} /\ group \subseteq S => \E x \in group : over[x] \notin group

LEMMA NoneTwice ==
  ASSUME NEW S, NEW f, NEW n, NEW over, Climbs(f, n, over, S)
  PROVE  \A i, j \in 0 .. n : i < j => f[i] # f[j]
<1> SUFFICES ASSUME NEW i \in 0 .. n, NEW j \in 0 .. n, i < j, f[i] = f[j] PROVE FALSE
  OBVIOUS
<1> USE DEF Climbs
<1> DEFINE group == {f[k] : k \in i .. j - 1}
<1>1. i \in i .. j - 1 /\ \A k \in i .. j - 1 : k \in 0 .. n /\ k < n
  OBVIOUS
<1>2. group # {} /\ group \subseteq S
  BY <1>1
<1>3. ASSUME NEW x \in group PROVE over[x] \in group
  <2>1. PICK k \in i .. j - 1 : x = f[k]
    OBVIOUS
  <2>2. over[x] = f[k + 1]
    BY <1>1, <2>1
  <2>3. CASE k + 1 = j
    BY <1>1, <2>2, <2>3
  <2>4. CASE k + 1 # j
    <3>1. k + 1 \in i .. j - 1
      BY <2>4
    <3> QED BY <2>2, <3>1
  <2> QED BY <2>3, <2>4
<1> HIDE DEF group
<1> QED BY <1>2, <1>3

(* No line of managers is longer than the walk up looks at. A circle may   *)
(* well be shorter, so this alone does not rule one out.                   *)
LinesAreShort ==
  ~\E line \in [0 .. MaxDepth -> Staff] :
     /\ \A i, j \in 0 .. MaxDepth : i < j => line[i] # line[j]
     /\ \A k \in 0 .. MaxDepth : k < MaxDepth => line[k + 1] = manager[line[k]]

(* As long as it is so, the walk finds whoever would close a circle.       *)
LEMMA NoCircleIsClosed ==
  ASSUME StaffAssumption, StaffTypeOK, LinesAreShort,
         NobodyReportsInACircle, NEW p \in Staff, NEW m \in Staff \cup {Nobody},
         m # Nobody => ~LeadsBackTo(p, m), manager' = [manager EXCEPT ![p] = m]
  PROVE  NobodyReportsInACircle'
<1> SUFFICES ASSUME NEW group \in (SUBSET Staff) \ {{}}, \A q \in group : manager'[q] \in group
             PROVE  FALSE
  BY DEF NobodyReportsInACircle
<1>1. Nobody \notin Staff /\ manager \in [Staff -> Staff \cup {Nobody}]
  BY DEF StaffAssumption, StaffTypeOK
<1>2. manager'[p] = m /\ \A q \in Staff \ {p} : manager'[q] = manager[q]
  BY <1>1
<1>3. p \in group
  <2>1. ASSUME p \notin group PROVE \A q \in group : manager[q] \in group
    BY <1>2, <2>1
  <2> QED BY <2>1 DEF NobodyReportsInACircle
<1>4. m \in group /\ m \in Staff /\ m # Nobody
  BY <1>1, <1>2, <1>3
<1>5. PICK f \in [Nat -> Staff \cup {Nobody}] :
        /\ f[0] = m /\ \A n \in Nat : f[n] # Nobody => f[n + 1] = manager[f[n]]
        /\ \A n \in 0 .. MaxDepth : f[n] # p
  BY <1>4, WalksUp
<1>6. MaxDepth \in Nat
  BY DEF StaffAssumption
<1>7. \A n \in Nat : n <= MaxDepth => f[n] \in group
  <2> DEFINE T == {n \in Nat : n <= MaxDepth => f[n] \in group}
  <2>1. 0 \in T
    BY <1>4, <1>5
  <2>2. ASSUME NEW n \in Nat, n \in T PROVE n + 1 \in T
    <3> SUFFICES ASSUME n + 1 <= MaxDepth PROVE f[n + 1] \in group
      OBVIOUS
    <3>1. n <= MaxDepth /\ n \in 0 .. MaxDepth
      BY <1>6
    <3>2. f[n] \in group
      BY <2>2, <3>1
    <3>3. f[n] # p /\ f[n] # Nobody /\ f[n] \in Staff
      BY <1>1, <1>5, <3>1, <3>2
    <3>4. f[n + 1] = manager[f[n]]
      BY <1>5, <3>3
    <3> QED BY <1>2, <3>2, <3>3, <3>4
  <2> HIDE DEF T
  <2>3. \A n \in Nat : n \in T
    BY <2>1, <2>2, Induction
  <2> QED BY <2>3 DEF T
<1>8. \A k \in 0 .. MaxDepth : k \in Nat /\ f[k] \in Staff /\ (k < MaxDepth => f[k + 1] = manager[f[k]])
  BY <1>1, <1>5, <1>6, <1>7
<1>9. \A i, j \in 0 .. MaxDepth : i < j => f[i] # f[j]
  <2>1. \A s : s # {} /\ s \subseteq Staff => \E x \in s : manager[x] \notin s
    BY DEF NobodyReportsInACircle
  <2>2. Climbs(f, MaxDepth, manager, Staff)
    BY <1>6, <1>8, <2>1 DEF Climbs
  <2> QED BY ONLY <2>2, NoneTwice
<1> DEFINE line == [k \in 0 .. MaxDepth |-> f[k]]
<1>10. line \in [0 .. MaxDepth -> Staff]
  BY <1>8
<1>11. \A k \in 0 .. MaxDepth : line[k] = f[k] /\ (k < MaxDepth => line[k + 1] = f[k + 1])
  BY <1>6
<1> HIDE DEF line
<1>12. /\ \A i, j \in 0 .. MaxDepth : i < j => line[i] # line[j]
       /\ \A k \in 0 .. MaxDepth : k < MaxDepth => line[k + 1] = manager[line[k]]
  BY <1>8, <1>9, <1>11
<1> QED BY <1>10, <1>12 DEF LinesAreShort

-----------------------------------------------------------------------------
(* The steps. What a step did is read off it once.                         *)

LEMMA CreatedStaff ==
  ASSUME StaffAssumption, StaffInv, NEW a \in Staff, NEW door \in StaffDoors, NEW p \in Staff,
         CreateUser(a, door, p)
  PROVE  /\ StaffInv' /\ MadeByOthers
         /\ NobodyReportsInACircle => NobodyReportsInACircle'
<1> USE DEF StaffInv, StaffTypeOK
<1>1. PICK roles \in SUBSET Roles, m \in Staff \cup {Nobody} :
        /\ Admin \in roles => Admin \in RoleInForce(holds[a], door)
        /\ m # Nobody => employment[m] # "none"
        /\ holds' = [holds EXCEPT ![p] = roles]
        /\ manager' = [manager EXCEPT ![p] = m]
  BY DEF CreateUser
<1>2. /\ employment[p] = "none" /\ employment' = [employment EXCEPT ![p] = "active"]
      /\ SignedInAs(a, door) /\ asked' = [by |-> a, door |-> door] /\ ticked' = ticked
  BY DEF CreateUser, Asks
<1>3. a # p /\ employment[a] = "active"
  BY <1>2 DEF SignedInAs
<1>4. StaffTypeOK'
  BY <1>1, <1>2
<1>5. /\ manager'[p] = m /\ employment'[p] = "active" /\ holds'[p] = roles
      /\ \A q \in Staff \ {p} : manager'[q] = manager[q] /\ employment'[q] = employment[q] /\ holds'[q] = holds[q]
  BY <1>1, <1>2
<1>6. Nobody \notin Staff
  BY DEF StaffAssumption
<1>7. \A q \in Staff : manager'[q] # Nobody => manager'[q] \in Staff /\ employment[manager'[q]] # "none"
  BY <1>1, <1>5 DEF ManagersAreThere
<1>8. ManagersAreThere'
  BY <1>2, <1>5, <1>7 DEF ManagersAreThere
<1>9. MadeByOthers
  <2> SUFFICES ASSUME NEW q \in Staff, IsAdmin(q) # IsAdmin(q)'
               PROVE  \E by \in Staff \ {q} : /\ asked' = [by |-> by, door |-> "admin"]
                                              /\ IsAdmin(by) /\ IsAdmin(by)'
    BY DEF MadeByOthers
  <2>1. q = p /\ Admin \in roles
    BY <1>2, <1>5 DEF IsAdmin
  <2>2. door = "admin" /\ Admin \in holds[a]
    BY <1>1, <2>1, AdminsUseTheirDoor
  <2> QED BY <1>2, <1>3, <1>5, <2>1, <2>2 DEF IsAdmin
<1>10. ASSUME NobodyReportsInACircle PROVE NobodyReportsInACircle'
  <2> SUFFICES ASSUME NEW group \in (SUBSET Staff) \ {{}}, \A q \in group : manager'[q] \in group
               PROVE  FALSE
    BY DEF NobodyReportsInACircle
  <2>1. \A q \in Staff : manager'[q] # p
    <3>1. \A q \in Staff : manager[q] # p
      BY <1>2, <1>6 DEF ManagersAreThere
    <3>2. m # p
      BY <1>1, <1>2, <1>6
    <3> QED BY <1>5, <3>1, <3>2
  <2>2. p \notin group
    <3>1. ASSUME p \in group PROVE group \ {p} # {}
      BY <2>1, <3>1
    <3>2. \A q \in group \ {p} : manager[q] \in group \ {p}
      BY <1>5, <2>1
    <3>3. group \ {p} = {}
      BY <1>10, <3>2 DEF NobodyReportsInACircle
    <3> QED BY <3>1, <3>3
  <2> QED BY <1>5, <1>10, <2>2 DEF NobodyReportsInACircle
<1> QED BY <1>4, <1>8, <1>9, <1>10

LEMMA UpdatedStaff ==
  ASSUME StaffAssumption, StaffInv, NEW a \in Staff, NEW door \in StaffDoors, NEW p \in Staff,
         UpdateUser(a, door, p)
  PROVE  /\ StaffInv' /\ MadeByOthers
         /\ LinesAreShort /\ NobodyReportsInACircle
              => NobodyReportsInACircle'
<1> USE DEF StaffInv, StaffTypeOK
<1>1. PICK wanted \in SUBSET Roles, m \in Staff \cup {Nobody} :
        /\ MaySetRoles(a, door, p, wanted)
        /\ m # manager[p] => MayReportTo(p, m)
        /\ holds' = [holds EXCEPT ![p] = wanted]
        /\ manager' = [manager EXCEPT ![p] = m]
  BY DEF UpdateUser
<1>2. /\ SignedInAs(a, door) /\ asked' = [by |-> a, door |-> door] /\ ticked' = ticked
      /\ employment' = employment
  BY DEF UpdateUser, Asks
<1>3. StaffTypeOK'
  BY <1>1, <1>2
<1>4. /\ manager'[p] = m /\ holds'[p] = wanted
      /\ \A q \in Staff \ {p} : manager'[q] = manager[q] /\ holds'[q] = holds[q]
  BY <1>1
<1>5. m # manager[p] /\ m # Nobody => employment[m] # "none" /\ ~LeadsBackTo(p, m)
  BY <1>1 DEF MayReportTo
<1>6. ManagersAreThere'
  BY <1>2, <1>4, <1>5 DEF ManagersAreThere
<1>7. MadeByOthers
  <2> SUFFICES ASSUME NEW q \in Staff, IsAdmin(q) # IsAdmin(q)'
               PROVE  \E by \in Staff \ {q} : /\ asked' = [by |-> by, door |-> "admin"]
                                              /\ IsAdmin(by) /\ IsAdmin(by)'
    BY DEF MadeByOthers
  <2> DEFINE changed == (wanted \ holds[p]) \cup (holds[p] \ wanted)
  <2>1. q = p /\ Admin \in changed
    BY <1>2, <1>4 DEF IsAdmin
  <2>2. Admin \in RoleInForce(holds[a], door) /\ a # p
    BY <1>1, <2>1 DEF MaySetRoles
  <2>3. door = "admin" /\ Admin \in holds[a]
    BY <2>2, AdminsUseTheirDoor
  <2> QED BY <1>2, <1>4, <2>1, <2>2, <2>3 DEF IsAdmin, SignedInAs
<1>8. ASSUME LinesAreShort, NobodyReportsInACircle
      PROVE  NobodyReportsInACircle'
  <2>1. CASE m = manager[p]
    <3>1. manager' = manager
      BY <1>1, <2>1
    <3> QED BY <1>8, <3>1 DEF NobodyReportsInACircle
  <2>2. CASE m # manager[p]
    BY <1>1, <1>5, <1>8, <2>2, NoCircleIsClosed
  <2> QED BY <2>1, <2>2
<1> QED BY <1>3, <1>6, <1>7, <1>8

LEMMA StaffComesAndGoes ==
  ASSUME StaffAssumption, StaffInv, NEW a \in Staff, NEW door \in StaffDoors, NEW p \in Staff,
         SeparateEmployee(a, door, p) \/ ReinstateEmployee(a, door, p)
  PROVE  StaffInv' /\ MadeByOthers /\ manager' = manager
<1> USE DEF StaffInv, StaffTypeOK
<1>1. PICK status \in {"active", "inactive"} : employment' = [employment EXCEPT ![p] = status]
  BY DEF SeparateEmployee, ReinstateEmployee
<1>2. /\ SignedInAs(a, door) /\ asked' = [by |-> a, door |-> door] /\ UNCHANGED <<holds, manager, ticked>>
      /\ MayChangeStatus(a, door, p) /\ employment[p] # "none"
  BY DEF SeparateEmployee, ReinstateEmployee, Asks
<1>3. StaffTypeOK'
  BY <1>1, <1>2
<1>4. ManagersAreThere'
  BY <1>1, <1>2 DEF ManagersAreThere
<1>5. MadeByOthers
  <2> SUFFICES ASSUME NEW q \in Staff, IsAdmin(q) # IsAdmin(q)'
               PROVE  \E by \in Staff \ {q} : /\ asked' = [by |-> by, door |-> "admin"]
                                              /\ IsAdmin(by) /\ IsAdmin(by)'
    BY DEF MadeByOthers
  <2>1. q = p /\ Admin \in holds[p]
    BY <1>1, <1>2 DEF IsAdmin
  <2>2. Admin \in RoleInForce(holds[a], door) /\ a # p
    BY <1>2, <2>1 DEF MayChangeStatus
  <2>3. door = "admin" /\ Admin \in holds[a]
    BY <2>2, AdminsUseTheirDoor
  <2> QED BY <1>1, <1>2, <2>1, <2>2, <2>3 DEF IsAdmin, SignedInAs
<1> QED BY <1>2, <1>3, <1>4, <1>5

LEMMA StaffStep ==
  ASSUME StaffAssumption, StaffInv, [StaffNext]_staffVars
  PROVE  /\ StaffInv' /\ [MadeByOthers]_staffVars
         /\ LinesAreShort /\ NobodyReportsInACircle
              => NobodyReportsInACircle'
<1> DEFINE Good == /\ StaffInv' /\ [MadeByOthers]_staffVars
                   /\ LinesAreShort /\ NobodyReportsInACircle
                        => NobodyReportsInACircle'
<1>1. ASSUME NEW a \in Staff, NEW door \in StaffDoors, NEW p \in Staff, CreateUser(a, door, p)
      PROVE  Good
  BY <1>1, CreatedStaff
<1>2. ASSUME NEW a \in Staff, NEW door \in StaffDoors, NEW p \in Staff, UpdateUser(a, door, p)
      PROVE  Good
  BY <1>2, UpdatedStaff
<1>3. ASSUME NEW a \in Staff, NEW door \in StaffDoors, NEW p \in Staff,
             SeparateEmployee(a, door, p) \/ ReinstateEmployee(a, door, p)
      PROVE  Good
  <2>1. StaffInv' /\ MadeByOthers /\ manager' = manager
    BY <1>3, StaffComesAndGoes
  <2> QED BY <2>1 DEF NobodyReportsInACircle
<1>4. ASSUME NEW a \in Staff, NEW door \in StaffDoors, NEW box \in Boxes, UpdateRolePermissions(a, door, box)
      PROVE  Good
  <2>1. UNCHANGED <<employment, holds, manager>> /\ asked' = [by |-> a, door |-> door]
        /\ ticked' = IF box \in ticked THEN ticked \ {box} ELSE ticked \cup {box}
    BY <1>4 DEF UpdateRolePermissions, Asks
  <2>2. StaffInv'
    BY <2>1 DEF StaffInv, StaffTypeOK, ManagersAreThere, StaffAssumption
  <2>3. MadeByOthers
    BY <2>1 DEF MadeByOthers, IsAdmin
  <2> QED BY <2>1, <2>2, <2>3 DEF NobodyReportsInACircle
<1>5. ASSUME UNCHANGED staffVars PROVE Good
  BY <1>5 DEF staffVars, StaffInv, StaffTypeOK, ManagersAreThere, NobodyReportsInACircle
<1> HIDE DEF Good
<1>6. Good
  BY <1>1, <1>2, <1>3, <1>4, <1>5 DEF StaffNext
<1> QED BY <1>6 DEF Good

LEMMA StaffBegins == ASSUME StaffAssumption, StaffInit PROVE StaffInv /\ NobodyReportsInACircle
<1>1. \A p \in Staff : manager[p] = Nobody /\ Nobody \notin Staff
  BY DEF StaffInit, StaffAssumption
<1>2. StaffTypeOK
  BY DEF StaffInit, StaffAssumption, StaffTypeOK, Seeded, FullScope, Admin, StaffDoors, Administration, Operations
<1>3. \A group \in (SUBSET Staff) \ {{}} : \E p \in group : manager[p] \notin group
  <2> SUFFICES ASSUME NEW group \in (SUBSET Staff) \ {{}} PROVE \E p \in group : manager[p] \notin group
    OBVIOUS
  <2>1. group # {} /\ group \subseteq Staff
    OBVIOUS
  <2>2. \E p \in Staff : p \in group
    BY <2>1
  <2> QED BY <1>1, <2>1, <2>2
<1> QED BY <1>1, <1>2, <1>3 DEF StaffInv, ManagersAreThere, NobodyReportsInACircle

(* AdministratorsAreMadeByOthers and DutiesStayApart, employee_access and  *)
(* roles_in_force: of a company of any size, with any roles and whatever   *)
(* boxes are ticked.                                                       *)
THEOREM RolesTheorem ==
  StaffSpec => [](StaffTypeOK /\ DutiesStayApart) /\ AdministratorsAreMadeByOthers
<1> USE StaffAssumption
<1>1. StaffInit => StaffInv
  BY StaffBegins
<1>2. StaffInv /\ [StaffNext]_staffVars => StaffInv' /\ [MadeByOthers]_staffVars
  BY StaffStep
<1>3. StaffInv => StaffTypeOK /\ DutiesStayApart
  BY DutiesAreApart DEF StaffInv
<1> QED BY <1>1, <1>2, <1>3, PTL DEF StaffSpec, AdministratorsAreMadeByOthers

(* PowersStayApart, with assert_valid_reports_to: line managers form no    *)
(* circle either, as long as no line of managers is longer than the walk   *)
(* up looks at.                                                            *)
THEOREM PowersTheorem == StaffSpec /\ []LinesAreShort => PowersStayApart
<1> USE StaffAssumption
<1>1. StaffInit => StaffInv /\ NobodyReportsInACircle
  BY StaffBegins
<1>2. StaffInv /\ NobodyReportsInACircle /\ LinesAreShort /\ [StaffNext]_staffVars
        => (StaffInv /\ NobodyReportsInACircle)'
  BY StaffStep
<1>3. StaffInv => StaffTypeOK
  BY DEF StaffInv
<1> QED BY <1>1, <1>2, <1>3, RolesTheorem, PTL DEF StaffSpec, PowersStayApart
=============================================================================
