------------------------- MODULE LeaveApprovalRace -------------------------
(***************************************************************************)
(* Two people working on the same leave request at the same time.          *)
(*                                                                         *)
(* A handler reads the request once, decides on what it read, and its      *)
(* commit writes the columns it changed (SQLAlchemy's unit of work) over   *)
(* whatever the row holds by then: no row lock is taken and the rows carry *)
(* no version. The handlers are those of LeaveHandlers; here a session     *)
(* keeps what it read (`seen`) and what it makes of it (`made`).           *)
(*                                                                         *)
(* One request of a company that does not change, on one day.              *)
(***************************************************************************)
EXTENDS LeaveHandlers, TLAPS

CONSTANTS
  Sessions,   \* database sessions, one per request being served
  Request,    \* the leave request, one of Requests
  TheCompany  \* one of Companies

VARIABLES
  row,      \* the request as committed
  session   \* session -> what it is working on, or Idle

vars == <<row, session>>

Idle == [busy |-> FALSE, seen |-> Unfiled, made |-> Unfiled]
Span(a) == <<a.first, a.last>>

RaceInit ==
  /\ \E span \in Spans : row = Filed(TheCompany, Request, span, 0)
  /\ session = [s \in Sessions |-> Idle]

Others == TheCompany.active \ {Owner[Request]}

CanOverride(p) ==
  /\ p \in Editors(TheCompany) \ {Owner[Request]}
  /\ InScope(TheCompany, p, Owner[Request])

(* What somebody can make of the pending request `a`: review, override,    *)
(* reassign, cancel and change it.                                         *)
Reviews(a) ==
  {Reviewed(a, i, v, a.steps[i].approver, 0) :
     i \in {j \in DOMAIN a.steps : IsCurrent(a, j) /\ a.steps[j].approver \in Others},
     v \in {"approved", "rejected"}}

Overrides(a) ==
  {Overridden(a, v, p, 0) :
     v \in {"approved", "rejected"}, p \in {q \in Others : CanOverride(q)}}

Reassignments(a) ==
  IF \E p \in Others : CanOverride(p)
  THEN UNION {{Reassigned(a, i, q, 0) : q \in Others \ {a.steps[i].approver}} :
                i \in {j \in DOMAIN a.steps : IsOpen(a, j)}}
  ELSE {}

Changes(a) == {Updated(a, span) : span \in Spans \ {Span(a)}}

(* And of the approved one: take the approval back.                        *)
Revocations(a) ==
  UNION {{Unapproved(a), Refused(a, p, 0)} :
           p \in {q \in Others : OwnApproved(a, q) # {} \/ CanOverride(q)}}

Makes(a) ==
  CASE a.status = "pending" ->
         Reviews(a) \cup Overrides(a) \cup Reassignments(a) \cup Changes(a)
           \cup {Cancelled(a, 0)}
    [] a.status = "approved" -> Revocations(a)
    [] OTHER -> {}

Begin(s) ==
  /\ ~session[s].busy
  /\ \E made \in Makes(row) :
       session' = [session EXCEPT ![s] = [busy |-> TRUE, seen |-> row, made |-> made]]
  /\ UNCHANGED row

(* The columns a session changed, over what the row holds now.             *)
Merged(now, seen, made) ==
  [f \in DOMAIN now |-> IF made[f] = seen[f] THEN now[f] ELSE made[f]]

MergedSteps(now, seen, made) ==
  [i \in DOMAIN now |-> Merged(now[i], seen[i], made[i])]

Written(now, seen, made) ==
  [Merged(now, seen, made) EXCEPT !.steps = MergedSteps(now.steps, seen.steps, made.steps)]

(* The commit. (The roster, left out here, is written in the same one.)    *)
Finish(s) ==
  /\ session[s].busy
  /\ row' = Written(row, session[s].seen, session[s].made)
  /\ session' = [session EXCEPT ![s] = Idle]

(* The handler fails, or its client goes away: nothing is written.         *)
Fail(s) ==
  /\ session[s].busy
  /\ session' = [session EXCEPT ![s] = Idle]
  /\ UNCHANGED row

RaceNext == \E s \in Sessions : Begin(s) \/ Finish(s) \/ Fail(s)

RaceSpec == RaceInit /\ [][RaceNext]_vars

-----------------------------------------------------------------------------
(* "An approved request cannot be edited at all - it is already on the     *)
(* roster and in the balance."                                             *)
ApprovedIsNotEditedStep == row.status = "approved" => Span(row') = Span(row)

ApprovedIsNotEdited == [][ApprovedIsNotEditedStep]_vars

-----------------------------------------------------------------------------
(* Steps and dates get mixed when handlers overlap, the verdict does not:  *)
(* however many overlap, an approved request names somebody else who       *)
(* approved it, and a pending one names nobody. The two columns are        *)
(* written together only where both change.                                *)
VerdictIsSigned(a) ==
  /\ a.status = "approved" => a.reviewer \in Others
  /\ a.status = "pending" => a.reviewer = NoOne

DecisionsAreSigned == VerdictIsSigned(row)

(* What a handler makes of a request: only a pending one is approved, only *)
(* those two become pending, and a name comes with a verdict.              *)
MadeOf(seen, made) ==
  /\ VerdictIsSigned(made)
  /\ made.status = "approved" => seen.status = "pending"
  /\ made.status = "pending" => seen.status \in {"pending", "approved"}
  /\ made.status = seen.status => made.reviewer = seen.reviewer

(* The row has the two columns.                                            *)
HasVerdict(a) == {"status", "reviewer"} \subseteq DOMAIN a

(* The inductive invariant: the row is signed, and so is what every        *)
(* session read and what it makes of it.                                   *)
RaceInv ==
  /\ HasVerdict(row) /\ DecisionsAreSigned
  /\ DOMAIN session = Sessions
  /\ \A s \in Sessions :
       session[s].busy => /\ VerdictIsSigned(session[s].seen)
                          /\ MadeOf(session[s].seen, session[s].made)

(* Whatever somebody can make of a request has an honest verdict.          *)
LEMMA MakesAreHonest ==
  ASSUME NEW a, HasVerdict(a), VerdictIsSigned(a), NoOne \notin Others,
         NEW made \in Makes(a)
  PROVE  MadeOf(a, made)
<1>1. CASE a.status = "pending"
  <2>0. a.reviewer = NoOne
    BY <1>1 DEF VerdictIsSigned
  <2>1. SUFFICES \/ made.status = "pending" /\ made.reviewer = NoOne
                 \/ made.status = "approved" /\ made.reviewer \in Others
                 \/ made.status \notin {"pending", "approved"}
    BY <1>1, <2>0 DEF MadeOf, VerdictIsSigned
  <2>2. CASE made \in Reviews(a)
    <3>1. PICK i \in DOMAIN a.steps, v \in {"approved", "rejected"} :
            /\ a.steps[i].approver \in Others
            /\ made = Reviewed(a, i, v, a.steps[i].approver, 0)
      BY <2>2 DEF Reviews
    <3>2. /\ HasVerdict(Marked(a, i, v, 0))
          /\ Marked(a, i, v, 0).status = "pending"
          /\ Marked(a, i, v, 0).reviewer = NoOne
      BY <1>1, <2>0 DEF Marked, HasVerdict
    <3> HIDE DEF Marked
    <3>3. CASE v = "approved"
      BY <3>1, <3>2, <3>3 DEF Reviewed, Approved, HasVerdict
    <3>4. CASE v = "rejected"
      BY <3>1, <3>2, <3>4 DEF Reviewed, Rejected, Closed, HasVerdict
    <3> QED BY <3>3, <3>4
  <2>3. CASE made \in Overrides(a)
    <3>1. PICK v \in {"approved", "rejected"}, p \in Others :
            made = Overridden(a, v, p, 0)
      BY <2>3 DEF Overrides
    <3>2. HasVerdict(IF HasCurrent(a) THEN Marked(a, Current(a), v, 0) ELSE a)
      BY DEF Marked, HasVerdict
    <3>3. made.status = v /\ made.reviewer = p
      BY <3>1, <3>2 DEF Overridden, Closed, HasVerdict
    <3> QED BY <3>3
  <2>4. CASE made \in Reassignments(a)
    <3>1. PICK i \in DOMAIN a.steps, q \in Others : made = Reassigned(a, i, q, 0)
      BY <2>4 DEF Reassignments
    <3> QED BY <1>1, <2>0, <3>1 DEF Reassigned, HasVerdict
  <2>5. CASE made \in Changes(a)
    BY <1>1, <2>0, <2>5 DEF Changes, Updated, HasVerdict
  <2>6. CASE made = Cancelled(a, 0)
    BY <2>6 DEF Cancelled, Closed, HasVerdict
  <2> QED BY <1>1, <2>2, <2>3, <2>4, <2>5, <2>6 DEF Makes
<1>2. CASE a.status = "approved"
  <2>0. a.reviewer \in Others
    BY <1>2 DEF VerdictIsSigned
  <2>1. PICK p \in Others : made \in {Unapproved(a), Refused(a, p, 0)}
    BY <1>2 DEF Makes, Revocations
  <2>2. CASE made = Unapproved(a)
    BY <1>2, <2>2 DEF Unapproved, MadeOf, VerdictIsSigned, HasVerdict
  <2>3. CASE made = Refused(a, p, 0)
    <3>1. HasVerdict(Marked(a, RevokeTarget(a, p), "rejected", 0))
      BY DEF Marked, HasVerdict
    <3>2. made.status = "rejected"
      BY <2>3, <3>1 DEF Refused, HasVerdict
    <3> QED BY <1>2, <3>2 DEF MadeOf, VerdictIsSigned
  <2> QED BY <2>1, <2>2, <2>3
<1> QED BY <1>1, <1>2 DEF Makes

(* An honest verdict written over any signed row leaves it signed.         *)
LEMMA WrittenIsSigned ==
  ASSUME NEW now, NEW seen, NEW made, NoOne \notin Others,
         HasVerdict(now), VerdictIsSigned(now), VerdictIsSigned(seen), MadeOf(seen, made)
  PROVE  HasVerdict(Written(now, seen, made)) /\ VerdictIsSigned(Written(now, seen, made))
<1> DEFINE w == Written(now, seen, made)
<1>1. /\ HasVerdict(w)
      /\ w.status = IF made.status = seen.status THEN now.status ELSE made.status
      /\ w.reviewer = IF made.reviewer = seen.reviewer THEN now.reviewer ELSE made.reviewer
  BY DEF Written, Merged, HasVerdict
<1> HIDE DEF w
<1>2. CASE made.status = seen.status
  BY <1>1, <1>2 DEF w, MadeOf, VerdictIsSigned
<1>3. CASE made.status # seen.status /\ made.status = "approved"
  BY <1>1, <1>3 DEF w, MadeOf, VerdictIsSigned
<1>4. CASE made.status # seen.status /\ made.status = "pending"
  BY <1>1, <1>4 DEF w, MadeOf, VerdictIsSigned
<1>5. CASE made.status \notin {seen.status, "approved", "pending"}
  BY <1>1, <1>5 DEF w, VerdictIsSigned
<1> QED BY <1>2, <1>3, <1>4, <1>5

(* The invariant holds from the beginning and survives every step.         *)
LEMMA RaceInvHolds == TheCompany \in Companies => (RaceSpec => []RaceInv)
<1> SUFFICES ASSUME TheCompany \in Companies PROVE RaceSpec => []RaceInv
  OBVIOUS
<1>0. NoOne \notin Others
  BY AccessAssumption DEF Others, Companies
<1>1. RaceInit => RaceInv
  BY DEF RaceInit, RaceInv, Filed, Idle, HasVerdict, DecisionsAreSigned, VerdictIsSigned
<1>2. RaceInv /\ [RaceNext]_vars => RaceInv'
  <2> SUFFICES ASSUME RaceInv, [RaceNext]_vars PROVE RaceInv'
    OBVIOUS
  <2>1. ASSUME NEW s \in Sessions, Begin(s) PROVE RaceInv'
    <3>1. PICK made \in Makes(row) :
            session' = [session EXCEPT ![s] = [busy |-> TRUE, seen |-> row, made |-> made]]
      BY <2>1 DEF Begin
    <3>2. MadeOf(row, made) /\ row' = row
      BY <1>0, <2>1, MakesAreHonest DEF Begin, RaceInv, DecisionsAreSigned
    <3> QED BY <3>1, <3>2 DEF RaceInv, DecisionsAreSigned
  <2>2. ASSUME NEW s \in Sessions, Finish(s) PROVE RaceInv'
    <3>1. HasVerdict(row') /\ VerdictIsSigned(row')
      BY <1>0, <2>2, WrittenIsSigned DEF Finish, RaceInv, DecisionsAreSigned
    <3>2. /\ DOMAIN session' = Sessions
          /\ \A t \in Sessions : session'[t].busy => session[t].busy /\ session'[t] = session[t]
      BY <2>2 DEF Finish, Idle, RaceInv
    <3> QED BY <3>1, <3>2 DEF RaceInv, DecisionsAreSigned
  <2>3. ASSUME NEW s \in Sessions, Fail(s) PROVE RaceInv'
    <3>1. /\ DOMAIN session' = Sessions /\ row' = row
          /\ \A t \in Sessions : session'[t].busy => session[t].busy /\ session'[t] = session[t]
      BY <2>3 DEF Fail, Idle, RaceInv
    <3> QED BY <3>1 DEF RaceInv, DecisionsAreSigned
  <2>4. CASE UNCHANGED vars
    BY <2>4 DEF vars, RaceInv, DecisionsAreSigned
  <2> QED BY <2>1, <2>2, <2>3, <2>4 DEF RaceNext
<1> QED BY <1>1, <1>2, PTL DEF RaceSpec

(* However many handlers overlap, in whatever order they read and commit:  *)
(* an approved request was approved by an active person other than the one *)
(* who asked, whose name it bears.                                         *)
THEOREM SignedTheorem == TheCompany \in Companies => (RaceSpec => []DecisionsAreSigned)
<1> SUFFICES ASSUME TheCompany \in Companies PROVE RaceSpec => []DecisionsAreSigned
  OBVIOUS
<1>1. RaceInv => DecisionsAreSigned
  BY DEF RaceInv
<1> QED BY <1>1, RaceInvHolds, PTL
=============================================================================
