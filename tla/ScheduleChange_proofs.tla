------------------------ MODULE ScheduleChange_proofs ------------------------
(***************************************************************************)
(* The promises of the roster and of the calendar, for any employees,      *)
(* leaves and requests: a day that payroll has closed stays as it is,      *)
(* whoever writes to it; a request is carried out once everyone asked has  *)
(* agreed, in their turn; an approved leave has its days, keeps them, and  *)
(* gives them back as they were; and a sync of the holidays never undoes   *)
(* what people wrote.                                                      *)
(*                                                                         *)
(* Shifts written many at a time: a dry run shows what the write does,     *)
(* whatever else it would refuse, since only leave stands against force.   *)
(* Copies keep apart because each ends before the next begins, in days or  *)
(* in months. And the hours of a week are kept because the last day that a *)
(* write puts work on was judged with all the others.                      *)
(***************************************************************************)
EXTENDS ScheduleChange, Planning, Holidays, SequenceTheorems, TLAPS

-----------------------------------------------------------------------------
(* Closed days. Every write names its cells and asks whether any of them   *)
(* is closed; only the name of a deleted holiday goes without asking.      *)

LockedAreCells == locked \subseteq Cells

(* What a closed day shows, in and after a step.                           *)
Stands == \A c \in locked : Shows(roster[c])' = Shows(roster[c])

LEMMA WritesElsewhere ==
  ASSUME LockedAreCells, NEW change, Write(change), Unlocked(DOMAIN change)
  PROVE  \A c \in locked : roster'[c] = roster[c]
BY DEF LockedAreCells, Write, Unlocked

LEMMA UnchangedStands ==
  ASSUME \A c \in locked : roster'[c] = roster[c]
  PROVE  Stands
BY DEF Stands, Shows

LEMMA PlannersStand ==
  ASSUME LockedAreCells, Planners
  PROVE  Stands
<1>1. ASSUME NEW cells, NEW k, CreateShifts(cells, k) PROVE Stands
  <2>1. PICK made : Unlocked(made) /\ Write([c \in made |-> Append(roster[c], Draft(k))])
    BY <1>1 DEF CreateShifts, Plan, Edit
  <2> QED BY <2>1, WritesElsewhere, UnchangedStands
<1>2. ASSUME NEW e, NEW days, NEW f, NEW offset, CopyShifts(e, days, f, offset) PROVE Stands
  <2>1. PICK change : Unlocked(DOMAIN change) /\ Write(change)
    BY <1>2 DEF CopyShifts, Plan, Edit
  <2> QED BY <2>1, WritesElsewhere, UnchangedStands
<1>3. ASSUME NEW target, NEW overwrite, ApplyTargets(target, overwrite) PROVE Stands
  <2>1. PICK change : Unlocked(DOMAIN change) /\ Write(change)
    BY <1>3 DEF ApplyTargets, Plan, Edit
  <2> QED BY <2>1, WritesElsewhere, UnchangedStands
<1>4. ASSUME NEW c, NEW i, NEW to, NEW k, UpdateShift(c, i, to, k) PROVE Stands
  <2>1. PICK change : Unlocked(DOMAIN change) /\ Write(change)
    BY <1>4 DEF UpdateShift, Keys, Plan, Edit
  <2> QED BY <2>1, WritesElsewhere, UnchangedStands
<1>5. ASSUME NEW c, NEW i, DeleteShift(c, i) PROVE Stands
  <2>1. PICK change : Unlocked(DOMAIN change) /\ Write(change)
    BY <1>5 DEF DeleteShift, Plan, Edit
  <2> QED BY <2>1, WritesElsewhere, UnchangedStands
<1>6. ASSUME NEW cells, NEW includeLeave, BulkDelete(cells, includeLeave) PROVE Stands
  <2>1. PICK change : Unlocked(DOMAIN change) /\ Write(change)
    BY <1>6 DEF BulkDelete, Plan, Edit
  <2> QED BY <2>1, WritesElsewhere, UnchangedStands
<1>7. ASSUME NEW cells, Publish(cells) PROVE Stands
  <2>1. PICK change : Unlocked(DOMAIN change) /\ Write(change)
    BY <1>7 DEF Publish, Plan, Edit
  <2> QED BY <2>1, WritesElsewhere, UnchangedStands
<1>8. ASSUME NEW cells, Unpublish(cells) PROVE Stands
  <2>1. PICK change : Unlocked(DOMAIN change) /\ Write(change)
    BY <1>8 DEF Unpublish, Plan, Edit
  <2> QED BY <2>1, WritesElsewhere, UnchangedStands
<1> QED BY <1>1, <1>2, <1>3, <1>4, <1>5, <1>6, <1>7, <1>8 DEF Planners

LEMMA CalendarStands ==
  ASSUME LockedAreCells, Calendar
  PROVE  Stands
<1>1. ASSUME NEW r, NEW d, NEW automatic, DeclareHoliday(r, d, automatic) PROVE Stands
  <2>1. PICK change : Unlocked(DOMAIN change) /\ Write(change)
    BY <1>1 DEF DeclareHoliday, Edit
  <2> QED BY <2>1, WritesElsewhere, UnchangedStands
<1>2. ASSUME NEW r, NEW d, NEW automatic, MoveHoliday(r, d, automatic) PROVE Stands
  <2>1. PICK change : Unlocked(DOMAIN change) /\ Write(change)
    BY <1>2 DEF MoveHoliday, Edit
  <2> QED BY <2>1, WritesElsewhere, UnchangedStands
<1>3. ASSUME NEW r, DeleteHoliday(r) PROVE Stands
  <2> DEFINE back == TakenBack(r, Cells)
             Forgotten(s) == [i \in DOMAIN s |->
                                IF s[i].holiday = r THEN [s[i] EXCEPT !.holiday = None] ELSE s[i]]
  <2>1. /\ Unlocked(DOMAIN back)
        /\ roster' = [c \in Cells |-> Forgotten(IF c \in DOMAIN back THEN back[c] ELSE roster[c])]
    BY <1>3 DEF DeleteHoliday, Edit, Write
  <2>2. ASSUME NEW c \in locked PROVE roster'[c] = Forgotten(roster[c])
    BY <2>1, <2>2 DEF LockedAreCells, Unlocked
  <2>3. ASSUME NEW s PROVE Shows(Forgotten(s)) = Shows(s)
    BY DEF Shows
  <2> HIDE DEF Forgotten
  <2> QED BY <2>2, <2>3 DEF Stands
<1> QED BY <1>1, <1>2, <1>3 DEF Calendar

LEMMA LeavesStand ==
  ASSUME LockedAreCells, LeaveDecisions
  PROVE  Stands
<1>1. ASSUME NEW l, ApproveLeave(l) PROVE Stands
  <2>1. PICK change : Unlocked(DOMAIN change) /\ Write(change)
    BY <1>1 DEF ApproveLeave
  <2> QED BY <2>1, WritesElsewhere, UnchangedStands
<1>2. ASSUME NEW l, RevokeLeave(l) PROVE Stands
  <2>1. PICK change : Unlocked(DOMAIN change) /\ Write(change)
    BY <1>2 DEF RevokeLeave
  <2> QED BY <2>1, WritesElsewhere, UnchangedStands
<1> QED BY <1>1, <1>2 DEF LeaveDecisions

LEMMA ChangesStand ==
  ASSUME LockedAreCells, Asking \/ Answering
  PROVE  Stands
<1>1. ASSUME NEW r, CarryOut(r) PROVE Stands
  <2>1. PICK change : Unlocked(DOMAIN change) /\ Write(change)
    BY <1>1 DEF CarryOut
  <2> QED BY <2>1, WritesElsewhere, UnchangedStands
<1>2. ASSUME UNCHANGED vars PROVE Stands
  BY <1>2, UnchangedStands DEF vars
<1>3. ASSUME NEW q, NEW u, Approve(q, u) PROVE Stands
  BY <1>1, <1>2, <1>3 DEF Approve
<1> QED BY <1>2, <1>3 DEF Asking, Answering, Ask, Reject, Cancel

LEMMA StepsStand ==
  ASSUME LockedAreCells, [ChangeNext]_changeVars
  PROVE  Stands
<1>1. ASSUME UNCHANGED roster PROVE Stands
  BY <1>1, UnchangedStands
<1>2. CASE Next
  BY <1>1, <1>2, PlannersStand, CalendarStands, LeavesStand DEF Next, LockCells
<1>3. CASE Asking \/ Answering
  BY <1>3, ChangesStand
<1>4. CASE UNCHANGED changeVars
  BY <1>1, <1>4 DEF changeVars, vars
<1> QED BY <1>2, <1>3, <1>4 DEF ChangeNext

LEMMA LockedStayCells ==
  ASSUME LockedAreCells, [ChangeNext]_changeVars
  PROVE  LockedAreCells'
<1>1. CASE Next
  <2>1. CASE \E cells \in Runs : LockCells(cells)
    <3>1. PICK cells \in Runs : locked' = locked \cup cells
      BY <2>1 DEF LockCells
    <3>2. cells \subseteq Employees \X Days
      BY RosterAssumption
    <3> QED BY <3>1, <3>2 DEF LockedAreCells, Cells
  <2>2. CASE Planners
    <3>1. locked' = locked
      <4>1. ASSUME NEW change, Plan(change) PROVE locked' = locked
        BY <4>1 DEF Plan, Edit
      <4>2. \A cells, k : CreateShifts(cells, k) => locked' = locked
        BY <4>1 DEF CreateShifts
      <4>3. \A e, days, f, offset : CopyShifts(e, days, f, offset) => locked' = locked
        BY <4>1 DEF CopyShifts
      <4>4. \A target, overwrite : ApplyTargets(target, overwrite) => locked' = locked
        BY <4>1 DEF ApplyTargets
      <4>5. \A c, i, to, k : UpdateShift(c, i, to, k) => locked' = locked
        BY <4>1 DEF UpdateShift
      <4>6. \A c, i : DeleteShift(c, i) => locked' = locked
        BY <4>1 DEF DeleteShift
      <4>7. \A cells, includeLeave : BulkDelete(cells, includeLeave) => locked' = locked
        BY <4>1 DEF BulkDelete
      <4>8. \A cells : Publish(cells) \/ Unpublish(cells) => locked' = locked
        BY <4>1 DEF Publish, Unpublish
      <4> QED BY <2>2, <4>2, <4>3, <4>4, <4>5, <4>6, <4>7, <4>8 DEF Planners
    <3> QED BY <3>1 DEF LockedAreCells, Cells
  <2>3. CASE Calendar \/ LeaveDecisions
    BY <2>3 DEF LockedAreCells, Cells, Calendar, DeclareHoliday, MoveHoliday, DeleteHoliday, Edit,
                LeaveDecisions, ApproveLeave, RevokeLeave
  <2> QED BY <1>1, <2>1, <2>2, <2>3 DEF Next
<1>2. CASE Asking \/ Answering
  BY <1>2 DEF LockedAreCells, Cells, Asking, Answering, Ask, Approve, Reject, Cancel, CarryOut, vars
<1>3. CASE UNCHANGED changeVars
  BY <1>3 DEF LockedAreCells, Cells, changeVars, vars
<1> QED BY <1>1, <1>2, <1>3 DEF ChangeNext

(* A day that a payroll run has been approved for is never changed again,  *)
(* by any writer of the roster.                                            *)
THEOREM LockedDaysStandTheorem == ChangeSpec => LockedDaysStand
<1>1. ChangeInit => LockedAreCells
  BY DEF ChangeInit, Init, LockedAreCells
<1>2. LockedAreCells /\ [ChangeNext]_changeVars => LockedAreCells'
  BY LockedStayCells
<1>3. LockedAreCells /\ [ChangeNext]_changeVars =>
        [\A c \in locked : Shows(roster[c])' = Shows(roster[c])]_vars
  BY StepsStand DEF Stands
<1> QED BY <1>1, <1>2, <1>3, PTL DEF ChangeSpec, LockedDaysStand

-----------------------------------------------------------------------------
(* Agreement. Besides what AgreedInTurn says, the steps are numbered, each *)
(* is pending, approved or rejected, and nobody swaps with themselves.     *)
Numbered(r) ==
  /\ DOMAIN r.steps \subseteq Int
  /\ \A i \in DOMAIN r.steps : r.steps[i].status \in {"pending", "approved", "rejected"}

Agreed(r) ==
  /\ r.status = "approved" => \A i \in DOMAIN r.steps : r.steps[i].status = "approved"
  /\ \A i, j \in DOMAIN r.steps : i < j /\ r.steps[j].status # "pending" =>
                                    r.steps[i].status = "approved"
  /\ r.status = "rejected" <=> \E i \in DOMAIN r.steps : r.steps[i].status = "rejected"

RequestsInv ==
  /\ request \in [Requests -> Request \cup {None}]
  /\ \A q \in Requests : request[q] # None =>
       Numbered(request[q]) /\ Agreed(request[q]) /\ request[q].by # request[q].with

LEMMA AskedIsAgreed ==
  ASSUME RequestsInv, NEW q \in Requests, NEW w \in Wanted, Ask(q, w)
  PROVE  RequestsInv'
<1> DEFINE new == [by |-> w.by, with |-> w.with, days |-> w.days, wish |-> w.wish,
                   steps |-> Steps(w), status |-> "pending"]
<1>1. /\ w.by \in Employees /\ w.with \in Employees \cup {None} /\ w.days \subseteq Days
      /\ w.wish \in {"work", "rest", "times"}
  BY ScheduleChangeAssumption
<1>2. ChainOf[w.by] \in Seq(Approvers)
  BY <1>1, ScheduleChangeAssumption
<1>3. Managers(w) \in Seq(Approvers)
  <2> DEFINE i == CHOOSE j \in DOMAIN ChainOf[w.by] : ChainOf[w.by][j] = w.with
             left == DOMAIN ChainOf[w.by] \ {i}
  <2>1. CASE \E j \in DOMAIN ChainOf[w.by] : ChainOf[w.by][j] = w.with
    <3>1. Managers(w) = Kept(ChainOf[w.by], left)
      BY <2>1 DEF Managers, Without
    <3>2. left \subseteq DOMAIN ChainOf[w.by]
      OBVIOUS
    <3> HIDE DEF left
    <3>3. Kept(ChainOf[w.by], left) \in Seq({ChainOf[w.by][j] : j \in left})
      BY <1>2, <3>2, KeptFacts
    <3>4. {ChainOf[w.by][j] : j \in left} \subseteq Approvers
      BY <1>2, <3>2, ElementOfSeq, LenProperties
    <3> QED BY <3>1, <3>3, <3>4, WiderSeq
  <2>2. CASE ~\E j \in DOMAIN ChainOf[w.by] : ChainOf[w.by][j] = w.with
    BY <2>2, <1>2 DEF Managers
  <2> QED BY <2>1, <2>2
<1>4. \E people \in Seq(Approvers) :
        Steps(w) = [i \in DOMAIN people |-> [approver |-> people[i], status |-> "pending"]]
  <2>1. CASE w.with = None
    BY <2>1, <1>3 DEF Steps
  <2>2. CASE w.with # None
    <3>1. <<w.with>> \o Managers(w) \in Seq(Approvers)
      BY <2>2, <1>1, <1>3, ScheduleChangeAssumption
    <3> QED BY <2>2, <3>1 DEF Steps
  <2> QED BY <2>1, <2>2
<1>5. PICK people \in Seq(Approvers) :
        Steps(w) = [i \in DOMAIN people |-> [approver |-> people[i], status |-> "pending"]]
  BY <1>4
<1>6. /\ Steps(w) \in Seq(Step)
      /\ DOMAIN Steps(w) \subseteq Int
      /\ \A i \in DOMAIN Steps(w) : Steps(w)[i].status = "pending"
  <2>1. Len(people) \in Nat /\ DOMAIN people = 1 .. Len(people)
    BY LenProperties
  <2>2. \A i \in 1 .. Len(people) : people[i] \in Approvers
    BY ElementOfSeq
  <2>3. Steps(w) \in [1 .. Len(people) -> Step]
    BY <1>5, <2>1, <2>2 DEF Step
  <2>4. Steps(w) \in Seq(Step)
    BY <2>1, <2>3
  <2> QED BY <1>5, <2>1, <2>3, <2>4
<1>7. new \in Request /\ Numbered(new) /\ Agreed(new) /\ new.by # new.with
  BY <1>1, <1>6 DEF Request, Numbered, Agreed, Ask
<1>8. request' = [request EXCEPT ![q] = new]
  BY DEF Ask
<1> HIDE DEF new
<1> QED BY <1>7, <1>8 DEF RequestsInv

(* A decision on the step whose turn it is.                                *)
LEMMA DecidedIsAgreed ==
  ASSUME RequestsInv, NEW q \in Requests, request[q] # None, request[q].status = "pending",
         NEW i \in DOMAIN request[q].steps, NEW u, Reviews(request[q], u, i),
         NEW verdict \in {"approved", "rejected"}, NEW status \in {"pending", "approved", "rejected"},
         status = "rejected" <=> verdict = "rejected",
         status = "approved" =>
           \A j \in DOMAIN request[q].steps : j # i => request[q].steps[j].status # "pending",
         request' = [request EXCEPT ![q].steps[i].status = verdict, ![q].status = status]
  PROVE  RequestsInv'
<1> DEFINE r == request[q]
           steps == [r.steps EXCEPT ![i].status = verdict]
           new == [r EXCEPT !.steps = steps, !.status = status]
<1>1. r \in Request /\ Numbered(r) /\ Agreed(r) /\ r.steps \in Seq(Step) /\ r.by # r.with
  BY DEF RequestsInv, Request
<1>2. /\ r.steps[i].status = "pending"
      /\ \A j \in DOMAIN r.steps : j < i => r.steps[j].status = "approved"
  BY DEF Reviews, Mine, Turn
<1>3. \A j \in DOMAIN r.steps : r.steps[j].status # "rejected"
  BY <1>1 DEF Agreed
<1>4. /\ steps \in Seq(Step) /\ DOMAIN steps = DOMAIN r.steps
      /\ \A j \in DOMAIN steps :
           steps[j].status = IF j = i THEN verdict ELSE r.steps[j].status
  <2> DEFINE step == [r.steps[i] EXCEPT !.status = verdict]
  <2>1. r.steps[i] \in Step /\ i \in 1 .. Len(r.steps) /\ DOMAIN r.steps = 1 .. Len(r.steps)
    BY <1>1, LenProperties, ElementOfSeq
  <2>2. step \in Step /\ step.status = verdict
    BY <2>1 DEF Step
  <2>3. steps = [r.steps EXCEPT ![i] = step]
    OBVIOUS
  <2> HIDE DEF r, steps, step
  <2>4. /\ steps \in Seq(Step) /\ Len(steps) = Len(r.steps)
        /\ \A j \in 1 .. Len(r.steps) : steps[j] = IF j = i THEN step ELSE r.steps[j]
    BY <1>1, <2>1, <2>2, <2>3, ExceptSeq
  <2>5. DOMAIN steps = DOMAIN r.steps
    BY <2>1, <2>4, LenProperties
  <2> QED BY <2>1, <2>2, <2>4, <2>5
<1>5. \A j \in DOMAIN r.steps : i < j => r.steps[j].status = "pending"
  BY <1>1, <1>2 DEF Agreed
<1>6. new \in Request /\ new.steps = steps /\ new.status = status /\ new.by # new.with
  BY <1>1, <1>4 DEF Request
<1>7. request' = [request EXCEPT ![q] = new]
  BY <1>1 DEF Request
<1> HIDE DEF r, steps, new
<1>8. Numbered(new)
  BY <1>1, <1>4, <1>6 DEF Numbered
<1>9. Agreed(new)
  <2>1. \A j, k \in DOMAIN steps : j < k /\ steps[k].status # "pending" => steps[j].status = "approved"
    BY <1>1, <1>2, <1>4, <1>5 DEF Numbered, Agreed
  <2>2. status = "rejected" <=> \E j \in DOMAIN steps : steps[j].status = "rejected"
    <3>1. i \in DOMAIN steps
      BY <1>4 DEF r
    <3> QED BY <1>3, <1>4, <3>1
  <2>3. status = "approved" => \A j \in DOMAIN steps : steps[j].status = "approved"
    BY <1>1, <1>3, <1>4 DEF Numbered, r
  <2> QED BY <2>1, <2>2, <2>3, <1>6 DEF Agreed
<1> QED BY <1>6, <1>7, <1>8, <1>9 DEF RequestsInv

LEMMA RequestsStep ==
  ASSUME RequestsInv, [ChangeNext]_changeVars
  PROVE  RequestsInv'
<1>1. ASSUME UNCHANGED request PROVE RequestsInv'
  BY <1>1 DEF RequestsInv
<1>2. ASSUME NEW q \in Requests, NEW u, Reject(q, u) PROVE RequestsInv'
  <2>1. PICK i \in DOMAIN request[q].steps :
          /\ request[q] # None /\ request[q].status = "pending" /\ Reviews(request[q], u, i)
          /\ request' = [request EXCEPT ![q].steps[i].status = "rejected", ![q].status = "rejected"]
    BY <1>2 DEF Reject
  <2> QED BY <2>1, DecidedIsAgreed
<1>3. ASSUME NEW q \in Requests, NEW u, Approve(q, u) PROVE RequestsInv'
  <2> DEFINE last(i) == \A j \in DOMAIN request[q].steps :
                          j # i => request[q].steps[j].status # "pending"
  <2>1. PICK i \in DOMAIN request[q].steps :
          /\ request[q] # None /\ request[q].status = "pending" /\ Reviews(request[q], u, i)
          /\ request' = [request EXCEPT ![q].steps[i].status = "approved",
                                        ![q].status = IF last(i) THEN "approved" ELSE @]
    BY <1>3 DEF Approve
  <2>2. CASE last(i)
    <3>1. request' = [request EXCEPT ![q].steps[i].status = "approved", ![q].status = "approved"]
      BY <2>1, <2>2
    <3> QED BY <2>1, <2>2, <3>1, DecidedIsAgreed
  <2>3. CASE ~last(i)
    <3>1. request' = [request EXCEPT ![q].steps[i].status = "approved", ![q].status = "pending"]
      BY <2>1, <2>3 DEF RequestsInv, Request
    <3> QED BY <2>1, <3>1, DecidedIsAgreed
  <2> QED BY <2>2, <2>3
<1>4. ASSUME NEW q \in Requests, Cancel(q) PROVE RequestsInv'
  <2> DEFINE new == [request[q] EXCEPT !.status = "cancelled"]
  <2>1. request[q] \in Request /\ request[q].status = "pending"
        /\ Numbered(request[q]) /\ Agreed(request[q]) /\ request[q].by # request[q].with
    BY <1>4 DEF Cancel, RequestsInv
  <2>2. /\ new \in Request /\ new.steps = request[q].steps /\ new.status = "cancelled"
        /\ new.by # new.with
    BY <2>1 DEF Request
  <2>3. request' = [request EXCEPT ![q] = new]
    BY <1>4 DEF Cancel
  <2> HIDE DEF new
  <2>4. Numbered(new) /\ Agreed(new)
    BY <2>1, <2>2 DEF Numbered, Agreed
  <2> QED BY <2>2, <2>3, <2>4 DEF RequestsInv
<1> QED BY <1>1, <1>2, <1>3, <1>4, AskedIsAgreed DEF ChangeNext, Asking, Answering, changeVars

(* A request is carried out once everyone whose turn it was has agreed, in *)
(* the order of the steps, and never after one of them refused.            *)
THEOREM AgreementTheorem == ChangeSpec => []AgreedInTurn
<1>1. ChangeInit => RequestsInv
  BY DEF ChangeInit, RequestsInv
<1>2. RequestsInv /\ [ChangeNext]_changeVars => RequestsInv'
  BY RequestsStep
<1>3. RequestsInv => AgreedInTurn
  BY DEF RequestsInv, Agreed, AgreedInTurn, ChangeTypeOK
<1> QED BY <1>1, <1>2, <1>3, PTL DEF ChangeSpec

(* The leaves on the roster. A shift that is of a leave shows it, and is   *)
(* of an approved one of its employee; none is work on a day that an       *)
(* approved leave counts; and a counted day has a leave, if not always the *)
(* one that counts it.                                                     *)
Counts(leaves, c) == \E l \in leaves : LeaveOf[l] = c[1] /\ c[2] \in Counted[l]

Sound(s) == s \in Shift /\ (s.leave # None => s.kind = "leave")

Good(s, c, leaves) ==
  /\ Sound(s)
  /\ s.leave # None => s.leave \in leaves /\ LeaveOf[s.leave] = c[1]
  /\ s.kind = "work" => ~Counts(leaves, c)

Suits(those, c, leaves) ==
  those \in Seq(Shift) /\ \A i \in DOMAIN those : Good(those[i], c, leaves)

OnLeave(those) == \E i \in DOMAIN those : those[i].leave # None

OverlayInv ==
  /\ TypeOK
  /\ \A c \in Cells : Suits(roster[c], c, Approved)
  /\ \A c \in Cells \ cleared : Counts(Approved, c) => OnLeave(roster[c])

(* What a step leaves of the leaves on the days.                           *)
Keeps(those, new) ==
  \A i \in DOMAIN those : those[i].leave # None =>
    \E j \in DOMAIN new : new[j].leave = those[i].leave

KeepsLeaves == \A l \in Approved \cap Approved' : HeldBy(l) \subseteq HeldBy(l)' \cup cleared'

LEMMA OverlayPromises ==
  ASSUME OverlayInv
  PROVE  TypeOK /\ LeavesShowOnTheRoster /\ NoWorkOnLeave
<1>1. \A l \in Approved : LeaveOf[l] \in Employees /\ Counted[l] \subseteq Days
  BY RosterAssumption DEF OverlayInv, TypeOK, Approved
<1>2. \A l \in Approved : \A d \in Counted[l] :
        /\ <<LeaveOf[l], d>> \in Cells
        /\ <<LeaveOf[l], d>>[1] = LeaveOf[l] /\ <<LeaveOf[l], d>>[2] = d
  BY <1>1 DEF Cells
<1>3. \A l \in Approved : \A d \in Counted[l] : Counts(Approved, <<LeaveOf[l], d>>)
  BY <1>2 DEF Counts
<1>4. LeavesShowOnTheRoster
  <2>1. \A l \in Approved : \A d \in Counted[l] :
          <<LeaveOf[l], d>> \in cleared \/ Held(<<LeaveOf[l], d>>)
    BY <1>2, <1>3 DEF OverlayInv, OnLeave, Held
  <2>2. ASSUME NEW c \in Cells, NEW i \in DOMAIN roster[c] PROVE Good(roster[c][i], c, Approved)
    BY <2>2 DEF OverlayInv, Suits
  <2> QED BY <2>1, <2>2 DEF LeavesShowOnTheRoster, Good, Sound
<1>5. NoWorkOnLeave
  BY <1>2, <1>3 DEF OverlayInv, Suits, Good, NoWorkOnLeave
<1> QED BY <1>4, <1>5 DEF OverlayInv

LEMMA BeganUncovered ==
  ASSUME Init
  PROVE  OverlayInv
<1>1. Approved = {}
  BY DEF Init, Approved
<1>2. TypeOK
  BY DEF Init, TypeOK
<1> QED BY <1>1, <1>2 DEF Init, OverlayInv, Suits, Counts

(* A step that leaves the approved leaves as they are may write what suits *)
(* the cells it names and keeps their leaves on them.                      *)
Bookkeeping ==
  /\ approved' = approved
  /\ holiday' \in [Remarks -> Days \cup {None}]
  /\ locked' \subseteq Cells
  /\ cleared \subseteq cleared' /\ cleared' \subseteq Cells
  /\ writes' \in Nat

Harmless(change, gone) ==
  \A c \in Cells \cap DOMAIN change :
    Suits(change[c], c, Approved) /\ (c \in gone \/ Keeps(roster[c], change[c]))

LEMMA LeavesAreKept ==
  ASSUME OverlayInv, \A c \in Cells : c \in cleared' \/ Keeps(roster[c], roster'[c])
  PROVE  KeepsLeaves
<1>1. \A l \in Approved : l # None
  BY RosterAssumption DEF OverlayInv, TypeOK, Approved
<1>2. ASSUME NEW l \in Approved, NEW c \in HeldBy(l), c \notin cleared' PROVE c \in HeldBy(l)'
  <2>1. PICK i \in DOMAIN roster[c] : roster[c][i].leave = l
    BY <1>2 DEF HeldBy
  <2>2. c \in Cells /\ Keeps(roster[c], roster'[c])
    BY <1>2 DEF HeldBy
  <2> QED BY <1>1, <2>1, <2>2 DEF HeldBy, Keeps, Cells
<1> QED BY <1>2 DEF KeepsLeaves

LEMMA HarmlessWrite ==
  ASSUME OverlayInv, NEW change, Write(change), Bookkeeping, Harmless(change, cleared')
  PROVE  OverlayInv' /\ KeepsLeaves
<1>1. \A c \in Cells : roster'[c] = IF c \in DOMAIN change THEN change[c] ELSE roster[c]
  BY DEF Write
<1>2. ASSUME NEW c \in Cells
      PROVE  Suits(roster'[c], c, Approved) /\ (c \in cleared' \/ Keeps(roster[c], roster'[c]))
  <2>1. CASE c \in DOMAIN change
    BY <1>1, <2>1 DEF Harmless
  <2>2. CASE c \notin DOMAIN change
    BY <1>1, <2>2 DEF OverlayInv, Keeps
  <2> QED BY <2>1, <2>2
<1>3. Approved' = Approved
  BY DEF Approved, Bookkeeping
<1>4. TypeOK'
  <2>1. \A c \in Cells : roster'[c] \in Seq(Shift)
    BY <1>2 DEF Suits
  <2>2. roster' \in [Cells -> Seq(Shift)]
    <3>1. roster' = [c \in Cells |-> IF c \in DOMAIN change THEN change[c] ELSE roster[c]]
      BY DEF Write
    <3> HIDE DEF Write
    <3> QED BY <2>1, <3>1
  <2> QED BY <2>2 DEF Bookkeeping, OverlayInv, TypeOK, Cells
<1>5. ASSUME NEW c \in Cells \ cleared', Counts(Approved, c) PROVE OnLeave(roster'[c])
  <2>1. OnLeave(roster[c]) /\ Keeps(roster[c], roster'[c])
    BY <1>2, <1>5 DEF OverlayInv, Bookkeeping
  <2> QED BY <2>1 DEF OnLeave, Keeps
<1>6. OverlayInv'
  BY <1>2, <1>3, <1>4, <1>5 DEF OverlayInv, Cells
<1>7. KeepsLeaves
  BY <1>2, LeavesAreKept
<1> QED BY <1>6, <1>7

(* What is written that suits a cell: drafts that fit, what is kept of the *)
(* cell's shifts, what is added to them, and shifts with their leave left  *)
(* as it was.                                                              *)
LEMMA DraftsThatFit ==
  ASSUME OverlayInv, NEW c, NEW k \in Kinds, Fits(c, k)
  PROVE  Good(Draft(k), c, Approved)
<1>1. Draft(k) \in Shift
  BY DEF Draft, Shift
<1>2. ASSUME k = "work" PROVE ~Counts(Approved, c)
  <2>1. \A l \in Approved : Counted[l] \subseteq Span[l]
    BY RosterAssumption DEF OverlayInv, TypeOK, Approved
  <2> QED BY <1>2, <2>1 DEF Fits, LeaveDays, Counts
<1> QED BY <1>1, <1>2 DEF Good, Sound, Draft

LEMMA KeptSuits ==
  ASSUME NEW leaves, NEW c, NEW s, Suits(s, c, leaves), NEW I, I \subseteq DOMAIN s
  PROVE  /\ Suits(Kept(s, I), c, leaves)
         /\ (\A i \in DOMAIN s : s[i].leave # None => i \in I) => Keeps(s, Kept(s, I))
<1>1. s \in Seq(Shift)
  BY DEF Suits
<1>2. PICK m \in Nat : \E g \in [1 .. m -> I] : Picks(Kept(s, I), s, I, m, g)
  BY <1>1, KeptPlaces
<1>3. PICK g \in [1 .. m -> I] : Picks(Kept(s, I), s, I, m, g)
  BY <1>2
<1>4. Kept(s, I) = [i \in 1 .. m |-> s[g[i]]]
  BY <1>3 DEF Picks
<1>5. \A i \in 1 .. m : Good(s[g[i]], c, leaves) /\ s[g[i]] \in Shift
  BY <1>3 DEF Suits, Good, Sound
<1>6. Kept(s, I) \in Seq(Shift)
  BY <1>4, <1>5
<1>7. Suits(Kept(s, I), c, leaves)
  BY <1>4, <1>5, <1>6 DEF Suits
<1>8. ASSUME \A i \in DOMAIN s : s[i].leave # None => i \in I PROVE Keeps(s, Kept(s, I))
  BY <1>3, <1>4, <1>8 DEF Picks, Keeps
<1> QED BY <1>7, <1>8

LEMMA AddedSuits ==
  ASSUME NEW leaves, NEW c, NEW s, Suits(s, c, leaves), NEW x, Good(x, c, leaves)
  PROVE  Suits(Append(s, x), c, leaves) /\ Keeps(s, Append(s, x))
<1>1. s \in Seq(Shift) /\ x \in Shift
  BY DEF Suits, Good, Sound
<1>2. /\ Append(s, x) \in Seq(Shift) /\ Append(s, x)[Len(s) + 1] = x
      /\ DOMAIN Append(s, x) = 1 .. Len(s) + 1 /\ DOMAIN s = 1 .. Len(s)
      /\ \A i \in 1 .. Len(s) : Append(s, x)[i] = s[i]
  BY <1>1, AppendFacts
<1>3. Len(s) \in Nat
  BY <1>1
<1>4. \A i \in DOMAIN Append(s, x) : i \in DOMAIN s \/ i = Len(s) + 1
  BY <1>2, <1>3
<1>5. \A i \in DOMAIN s : i \in DOMAIN Append(s, x)
  BY <1>2, <1>3
<1>6. Suits(Append(s, x), c, leaves)
  BY <1>2, <1>4, Zenon DEF Suits
<1>7. Keeps(s, Append(s, x))
  BY <1>2, <1>5, Zenon DEF Keeps
<1> QED BY <1>6, <1>7

LEMMA JoinedSuits ==
  ASSUME NEW leaves, NEW c, NEW s, Suits(s, c, leaves), NEW new, Suits(new, c, leaves)
  PROVE  Suits(s \o new, c, leaves) /\ Keeps(s, s \o new)
<1>1. s \in Seq(Shift) /\ new \in Seq(Shift)
  BY DEF Suits
<1>2. /\ s \o new \in Seq(Shift) /\ Len(s \o new) = Len(s) + Len(new)
      /\ \A i \in 1 .. Len(s) + Len(new) :
           (s \o new)[i] = IF i <= Len(s) THEN s[i] ELSE new[i - Len(s)]
  BY <1>1, ConcatProperties
<1>3. /\ Len(s) \in Nat /\ Len(new) \in Nat /\ DOMAIN s = 1 .. Len(s) /\ DOMAIN new = 1 .. Len(new)
      /\ DOMAIN (s \o new) = 1 .. Len(s) + Len(new)
  BY <1>1, <1>2
<1> DEFINE both == s \o new
<1> HIDE DEF both
<1>4. ASSUME NEW i \in DOMAIN both PROVE Good(both[i], c, leaves)
  <2>1. i \in 1 .. Len(s) + Len(new)
    BY <1>3 DEF both
  <2>2. CASE i <= Len(s)
    <3>1. i \in DOMAIN s /\ both[i] = s[i]
      BY <1>2, <1>3, <2>1, <2>2 DEF both
    <3> QED BY <3>1 DEF Suits
  <2>3. CASE ~(i <= Len(s))
    <3>1. i - Len(s) \in DOMAIN new /\ both[i] = new[i - Len(s)]
      BY <1>2, <1>3, <2>1, <2>3 DEF both
    <3> QED BY <3>1 DEF Suits
  <2> QED BY <2>2, <2>3
<1>5. \A i \in DOMAIN s : i \in DOMAIN both /\ both[i] = s[i]
  BY <1>2, <1>3 DEF both
<1>6. both \in Seq(Shift)
  BY <1>2 DEF both
<1>7. Suits(both, c, leaves) /\ Keeps(s, both)
  BY <1>4, <1>5, <1>6, Zenon DEF Suits, Keeps
<1> QED BY <1>7 DEF both

LEMMA ChangedSuits ==
  ASSUME NEW leaves, NEW c, NEW s, Suits(s, c, leaves), NEW new, DOMAIN new = DOMAIN s,
         \A i \in DOMAIN s : Good(new[i], c, leaves) /\ new[i].leave = s[i].leave,
         new = [i \in DOMAIN s |-> new[i]]
  PROVE  Suits(new, c, leaves) /\ Keeps(s, new)
<1>1. DOMAIN s = 1 .. Len(s) /\ Len(s) \in Nat
  BY DEF Suits
<1>2. \A i \in DOMAIN s : new[i] \in Shift
  BY DEF Good, Sound
<1>3. new \in [1 .. Len(s) -> Shift]
  BY <1>1, <1>2
<1>4. new \in Seq(Shift)
  BY <1>1, <1>3
<1> QED BY <1>4 DEF Suits, Keeps

LEMMA NewSuits ==
  ASSUME NEW leaves, NEW c, NEW n \in Nat, NEW new, new = [i \in 1 .. n |-> new[i]],
         \A i \in 1 .. n : Good(new[i], c, leaves)
  PROVE  Suits(new, c, leaves)
<1>1. \A i \in 1 .. n : new[i] \in Shift
  BY DEF Good, Sound
<1>2. new \in [1 .. n -> Shift]
  BY <1>1
<1>3. new \in Seq(Shift) /\ DOMAIN new = 1 .. n
  BY <1>2
<1> QED BY <1>3 DEF Suits

LEMMA NothingToKeep ==
  ASSUME NEW c, ~Held(c), NEW new
  PROVE  Keeps(roster[c], new)
BY DEF Held, Keeps

LEMMA HarmlessEdit ==
  ASSUME OverlayInv, NEW change, Edit(change), holiday' \in [Remarks -> Days \cup {None}],
         cleared \subseteq cleared', cleared' \subseteq Cells, Harmless(change, cleared')
  PROVE  OverlayInv' /\ KeepsLeaves
<1>1. Write(change) /\ writes' = writes + 1 /\ approved' = approved /\ locked' = locked
  BY DEF Edit
<1>2. Bookkeeping
  BY <1>1 DEF OverlayInv, TypeOK, Bookkeeping
<1> QED BY <1>1, <1>2, HarmlessWrite

LEMMA HarmlessPlan ==
  ASSUME OverlayInv, NEW change, Plan(change), cleared' = cleared, Harmless(change, cleared)
  PROVE  OverlayInv' /\ KeepsLeaves
<1>1. Edit(change) /\ holiday' \in [Remarks -> Days \cup {None}] /\ cleared' \subseteq Cells
  BY DEF Plan, OverlayInv, TypeOK
<1> QED BY <1>1, HarmlessEdit

LEMMA CreatedOverlay ==
  ASSUME OverlayInv, NEW cells, NEW k \in Statuses, CreateShifts(cells, k)
  PROVE  OverlayInv' /\ KeepsLeaves
<1> DEFINE made == {c \in cells : Fits(c, k)}
           change == [c \in made |-> Append(roster[c], Draft(k))]
<1>1. Plan(change) /\ cleared' = cleared
  BY DEF CreateShifts
<1>2. ASSUME NEW c \in Cells \cap made
      PROVE  Suits(change[c], c, Approved) /\ Keeps(roster[c], change[c])
  <2>1. Good(Draft(k), c, Approved)
    BY DraftsThatFit, RosterAssumption
  <2>2. Suits(roster[c], c, Approved)
    BY DEF OverlayInv
  <2>3. change[c] = Append(roster[c], Draft(k))
    BY <1>2
  <2> QED BY <2>1, <2>2, <2>3, AddedSuits
<1>3. DOMAIN change = made
  OBVIOUS
<1> HIDE DEF change, made
<1>4. Harmless(change, cleared)
  BY <1>2, <1>3 DEF Harmless
<1> QED BY <1>1, <1>4, HarmlessPlan

(* The shifts of a cell that are not of a leave are of a kind, and so are  *)
(* the drafts that copy them.                                              *)
LEMMA OpenShifts ==
  ASSUME OverlayInv, NEW c \in Cells
  PROVE  Open(c) \in Seq(Shift) /\ \A i \in DOMAIN Open(c) : Open(c)[i].kind \in Kinds
<1> DEFINE I == {i \in DOMAIN roster[c] : roster[c][i].leave = None}
<1>1. roster[c] \in Seq(Shift) /\ I \subseteq DOMAIN roster[c] /\ Open(c) = Kept(roster[c], I)
  BY DEF OverlayInv, Suits, Open
<1>2. \A i \in I : roster[c][i].leave = None /\ roster[c][i] \in Shift
  BY DEF OverlayInv, Suits, Good, Sound
<1> HIDE DEF I
<1>3. Open(c) \in Seq({roster[c][i] : i \in I})
  BY <1>1, KeptFacts
<1>4. {roster[c][i] : i \in I} \subseteq {s \in Shift : s.kind \in Kinds}
  BY <1>2 DEF Shift
<1>5. Open(c) \in Seq({s \in Shift : s.kind \in Kinds})
  BY <1>3, <1>4, WiderSeq
<1>6. Open(c) \in Seq(Shift)
  <2>1. {s \in Shift : s.kind \in Kinds} \subseteq Shift
    OBVIOUS
  <2> QED BY <1>5, <2>1, WiderSeq
<1>7. \A i \in DOMAIN Open(c) : Open(c)[i] \in {s \in Shift : s.kind \in Kinds}
  BY <1>5
<1> QED BY <1>6, <1>7

LEMMA CopiedOverlay ==
  ASSUME OverlayInv, NEW e \in Employees, NEW d \in Days, NEW f \in Employees, NEW to \in Days,
         CopyShifts(e, {d}, f, to - d)
  PROVE  OverlayInv' /\ KeepsLeaves
<1> DEFINE offset == to - d
           Source(c) == IF c[2] - offset \in {d} THEN Open(<<e, c[2] - offset>>) ELSE <<>>
           Copies(c) == [i \in DOMAIN Source(c) |-> Draft(Source(c)[i].kind)]
           targets == {c \in {f} \X Days :
                         /\ Source(c) # <<>>
                         /\ \A i \in DOMAIN Source(c) : Fits(c, Source(c)[i].kind)}
           change == [c \in targets |-> roster[c] \o Copies(c)]
<1>1. Plan(change) /\ cleared' = cleared
  BY DEF CopyShifts
<1>2. ASSUME NEW c \in Cells \cap targets
      PROVE  Suits(change[c], c, Approved) /\ Keeps(roster[c], change[c])
  <2>1. Source(c) = Open(<<e, d>>) /\ \A i \in DOMAIN Source(c) : Fits(c, Source(c)[i].kind)
    BY <1>2
  <2>2. <<e, d>> \in Cells
    BY DEF Cells
  <2>3. /\ Source(c) \in Seq(Shift) /\ \A i \in DOMAIN Source(c) : Source(c)[i].kind \in Kinds
    BY <2>1, <2>2, OpenShifts
  <2>4. \A i \in DOMAIN Source(c) : Good(Draft(Source(c)[i].kind), c, Approved)
    BY <2>1, <2>3, DraftsThatFit
  <2>5. DOMAIN Source(c) = 1 .. Len(Source(c)) /\ Len(Source(c)) \in Nat
    BY <2>3
  <2>6. change[c] = roster[c] \o Copies(c)
    BY <1>2
  <2> HIDE DEF change, targets, Source
  <2>7. Suits(Copies(c), c, Approved)
    BY <2>4, <2>5, NewSuits
  <2>8. Suits(roster[c], c, Approved)
    BY DEF OverlayInv
  <2> HIDE DEF Copies
  <2> QED BY <2>6, <2>7, <2>8, JoinedSuits
<1>3. DOMAIN change = targets
  OBVIOUS
<1> HIDE DEF change, targets
<1>4. Harmless(change, cleared)
  BY <1>2, <1>3 DEF Harmless
<1> QED BY <1>1, <1>4, HarmlessPlan

LEMMA AppliedOverlay ==
  ASSUME OverlayInv, NEW target, NEW overwrite, ApplyTargets(target, overwrite),
         \A c \in DOMAIN target : target[c] \in Seq(Kinds)
  PROVE  OverlayInv' /\ KeepsLeaves
<1> DEFINE plan == {c \in DOMAIN target :
                      /\ ~Held(c)
                      /\ overwrite \/ roster[c] = <<>>
                      /\ \A i \in DOMAIN target[c] : Fits(c, target[c][i])}
           change == [c \in plan |-> [i \in DOMAIN target[c] |-> Draft(target[c][i])]]
<1>1. Plan(change) /\ cleared' = cleared
  BY DEF ApplyTargets
<1>2. ASSUME NEW c \in Cells \cap plan
      PROVE  Suits(change[c], c, Approved) /\ Keeps(roster[c], change[c])
  <2>1. target[c] \in Seq(Kinds) /\ ~Held(c) /\ \A i \in DOMAIN target[c] : Fits(c, target[c][i])
    BY <1>2
  <2>2. /\ DOMAIN target[c] = 1 .. Len(target[c]) /\ Len(target[c]) \in Nat
        /\ \A i \in DOMAIN target[c] : target[c][i] \in Kinds
    BY <2>1
  <2>3. \A i \in DOMAIN target[c] : Good(Draft(target[c][i]), c, Approved)
    BY <2>1, <2>2, DraftsThatFit
  <2>4. change[c] = [i \in DOMAIN target[c] |-> Draft(target[c][i])]
    BY <1>2
  <2> HIDE DEF change, plan
  <2>5. Suits(change[c], c, Approved)
    BY <2>2, <2>3, <2>4, NewSuits
  <2> QED BY <2>1, <2>5, NothingToKeep
<1>3. DOMAIN change = plan
  OBVIOUS
<1> HIDE DEF change, plan
<1>4. Harmless(change, cleared)
  BY <1>2, <1>3 DEF Harmless
<1> QED BY <1>1, <1>4, HarmlessPlan

LEMMA WeekOfKinds ==
  ASSUME OverlayInv, NEW d \in Days, NEW offset \in Int
  PROVE  \A c \in DOMAIN WeekTargets(Employees, {d}, offset) :
           WeekTargets(Employees, {d}, offset)[c] \in Seq(Kinds)
<1> DEFINE Source(c) == Open(<<c[1], c[2] - offset>>)
           cells == {x \in Employees \X Days : x[2] - offset \in {d} /\ Source(x) # <<>>}
<1>1. WeekTargets(Employees, {d}, offset) = [c \in cells |-> [i \in DOMAIN Source(c) |-> Source(c)[i].kind]]
  BY DEF WeekTargets
<1>2. ASSUME NEW c \in cells PROVE [i \in DOMAIN Source(c) |-> Source(c)[i].kind] \in Seq(Kinds)
  <2>1. <<c[1], c[2] - offset>> \in Cells
    BY <1>2 DEF Cells
  <2>2. Source(c) \in Seq(Shift) /\ \A i \in DOMAIN Source(c) : Source(c)[i].kind \in Kinds
    BY <2>1, OpenShifts
  <2> HIDE DEF Source
  <2>3. DOMAIN Source(c) = 1 .. Len(Source(c)) /\ Len(Source(c)) \in Nat
    BY <2>2
  <2>4. [i \in DOMAIN Source(c) |-> Source(c)[i].kind] \in [1 .. Len(Source(c)) -> Kinds]
    BY <2>2, <2>3
  <2> QED BY <2>3, <2>4
<1> HIDE DEF cells, Source
<1> QED BY <1>1, <1>2

LEMMA UpdatedOverlay ==
  ASSUME OverlayInv, NEW c \in Cells, NEW to \in Cells, NEW i \in DOMAIN roster[c],
         NEW k \in Statuses \cup {roster[c][i].kind}, UpdateShift(c, i, to, k)
  PROVE  OverlayInv' /\ KeepsLeaves
<1> DEFINE s == roster[c][i]
           edited == [s EXCEPT !.kind = IF s.leave = None THEN k ELSE @, !.holiday = None]
           moves == to # c
           change == [d \in {c, to} |->
                        CASE ~moves -> [roster[c] EXCEPT ![i] = edited]
                          [] moves /\ d = c -> Without(roster[c], i)
                          [] moves /\ d = to -> Append(roster[to], edited)]
<1>1. Plan(change) /\ cleared' = cleared /\ (moves \/ s.kind # k => s.leave = None /\ Fits(to, k))
  BY DEF UpdateShift
<1>2. Suits(roster[c], c, Approved) /\ Suits(roster[to], to, Approved) /\ Good(s, c, Approved)
  BY DEF OverlayInv, Suits
<1>3. k \in Kinds /\ s \in Shift /\ (s.leave = None \/ (~moves /\ s.kind = k))
  BY <1>1, <1>2, RosterAssumption DEF Good, Sound, Shift
<1>4. edited \in Shift /\ edited.kind = k /\ edited.leave = s.leave
  BY <1>3 DEF Shift
<1>5. k = "work" => ~Counts(Approved, to)
  <2>1. CASE moves \/ s.kind # k
    <3>1. Good(Draft(k), to, Approved)
      BY <1>1, <1>3, <2>1, DraftsThatFit
    <3> QED BY <3>1 DEF Good, Sound, Draft
  <2>2. CASE ~(moves \/ s.kind # k)
    BY <1>2, <2>2 DEF Good
  <2> QED BY <2>1, <2>2
<1>6. Good(edited, to, Approved)
  <2>1. s.leave = None \/ (to = c /\ k = "leave" /\ s.leave \in Approved /\ LeaveOf[s.leave] = c[1])
    BY <1>2, <1>3 DEF Good, Sound
  <2> HIDE DEF edited, s
  <2> QED BY <1>4, <1>5, <2>1 DEF Good, Sound
<1>7. DOMAIN change = {c, to}
  OBVIOUS
<1>8. CASE ~moves
  <2> DEFINE new == [roster[c] EXCEPT ![i] = edited]
  <2>1. change[c] = new /\ to = c
    BY <1>8
  <2>2. /\ DOMAIN new = DOMAIN roster[c] /\ new = [j \in DOMAIN roster[c] |-> new[j]]
        /\ \A j \in DOMAIN roster[c] : new[j] = IF j = i THEN edited ELSE roster[c][j]
    OBVIOUS
  <2>3. \A j \in DOMAIN roster[c] : Good(new[j], c, Approved) /\ new[j].leave = roster[c][j].leave
    BY <1>2, <1>3, <1>4, <1>6, <2>1, <2>2 DEF Suits
  <2> HIDE DEF new, change
  <2>4. Suits(new, c, Approved) /\ Keeps(roster[c], new)
    BY <1>2, <2>2, <2>3, ChangedSuits
  <2>5. Harmless(change, cleared)
    BY <1>7, <2>1, <2>4 DEF Harmless
  <2> QED BY <1>1, <2>5, HarmlessPlan
<1>9. CASE moves
  <2>1. change[c] = Without(roster[c], i) /\ change[to] = Append(roster[to], edited)
    BY <1>9
  <2>2. \A j \in DOMAIN roster[c] : roster[c][j].leave # None => j \in DOMAIN roster[c] \ {i}
    BY <1>1, <1>9
  <2> HIDE DEF change, edited
  <2>3. Suits(change[c], c, Approved) /\ Keeps(roster[c], change[c])
    BY <1>2, <2>1, <2>2, KeptSuits DEF Without
  <2>4. Suits(change[to], to, Approved) /\ Keeps(roster[to], change[to])
    BY <1>2, <1>6, <2>1, AddedSuits
  <2>5. Harmless(change, cleared)
    BY <1>7, <2>3, <2>4 DEF Harmless
  <2> QED BY <1>1, <2>5, HarmlessPlan
<1> QED BY <1>8, <1>9

LEMMA DeletedOverlay ==
  ASSUME OverlayInv, NEW c \in Cells, NEW i \in DOMAIN roster[c], DeleteShift(c, i)
  PROVE  OverlayInv' /\ KeepsLeaves
<1> DEFINE change == [d \in {c} |-> Without(roster[c], i)]
<1>1. Plan(change) /\ cleared' = cleared /\ roster[c][i].leave = None
  BY DEF DeleteShift
<1>2. Suits(roster[c], c, Approved)
  BY DEF OverlayInv
<1>3. \A j \in DOMAIN roster[c] : roster[c][j].leave # None => j \in DOMAIN roster[c] \ {i}
  BY <1>1
<1>4. DOMAIN change = {c} /\ change[c] = Without(roster[c], i)
  OBVIOUS
<1> HIDE DEF change
<1>5. Suits(change[c], c, Approved) /\ Keeps(roster[c], change[c])
  BY <1>2, <1>3, <1>4, KeptSuits DEF Without
<1>6. Harmless(change, cleared)
  BY <1>4, <1>5 DEF Harmless
<1> QED BY <1>1, <1>6, HarmlessPlan

LEMMA BulkDeletedOverlay ==
  ASSUME OverlayInv, NEW cells, NEW includeLeave \in BOOLEAN, cells \subseteq Cells,
         BulkDelete(cells, includeLeave)
  PROVE  OverlayInv' /\ KeepsLeaves
<1> DEFINE doomed == {c \in cells : IF includeLeave THEN roster[c] # <<>> ELSE Open(c) # <<>>}
           stay(c) == {i \in DOMAIN roster[c] : roster[c][i].leave # None /\ ~includeLeave}
           change == [c \in doomed |-> Kept(roster[c], stay(c))]
<1>1. /\ Plan(change)
      /\ cleared' = cleared \cup {c \in doomed : includeLeave /\ Held(c)}
  BY DEF BulkDelete
<1>2. ASSUME NEW c \in Cells \cap doomed
      PROVE  Suits(change[c], c, Approved) /\ (c \in cleared' \/ Keeps(roster[c], change[c]))
  <2>1. change[c] = Kept(roster[c], stay(c)) /\ Suits(roster[c], c, Approved)
    BY <1>2 DEF OverlayInv
  <2>2. stay(c) \subseteq DOMAIN roster[c]
    OBVIOUS
  <2>3. c \in cleared' \/ ~Held(c) \/ ~includeLeave
    BY <1>1, <1>2
  <2>4. ~includeLeave => \A i \in DOMAIN roster[c] : roster[c][i].leave # None => i \in stay(c)
    OBVIOUS
  <2> HIDE DEF change, stay, doomed
  <2>5. /\ Suits(change[c], c, Approved)
        /\ ~includeLeave => Keeps(roster[c], change[c])
    BY <2>1, <2>2, <2>4, KeptSuits
  <2> QED BY <2>3, <2>5, NothingToKeep
<1>3. DOMAIN change = doomed /\ doomed \subseteq Cells
  OBVIOUS
<1> HIDE DEF change, doomed
<1>4. Harmless(change, cleared')
  BY <1>2, <1>3 DEF Harmless
<1>5. cleared \subseteq cleared' /\ cleared' \subseteq Cells
  BY <1>1, <1>3 DEF OverlayInv, TypeOK
<1>6. Edit(change) /\ holiday' \in [Remarks -> Days \cup {None}]
  BY <1>1 DEF Plan, OverlayInv, TypeOK
<1> QED BY <1>4, <1>5, <1>6, HarmlessEdit

(* Publishing a shift, or taking that back, leaves its kind and its leave. *)
LEMMA SameLeaveSuits ==
  ASSUME OverlayInv, NEW change,
         \A c \in Cells \cap DOMAIN change :
           /\ change[c] = [i \in DOMAIN roster[c] |-> change[c][i]]
           /\ \A i \in DOMAIN roster[c] :
                /\ change[c][i] \in Shift
                /\ change[c][i].leave = roster[c][i].leave
                /\ change[c][i].kind = roster[c][i].kind
  PROVE  Harmless(change, cleared)
<1> SUFFICES ASSUME NEW c \in Cells \cap DOMAIN change
             PROVE  Suits(change[c], c, Approved) /\ Keeps(roster[c], change[c])
  BY DEF Harmless
<1>1. DOMAIN change[c] = DOMAIN roster[c]
  OBVIOUS
<1>2. Suits(roster[c], c, Approved)
  BY DEF OverlayInv
<1>3. \A i \in DOMAIN roster[c] :
        Good(change[c][i], c, Approved) /\ change[c][i].leave = roster[c][i].leave
  BY <1>2 DEF Suits, Good, Sound
<1> QED BY <1>1, <1>2, <1>3, ChangedSuits

LEMMA PublishedOverlay ==
  ASSUME OverlayInv, NEW cells, cells \subseteq Cells, Publish(cells) \/ Unpublish(cells)
  PROVE  OverlayInv' /\ KeepsLeaves
<1>0. \A c \in Cells : \A i \in DOMAIN roster[c] : roster[c][i] \in Shift
  BY DEF OverlayInv, TypeOK
<1>1. CASE Publish(cells)
  <2> DEFINE Drafts(c) == {i \in DOMAIN roster[c] : ~roster[c][i].published}
             drafted == {c \in cells : Drafts(c) # {}}
             change == [c \in drafted |->
                          [i \in DOMAIN roster[c] |-> [roster[c][i] EXCEPT !.published = TRUE]]]
  <2>1. Plan(change) /\ cleared' = cleared
    BY <1>1 DEF Publish
  <2>2. ASSUME NEW c \in Cells \cap drafted
        PROVE  /\ change[c] = [i \in DOMAIN roster[c] |-> change[c][i]]
               /\ \A i \in DOMAIN roster[c] :
                    /\ change[c][i] \in Shift
                    /\ change[c][i].leave = roster[c][i].leave
                    /\ change[c][i].kind = roster[c][i].kind
    <3>1. change[c] = [i \in DOMAIN roster[c] |-> [roster[c][i] EXCEPT !.published = TRUE]]
      BY <2>2
    <3> HIDE DEF change, drafted
    <3>2. ASSUME NEW i \in DOMAIN roster[c] PROVE
            /\ change[c][i] \in Shift
            /\ change[c][i].leave = roster[c][i].leave
            /\ change[c][i].kind = roster[c][i].kind
      <4>1. change[c][i] = [roster[c][i] EXCEPT !.published = TRUE] /\ roster[c][i] \in Shift
        BY <1>0, <2>2, <3>1
      <4> QED BY <4>1 DEF Shift
    <3> QED BY <3>1, <3>2
  <2>3. DOMAIN change = drafted
    OBVIOUS
  <2> HIDE DEF change, drafted
  <2>4. Harmless(change, cleared)
    BY <2>2, <2>3, SameLeaveSuits
  <2> QED BY <2>1, <2>4, HarmlessPlan
<1>2. CASE Unpublish(cells)
  <2> DEFINE Published(c) == {i \in DOMAIN roster[c] : roster[c][i].published /\ roster[c][i].leave = None}
             out == {c \in cells : Published(c) # {}}
             change == [c \in out |-> [i \in DOMAIN roster[c] |->
                          [roster[c][i] EXCEPT !.published = @ /\ i \notin Published(c)]]]
  <2>1. Plan(change) /\ cleared' = cleared
    BY <1>2 DEF Unpublish
  <2>2. ASSUME NEW c \in Cells \cap out
        PROVE  /\ change[c] = [i \in DOMAIN roster[c] |-> change[c][i]]
               /\ \A i \in DOMAIN roster[c] :
                    /\ change[c][i] \in Shift
                    /\ change[c][i].leave = roster[c][i].leave
                    /\ change[c][i].kind = roster[c][i].kind
    <3> HIDE DEF Published
    <3>1. change[c] = [i \in DOMAIN roster[c] |->
                         [roster[c][i] EXCEPT !.published = @ /\ i \notin Published(c)]]
      BY <2>2
    <3> HIDE DEF change, out
    <3>2. ASSUME NEW i \in DOMAIN roster[c] PROVE
            /\ change[c][i] \in Shift
            /\ change[c][i].leave = roster[c][i].leave
            /\ change[c][i].kind = roster[c][i].kind
      <4> DEFINE still == roster[c][i].published /\ i \notin Published(c)
      <4>1. change[c][i] = [roster[c][i] EXCEPT !.published = still] /\ roster[c][i] \in Shift
        BY <1>0, <2>2, <3>1
      <4>2. still \in BOOLEAN
        BY <4>1 DEF Shift
      <4> HIDE DEF still
      <4> QED BY <4>1, <4>2 DEF Shift
    <3> QED BY <3>1, <3>2
  <2>3. DOMAIN change = out
    OBVIOUS
  <2> HIDE DEF change, out
  <2>4. Harmless(change, cleared)
    BY <2>2, <2>3, SameLeaveSuits
  <2> QED BY <2>1, <2>4, HarmlessPlan
<1> QED BY <1>1, <1>2

(* A day off is made where there was nothing; what is taken back with a    *)
(* holiday is of no leave.                                                 *)
LEMMA GeneratedIsHarmless ==
  ASSUME OverlayInv, NEW r \in Remarks, NEW d
  PROVE  Harmless(Generated(r, d), cleared)
<1> SUFFICES ASSUME NEW c \in Cells \cap DOMAIN Generated(r, d)
             PROVE  /\ Suits(Generated(r, d)[c], c, Approved)
                    /\ Keeps(roster[c], Generated(r, d)[c])
  BY DEF Harmless
<1>1. Generated(r, d)[c] = <<DayOff(r)>> /\ roster[c] = <<>>
  BY DEF Generated
<1>2. DayOff(r) \in Shift /\ DayOff(r).kind = "off" /\ DayOff(r).leave = None
  BY DEF DayOff, Draft, Shift, Kinds
<1>3. Good(DayOff(r), c, Approved)
  BY <1>2 DEF Good, Sound
<1>4. Suits(<<DayOff(r)>>, c, Approved)
  BY <1>2, <1>3 DEF Suits
<1> QED BY <1>1, <1>4 DEF Keeps

LEMMA TakenBackIsHarmless ==
  ASSUME OverlayInv, NEW r, NEW cells
  PROVE  Harmless(TakenBack(r, cells), cleared)
<1> SUFFICES ASSUME NEW c \in Cells \cap DOMAIN TakenBack(r, cells)
             PROVE  /\ Suits(TakenBack(r, cells)[c], c, Approved)
                    /\ Keeps(roster[c], TakenBack(r, cells)[c])
  BY DEF Harmless
<1> DEFINE I == {i \in DOMAIN roster[c] : Touched(roster[c][i], r)}
<1>1. TakenBack(r, cells)[c] = Kept(roster[c], I) /\ I \subseteq DOMAIN roster[c]
  BY DEF TakenBack
<1>2. \A i \in DOMAIN roster[c] : roster[c][i].leave # None => i \in I
  BY DEF Touched
<1>3. Suits(roster[c], c, Approved)
  BY DEF OverlayInv
<1> HIDE DEF I
<1> QED BY <1>1, <1>2, <1>3, KeptSuits

LEMMA NoCellsIsHarmless == Harmless(<<>>, cleared)
BY DEF Harmless

LEMMA HolidayDays ==
  ASSUME OverlayInv, NEW r \in Remarks, NEW d \in Days \cup {None},
         holiday' = [holiday EXCEPT ![r] = d]
  PROVE  holiday' \in [Remarks -> Days \cup {None}]
BY DEF OverlayInv, TypeOK

LEMMA HolidaysOverlay ==
  ASSUME OverlayInv, Calendar
  PROVE  OverlayInv' /\ KeepsLeaves
<1>0. cleared \subseteq Cells
  BY DEF OverlayInv, TypeOK
<1>1. ASSUME NEW r \in Remarks, NEW d \in Days, NEW automatic \in BOOLEAN,
             DeclareHoliday(r, d, automatic)
      PROVE  OverlayInv' /\ KeepsLeaves
  <2>1. PICK change : /\ change = IF automatic THEN Generated(r, d) ELSE <<>>
                      /\ Edit(change) /\ holiday' = [holiday EXCEPT ![r] = d] /\ cleared' = cleared
    BY <1>1 DEF DeclareHoliday
  <2>2. Harmless(change, cleared')
    BY <2>1, GeneratedIsHarmless, NoCellsIsHarmless
  <2>3. holiday' \in [Remarks -> Days \cup {None}]
    BY <2>1, HolidayDays
  <2> QED BY <1>0, <2>1, <2>2, <2>3, HarmlessEdit
<1>2. ASSUME NEW r \in Remarks, NEW d \in Days, NEW automatic \in BOOLEAN,
             MoveHoliday(r, d, automatic)
      PROVE  OverlayInv' /\ KeepsLeaves
  <2> DEFINE back == TakenBack(r, Employees \X {holiday[r]})
             made == IF automatic THEN Generated(r, d) ELSE <<>>
             change == [c \in DOMAIN back \cup DOMAIN made |->
                          IF c \in DOMAIN back THEN back[c] ELSE made[c]]
  <2>1. Edit(change) /\ holiday' = [holiday EXCEPT ![r] = d] /\ cleared' = cleared
    BY <1>2 DEF MoveHoliday
  <2>2. Harmless(back, cleared) /\ Harmless(made, cleared)
    BY TakenBackIsHarmless, GeneratedIsHarmless, NoCellsIsHarmless
  <2> HIDE DEF back, made
  <2>3. Harmless(change, cleared)
    BY <2>2 DEF Harmless
  <2>4. holiday' \in [Remarks -> Days \cup {None}]
    BY <2>1, HolidayDays
  <2> HIDE DEF change
  <2> QED BY <1>0, <2>1, <2>3, <2>4, HarmlessEdit
<1>3. ASSUME NEW r \in Remarks, DeleteHoliday(r) PROVE OverlayInv' /\ KeepsLeaves
  <2> DEFINE back == TakenBack(r, Cells)
             left(c) == IF c \in DOMAIN back THEN back[c] ELSE roster[c]
             Forgotten(s) == [i \in DOMAIN s |->
                                IF s[i].holiday = r THEN [s[i] EXCEPT !.holiday = None] ELSE s[i]]
             change == [c \in Cells |-> Forgotten(left(c))]
  <2>1. Edit(change) /\ holiday' = [holiday EXCEPT ![r] = None] /\ cleared' = cleared
    BY <1>3 DEF DeleteHoliday
  <2>2. Harmless(back, cleared)
    BY TakenBackIsHarmless
  <2>3. ASSUME NEW c \in Cells
        PROVE  Suits(left(c), c, Approved) /\ (c \in cleared \/ Keeps(roster[c], left(c)))
    BY <2>2 DEF Harmless, OverlayInv, Keeps
  <2> HIDE DEF back, left
  <2>4. ASSUME NEW c \in Cells
        PROVE  Suits(Forgotten(left(c)), c, Approved) /\ Keeps(left(c), Forgotten(left(c)))
    <3> DEFINE new == Forgotten(left(c))
    <3>1. ASSUME NEW i \in DOMAIN left(c)
          PROVE  Good(new[i], c, Approved) /\ new[i].leave = left(c)[i].leave
      <4>1. Good(left(c)[i], c, Approved) /\ left(c)[i] \in Shift
        BY <2>3 DEF Suits, Good, Sound
      <4>2. new[i] = IF left(c)[i].holiday = r THEN [left(c)[i] EXCEPT !.holiday = None]
                     ELSE left(c)[i]
        OBVIOUS
      <4>3. new[i] \in Shift /\ new[i].leave = left(c)[i].leave /\ new[i].kind = left(c)[i].kind
        BY <4>1, <4>2 DEF Shift
      <4> QED BY <4>1, <4>3 DEF Good, Sound
    <3>2. DOMAIN new = DOMAIN left(c) /\ new = [i \in DOMAIN left(c) |-> new[i]]
      OBVIOUS
    <3> HIDE DEF new
    <3>3. Suits(new, c, Approved) /\ Keeps(left(c), new)
      BY <2>3, <3>1, <3>2, ChangedSuits
    <3> QED BY <3>3 DEF new
  <2>5. \A c \in Cells : change[c] = Forgotten(left(c))
    OBVIOUS
  <2> HIDE DEF change, Forgotten
  <2>6. \A c \in Cells : c \in cleared \/ Keeps(roster[c], Forgotten(left(c)))
    BY <2>3, <2>4 DEF Keeps
  <2>7. Harmless(change, cleared)
    BY <2>4, <2>5, <2>6 DEF Harmless
  <2>8. holiday' \in [Remarks -> Days \cup {None}]
    BY <2>1, HolidayDays
  <2> QED BY <1>0, <2>1, <2>7, <2>8, HarmlessEdit
<1> QED BY <1>1, <1>2, <1>3 DEF Calendar

LEMMA PlannersOverlay ==
  ASSUME OverlayInv, Planners
  PROVE  OverlayInv' /\ KeepsLeaves
<1>1. \A cells \in Selections : cells \subseteq Cells
  BY RosterAssumption DEF Cells
<1>2. ASSUME NEW p \in Patterns, NEW overwrite \in BOOLEAN, ApplyTargets(p, overwrite)
      PROVE  OverlayInv' /\ KeepsLeaves
  <2>1. \A c \in DOMAIN p : p[c] \in Seq(Kinds)
    BY RosterAssumption
  <2> QED BY <1>2, <2>1, AppliedOverlay
<1>3. ASSUME NEW d \in Days, NEW to \in Days, NEW overwrite \in BOOLEAN,
             ApplyTargets(WeekTargets(Employees, {d}, to - d), overwrite)
      PROVE  OverlayInv' /\ KeepsLeaves
  <2>1. to - d \in Int
    BY RosterAssumption
  <2> QED BY <1>3, <2>1, WeekOfKinds, AppliedOverlay
<1>4. CASE \E cells \in Selections, k \in Statuses : CreateShifts(cells, k)
  BY <1>4, CreatedOverlay
<1>5. CASE \E e, f \in Employees, d, to \in Days : CopyShifts(e, {d}, f, to - d)
  BY <1>5, CopiedOverlay
<1>6. CASE \E c, to \in Cells : \E i \in DOMAIN roster[c] :
             \E k \in Statuses \cup {roster[c][i].kind} : UpdateShift(c, i, to, k)
  BY <1>6, UpdatedOverlay
<1>7. CASE \E c \in Cells : \E i \in DOMAIN roster[c] : DeleteShift(c, i)
  BY <1>7, DeletedOverlay
<1>8. CASE \E cells \in Selections, includeLeave \in BOOLEAN : BulkDelete(cells, includeLeave)
  BY <1>1, <1>8, BulkDeletedOverlay
<1>9. CASE \E cells \in Selections : Publish(cells) \/ Unpublish(cells)
  BY <1>1, <1>9, PublishedOverlay
<1> QED BY <1>2, <1>3, <1>4, <1>5, <1>6, <1>7, <1>8, <1>9 DEF Planners

-----------------------------------------------------------------------------
(* Leaves laid over days and lifted off them. What is underneath is what a *)
(* filter of the shifts finds, in order; a list that has the same planned  *)
(* shifts in the same order has the same underneath.                       *)
LEMMA Through ==
  ASSUME NEW s \in Seq(Shift), NEW new \in Seq(Shift), NEW g \in [DOMAIN new -> DOMAIN s],
         \A i, j \in DOMAIN new : i < j => g[i] < g[j],
         \A i \in DOMAIN new : IsPlanned(new[i]) <=> IsPlanned(s[g[i]]),
         \A i \in DOMAIN new : IsPlanned(new[i]) => AsPlanned(new[i]) = AsPlanned(s[g[i]]),
         \A k \in DOMAIN s : IsPlanned(s[k]) => \E i \in DOMAIN new : g[i] = k
  PROVE  Underneath(new) = Underneath(s)
<1> DEFINE P == {i \in DOMAIN s : IsPlanned(s[i])}
           Q == {i \in DOMAIN new : IsPlanned(new[i])}
<1>1. DOMAIN s \subseteq Nat /\ DOMAIN new \subseteq Nat
  OBVIOUS
<1>2. /\ P \subseteq DOMAIN s /\ Q \subseteq DOMAIN new /\ P \subseteq Nat
      /\ \A i \in Q : g[i] \in P /\ AsPlanned(new[i]) = AsPlanned(s[g[i]])
      /\ \A k \in P : \E i \in Q : g[i] = k
  BY <1>1
<1>3. /\ Underneath(s) = [i \in DOMAIN Kept(s, P) |-> AsPlanned(Kept(s, P)[i])]
      /\ Underneath(new) = [i \in DOMAIN Kept(new, Q) |-> AsPlanned(Kept(new, Q)[i])]
  BY DEF Underneath
<1> HIDE DEF P, Q
<1>4. PICK m \in Nat : \E f \in [1 .. m -> P] : Picks(Kept(s, P), s, P, m, f)
  BY <1>2, KeptPlaces
<1>5. PICK f \in [1 .. m -> P] : Picks(Kept(s, P), s, P, m, f)
  BY <1>4
<1>6. PICK n \in Nat : \E h \in [1 .. n -> Q] : Picks(Kept(new, Q), new, Q, n, h)
  BY <1>2, KeptPlaces
<1>7. PICK h \in [1 .. n -> Q] : Picks(Kept(new, Q), new, Q, n, h)
  BY <1>6
<1> DEFINE way == [i \in 1 .. n |-> g[h[i]]]
<1>8. way \in [1 .. n -> P]
  BY <1>2
<1>9. Ascends(P, n, way)
  <2>1. ASSUME NEW i \in 1 .. n, NEW j \in 1 .. n, i < j PROVE way[i] < way[j]
    <3>1. h[i] < h[j] /\ h[i] \in DOMAIN new /\ h[j] \in DOMAIN new
      BY <1>2, <1>7, <2>1 DEF Picks
    <3> QED BY <3>1
  <2>2. ASSUME NEW k \in P PROVE \E i \in 1 .. n : way[i] = k
    <3>1. PICK q \in Q : g[q] = k
      BY <1>2
    <3>2. PICK i \in 1 .. n : h[i] = q
      BY <1>7 DEF Picks
    <3> QED BY <3>1, <3>2
  <2> QED BY <2>1, <2>2 DEF Ascends
<1>10. Ascends(P, m, f)
  BY <1>5 DEF Picks, Ascends
<1> HIDE DEF way
<1>11. m = n /\ f = way
  BY <1>2, <1>8, <1>9, <1>10, PlacesAreTheSame
<1>12. Kept(s, P) = [i \in 1 .. n |-> s[f[i]]] /\ Kept(new, Q) = [i \in 1 .. n |-> new[h[i]]]
  BY <1>5, <1>7, <1>11 DEF Picks
<1>13. \A i \in 1 .. n : AsPlanned(Kept(new, Q)[i]) = AsPlanned(Kept(s, P)[i])
  <2> SUFFICES ASSUME NEW i \in 1 .. n PROVE AsPlanned(new[h[i]]) = AsPlanned(s[f[i]])
    BY <1>12
  <2>1. f[i] = g[h[i]] /\ h[i] \in Q
    BY <1>11 DEF way
  <2> QED BY <1>2, <2>1
<1> QED BY <1>3, <1>12, <1>13

Owned(those, c, leaves) ==
  /\ those \in Seq(Shift)
  /\ \A i \in DOMAIN those :
       /\ Sound(those[i])
       /\ those[i].leave # None => those[i].leave \in leaves /\ LeaveOf[those[i].leave] = c[1]

LEMMA OneShift ==
  ASSUME NEW x \in Shift
  PROVE  /\ <<x>> \in Seq(Shift) /\ DOMAIN <<x>> = {1} /\ <<x>>[1] = x
         /\ <<>> \in Seq(Shift) /\ DOMAIN <<>> = {}
OBVIOUS

LEMMA ClaimedShift ==
  ASSUME NEW s, Sound(s), NEW l \in Leaves
  PROVE  /\ Sound(Claimed(s, l)) /\ Claimed(s, l).kind = "leave"
         /\ Claimed(s, l).leave = IF s.leave = None THEN l ELSE s.leave
         /\ IsPlanned(Claimed(s, l)) <=> IsPlanned(s)
         /\ IsPlanned(s) => AsPlanned(Claimed(s, l)) = AsPlanned(s)
<1>1. CASE s.leave = None
  <2> DEFINE new == Claimed(s, l)
  <2>1. s \in Shift /\ s.kind \in Kinds /\ s.published \in BOOLEAN
    BY <1>1 DEF Sound, Shift
  <2>2. s.kind # None /\ l # None
    BY <2>1, RosterAssumption
  <2>3. /\ new \in Shift /\ new.kind = "leave" /\ new.leave = l /\ new.hidden = s.kind
        /\ new.was = s.published
    BY <1>1, <2>1 DEF Claimed, Shift, Kinds
  <2> HIDE DEF new
  <2> QED BY <1>1, <2>2, <2>3 DEF Sound, IsPlanned, AsPlanned, new
<1>2. CASE s.leave # None
  BY <1>2 DEF Claimed, Sound
<1> QED BY <1>1, <1>2

LEMMA CoveredFacts ==
  ASSUME NEW leaves, NEW c, NEW s, Owned(s, c, leaves),
         NEW l \in Leaves, l \in leaves, LeaveOf[l] = c[1]
  PROVE  /\ Suits(Covered(s, l), c, leaves) /\ OnLeave(Covered(s, l))
         /\ Keeps(s, Covered(s, l)) /\ Underneath(Covered(s, l)) = Underneath(s)
<1>1. l # None
  BY RosterAssumption
<1>2. CASE s = <<>>
  <2> DEFINE made == MadeFor(l)
  <2>1. /\ made \in Shift /\ made.kind = "leave" /\ made.leave = l /\ made.hidden = None
    BY DEF MadeFor, Draft, Shift, Kinds
  <2>2. Covered(s, l) = <<made>>
    BY <1>2 DEF Covered
  <2>3. Good(made, c, leaves) /\ ~IsPlanned(made)
    BY <1>1, <2>1 DEF Good, Sound, IsPlanned
  <2> HIDE DEF made
  <2> DEFINE new == <<made>>
  <2>4. new \in Seq(Shift) /\ DOMAIN new = {1} /\ new[1] = made /\ s \in Seq(Shift) /\ DOMAIN s = {}
    BY <1>2, <2>1, OneShift
  <2> HIDE DEF new
  <2>5. Suits(new, c, leaves) /\ OnLeave(new) /\ Keeps(s, new)
    BY <1>1, <2>1, <2>3, <2>4 DEF Suits, OnLeave, Keeps
  <2>6. Underneath(new) = Underneath(s)
    <3> DEFINE g == [i \in {} |-> i]
    <3>1. g \in [DOMAIN s -> DOMAIN new]
      BY <2>4
    <3> HIDE DEF g
    <3>2. Underneath(s) = Underneath(new)
      BY <2>3, <2>4, <3>1, Through
    <3> QED BY <3>2
  <2> QED BY <2>2, <2>5, <2>6 DEF new
<1>3. CASE s # <<>>
  <2> DEFINE new == [i \in DOMAIN s |-> Claimed(s[i], l)]
  <2>1. Covered(s, l) = new
    BY <1>3 DEF Covered
  <2>2. DOMAIN s = 1 .. Len(s) /\ Len(s) \in Nat /\ 1 \in DOMAIN s /\ s \in Seq(Shift)
    BY <1>3 DEF Owned
  <2>3. ASSUME NEW i \in DOMAIN s
        PROVE  /\ Good(new[i], c, leaves) /\ new[i].leave # None
               /\ s[i].leave # None => new[i].leave = s[i].leave
               /\ IsPlanned(new[i]) <=> IsPlanned(s[i])
               /\ IsPlanned(s[i]) => AsPlanned(new[i]) = AsPlanned(s[i])
    <3>1. Sound(s[i]) /\ (s[i].leave # None => s[i].leave \in leaves /\ LeaveOf[s[i].leave] = c[1])
      BY DEF Owned
    <3>2. new[i] = Claimed(s[i], l)
      OBVIOUS
    <3> HIDE DEF new
    <3>3. /\ Sound(new[i]) /\ new[i].kind = "leave"
          /\ new[i].leave = IF s[i].leave = None THEN l ELSE s[i].leave
          /\ IsPlanned(new[i]) <=> IsPlanned(s[i])
          /\ IsPlanned(s[i]) => AsPlanned(new[i]) = AsPlanned(s[i])
      BY <3>1, <3>2, ClaimedShift
    <3> QED BY <1>1, <3>1, <3>3 DEF Good
  <2>4. DOMAIN new = DOMAIN s /\ new = [i \in 1 .. Len(s) |-> new[i]]
    BY <2>2
  <2> HIDE DEF new
  <2>5. Suits(new, c, leaves)
    BY <2>2, <2>3, <2>4, NewSuits
  <2>6. OnLeave(new) /\ Keeps(s, new)
    BY <2>2, <2>3, <2>4 DEF OnLeave, Keeps
  <2>7. Underneath(new) = Underneath(s)
    <3> DEFINE g == [i \in DOMAIN new |-> i]
    <3>1. g \in [DOMAIN new -> DOMAIN s] /\ \A i \in DOMAIN new : g[i] = i
      BY <2>4
    <3> HIDE DEF g
    <3>2. new \in Seq(Shift) /\ \A k \in DOMAIN s : \E i \in DOMAIN new : g[i] = k
      BY <2>4, <2>5, <3>1 DEF Suits
    <3>3. /\ \A i \in DOMAIN new : IsPlanned(new[i]) <=> IsPlanned(s[g[i]])
          /\ \A i \in DOMAIN new : IsPlanned(new[i]) => AsPlanned(new[i]) = AsPlanned(s[g[i]])
      BY <2>3, <2>4, <3>1
    <3>4. \A i, j \in DOMAIN new : i < j => g[i] < g[j]
      BY <3>1
    <3>5. \A k \in DOMAIN s : IsPlanned(s[k]) => \E i \in DOMAIN new : g[i] = k
      BY <3>2
    <3>6. s \in Seq(Shift) /\ new \in Seq(Shift) /\ g \in [DOMAIN new -> DOMAIN s]
      BY <2>2, <3>1, <3>2
    <3> QED BY <3>3, <3>4, <3>5, <3>6, Through, Zenon
  <2> QED BY <2>1, <2>5, <2>6, <2>7
<1> QED BY <1>2, <1>3

LEMMA RestoredShift ==
  ASSUME NEW s, Sound(s), s.leave # None, s.hidden # None
  PROVE  /\ Sound(Restored(s)) /\ Restored(s).leave = None /\ IsPlanned(s)
         /\ IsPlanned(Restored(s)) /\ AsPlanned(Restored(s)) = AsPlanned(s)
<1> DEFINE new == Restored(s)
<1>1. s \in Shift /\ s.hidden \in Kinds /\ s.was \in BOOLEAN
  BY DEF Sound, Shift
<1>2. /\ new \in Shift /\ new.kind = s.hidden /\ new.leave = None /\ new.hidden = None
      /\ new.published = s.was
  BY <1>1 DEF Restored, Shift
<1> HIDE DEF new
<1> QED BY <1>1, <1>2 DEF Sound, IsPlanned, AsPlanned, new

LEMMA LiftedFacts ==
  ASSUME NEW leaves, NEW c, NEW s, Suits(s, c, leaves), NEW l, l # None
  PROVE  /\ Owned(Lifted(s, l), c, leaves \ {l})
         /\ ~Counts(leaves \ {l}, c) => Suits(Lifted(s, l), c, leaves \ {l})
         /\ \A i \in DOMAIN s : s[i].leave # None /\ s[i].leave # l =>
              \E j \in DOMAIN Lifted(s, l) : Lifted(s, l)[j].leave = s[i].leave
         /\ Underneath(Lifted(s, l)) = Underneath(s)
<1> DEFINE I == {i \in DOMAIN s : s[i].leave # l \/ s[i].hidden # None}
           kept == Kept(s, I)
           new == [i \in DOMAIN kept |-> IF kept[i].leave = l THEN Restored(kept[i]) ELSE kept[i]]
<1>1. Lifted(s, l) = new
  BY DEF Lifted
<1>2. s \in Seq(Shift) /\ DOMAIN s \subseteq Nat /\ \A i \in DOMAIN s : Good(s[i], c, leaves)
  BY DEF Suits
<1>3. I \subseteq DOMAIN s /\ \A i \in I : s[i].leave # l \/ s[i].hidden # None
  OBVIOUS
<1>4. \A i \in DOMAIN s : s[i].leave # l => i \in I
  OBVIOUS
<1>5. \A i \in DOMAIN s : IsPlanned(s[i]) => i \in I
  BY DEF IsPlanned
<1> HIDE DEF I
<1>6. PICK m \in Nat : \E g \in [1 .. m -> I] : Picks(kept, s, I, m, g)
  BY <1>2, <1>3, KeptPlaces
<1>7. PICK g \in [1 .. m -> I] : Picks(kept, s, I, m, g)
  BY <1>6
<1>8. /\ DOMAIN kept = 1 .. m /\ \A i \in 1 .. m : kept[i] = s[g[i]]
      /\ \A i, j \in 1 .. m : i < j => g[i] < g[j]
      /\ \A k \in I : \E i \in 1 .. m : g[i] = k
  BY <1>7 DEF Picks
<1>9. /\ DOMAIN new = 1 .. m /\ new = [i \in 1 .. m |-> new[i]]
      /\ \A i \in 1 .. m : new[i] = IF s[g[i]].leave = l THEN Restored(s[g[i]]) ELSE s[g[i]]
  BY <1>8
<1> HIDE DEF new, kept
<1>10. ASSUME NEW i \in 1 .. m
       PROVE  /\ Sound(new[i])
              /\ new[i].leave = IF s[g[i]].leave = l THEN None ELSE s[g[i]].leave
              /\ IsPlanned(new[i]) <=> IsPlanned(s[g[i]])
              /\ AsPlanned(new[i]) = AsPlanned(s[g[i]])
              /\ s[g[i]].leave # l => new[i] = s[g[i]]
              /\ s[g[i]].leave # None => s[g[i]].leave \in leaves /\ LeaveOf[s[g[i]].leave] = c[1]
              /\ s[g[i]].kind = "work" => ~Counts(leaves, c)
  <2>1. g[i] \in I /\ g[i] \in DOMAIN s /\ Good(s[g[i]], c, leaves)
    BY <1>2, <1>3
  <2>2. CASE s[g[i]].leave = l
    <3>1. s[g[i]].hidden # None /\ new[i] = Restored(s[g[i]])
      BY <1>3, <1>9, <2>1, <2>2
    <3> QED BY <2>1, <2>2, <3>1, RestoredShift DEF Good
  <2>3. CASE s[g[i]].leave # l
    BY <1>9, <2>1, <2>3 DEF Good
  <2> QED BY <2>2, <2>3
<1>11. \A i \in 1 .. m : new[i] \in Shift
  BY <1>10 DEF Sound
<1>12. new \in Seq(Shift)
  <2>1. new \in [1 .. m -> Shift]
    BY <1>9, <1>11
  <2> QED BY <2>1
<1>13. Owned(new, c, leaves \ {l})
  BY <1>9, <1>10, <1>12 DEF Owned
<1>14. ASSUME ~Counts(leaves \ {l}, c) PROVE Suits(new, c, leaves \ {l})
  BY <1>13, <1>14, <1>9 DEF Owned, Suits, Good
<1>15. ASSUME NEW i \in DOMAIN s, s[i].leave # None, s[i].leave # l
       PROVE  \E j \in DOMAIN new : new[j].leave = s[i].leave
  <2>1. i \in I
    BY <1>4, <1>15
  <2>2. PICK j \in 1 .. m : g[j] = i
    BY <1>8, <2>1
  <2> QED BY <1>9, <1>10, <1>15, <2>2
<1>16. Underneath(new) = Underneath(s)
  <2>1. g \in [DOMAIN new -> DOMAIN s]
    BY <1>3, <1>9
  <2>2. \A i, j \in DOMAIN new : i < j => g[i] < g[j]
    BY <1>8, <1>9
  <2>3. /\ \A i \in DOMAIN new : IsPlanned(new[i]) <=> IsPlanned(s[g[i]])
        /\ \A i \in DOMAIN new : IsPlanned(new[i]) => AsPlanned(new[i]) = AsPlanned(s[g[i]])
    BY <1>9, <1>10
  <2>4. \A k \in DOMAIN s : IsPlanned(s[k]) => \E i \in DOMAIN new : g[i] = k
    BY <1>5, <1>8, <1>9
  <2> QED BY <1>2, <1>12, <2>1, <2>2, <2>3, <2>4, Through, Zenon
<1> QED BY <1>1, <1>13, <1>14, <1>15, <1>16

(* The first reviewed of some approved leaves is one of them.              *)
LEMMA FirstOfLeaves ==
  ASSUME TypeOK, NEW leaves, leaves \subseteq Approved, leaves # {}
  PROVE  First(leaves) \in leaves
<1> DEFINE places == {Position(l) : l \in leaves}
<1>1. \A l \in leaves : Position(l) \in DOMAIN approved
  BY DEF Position, Approved
<1>2. \A i \in DOMAIN approved : i \in Nat
  BY DEF TypeOK
<1>3. places \subseteq Nat /\ places # {}
  BY <1>1, <1>2
<1> HIDE DEF places
<1>4. \E p \in places : \A q \in places : p <= q
  BY <1>3, LeastExists
<1>5. \E l \in leaves : \A n \in leaves : Position(l) <= Position(n)
  BY <1>4 DEF places
<1> QED BY <1>5 DEF First

LoseNothing == \A c \in Cells : Underneath(roster[c])' = Underneath(roster[c])

LEMMA LeaveWrite ==
  ASSUME OverlayInv, NEW change, Write(change), approved' \in Seq(Leaves),
         UNCHANGED <<holiday, locked, cleared, writes>>,
         \A c \in Cells :
           /\ Suits(roster'[c], c, Approved')
           /\ c \notin cleared /\ Counts(Approved', c) => OnLeave(roster'[c])
           /\ \A i \in DOMAIN roster[c] :
                roster[c][i].leave # None /\ roster[c][i].leave \in Approved' =>
                  \E j \in DOMAIN roster'[c] : roster'[c][j].leave = roster[c][i].leave
           /\ Underneath(roster'[c]) = Underneath(roster[c])
  PROVE  OverlayInv' /\ KeepsLeaves /\ LoseNothing
<1>1. TypeOK'
  <2>1. \A c \in Cells : roster'[c] \in Seq(Shift)
    BY DEF Suits
  <2>2. roster' = [c \in Cells |-> roster'[c]]
    <3>1. roster' = [c \in Cells |-> IF c \in DOMAIN change THEN change[c] ELSE roster[c]]
      BY DEF Write
    <3> QED BY <3>1
  <2>3. roster' \in [Cells -> Seq(Shift)]
    BY <2>1, <2>2
  <2> QED BY <2>3 DEF OverlayInv, TypeOK, Cells
<1>2. OverlayInv'
  BY <1>1 DEF OverlayInv, Cells
<1>3. KeepsLeaves
  <2>1. \A l \in Approved : l # None
    BY RosterAssumption DEF OverlayInv, TypeOK, Approved
  <2>2. ASSUME NEW l \in Approved, l \in Approved', NEW c \in HeldBy(l) PROVE c \in HeldBy(l)'
    <3>1. PICK i \in DOMAIN roster[c] : roster[c][i].leave = l
      BY <2>2 DEF HeldBy
    <3>2. c \in Cells
      BY <2>2 DEF HeldBy
    <3>3. PICK j \in DOMAIN roster'[c] : roster'[c][j].leave = l
      BY <2>1, <2>2, <3>1, <3>2
    <3> QED BY <3>2, <3>3 DEF HeldBy, Cells
  <2> QED BY <2>2 DEF KeepsLeaves
<1>4. LoseNothing
  BY DEF LoseNothing, Underneath
<1> QED BY <1>2, <1>3, <1>4

LEMMA ApprovedOverlay ==
  ASSUME OverlayInv, NEW l \in Leaves, ApproveLeave(l)
  PROVE  OverlayInv' /\ KeepsLeaves /\ LoseNothing
<1> DEFINE cells == {LeaveOf[l]} \X Counted[l]
           change == [c \in cells |-> Covered(roster[c], l)]
<1>1. /\ Write(change) /\ approved' = Append(approved, l)
      /\ UNCHANGED <<holiday, locked, cleared, writes>>
  BY DEF ApproveLeave
<1>2. approved \in Seq(Leaves)
  BY DEF OverlayInv, TypeOK
<1>3. approved' \in Seq(Leaves) /\ Approved' = Approved \cup {l}
  <2>1. /\ approved' \in Seq(Leaves) /\ approved'[Len(approved) + 1] = l
        /\ DOMAIN approved' = 1 .. Len(approved) + 1 /\ DOMAIN approved = 1 .. Len(approved)
        /\ \A i \in 1 .. Len(approved) : approved'[i] = approved[i]
    BY <1>1, <1>2, AppendFacts
  <2>2. Len(approved) \in Nat
    BY <1>2
  <2>3. \A i \in DOMAIN approved' : i \in DOMAIN approved \/ i = Len(approved) + 1
    BY <2>1, <2>2
  <2>4. \A i \in DOMAIN approved : i \in DOMAIN approved'
    BY <2>1, <2>2
  <2>5. Len(approved) + 1 \in DOMAIN approved'
    BY <2>1, <2>2
  <2> QED BY <2>1, <2>3, <2>4, <2>5 DEF Approved
<1>4. \A c \in Cells : roster'[c] = IF c \in cells THEN Covered(roster[c], l) ELSE roster[c]
  BY <1>1 DEF Write
<1>5. \A c \in cells : LeaveOf[l] = c[1]
  OBVIOUS
<1>6. \A c \in Cells \ cells : Counts(Approved', c) => Counts(Approved, c)
  <2> SUFFICES ASSUME NEW c \in Cells \ cells, LeaveOf[l] = c[1], c[2] \in Counted[l] PROVE FALSE
    BY <1>3 DEF Counts
  <2> QED BY DEF Cells
<1> HIDE DEF cells, change
<1>7. ASSUME NEW c \in Cells
      PROVE  /\ Suits(roster'[c], c, Approved')
             /\ c \notin cleared /\ Counts(Approved', c) => OnLeave(roster'[c])
             /\ Keeps(roster[c], roster'[c])
             /\ Underneath(roster'[c]) = Underneath(roster[c])
  <2>1. Suits(roster[c], c, Approved)
    BY DEF OverlayInv
  <2>2. CASE c \in cells
    <3>1. Owned(roster[c], c, Approved')
      BY <1>3, <2>1 DEF Owned, Suits, Good
    <3>2. /\ Suits(Covered(roster[c], l), c, Approved') /\ OnLeave(Covered(roster[c], l))
          /\ Keeps(roster[c], Covered(roster[c], l))
          /\ Underneath(Covered(roster[c], l)) = Underneath(roster[c])
      BY <1>3, <1>5, <2>2, <3>1, CoveredFacts
    <3> QED BY <1>4, <2>2, <3>2
  <2>3. CASE c \notin cells
    <3>1. roster'[c] = roster[c] /\ (Counts(Approved', c) => Counts(Approved, c))
      BY <1>4, <1>6, <2>3
    <3>2. Suits(roster[c], c, Approved')
      BY <1>3, <2>1, <3>1 DEF Suits, Good
    <3> QED BY <3>1, <3>2 DEF OverlayInv, Keeps
  <2> QED BY <2>2, <2>3
<1>8. \A c \in Cells : \A i \in DOMAIN roster[c] :
        roster[c][i].leave # None /\ roster[c][i].leave \in Approved' =>
          \E j \in DOMAIN roster'[c] : roster'[c][j].leave = roster[c][i].leave
  BY <1>7 DEF Keeps
<1> QED BY <1>1, <1>3, <1>7, <1>8, LeaveWrite

LEMMA RevokedOverlay ==
  ASSUME OverlayInv, NEW l \in Leaves, RevokeLeave(l)
  PROVE  OverlayInv' /\ KeepsLeaves /\ LoseNothing
<1> DEFINE again == {c \in Freed(l) : Others(l, c) # {}}
           Left(c) == Lifted(roster[c], l)
           cells == HeldBy(l) \cup again
           change == [c \in cells |-> IF c \in again THEN Covered(Left(c), First(Others(l, c))) ELSE Left(c)]
           places == {i \in DOMAIN approved : approved[i] # l}
<1>1. /\ Write(change) /\ approved' = Kept(approved, places)
      /\ UNCHANGED <<holiday, locked, cleared, writes>>
  BY DEF RevokeLeave
<1>2. approved \in Seq(Leaves) /\ TypeOK /\ l # None
  BY RosterAssumption DEF OverlayInv, TypeOK
<1>3. approved' \in Seq(Leaves) /\ Approved' = Approved \ {l}
  <2>1. places \subseteq DOMAIN approved /\ \A i \in DOMAIN approved : i \in places <=> approved[i] # l
    OBVIOUS
  <2> HIDE DEF places
  <2>2. PICK m \in Nat : \E g \in [1 .. m -> places] : Picks(approved', approved, places, m, g)
    BY <1>1, <1>2, <2>1, KeptPlaces
  <2>3. PICK g \in [1 .. m -> places] : Picks(approved', approved, places, m, g)
    BY <2>2
  <2>4. /\ approved' = [i \in 1 .. m |-> approved[g[i]]]
        /\ \A k \in places : \E i \in 1 .. m : g[i] = k
    BY <2>3 DEF Picks
  <2>5. \A i \in 1 .. m : approved[g[i]] \in Leaves /\ approved[g[i]] # l /\ g[i] \in DOMAIN approved
    BY <1>2, <2>1
  <2>6. approved' \in [1 .. m -> Leaves]
    BY <2>4, <2>5
  <2>7. approved' \in Seq(Leaves)
    BY <2>6
  <2>8. Approved' \subseteq Approved \ {l}
    BY <2>4, <2>5 DEF Approved
  <2>9. ASSUME NEW k \in Approved \ {l} PROVE k \in Approved'
    <3>1. PICK i \in places : approved[i] = k
      BY <2>1, <2>9 DEF Approved
    <3>2. PICK j \in 1 .. m : g[j] = i
      BY <2>4
    <3>3. approved'[j] = k /\ j \in DOMAIN approved'
      BY <2>4, <3>1, <3>2
    <3> QED BY <3>3 DEF Approved
  <2> QED BY <2>7, <2>8, <2>9
<1>4. \A c \in Cells : roster'[c] =
        IF c \in cells THEN IF c \in again THEN Covered(Left(c), First(Others(l, c))) ELSE Left(c)
        ELSE roster[c]
  BY <1>1 DEF Write
<1>5. \A c \in Cells : Suits(roster[c], c, Approved)
  BY DEF OverlayInv
<1>6. HeldBy(l) \subseteq Freed(l)
  <2> SUFFICES ASSUME NEW c \in HeldBy(l) PROVE c \in Freed(l)
    OBVIOUS
  <2>1. PICK i \in DOMAIN roster[c] : roster[c][i].leave = l
    BY DEF HeldBy
  <2>2. c \in Cells
    BY DEF HeldBy
  <2>3. LeaveOf[l] = c[1]
    BY <1>2, <1>5, <2>1, <2>2 DEF Suits, Good
  <2>4. c[2] \in Int
    BY <2>2, RosterAssumption DEF Cells
  <2>5. c[2] <= c[2]
    BY <2>4
  <2> QED BY <2>2, <2>3, <2>5 DEF Freed
<1>7. ASSUME NEW c \in Cells, Counts(Approved', c) PROVE Others(l, c) # {}
  <2>1. PICK k \in Approved' : LeaveOf[k] = c[1] /\ c[2] \in Counted[k]
    BY <1>7 DEF Counts
  <2>2. k \in Approved \ {l} /\ k \in Leaves
    BY <1>2, <1>3, <2>1 DEF Approved
  <2>3. c[2] \in Span[k]
    BY <2>1, <2>2, RosterAssumption
  <2> QED BY <2>1, <2>2, <2>3 DEF Others
<1>8. \A c \in Cells \ HeldBy(l) : \A i \in DOMAIN roster[c] : roster[c][i].leave # l
  BY DEF HeldBy
<1>9. \A c \in again : /\ c \in Cells /\ First(Others(l, c)) \in Approved' /\ First(Others(l, c)) \in Leaves
                       /\ LeaveOf[First(Others(l, c))] = c[1]
  <2> SUFFICES ASSUME NEW c \in again
               PROVE  /\ c \in Cells /\ First(Others(l, c)) \in Approved'
                      /\ First(Others(l, c)) \in Leaves /\ LeaveOf[First(Others(l, c))] = c[1]
    OBVIOUS
  <2>1. c \in Cells /\ Others(l, c) # {}
    BY DEF Freed
  <2>2. Others(l, c) \subseteq Approved
    BY DEF Others
  <2>3. First(Others(l, c)) \in Others(l, c)
    BY <1>2, <2>1, <2>2, FirstOfLeaves
  <2> DEFINE heir == First(Others(l, c))
  <2>4. heir \in Others(l, c)
    BY <2>3
  <2> HIDE DEF heir
  <2>5. heir \in Approved \ {l} /\ LeaveOf[heir] = c[1]
    BY <2>4 DEF Others
  <2>6. heir \in Leaves
    BY <1>2, <2>5 DEF TypeOK, Approved
  <2> QED BY <1>3, <2>1, <2>5, <2>6 DEF heir
<1>10. \A c \in cells : c \in Cells
  BY <1>9 DEF HeldBy
<1>11. \A c \in Cells \ again : c \in HeldBy(l) => ~Counts(Approved', c)
  BY <1>6, <1>7
<1> HIDE DEF again, change, places
<1>12. ASSUME NEW c \in Cells
       PROVE  /\ Suits(roster'[c], c, Approved')
              /\ c \notin cleared /\ Counts(Approved', c) => OnLeave(roster'[c])
              /\ \A i \in DOMAIN roster[c] :
                   roster[c][i].leave # None /\ roster[c][i].leave # l =>
                     \E j \in DOMAIN roster'[c] : roster'[c][j].leave = roster[c][i].leave
              /\ Underneath(roster'[c]) = Underneath(roster[c])
  <2>1. /\ Owned(Left(c), c, Approved')
        /\ ~Counts(Approved', c) => Suits(Left(c), c, Approved')
        /\ \A i \in DOMAIN roster[c] : roster[c][i].leave # None /\ roster[c][i].leave # l =>
             \E j \in DOMAIN Left(c) : Left(c)[j].leave = roster[c][i].leave
        /\ Underneath(Left(c)) = Underneath(roster[c])
    <3> DEFINE s == roster[c]
               leaves == Approved \ {l}
    <3>1. Suits(s, c, Approved) /\ l # None /\ leaves = Approved'
      BY <1>2, <1>3, <1>5
    <3> HIDE DEF s
    <3>2. /\ Owned(Lifted(s, l), c, leaves)
          /\ ~Counts(leaves, c) => Suits(Lifted(s, l), c, leaves)
          /\ \A i \in DOMAIN s : s[i].leave # None /\ s[i].leave # l =>
               \E j \in DOMAIN Lifted(s, l) : Lifted(s, l)[j].leave = s[i].leave
          /\ Underneath(Lifted(s, l)) = Underneath(s)
      BY <3>1, LiftedFacts
    <3> HIDE DEF leaves
    <3> QED BY <3>1, <3>2, Zenon DEF s
  <2> HIDE DEF Left
  <2>2. CASE c \in again
    <3> DEFINE heir == First(Others(l, c))
               new == Covered(Left(c), heir)
    <3>1. heir \in Leaves /\ heir \in Approved' /\ LeaveOf[heir] = c[1]
      BY <1>9, <2>2
    <3>2. roster'[c] = new
      BY <1>4, <2>2
    <3> HIDE DEF heir
    <3>3. /\ Suits(new, c, Approved') /\ OnLeave(new) /\ Keeps(Left(c), new)
          /\ Underneath(new) = Underneath(Left(c))
      BY <2>1, <3>1, CoveredFacts
    <3> HIDE DEF new
    <3>4. ASSUME NEW i \in DOMAIN roster[c], roster[c][i].leave # None, roster[c][i].leave # l
          PROVE  \E j \in DOMAIN new : new[j].leave = roster[c][i].leave
      <4>1. PICK j \in DOMAIN Left(c) : Left(c)[j].leave = roster[c][i].leave
        BY <2>1, <3>4
      <4> QED BY <3>3, <3>4, <4>1 DEF Keeps
    <3> QED BY <2>1, <3>2, <3>3, <3>4
  <2>3. CASE c \notin again /\ c \in HeldBy(l)
    <3>1. roster'[c] = Left(c) /\ ~Counts(Approved', c)
      BY <1>4, <1>11, <2>3
    <3> QED BY <2>1, <3>1
  <2>4. CASE c \notin again /\ c \notin HeldBy(l)
    <3>1. roster'[c] = roster[c] /\ \A i \in DOMAIN roster[c] : roster[c][i].leave # l
      BY <1>4, <1>8, <2>4
    <3>2. Counts(Approved', c) => Counts(Approved, c)
      BY <1>3 DEF Counts
    <3>3. Suits(roster[c], c, Approved')
      <4>1. ASSUME NEW i \in DOMAIN roster[c] PROVE Good(roster[c][i], c, Approved')
        <5>1. Good(roster[c][i], c, Approved) /\ roster[c][i].leave # l
          BY <1>5, <3>1 DEF Suits
        <5> QED BY <1>3, <3>2, <5>1 DEF Good
      <4> QED BY <1>5, <4>1 DEF Suits
    <3> QED BY <3>1, <3>2, <3>3 DEF OverlayInv
  <2> QED BY <2>2, <2>3, <2>4
<1>13. \A c \in Cells : \A i \in DOMAIN roster[c] :
         roster[c][i].leave # None /\ roster[c][i].leave \in Approved' =>
           \E j \in DOMAIN roster'[c] : roster'[c][j].leave = roster[c][i].leave
  BY <1>3, <1>12
<1> QED BY <1>1, <1>3, <1>12, <1>13, LeaveWrite

-----------------------------------------------------------------------------
(* A request that is carried out touches only days that no leave holds,    *)
(* and puts on them only what fits.                                        *)
LEMMA ShiftsThatFit ==
  ASSUME OverlayInv, NEW c, NEW s, Sound(s), s.leave = None, Fits(c, s.kind)
  PROVE  Good(s, c, Approved)
<1>1. ASSUME s.kind = "work" PROVE ~Counts(Approved, c)
  <2>1. \A l \in Approved : Counted[l] \subseteq Span[l]
    BY RosterAssumption DEF OverlayInv, TypeOK, Approved
  <2> QED BY <1>1, <2>1 DEF Fits, LeaveDays, Counts
<1> QED BY <1>1 DEF Good

LEMMA SameRows ==
  ASSUME OverlayInv, NEW c \in Cells, ~Held(c), NEW new,
         new = [i \in DOMAIN roster[c] |-> new[i]],
         \A i \in DOMAIN roster[c] :
           /\ new[i] \in Shift
           /\ new[i].leave = roster[c][i].leave
  PROVE  \E n \in Nat : /\ new = [i \in 1 .. n |-> new[i]]
                        /\ \A i \in 1 .. n : Sound(new[i]) /\ new[i].leave = None
<1>1. roster[c] \in Seq(Shift)
  BY DEF OverlayInv, Suits
<1>2. DOMAIN roster[c] = 1 .. Len(roster[c]) /\ Len(roster[c]) \in Nat
  BY <1>1
<1>3. \A i \in DOMAIN roster[c] : roster[c][i].leave = None
  BY DEF Held
<1> QED BY <1>2, <1>3 DEF Sound

LEMMA CarriedOutOverlay ==
  ASSUME OverlayInv, NEW r \in Request, r.by # r.with, CarryOut(r)
  PROVE  OverlayInv' /\ KeepsLeaves
<1> DEFINE change == IF r.with = None THEN Changed(r) ELSE Swapped(r)
<1>1. /\ \A c \in Involved(r) \X r.days : ~Held(c)
      /\ \A c \in DOMAIN change : \A i \in DOMAIN change[c] : Fits(c, change[c][i].kind)
      /\ Write(change)
      /\ UNCHANGED <<approved, holiday, locked, cleared, writes>>
  BY DEF CarryOut, Possible
<1>2. /\ r.by \in Employees /\ r.with \in Employees \cup {None} /\ r.days \subseteq Days
      /\ r.wish \in {"work", "rest", "times"}
  BY DEF Request
<1>3. DOMAIN change \subseteq Involved(r) \X r.days
  BY DEF Changed, Swapped, Involved
<1>4. Involved(r) \X r.days \subseteq Cells
  BY <1>2 DEF Involved, Cells
<1>5. \A c \in Cells : \A i \in DOMAIN roster[c] : roster[c][i] \in Shift /\ Sound(roster[c][i])
  BY DEF OverlayInv, Suits, Good, Sound
<1>6. ASSUME NEW c \in DOMAIN change
      PROVE  \E n \in Nat : /\ change[c] = [i \in 1 .. n |-> change[c][i]]
                            /\ \A i \in 1 .. n : Sound(change[c][i]) /\ change[c][i].leave = None
  <2>1. c \in Cells /\ ~Held(c)
    BY <1>1, <1>3, <1>4
  <2>3. CASE r.with = None
    <3>1. change[c] = IF roster[c] = <<>>
                      THEN <<[Draft(IF r.wish = "times" THEN "work" ELSE r.wish) EXCEPT !.published = TRUE]>>
                      ELSE [i \in DOMAIN roster[c] |->
                              [roster[c][i] EXCEPT !.kind = IF r.wish = "times" THEN @ ELSE r.wish,
                                                   !.holiday = None]]
      BY <2>3 DEF Changed
    <3> HIDE DEF change
    <3>2. CASE roster[c] = <<>>
      <4> DEFINE k == IF r.wish = "times" THEN "work" ELSE r.wish
                 x == [Draft(k) EXCEPT !.published = TRUE]
      <4>1. k \in Kinds
        BY <1>2 DEF Kinds
      <4> HIDE DEF k
      <4>2. x \in Shift /\ x.kind = k /\ x.leave = None
        BY <4>1 DEF Draft, Shift
      <4>3. change[c] = <<x>>
        BY <3>1, <3>2 DEF k
      <4> HIDE DEF x
      <4>4. change[c] = [i \in 1 .. 1 |-> x]
        BY <4>3
      <4> QED BY <4>1, <4>2, <4>4 DEF Sound
    <3>3. CASE roster[c] # <<>>
      <4>1. ASSUME NEW i \in DOMAIN roster[c]
            PROVE  /\ change[c][i] \in Shift
                   /\ change[c][i].leave = roster[c][i].leave
        <5> DEFINE s == roster[c][i]
                   k == IF r.wish = "times" THEN s.kind ELSE r.wish
        <5>1. s \in Shift
          BY <1>5, <2>1
        <5>2. k \in Kinds
          BY <1>2, <5>1 DEF Kinds, Shift
        <5>3. change[c][i] = [s EXCEPT !.kind = k, !.holiday = None]
          BY <3>1, <3>3
        <5> HIDE DEF s, k
        <5>4. change[c][i] \in Shift /\ change[c][i].leave = s.leave
          BY <5>1, <5>2, <5>3 DEF Shift
        <5> QED BY <5>2, <5>4 DEF s
      <4>2. change[c] = [i \in DOMAIN roster[c] |-> change[c][i]]
        BY <3>1, <3>3
      <4> QED BY <2>1, <4>1, <4>2, SameRows
    <3> QED BY <3>2, <3>3
  <2>4. CASE r.with # None
    <3> DEFINE other == <<CHOOSE e \in Involved(r) : e # c[1], c[2]>>
    <3>1. change[c] = [i \in DOMAIN roster[other] |-> [roster[other][i] EXCEPT !.holiday = None]]
      BY <2>4 DEF Swapped
    <3>2. Involved(r) = {r.by, r.with}
      BY <2>4 DEF Involved
    <3>3. \E e \in Involved(r) : e # c[1]
      BY <3>2
    <3>4. other \in Involved(r) \X r.days
      BY <1>3, <3>3
    <3> HIDE DEF change, other
    <3>5. other \in Cells /\ ~Held(other)
      BY <1>1, <1>4, <3>4
    <3>6. ASSUME NEW i \in DOMAIN roster[other]
          PROVE  /\ change[c][i] \in Shift
                 /\ change[c][i].leave = roster[other][i].leave
      <4>1. roster[other][i] \in Shift
        BY <1>5, <3>5
      <4>2. change[c][i] = [roster[other][i] EXCEPT !.holiday = None]
        BY <3>1
      <4> QED BY <4>1, <4>2 DEF Shift
    <3>7. change[c] = [i \in DOMAIN roster[other] |-> change[c][i]]
      BY <3>1
    <3> QED BY <3>5, <3>6, <3>7, SameRows
  <2> QED BY <2>3, <2>4
<1> HIDE DEF change
<1>7. ASSUME NEW c \in DOMAIN change
      PROVE  Suits(change[c], c, Approved) /\ Keeps(roster[c], change[c])
  <2>1. PICK n \in Nat : /\ change[c] = [i \in 1 .. n |-> change[c][i]]
                         /\ \A i \in 1 .. n : Sound(change[c][i]) /\ change[c][i].leave = None
    BY <1>6
  <2>2. DOMAIN change[c] = 1 .. n
    BY <2>1
  <2>3. \A i \in 1 .. n : Good(change[c][i], c, Approved)
    BY <1>1, <2>1, <2>2, ShiftsThatFit
  <2>4. Suits(change[c], c, Approved)
    BY <2>1, <2>3, NewSuits
  <2>5. ~Held(c)
    BY <1>1, <1>3
  <2> QED BY <2>4, <2>5, NothingToKeep
<1>8. Harmless(change, cleared')
  BY <1>7 DEF Harmless
<1>9. Bookkeeping
  BY <1>1 DEF Bookkeeping, OverlayInv, TypeOK
<1> QED BY <1>1, <1>8, <1>9, HarmlessWrite

LEMMA OverlaySteps ==
  ASSUME OverlayInv, RequestsInv, [ChangeNext]_changeVars
  PROVE  OverlayInv' /\ KeepsLeaves /\ (approved' # approved => LoseNothing)
<1>1. ASSUME UNCHANGED vars PROVE OverlayInv' /\ KeepsLeaves /\ approved' = approved
  BY <1>1 DEF vars, OverlayInv, TypeOK, Cells, Approved, KeepsLeaves, HeldBy
<1>2. CASE Next
  <2>1. CASE Planners \/ Calendar
    <3>1. approved' = approved
      <4>1. ASSUME NEW change, Plan(change) PROVE approved' = approved
        BY <4>1 DEF Plan, Edit
      <4>2. \A cells, k : CreateShifts(cells, k) => approved' = approved
        BY <4>1 DEF CreateShifts
      <4>3. \A e, days, f, offset : CopyShifts(e, days, f, offset) => approved' = approved
        BY <4>1 DEF CopyShifts
      <4>4. \A target, overwrite : ApplyTargets(target, overwrite) => approved' = approved
        BY <4>1 DEF ApplyTargets
      <4>5. \A c, i, to, k : UpdateShift(c, i, to, k) => approved' = approved
        BY <4>1 DEF UpdateShift
      <4>6. \A c, i : DeleteShift(c, i) => approved' = approved
        BY <4>1 DEF DeleteShift
      <4>7. \A cells, includeLeave : BulkDelete(cells, includeLeave) => approved' = approved
        BY <4>1 DEF BulkDelete
      <4>8. \A cells : Publish(cells) \/ Unpublish(cells) => approved' = approved
        BY <4>1 DEF Publish, Unpublish
      <4>9. Calendar => approved' = approved
        BY DEF Calendar, DeclareHoliday, MoveHoliday, DeleteHoliday, Edit
      <4> QED BY <2>1, <4>2, <4>3, <4>4, <4>5, <4>6, <4>7, <4>8, <4>9 DEF Planners
    <3> QED BY <2>1, <3>1, PlannersOverlay, HolidaysOverlay
  <2>2. CASE LeaveDecisions
    BY <2>2, ApprovedOverlay, RevokedOverlay DEF LeaveDecisions
  <2>3. CASE \E cells \in Runs : LockCells(cells)
    <3>1. /\ UNCHANGED <<roster, approved, holiday, cleared, writes>>
          /\ \E cells \in Runs : locked' = locked \cup cells
      BY <2>3 DEF LockCells
    <3>2. locked' \subseteq Cells
      BY <3>1, RosterAssumption DEF OverlayInv, TypeOK, Cells
    <3> QED BY <3>1, <3>2 DEF OverlayInv, TypeOK, Cells, Approved, KeepsLeaves, HeldBy
  <2> QED BY <1>2, <2>1, <2>2, <2>3 DEF Next
<1>3. CASE Asking \/ Answering
  <2>1. ASSUME NEW q \in Requests, NEW u, Approve(q, u)
        PROVE  OverlayInv' /\ KeepsLeaves /\ approved' = approved
    <3>1. request[q] # None /\ (CarryOut(request[q]) \/ UNCHANGED vars)
      BY <2>1 DEF Approve
    <3>2. request[q] \in Request /\ request[q].by # request[q].with
      BY <3>1 DEF RequestsInv
    <3>3. CarryOut(request[q]) => approved' = approved
      BY DEF CarryOut
    <3> QED BY <1>1, <3>1, <3>2, <3>3, CarriedOutOverlay
  <2> QED BY <1>1, <1>3, <2>1 DEF Asking, Answering, Ask, Reject, Cancel
<1>4. CASE UNCHANGED changeVars
  BY <1>1, <1>4 DEF changeVars
<1> QED BY <1>2, <1>3, <1>4 DEF ChangeNext

(* An approved leave shows on every day it counts, no shift is of a leave  *)
(* that is not approved, nobody works on it, no later leave takes a day    *)
(* from it, and what it covered comes back as it was, whatever planners    *)
(* write by hand.                                                          *)
THEOREM LeavesTheorem == ChangeSpec => LeavesTakeTheirDays
<1>1. ChangeInit => OverlayInv /\ RequestsInv
  BY BeganUncovered DEF ChangeInit, RequestsInv
<1>2. OverlayInv /\ RequestsInv /\ [ChangeNext]_changeVars => (OverlayInv /\ RequestsInv)'
  BY OverlaySteps, RequestsStep
<1>3. OverlayInv => TypeOK /\ LeavesShowOnTheRoster /\ NoWorkOnLeave
  BY OverlayPromises
<1>4. OverlayInv /\ RequestsInv /\ [ChangeNext]_changeVars =>
        [\A l \in Approved \cap Approved' : HeldBy(l) \subseteq HeldBy(l)' \cup cleared']_vars
  BY OverlaySteps DEF KeepsLeaves
<1>5. OverlayInv /\ RequestsInv /\ [ChangeNext]_changeVars =>
        [approved' # approved => \A c \in Cells : Underneath(roster[c])' = Underneath(roster[c])]_vars
  BY OverlaySteps DEF LoseNothing
<1> QED BY <1>1, <1>2, <1>3, <1>4, <1>5, PTL
        DEF ChangeSpec, LeavesTakeTheirDays, LeavesKeepTheirDays, LeavesLoseNothing

-----------------------------------------------------------------------------
(* The calendar of holidays. A day off that a holiday gave, from today on, *)
(* is on one of the days the holiday is generated on: a recurring one's    *)
(* lie within a year, so whoever edits or moves it takes back all that     *)
(* are no longer its own. And a row no person has touched is a holiday, so *)
(* a sync that freshens it changes nothing that payroll has reckoned with. *)

WithinTheYear ==
  \A x \in Dates : x >= today /\ dayOf[x] \in Dates /\ remarks[dayOf[x]].recurring => x <= today + Year

UntouchedAreHolidays == \A d \in Dates : Untouched(remarks[d]) => remarks[d].holiday

CalendarInv == HolidayTypeOK /\ DaysOffHaveTheirHoliday /\ WithinTheYear /\ UntouchedAreHolidays

LEMMA RemarkRows ==
  ASSUME NEW r
  PROVE  /\ r \in Remark => /\ r # NoRemark /\ r.source \in {"manual", "feed"} /\ r.kind \in HolidayKinds
                            /\ r.holiday \in BOOLEAN /\ r.recurring \in BOOLEAN /\ r.edited \in BOOLEAN
                            /\ r.gone \in BOOLEAN
         /\ NoRemark \notin Remark
<1>1. NoRemark.source = "none"
  BY DEF NoRemark
<1>2. ASSUME r \in Remark PROVE r.source \in {"manual", "feed"}
  BY <1>2 DEF Remark
<1>3. NoRemark \notin Remark
  BY <1>1 DEF Remark
<1> QED BY <1>1, <1>2, <1>3 DEF Remark

LEMMA DatesRun ==
  ASSUME HolidayAssumption
  PROVE  /\ Dates \subseteq Nat \ {0} /\ Dates \subseteq Int /\ Min(Dates) \in Dates
         /\ Max(Dates) \in Dates /\ \A d \in Dates : d < Max(Dates) => d + 1 \in Dates
         /\ Empty \notin Dates /\ PlannedOff \notin Dates
<1>1. PICK n \in Nat \ {0} : Dates = 1 .. n
  BY DEF HolidayAssumption
<1> DEFINE least == CHOOSE x \in Dates : \A y \in Dates : x =< y
           most == CHOOSE x \in Dates : \A y \in Dates : x >= y
<1>2. least \in Dates
  <2>1. 1 \in Dates /\ \A y \in Dates : 1 =< y
    BY <1>1
  <2> QED BY <2>1
<1>3. most \in Dates /\ \A y \in Dates : most >= y
  <2>1. n \in Dates /\ \A y \in Dates : n >= y
    BY <1>1
  <2> QED BY <2>1
<1>4. Min(Dates) = least /\ Max(Dates) = most
  BY DEF Min, Max
<1> HIDE DEF least, most
<1>5. most = n
  BY <1>1, <1>3
<1> QED BY <1>1, <1>2, <1>3, <1>4, <1>5 DEF Empty, PlannedOff

-----------------------------------------------------------------------------
(* What a row generates.                                                   *)

LEMMA Generates ==
  ASSUME HolidayAssumption, today \in Dates, NEW r \in Remark, NEW d \in Dates
  PROVE  /\ GenerationDates(r, d) \subseteq Dates
         /\ \A x \in GenerationDates(r, d) :
              /\ r.holiday /\ ~r.gone
              /\ x = d \/ (r.recurring /\ d < x /\ (x - d) % Year = 0)
              /\ r.recurring => x <= today + Year
         /\ \A x \in Dates :
              /\ r.holiday /\ ~r.gone /\ x >= today
              /\ x = d \/ (r.recurring /\ d < x /\ (x - d) % Year = 0)
              /\ r.recurring => x <= today + Year
              => x \in GenerationDates(r, d)
<1>1. Year \in Nat \ {0} /\ Dates \subseteq Int
  BY DatesRun DEF HolidayAssumption
<1>2. (d - d) % Year = 0
  BY <1>1
<1>3. r.holiday \in BOOLEAN /\ r.gone \in BOOLEAN /\ r.recurring \in BOOLEAN
  BY RemarkRows
<1> DEFINE on == {x \in Dates : x >= today /\ x <= today + Year /\ x >= d /\ (x - d) % Year = 0}
<1>4. \A x \in Dates : x \in on <=> x >= today /\ x <= today + Year /\ (x = d \/ (d < x /\ (x - d) % Year = 0))
  BY <1>1, <1>2
<1>5. GenerationDates(r, d) = IF ~r.holiday \/ r.gone THEN {} ELSE IF ~r.recurring THEN {d} ELSE on
  <2>1. ASSUME ~r.holiday \/ r.gone PROVE GenerationDates(r, d) = {}
    BY <2>1, <1>3 DEF GenerationDates
  <2>2. ASSUME ~(~r.holiday \/ r.gone), ~r.recurring PROVE GenerationDates(r, d) = {d}
    BY <2>2, <1>3 DEF GenerationDates
  <2>3. ASSUME ~(~r.holiday \/ r.gone), ~(~r.recurring) PROVE GenerationDates(r, d) = on
    BY <2>3, <1>3, Zenon DEF GenerationDates
  <2> HIDE DEF on
  <2> QED BY <2>1, <2>2, <2>3
<1> HIDE DEF on
<1>6. on \subseteq Dates
  BY DEF on
<1>7. CASE ~r.holiday \/ r.gone
  BY <1>5, <1>7
<1>8. CASE r.holiday /\ ~r.gone /\ ~r.recurring
  BY <1>5, <1>8
<1>9. CASE r.holiday /\ ~r.gone /\ r.recurring
  <2>1. GenerationDates(r, d) = on
    BY <1>5, <1>9
  <2> QED BY <1>4, <1>6, <1>9, <2>1
<1> QED BY <1>3, <1>7, <1>8, <1>9

(* A remark put on a date where none stood, in whose stead those of the    *)
(* date before have been moved or taken back.                              *)
LEMMA HolidayIsPlaced ==
  ASSUME HolidayAssumption, CalendarInv, NEW d \in Dates, NEW e \in Dates, NEW r \in Remark,
         NEW was, d # e => ~There(e), ~r.gone, Untouched(r) => r.holiday,
         \A x \in Dates : x >= today /\ dayOf[x] = d => x \in was,
         remarks' = [[remarks EXCEPT ![d] = NoRemark] EXCEPT ![e] = r],
         NEW new, new = GenerationDates(r, e), today' = today,
         dayOf' = GivenOff(Following(OffTakenBack(dayOf, d, was \ new), d, e), e, new \ was),
         fetched' = fetched, feed' \in Feeds \cup {Down}, regions' \subseteq Regions
  PROVE  CalendarInv'
<1> USE DEF CalendarInv, HolidayTypeOK
<1>1. /\ Dates \subseteq Int /\ Empty \notin Dates /\ PlannedOff \notin Dates
      /\ \A x \in Dates : remarks[x] \in Remark \cup {NoRemark}
  BY DatesRun
<1>2. remarks' \in [Dates -> Remark \cup {NoRemark}] /\ remarks'[e] = r
      /\ \A x \in Dates : x # e => remarks'[x] = IF x = d THEN NoRemark ELSE remarks[x]
  BY <1>1
<1>3. dayOf' \in [Dates -> {Empty, PlannedOff} \cup Dates]
      /\ \A x \in Dates : \/ dayOf'[x] = e /\ x \in new \ was /\ dayOf[x] \in {Empty, d} 
                          \/ dayOf[x] = d /\ dayOf'[x] = e /\ ~(x \in was \ new)
                          \/ dayOf'[x] = Empty
                          \/ dayOf[x] # d /\ dayOf'[x] = dayOf[x]
  BY <1>1 DEF GivenOff, Following, OffTakenBack
<1>4. \A x \in Dates : x >= today /\ dayOf'[x] = e =>
        \/ x \in new 
        \/ d # e /\ dayOf[x] = e
  BY <1>1, <1>3
<1>5. \A x \in Dates : x >= today /\ dayOf[x] = e => d = e
  BY <1>1 DEF DaysOffHaveTheirHoliday, There
<1>6. \A x \in Dates : x >= today /\ dayOf'[x] = e => x \in new
  BY <1>4, <1>5
<1>7. \A x \in Dates : x >= today /\ dayOf'[x] \in Dates /\ dayOf'[x] # e =>
        dayOf'[x] = dayOf[x] /\ dayOf[x] # d /\ remarks'[dayOf[x]] = remarks[dayOf[x]]
  BY <1>1, <1>2, <1>3
<1>8. r # NoRemark
  BY RemarkRows
<1>12. \A x \in new : /\ r.holiday /\ (x = e \/ (r.recurring /\ e < x /\ (x - e) % Year = 0))
                      /\ r.recurring => x <= today + Year
  BY Generates
<1>13. \A x \in Dates : x >= today /\ dayOf[x] \in Dates =>
         /\ remarks[dayOf[x]] # NoRemark /\ ~remarks[dayOf[x]].gone /\ remarks[dayOf[x]].holiday
         /\ dayOf[x] = x \/ (remarks[dayOf[x]].recurring /\ dayOf[x] < x /\ (x - dayOf[x]) % Year = 0)
  BY DEF DaysOffHaveTheirHoliday, There
<1>9. DaysOffHaveTheirHoliday'
  <2> SUFFICES ASSUME NEW x \in Dates, x >= today, dayOf'[x] \in Dates
               PROVE  /\ remarks'[dayOf'[x]] # NoRemark /\ ~remarks'[dayOf'[x]].gone
                      /\ remarks'[dayOf'[x]].holiday
                      /\ \/ dayOf'[x] = x
                         \/ (remarks'[dayOf'[x]].recurring /\ dayOf'[x] < x /\ (x - dayOf'[x]) % Year = 0)
    BY DEF DaysOffHaveTheirHoliday, There
  <2>1. CASE dayOf'[x] = e
    <3>1. x \in new
      BY <2>1, <1>6
    <3> QED BY ONLY <2>1, <3>1, <1>2, <1>8, <1>12, ~r.gone
  <2>2. CASE dayOf'[x] # e
    <3>1. dayOf'[x] = dayOf[x] /\ remarks'[dayOf[x]] = remarks[dayOf[x]]
      BY <2>2, <1>7
    <3> QED BY ONLY <3>1, <1>13, x \in Dates, x >= today, dayOf'[x] \in Dates
  <2> QED BY <2>1, <2>2
<1>10. WithinTheYear'
  <2> SUFFICES ASSUME NEW x \in Dates, x >= today, dayOf'[x] \in Dates, remarks'[dayOf'[x]].recurring
               PROVE  x <= today + Year
    BY DEF WithinTheYear
  <2>1. CASE dayOf'[x] = e
    BY <2>1, <1>2, <1>6, <1>8, Generates
  <2>2. CASE dayOf'[x] # e
    BY <2>2, <1>7 DEF WithinTheYear
  <2> QED BY <2>1, <2>2
<1>11. UntouchedAreHolidays'
  <2>1. ASSUME NEW x \in Dates, Untouched(remarks'[x]) PROVE remarks'[x].holiday
    <3>1. x # e => remarks'[x] = remarks[x]
      BY <1>2, <2>1 DEF Untouched
    <3>2. CASE x = e
      BY <3>2, <1>2, <2>1
    <3>3. CASE x # e
      BY <3>1, <3>3, <2>1 DEF UntouchedAreHolidays
    <3> QED BY <3>2, <3>3
  <2> QED BY <2>1 DEF UntouchedAreHolidays, Untouched
<1> QED BY <1>2, <1>3, <1>9, <1>10, <1>11

(* The steps of people.                                                    *)

LEMMA CreatedRemark ==
  ASSUME HolidayAssumption, CalendarInv, NEW d \in Dates, NEW kind \in {"regular", "special"},
         NEW off \in BOOLEAN, NEW recurring \in BOOLEAN, CreateDateRemark(d, kind, off, recurring)
  PROVE  CalendarInv'
<1> DEFINE r == [source |-> "manual", kind |-> kind, holiday |-> off, recurring |-> recurring,
                 edited |-> FALSE, gone |-> FALSE]
           new == GenerationDates(r, d)
<1>1. r \in Remark /\ ~r.gone /\ ~Untouched(r)
  BY DEF Remark, HolidayKinds, Untouched
<1>2. /\ ~There(d) /\ remarks' = [remarks EXCEPT ![d] = r] /\ dayOf' = GivenOff(dayOf, d, new)
      /\ UNCHANGED <<sourceVars, autoOff, today>>
  BY DEF CreateDateRemark
<1> HIDE DEF r
<1>3. \A x \in Dates : x >= today /\ dayOf[x] = d => x \in {}
  BY <1>2 DEF CalendarInv, DaysOffHaveTheirHoliday
<1>4. remarks' = [[remarks EXCEPT ![d] = NoRemark] EXCEPT ![d] = r]
  BY <1>2 DEF CalendarInv, HolidayTypeOK
<1>5. Following(OffTakenBack(dayOf, d, {} \ new), d, d) = dayOf
  BY DEF Following, OffTakenBack, CalendarInv, HolidayTypeOK
<1>6. dayOf' = GivenOff(Following(OffTakenBack(dayOf, d, {} \ new), d, d), d, new \ {})
  BY <1>2, <1>5 DEF GivenOff
<1>7. today' = today /\ fetched' = fetched /\ feed' \in Feeds \cup {Down} /\ regions' \subseteq Regions
  BY <1>2 DEF sourceVars, CalendarInv, HolidayTypeOK
<1>8. new = GenerationDates(r, d)
  OBVIOUS
<1> HIDE DEF new
<1> QED BY <1>1, <1>2, <1>3, <1>4, <1>6, <1>7, <1>8, HolidayIsPlaced

LEMMA UpdatedRemark ==
  ASSUME HolidayAssumption, CalendarInv, NEW d \in Dates, NEW e \in Dates,
         NEW kind \in {"regular", "special"}, NEW off \in BOOLEAN, NEW recurring \in BOOLEAN,
         UpdateDateRemark(d, e, kind, off, recurring)
  PROVE  CalendarInv'
<1> DEFINE b == remarks[d].edited \/ remarks[d].source = "feed"
           r == [source |-> remarks[d].source, kind |-> kind, holiday |-> off,
                 recurring |-> recurring, edited |-> b, gone |-> FALSE]
           was == GenerationDates(remarks[d], d)
           new == GenerationDates(r, e)
<1>1. remarks[d] \in Remark /\ remarks[d].source \in {"manual", "feed"} /\ remarks[d] # NoRemark /\ ~remarks[d].gone
  BY RemarkRows DEF CalendarInv, HolidayTypeOK, UpdateDateRemark, There
<1>2. /\ There(d) /\ (e # d => ~There(e))
      /\ remarks' = [[remarks EXCEPT ![d] = NoRemark] EXCEPT ![e] = r]
      /\ dayOf' = GivenOff(Following(LeftOff(dayOf, d, was, new), d, e), e, new \ was)
      /\ UNCHANGED <<sourceVars, autoOff, today>>
  BY DEF UpdateDateRemark
<1>3. b \in BOOLEAN
  OBVIOUS
<1>4. r.edited = b /\ r.source = remarks[d].source /\ r.gone = FALSE
  OBVIOUS
<1>5. r \in Remark
  <2> HIDE DEF b
  <2> QED BY <1>1, <1>3 DEF Remark, HolidayKinds
<1> HIDE DEF r
<1>6. ~Untouched(r)
  BY <1>4 DEF Untouched
<1>7. today \in Dates
  BY DEF CalendarInv, HolidayTypeOK
<1>8. \A x \in Dates : x >= today /\ dayOf[x] = d => x \in was
  BY <1>1, <1>7, Generates DEF CalendarInv, DaysOffHaveTheirHoliday, WithinTheYear
<1>9. LeftOff(dayOf, d, was, new) = OffTakenBack(dayOf, d, was \ new)
  BY DEF LeftOff
<1>10. today' = today /\ fetched' = fetched /\ feed' \in Feeds \cup {Down} /\ regions' \subseteq Regions
  BY <1>2 DEF sourceVars, CalendarInv, HolidayTypeOK
<1>11. new = GenerationDates(r, e)
  OBVIOUS
<1> HIDE DEF was, new
<1> QED BY <1>2, <1>4, <1>5, <1>6, <1>8, <1>9, <1>10, <1>11, HolidayIsPlaced

LEMMA DeletedRemark ==
  ASSUME HolidayAssumption, CalendarInv, NEW d \in Dates, DeleteDateRemark(d)
  PROVE  CalendarInv'
<1> USE DEF CalendarInv, HolidayTypeOK
<1> DEFINE r == IF remarks[d].source = "feed"
                THEN [remarks[d] EXCEPT !.gone = TRUE, !.holiday = FALSE] ELSE NoRemark
<1>1. remarks[d] \in Remark
  BY DEF DeleteDateRemark, There
<1>2. r \in Remark \cup {NoRemark} /\ ~Untouched(r)
  BY <1>1 DEF Remark, Untouched
<1>3. /\ remarks' = [remarks EXCEPT ![d] = r] /\ dayOf' = OffTakenBack(dayOf, d, Dates)
      /\ UNCHANGED <<sourceVars, autoOff, today>>
  BY DEF DeleteDateRemark
<1> HIDE DEF r
<1>4. /\ Dates \subseteq Int /\ Empty \notin Dates
      /\ \A x \in Dates : dayOf[x] \in {Empty, PlannedOff} \cup Dates
  BY DatesRun
<1>5. \A x \in Dates : remarks'[x] = IF x = d THEN r ELSE remarks[x]
  BY <1>3
<1>6. \A x \in Dates : /\ dayOf'[x] = IF dayOf[x] = d THEN Empty ELSE dayOf[x]
                       /\ dayOf'[x] \in Dates => dayOf'[x] = dayOf[x] /\ dayOf[x] # d
  BY <1>3, <1>4 DEF OffTakenBack
<1>7. \A x \in Dates : dayOf'[x] \in Dates => dayOf'[x] = dayOf[x] /\ remarks'[dayOf[x]] = remarks[dayOf[x]]
  BY <1>5, <1>6
<1>8. DaysOffHaveTheirHoliday' /\ WithinTheYear'
  BY <1>3, <1>7 DEF DaysOffHaveTheirHoliday, WithinTheYear, There
<1>9. UntouchedAreHolidays'
  BY <1>2, <1>5 DEF UntouchedAreHolidays, Untouched
<1>10. remarks' \in [Dates -> Remark \cup {NoRemark}] /\ dayOf' \in [Dates -> {Empty, PlannedOff} \cup Dates]
  BY <1>2, <1>3, <1>4 DEF OffTakenBack
<1> QED BY <1>3, <1>8, <1>9, <1>10 DEF sourceVars

LEMMA PlannedDay ==
  ASSUME HolidayAssumption, CalendarInv, NEW d \in Dates, PlanDay(d)
  PROVE  CalendarInv'
<1> USE DEF CalendarInv, HolidayTypeOK
<1>1. Empty \notin Dates /\ PlannedOff \notin Dates
  BY DatesRun
<1>2. \A x \in Dates : dayOf'[x] \in Dates => dayOf'[x] = dayOf[x]
  BY <1>1 DEF PlanDay
<1>3. UNCHANGED <<remarks, feed, regions, fetched, today>>
  BY DEF PlanDay, sourceVars
<1>4. DaysOffHaveTheirHoliday' /\ WithinTheYear' /\ UntouchedAreHolidays'
  BY <1>2, <1>3 DEF DaysOffHaveTheirHoliday, WithinTheYear, UntouchedAreHolidays, Untouched, There
<1>5. dayOf' \in [Dates -> {Empty, PlannedOff} \cup Dates]
  BY DEF PlanDay
<1> QED BY <1>3, <1>4, <1>5

LEMMA CalendarStays ==
  ASSUME CalendarInv, UNCHANGED <<calendarVars, today>>,
         feed' \in Feeds \cup {Down}, regions' \subseteq Regions,
         fetched' = NoFetch \/ fetched'.holidays \in Feeds \cup {Down}
  PROVE  CalendarInv'
BY DEF CalendarInv, HolidayTypeOK, calendarVars, DaysOffHaveTheirHoliday, WithinTheYear,
       UntouchedAreHolidays, Untouched, There

-----------------------------------------------------------------------------
(* The syncs. A date is one of four: its row goes, is freshened, is new,   *)
(* or stays; the first three are rows nobody has touched, or none.         *)

LEMMA DesiredIsAKind ==
  ASSUME NEW f, NEW d
  PROVE  DesiredKind(d, f) \in HolidayKinds
BY DEF DesiredKind, HolidayKinds

LEMMA FedRow ==
  ASSUME NEW kind \in HolidayKinds
  PROVE  /\ FromFeed(kind) \in Remark /\ FromFeed(kind) # NoRemark /\ Untouched(FromFeed(kind))
         /\ FromFeed(kind).holiday /\ FromFeed(kind).kind = kind /\ ~FromFeed(kind).gone
<1>1. FromFeed(kind) \in Remark
  BY DEF FromFeed, Remark
<1>2. FromFeed(kind) # NoRemark
  BY <1>1, RemarkRows
<1> QED BY <1>1, <1>2 DEF FromFeed, Untouched

LEMMA MergedRows ==
  ASSUME NEW f, NEW rows, \A d \in Dates : rows[d] \in Remark \cup {NoRemark}
  PROVE  /\ Merged(rows, f) \in [Dates -> Remark \cup {NoRemark}]
         /\ \A d \in Dates :
              \/ d \in ToRemove(rows, f) /\ d \notin Announced(f) /\ Merged(rows, f)[d] = NoRemark
              \/ /\ d \in ToChange(rows, f) \cup ToAdd(rows, f)
                 /\ d \notin ToRemove(rows, f) /\ d \in Announced(f)
                 /\ Merged(rows, f)[d] \in Remark
                 /\ Untouched(Merged(rows, f)[d]) /\ Merged(rows, f)[d].holiday
                 /\ Merged(rows, f)[d].kind = DesiredKind(d, f)
                 /\ d \in ToChange(rows, f) =>
                      d \notin ToAdd(rows, f) /\ Merged(rows, f)[d].recurring = rows[d].recurring
              \/ /\ d \notin ToRemove(rows, f) \cup ToChange(rows, f) \cup ToAdd(rows, f)
                 /\ Merged(rows, f)[d] = rows[d]
<1> DEFINE m == Merged(rows, f)
           gone == ToRemove(rows, f)
           changed == ToChange(rows, f)
           added == ToAdd(rows, f)
           fresh(d) == [rows[d] EXCEPT !.kind = DesiredKind(d, f), !.holiday = TRUE]
<1>1. /\ \A d \in gone : d \in Dates /\ Untouched(rows[d]) /\ d \notin Announced(f)
      /\ \A d \in changed : Untouched(rows[d]) /\ d \in Announced(f)
      /\ \A d \in added : rows[d] = NoRemark /\ d \in Announced(f)
  BY DEF ToRemove, ToChange, ToAdd
<1>2. \A d \in Dates : Untouched(rows[d]) => rows[d] \in Remark /\ rows[d] # NoRemark
  BY DEF Untouched
<1>3. \A d \in Dates :
        m[d] = CASE d \in gone -> NoRemark
                 [] d \in changed -> fresh(d)
                 [] d \in added -> FromFeed(DesiredKind(d, f))
                 [] OTHER -> rows[d]
  BY DEF Merged
<1>4. m = [d \in Dates |-> m[d]]
  BY DEF Merged
<1> HIDE DEF m, gone, changed, added, fresh
<1>5. ASSUME NEW d \in Dates
      PROVE  /\ d \in gone => m[d] = NoRemark
             /\ d \in changed => m[d] = fresh(d)
             /\ d \in added => m[d] = FromFeed(DesiredKind(d, f))
             /\ d \notin gone \cup changed \cup added => m[d] = rows[d]
  <2>1. ~(d \in gone /\ d \in changed) /\ ~(d \in gone /\ d \in added) /\ ~(d \in changed /\ d \in added)
    BY <1>1, <1>2
  <2> QED BY <1>3, <2>1
<1>6. \A d \in changed : d \in Dates
  BY DEF changed, ToChange, Announced
<1>7. \A d \in changed :
        /\ fresh(d) \in Remark /\ Untouched(fresh(d)) /\ fresh(d).holiday
        /\ fresh(d).kind = DesiredKind(d, f) /\ fresh(d).recurring = rows[d].recurring
  <2> SUFFICES ASSUME NEW d \in changed
               PROVE  /\ fresh(d) \in Remark /\ Untouched(fresh(d)) /\ fresh(d).holiday
                      /\ fresh(d).kind = DesiredKind(d, f) /\ fresh(d).recurring = rows[d].recurring
    OBVIOUS
  <2> DEFINE kind == DesiredKind(d, f)
             r == rows[d]
             new == fresh(d)
  <2>1. kind \in HolidayKinds
    BY DesiredIsAKind
  <2>2. r \in Remark /\ Untouched(r)
    BY <1>1, <1>2, <1>6
  <2>3. new = [r EXCEPT !.kind = kind, !.holiday = TRUE]
    BY DEF fresh
  <2> HIDE DEF kind, r, new
  <2>4. new \in Remark /\ new.source = r.source /\ new.gone = r.gone /\ new.edited = r.edited
        /\ new.holiday = TRUE /\ new.kind = kind /\ new.recurring = r.recurring
    BY ONLY <2>1, <2>2, <2>3 DEF Remark
  <2>5. new # NoRemark
    BY <2>4, RemarkRows
  <2>6. Untouched(new)
    BY <2>2, <2>4, <2>5 DEF Untouched
  <2> QED BY <2>4, <2>6 DEF kind, r, new
<1>8. \A d \in Dates : m[d] \in Remark \cup {NoRemark}
  <2> SUFFICES ASSUME NEW d \in Dates PROVE m[d] \in Remark \cup {NoRemark}
    OBVIOUS
  <2> QED BY <1>5, <1>7, DesiredIsAKind, FedRow
<1>9. m \in [Dates -> Remark \cup {NoRemark}]
  BY <1>4, <1>8
<1>10. \A d \in Dates :
         \/ d \in gone /\ d \notin Announced(f) /\ m[d] = NoRemark
         \/ /\ d \in changed \cup added /\ d \notin gone /\ d \in Announced(f) /\ m[d] \in Remark
            /\ Untouched(m[d]) /\ m[d].holiday /\ m[d].kind = DesiredKind(d, f)
            /\ d \in changed => d \notin added /\ m[d].recurring = rows[d].recurring
         \/ d \notin gone \cup changed \cup added /\ m[d] = rows[d]
  <2> SUFFICES ASSUME NEW d \in Dates
               PROVE  \/ d \in gone /\ d \notin Announced(f) /\ m[d] = NoRemark
                      \/ /\ d \in changed \cup added /\ d \notin gone /\ d \in Announced(f)
                         /\ m[d] \in Remark /\ Untouched(m[d]) /\ m[d].holiday
                         /\ m[d].kind = DesiredKind(d, f)
                         /\ d \in changed => d \notin added /\ m[d].recurring = rows[d].recurring
                      \/ d \notin gone \cup changed \cup added /\ m[d] = rows[d]
    OBVIOUS
  <2>1. CASE d \in gone
    BY <2>1, <1>1, <1>5
  <2>2. CASE d \in changed
    BY <2>2, <1>1, <1>2, <1>5, <1>7
  <2>3. CASE d \in added
    BY <2>3, <1>1, <1>2, <1>5, DesiredIsAKind, FedRow
  <2>4. CASE d \notin gone \cup changed \cup added
    BY <2>4, <1>5
  <2> QED BY <2>1, <2>2, <2>3, <2>4
<1> QED BY <1>9, <1>10 DEF m, gone, changed, added

LEMMA SyncedCalendar ==
  ASSUME HolidayAssumption, CalendarInv, NEW f, ApplyFeed(f), today' = today,
         feed' = feed, regions' = regions, fetched' = NoFetch
  PROVE  CalendarInv' /\
         \A d \in Dates :
           /\ remarks[d] # NoRemark /\ (remarks[d].source = "manual" \/ remarks[d].edited \/ remarks[d].gone)
                => remarks'[d] = remarks[d]
           /\ There(d) /\ d <= today => remarks'[d] # NoRemark /\ remarks'[d].holiday = remarks[d].holiday
<1> DEFINE gone == ToRemove(remarks, f)
           changed == ToChange(remarks, f)
           added == ToAdd(remarks, f)
<1>1. /\ \A d \in Dates : remarks[d] \in Remark \cup {NoRemark}
      /\ \A d \in Dates : dayOf[d] \in {Empty, PlannedOff} \cup Dates
      /\ today \in Dates
  BY DEF CalendarInv, HolidayTypeOK
<1>2. remarks' = Merged(remarks, f)
      /\ dayOf' = [e \in Dates |->
           IF autoOff /\ (IF dayOf[e] \in gone THEN Empty ELSE dayOf[e]) = Empty /\ e \in added
           THEN e ELSE IF dayOf[e] \in gone THEN Empty ELSE dayOf[e]]
  BY DEF ApplyFeed
<1>3. /\ \A d \in gone : d \in Dates /\ Untouched(remarks[d]) /\ d > today
      /\ \A d \in changed : Untouched(remarks[d])
      /\ \A d \in added : remarks[d] = NoRemark
  BY DEF ToRemove, ToChange, ToAdd
<1>4. /\ remarks' \in [Dates -> Remark \cup {NoRemark}]
      /\ \A d \in Dates :
           \/ d \in gone /\ remarks'[d] = NoRemark
           \/ /\ d \in changed \cup added /\ d \notin gone /\ remarks'[d] \in Remark
              /\ Untouched(remarks'[d]) /\ remarks'[d].holiday
              /\ d \in changed => d \notin added /\ remarks'[d].recurring = remarks[d].recurring
           \/ d \notin gone \cup changed \cup added /\ remarks'[d] = remarks[d]
  BY <1>1, <1>2, MergedRows
<1> HIDE DEF gone, changed, added
<1>5. Empty \notin Dates /\ PlannedOff \notin Dates /\ Dates \subseteq Int
  BY DatesRun
<1>6. \A x \in Dates : \/ dayOf'[x] = x /\ x \in added
                       \/ dayOf'[x] = dayOf[x] /\ dayOf[x] \notin gone
                       \/ dayOf'[x] = Empty
  BY <1>2
<1>7. \A x \in Dates : dayOf'[x] \in {Empty, PlannedOff} \cup Dates
  BY <1>1, <1>6
<1>8. dayOf' \in [Dates -> {Empty, PlannedOff} \cup Dates]
  BY <1>2, <1>7
<1>9. \A x \in Dates : x >= today /\ dayOf[x] \in Dates =>
        /\ remarks[dayOf[x]] # NoRemark /\ ~remarks[dayOf[x]].gone /\ remarks[dayOf[x]].holiday
        /\ dayOf[x] = x \/ (remarks[dayOf[x]].recurring /\ dayOf[x] < x /\ (x - dayOf[x]) % Year = 0)
        /\ remarks[dayOf[x]].recurring => x <= today + Year
  BY DEF CalendarInv, DaysOffHaveTheirHoliday, There, WithinTheYear
<1>10. \A x \in Dates : Untouched(remarks'[x]) => ~remarks'[x].gone /\ remarks'[x] # NoRemark
  BY DEF Untouched
<1>11. \A x \in Dates : x \in added => remarks[x] = NoRemark
  BY <1>3
<1>12. ASSUME NEW x \in Dates, x >= today, dayOf'[x] \in Dates
       PROVE  /\ remarks'[dayOf'[x]] # NoRemark /\ ~remarks'[dayOf'[x]].gone /\ remarks'[dayOf'[x]].holiday
              /\ dayOf'[x] = x \/ (remarks'[dayOf'[x]].recurring /\ dayOf'[x] < x /\ (x - dayOf'[x]) % Year = 0)
              /\ remarks'[dayOf'[x]].recurring => x <= today + Year
  <2>1. CASE dayOf'[x] = x /\ x \in added
    <3>4. ~Untouched(NoRemark)
      BY DEF Untouched
    <3>5. x \notin gone /\ x \notin changed
      BY <2>1, <1>3, <3>4
    <3>1. remarks'[x] \in Remark /\ Untouched(remarks'[x]) /\ remarks'[x].holiday
      BY <2>1, <3>5, <1>4
    <3>2. Year \in Nat /\ today \in Int /\ x \in Int
      BY <1>1, <1>5 DEF HolidayAssumption
    <3>3. \/ x <= today + Year \/ ~remarks'[x].recurring
      <4>1. ~remarks'[x].recurring
        BY <1>2, <3>5, <2>1 DEF Merged, FromFeed, gone, changed, added
      <4> QED BY <4>1
    <3> QED BY <2>1, <3>1, <3>2, <3>3, <1>10
  <2>2. CASE dayOf'[x] = dayOf[x] /\ dayOf[x] \notin gone
    <3> DEFINE d == dayOf[x]
    <3>1. d \in Dates /\ dayOf'[x] = d /\ d \notin gone /\ remarks[d] # NoRemark
      BY <2>2, <1>9, <1>12
    <3>2. d \notin added
      BY <3>1, <1>3
    <3>3. remarks'[d] # NoRemark /\ ~remarks'[d].gone /\ remarks'[d].holiday
          /\ remarks'[d].recurring = remarks[d].recurring
      <4>1. CASE d \in changed
        BY <3>1, <4>1, <1>4, <1>10
      <4>2. CASE d \notin changed
        <5>1. remarks'[d] = remarks[d]
          BY <3>1, <3>2, <4>2, <1>4
        <5> QED BY <5>1, <1>9, <1>12, <2>2
      <4> QED BY <4>1, <4>2
    <3> QED BY <3>1, <3>3, <1>9, <1>12
  <2> QED BY <1>5, <1>6, <1>12, <2>1, <2>2
<1>13. DaysOffHaveTheirHoliday' /\ WithinTheYear'
  BY <1>12 DEF DaysOffHaveTheirHoliday, There, WithinTheYear
<1>14. \A d \in Dates : Untouched(remarks[d]) => remarks[d].holiday
  BY DEF CalendarInv, UntouchedAreHolidays
<1>15. \A d \in Dates : Untouched(remarks'[d]) => remarks'[d].holiday
  <2> SUFFICES ASSUME NEW d \in Dates, Untouched(remarks'[d]) PROVE remarks'[d].holiday
    OBVIOUS
  <2>1. ~Untouched(NoRemark)
    BY DEF Untouched
  <2> QED BY <1>4, <1>14, <2>1
<1>16. CalendarInv'
  BY <1>1, <1>4, <1>8, <1>13, <1>15 DEF CalendarInv, HolidayTypeOK, UntouchedAreHolidays, Untouched
<1>17. ASSUME NEW d \in Dates, remarks[d] # NoRemark,
              remarks[d].source = "manual" \/ remarks[d].edited \/ remarks[d].gone
       PROVE  remarks'[d] = remarks[d]
  BY <1>3, <1>4, <1>17 DEF Untouched
<1>18. ASSUME NEW d \in Dates, There(d), d <= today
       PROVE  remarks'[d] # NoRemark /\ remarks'[d].holiday = remarks[d].holiday
  <2>1. d \notin gone /\ d \notin added /\ remarks[d] # NoRemark /\ remarks[d] \in Remark
    BY <1>1, <1>3, <1>5, <1>18 DEF There
  <2>2. remarks[d].holiday \in BOOLEAN /\ \A r \in Remark : r.holiday \in BOOLEAN
    BY <2>1, RemarkRows
  <2>3. CASE d \in changed
    <3>1. remarks'[d] \in Remark /\ remarks'[d].holiday /\ remarks[d].holiday
      BY <2>3, <2>1, <1>3, <1>4, <1>14
    <3>2. remarks'[d] # NoRemark
      BY <3>1, RemarkRows
    <3>3. remarks'[d].holiday \in BOOLEAN
      BY <2>2, <3>1
    <3> QED BY <3>1, <3>2, <3>3, <2>2
  <2>4. CASE d \notin changed
    BY <2>1, <2>4, <1>4
  <2> QED BY <2>3, <2>4
<1> QED BY <1>16, <1>17, <1>18

(* A merged calendar has nothing that goes, is to be freshened or is new.  *)
LEMMA MergedTwice ==
  ASSUME NEW f, NEW rows, \A d \in Dates : rows[d] \in Remark \cup {NoRemark}
  PROVE  Merged(Merged(rows, f), f) = Merged(rows, f)
<1> DEFINE after == Merged(rows, f)
           twice == Merged(after, f)
<1>1. /\ after \in [Dates -> Remark \cup {NoRemark}]
      /\ \A d \in Dates :
           \/ d \notin Announced(f) /\ after[d] = NoRemark
           \/ /\ d \in Announced(f) /\ after[d] \in Remark /\ after[d].holiday
              /\ after[d].kind = DesiredKind(d, f)
           \/ d \notin ToRemove(rows, f) \cup ToChange(rows, f) \cup ToAdd(rows, f) /\ after[d] = rows[d]
  BY MergedRows
<1> HIDE DEF after
<1>2. \A d \in Dates : after[d] \in Remark \cup {NoRemark}
  BY <1>1
<1>3. /\ twice \in [Dates -> Remark \cup {NoRemark}]
      /\ \A d \in Dates :
           d \in ToRemove(after, f) \cup ToChange(after, f) \cup ToAdd(after, f) \/ twice[d] = after[d]
  <2>1. /\ Merged(after, f) \in [Dates -> Remark \cup {NoRemark}]
        /\ \A d \in Dates :
              \/ d \in ToRemove(after, f) /\ d \notin Announced(f) /\ Merged(after, f)[d] = NoRemark
              \/ /\ d \in ToChange(after, f) \cup ToAdd(after, f)
                 /\ d \notin ToRemove(after, f) /\ d \in Announced(f)
                 /\ Merged(after, f)[d] \in Remark
                 /\ Untouched(Merged(after, f)[d]) /\ Merged(after, f)[d].holiday
                 /\ Merged(after, f)[d].kind = DesiredKind(d, f)
                 /\ d \in ToChange(after, f) =>
                      d \notin ToAdd(after, f) /\ Merged(after, f)[d].recurring = after[d].recurring
              \/ /\ d \notin ToRemove(after, f) \cup ToChange(after, f) \cup ToAdd(after, f)
                 /\ Merged(after, f)[d] = after[d]
    BY <1>2, MergedRows
  <2> QED BY <2>1
<1>4. ASSUME NEW d \in Dates
      PROVE  d \notin ToRemove(after, f) \cup ToChange(after, f) \cup ToAdd(after, f)
  <2>1. CASE d \notin Announced(f) /\ after[d] = NoRemark
    BY <2>1 DEF ToRemove, ToChange, ToAdd, Untouched
  <2>2. CASE /\ d \in Announced(f) /\ after[d] \in Remark /\ after[d].holiday
             /\ after[d].kind = DesiredKind(d, f)
    <3>1. after[d] # NoRemark
      BY <2>2, RemarkRows
    <3> QED BY <2>2, <3>1 DEF ToRemove, ToChange, ToAdd
  <2>3. CASE /\ d \notin ToRemove(rows, f) \cup ToChange(rows, f) \cup ToAdd(rows, f)
             /\ after[d] = rows[d]
    BY <2>3 DEF ToRemove, ToChange, ToAdd
  <2> QED BY <1>1, <2>1, <2>2, <2>3
<1>5. \A d \in Dates : twice[d] = after[d]
  BY <1>3, <1>4
<1> HIDE DEF twice
<1>6. twice = after
  BY <1>1, <1>3, <1>5
<1> QED BY <1>6 DEF twice, after

LEMMA CalendarStep ==
  ASSUME HolidayAssumption, CalendarInv, [HolidayNext]_holidayVars
  PROVE  CalendarInv' /\ [LeavesTheirWork]_holidayVars
<1> USE DEF HolidayTypeOK
<1>1. ASSUME NEW d \in Dates, NEW kind \in {"regular", "special"}, NEW off \in BOOLEAN,
             NEW recurring \in BOOLEAN, CreateDateRemark(d, kind, off, recurring)
      PROVE  CalendarInv'
  BY <1>1, CreatedRemark
<1>2. ASSUME NEW d \in Dates, NEW e \in Dates, NEW kind \in {"regular", "special"},
             NEW off \in BOOLEAN, NEW recurring \in BOOLEAN,
             UpdateDateRemark(d, e, kind, off, recurring)
      PROVE  CalendarInv'
  BY <1>2, UpdatedRemark
<1>3. ASSUME NEW d \in Dates, DeleteDateRemark(d) \/ PlanDay(d) PROVE CalendarInv'
  BY <1>3, DeletedRemark, PlannedDay
<1>4. ASSUME NEW wanted \in SUBSET Regions, NEW auto \in BOOLEAN, NEW f \in Feeds \cup {Down},
             SetSource(wanted, auto, f)
      PROVE  CalendarInv'
  BY <1>4, CalendarStays DEF SetSource, CalendarInv
<1>5. ASSUME SetAutoOff PROVE CalendarInv'
  BY <1>5, CalendarStays DEF SetAutoOff, CalendarInv, sourceVars
<1>6. ASSUME SyncByHand \/ RunDue PROVE CalendarInv'
  <2>1. Fetch
    BY <1>6 DEF SyncByHand, RunDue
  <2>2. fetched'.holidays = feed
    BY <2>1 DEF Fetch
  <2> QED BY <2>1, <2>2, CalendarStays DEF Fetch, CalendarInv
<1>7. ASSUME FinishSync PROVE CalendarInv' /\ LeavesTheirWork
  <2>1. CASE UNCHANGED <<calendarVars, synced>>
    <3>1. CalendarInv'
      BY <1>7, <2>1, CalendarStays DEF FinishSync, CalendarInv
    <3>2. \A d \in Dates : There(d) => remarks[d] # NoRemark
      BY DEF There
    <3>3. LeavesTheirWork
      BY <2>1, <3>2 DEF LeavesTheirWork, calendarVars
    <3> QED BY <3>1, <3>3
  <2>2. CASE ApplyFeed(fetched)
    <3> DEFINE f == fetched
    <3>1. today' = today /\ feed' = feed /\ regions' = regions /\ fetched' = NoFetch
      BY <1>7 DEF FinishSync
    <3>2. ApplyFeed(f)
      BY <2>2
    <3> HIDE DEF f
    <3> QED BY <3>1, <3>2, SyncedCalendar DEF LeavesTheirWork
  <2> QED BY <1>7, <2>1, <2>2 DEF FinishSync
<1>8. ASSUME CrashInSync PROVE CalendarInv'
  BY <1>8, CalendarStays DEF CrashInSync, CalendarInv
<1>9. ASSUME NEW f \in Feeds \cup {Down}, FeedChanges(f) PROVE CalendarInv'
  BY <1>9, CalendarStays DEF FeedChanges, CalendarInv
<1>10. ASSUME HourPasses PROVE CalendarInv'
  BY <1>10, CalendarStays DEF HourPasses, CalendarInv
<1>11. ASSUME DayPasses PROVE CalendarInv'
  <2>1. today \in Dates /\ Dates \subseteq Int /\ today + 1 \in Dates /\ Year \in Nat
    BY <1>11, DatesRun DEF DayPasses, CalendarInv, HolidayAssumption
  <2>2. \A x \in Dates : x >= today' => x >= today /\ (x <= today + Year => x <= today' + Year)
    BY <1>11, <2>1 DEF DayPasses
  <2>3. today' = today + 1 /\ UNCHANGED <<remarks, dayOf, feed, regions, fetched>>
    BY <1>11 DEF DayPasses, calendarVars
  <2>4. HolidayTypeOK' /\ UntouchedAreHolidays'
    BY <2>1, <2>3 DEF CalendarInv, UntouchedAreHolidays, Untouched
  <2>5. DaysOffHaveTheirHoliday' /\ WithinTheYear'
    BY <2>2, <2>3 DEF CalendarInv, DaysOffHaveTheirHoliday, WithinTheYear, There
  <2> QED BY <2>4, <2>5 DEF CalendarInv
<1>12. ASSUME UNCHANGED holidayVars PROVE CalendarInv'
  BY <1>12, CalendarStays DEF holidayVars, calendarVars, CalendarInv
<1>13. HolidayNext => CalendarInv'
  BY <1>1, <1>2, <1>3, <1>4, <1>5, <1>6, <1>7, <1>8, <1>9, <1>10, <1>11 DEF HolidayNext
<1>14. [LeavesTheirWork]_holidayVars
  BY <1>7 DEF LeavesTheirWork
<1> QED BY <1>12, <1>13, <1>14

(* CalendarIsThePeoples, holiday_sync_service and the calendar's own       *)
(* endpoints: for any feed, any regions and any span of dates, a day off   *)
(* has the holiday that gave it, a second sync of the same feed changes    *)
(* nothing, and no sync changes what a person has written.                 *)
THEOREM CalendarTheorem == HolidaySpec => CalendarIsThePeoples
<1> USE HolidayAssumption
<1>1. HolidayInit => CalendarInv
  <2> SUFFICES ASSUME HolidayInit PROVE CalendarInv
    OBVIOUS
  <2>1. Min(Dates) \in Dates /\ Empty \notin Dates
    BY DatesRun
  <2>2. \A d \in Dates : remarks[d] = NoRemark /\ dayOf[d] = Empty
    BY DEF HolidayInit
  <2>3. ~Untouched(NoRemark)
    BY DEF Untouched
  <2> QED BY <2>1, <2>2, <2>3 DEF HolidayInit, CalendarInv, HolidayTypeOK, DaysOffHaveTheirHoliday,
                                  WithinTheYear, UntouchedAreHolidays
<1>2. CalendarInv /\ [HolidayNext]_holidayVars => CalendarInv' /\ [LeavesTheirWork]_holidayVars
  BY CalendarStep
<1>3. CalendarInv => HolidayTypeOK /\ DaysOffHaveTheirHoliday /\ SyncsAreIdempotent
  <2> SUFFICES ASSUME CalendarInv PROVE SyncsAreIdempotent
    BY DEF CalendarInv
  <2>1. \A d \in Dates : remarks[d] \in Remark \cup {NoRemark}
    BY DEF CalendarInv, HolidayTypeOK
  <2>2. \A f : Merged(Merged(remarks, f), f) = Merged(remarks, f)
    BY <2>1, MergedTwice
  <2> QED BY <2>2 DEF SyncsAreIdempotent
<1> QED BY <1>1, <1>2, <1>3, PTL DEF HolidaySpec, CalendarIsThePeoples, SyncsLeaveThePeoplesWork

-----------------------------------------------------------------------------
(* Plans.                                                                  *)

(* The kinds that copies and bulk writes put on a day.                     *)
PutKinds == ShiftKinds \ {"leave"}

(* What a write is made of: finitely many shifts on the days planned, told *)
(* apart on a day by their copy and their place in it.                     *)
Target == [copy : Nat, place : Nat, day : PlanDays, kind : PutKinds]
Tellable(targets) ==
  /\ IsFiniteSet(targets) /\ targets \subseteq Target
  /\ \A t, u \in targets : t.day = u.day /\ t.copy = u.copy /\ t.place = u.place => t = u

EntriesTell ==
  /\ IsFiniteSet(snapshot.entries)
  /\ \A e, f \in snapshot.entries : e.offset = f.offset /\ e.place = f.place => e = f

PlanInv ==
  /\ PlanTypeOK /\ plans \in Nat
  /\ EntriesTell
  /\ UnforcedWorkKeepsTheHours

LEMMA DaysFacts ==
  /\ PlanDays \subseteq Nat \ {0} /\ IsFiniteSet(PlanDays) /\ Cardinality(PlanDays) \in Nat
  /\ PlanDays = 1 .. Cardinality(PlanDays) /\ PlanDays \subseteq Int
  BY PlanningAssumption, FS_CardinalityType

LEMMA HoursFacts ==
  /\ \A kind : HoursOf(kind) \in Nat
  /\ \A kind : ~Working(kind) => HoursOf(kind) = 0
BY DEF HoursOf, Working

LEMMA PutInFacts ==
  ASSUME NEW those, IsFiniteSet(those)
  PROVE  /\ PutIn(those) \in Nat
         /\ PutIn({}) = 0
         /\ \A R \in SUBSET those : IsFiniteSet(R) /\ PutIn(R) <= PutIn(those)
         /\ \A R, Q \in SUBSET those : R \cap Q = {} => PutIn(R \cup Q) = PutIn(R) + PutIn(Q)
         /\ (\A t \in those : ~Working(t.kind)) => PutIn(those) = 0
<1> DEFINE f == [t \in those |-> HoursOf(t.kind)]
           sum(R) == SumFunctionOnSet(f, R)
<1>1. \A t \in those : f[t] \in Nat /\ f[t] \in Int
  BY HoursFacts
<1>2. ASSUME NEW R \in SUBSET those PROVE PutIn(R) = sum(R) /\ IsFiniteSet(R)
  <2> DEFINE h == [t \in R |-> HoursOf(t.kind)]
  <2>1. IsFiniteSet(R)
    BY FS_Subset
  <2>2. \A t \in R : h[t] \in Int /\ f[t] = h[t]
    BY HoursFacts
  <2>3. PutIn(R) = SumFunctionOnSet(h, R)
    BY DEF PutIn, SumFunction
  <2> HIDE DEF f, h
  <2>4. SumFunctionOnSet(f, R) = SumFunctionOnSet(h, R)
    BY <2>1, <2>2, SumSame
  <2> QED BY <2>1, <2>3, <2>4
<1> HIDE DEF f
<1>3. sum(those) \in Nat
  BY <1>1, SumNat
<1>4. sum({}) = 0
  BY <1>1, SumFacts
<1>5. \A R \in SUBSET those : sum(R) <= sum(those)
  BY <1>1, SumOfMore
<1>6. ASSUME NEW R \in SUBSET those, NEW Q \in SUBSET those, R \cap Q = {}
      PROVE  sum(R \cup Q) = sum(R) + sum(Q)
  BY <1>1, <1>2, <1>6, SumUnion
<1>7. ASSUME \A t \in those : ~Working(t.kind) PROVE sum(those) = 0
  <2>1. \A t \in those : f[t] = 0
    BY <1>7, HoursFacts DEF f
  <2> QED BY <2>1, SumZero
<1> HIDE DEF sum
<1>8. \A R, Q \in SUBSET those : R \cup Q \in SUBSET those /\ {} \in SUBSET those
  OBVIOUS
<1> QED BY <1>2, <1>3, <1>4, <1>5, <1>6, <1>7, <1>8

LEMMA RosteredFacts ==
  ASSUME shifts \in [PlanDays -> Seq(ShiftKinds)]
  PROVE  /\ \A d \in PlanDays : Rostered(d) \in Nat
         /\ \A d \in PlanDays : shifts[d] = <<>> => Rostered(d) = 0
<1> SUFFICES ASSUME NEW d \in PlanDays
             PROVE  Rostered(d) \in Nat /\ (shifts[d] = <<>> => Rostered(d) = 0)
  OBVIOUS
<1> DEFINE s == shifts[d]
           f == [i \in DOMAIN s |-> HoursOf(s[i])]
<1>1. Len(s) \in Nat /\ DOMAIN s = 1 .. Len(s) /\ (s = <<>> => Len(s) = 0)
  OBVIOUS
<1>2. IsFiniteSet(DOMAIN s)
  BY <1>1, FS_Interval
<1>3. \A i \in DOMAIN s : f[i] \in Nat /\ f[i] \in Int
  BY HoursFacts
<1>4. Rostered(d) = SumFunctionOnSet(f, DOMAIN s)
  BY DEF Rostered, HoursOfAll, SumFunction
<1> HIDE DEF f, s
<1>5. SumFunctionOnSet(f, DOMAIN s) \in Nat
  BY <1>2, <1>3, SumNat
<1>6. SumFunctionOnSet(f, {}) = 0
  BY <1>2, <1>3, SumFacts
<1>7. s = <<>> => DOMAIN s = {}
  BY <1>1
<1> QED BY <1>4, <1>5, <1>6, <1>7 DEF s

(* What is put on a day adds its hours to those of the day.                *)
LEMMA KindsOnFacts ==
  ASSUME NEW targets, Tellable(targets), NEW d \in PlanDays
  PROVE  /\ KindsOn(d, targets) \in Seq(PutKinds)
         /\ HoursOfAll(KindsOn(d, targets)) = PutIn({t \in targets : t.day = d})
<1> DEFINE those == {t \in targets : t.day = d}
           n == Cardinality(those)
           s == InOrder(those, CopyOrder(those))
           g == [t \in those |-> HoursOf(t.kind)]
           f == [i \in 1 .. n |-> HoursOf(s[i].kind)]
<1>1. IsFiniteSet(those) /\ n \in Nat /\ those \subseteq Target
  BY FS_Subset, FS_CardinalityType DEF Tellable
<1>2. \A t, u \in those : <<t, u>> \in CopyOrder(those) <=> t.copy < u.copy \/ (t.copy = u.copy /\ t.place < u.place)
  BY DEF CopyOrder
<1>3. \A t \in those : t.copy \in Nat /\ t.place \in Nat /\ t.kind \in PutKinds /\ t.day = d
  BY <1>1 DEF Target
<1>4. \A t, u \in those : t.copy = u.copy /\ t.place = u.place => t = u
  BY <1>1, <1>3 DEF Tellable
<1>5. Orders(CopyOrder(those), those)
  <2> HIDE DEF those
  <2> QED BY <1>2, <1>3, <1>4 DEF Orders
<1>6. /\ s \in [1 .. n -> those]
      /\ \A t \in those : \E i \in 1 .. n : s[i] = t
      /\ \A i, j \in 1 .. n : i < j => <<s[i], s[j]>> \in CopyOrder(those)
  <2> HIDE DEF those
  <2> QED BY <1>1, <1>5, InOrderFacts
<1>7. DOMAIN s = 1 .. n
  BY <1>6
<1>8. KindsOn(d, targets) = [i \in 1 .. n |-> s[i].kind]
  BY <1>7 DEF KindsOn
<1> HIDE DEF those, s
<1>9. \A i \in 1 .. n : s[i].kind \in PutKinds /\ s[i] \in those
  BY <1>3, <1>6
<1>10. KindsOn(d, targets) \in Seq(PutKinds) /\ DOMAIN KindsOn(d, targets) = 1 .. n
  BY <1>1, <1>8, <1>9
<1>11. \A i, j \in 1 .. n : s[i] = s[j] => i = j
  <2> SUFFICES ASSUME NEW i \in 1 .. n, NEW j \in 1 .. n, s[i] = s[j], i < j PROVE FALSE
    BY <1>1
  <2>1. <<s[i], s[j]>> \in CopyOrder(those)
    BY <1>6
  <2> QED BY <2>1, <1>5, <1>9 DEF Orders
<1>12. {s[i] : i \in 1 .. n} = those
  BY <1>6, <1>9
<1>13. HoursOfAll(KindsOn(d, targets)) = SumFunctionOnSet(f, 1 .. n)
  <2>1. [i \in 1 .. n |-> HoursOf(KindsOn(d, targets)[i])] = f
    BY <1>8
  <2> QED BY <1>10, <2>1 DEF HoursOfAll, SumFunction
<1>14. PutIn(those) = SumFunctionOnSet(g, those)
  BY DEF PutIn, SumFunction
<1>15. \A i \in 1 .. n : f[i] \in Int /\ g[s[i]] = f[i]
  BY <1>9, HoursFacts
<1>16. IsFiniteSet(1 .. n)
  BY <1>1, FS_Interval
<1> HIDE DEF f, g, n
<1>17. SumFunctionOnSet(g, {s[i] : i \in 1 .. n}) = SumFunctionOnSet(f, 1 .. n)
  <2> DEFINE D == 1 .. n
  <2>1. IsFiniteSet(D) /\ (\A i \in D : f[i] \in Int /\ g[s[i]] = f[i])
        /\ \A i, j \in D : s[i] = s[j] => i = j
    BY <1>11, <1>15, <1>16
  <2> HIDE DEF D
  <2>2. SumFunctionOnSet(g, {s[i] : i \in D}) = SumFunctionOnSet(f, D)
    BY <2>1, SumMapped
  <2> QED BY <2>2 DEF D
<1> QED BY <1>10, <1>12, <1>13, <1>14, <1>17 DEF those

LEMMA HoursJoined ==
  ASSUME NEW s \in Seq(ShiftKinds), NEW q \in Seq(ShiftKinds)
  PROVE  HoursOfAll(s \o q) = HoursOfAll(s) + HoursOfAll(q)
<1> DEFINE a == [i \in DOMAIN s |-> HoursOf(s[i])]
           b == [i \in DOMAIN q |-> HoursOf(q[i])]
<1>1. a \in Seq(Int) /\ b \in Seq(Int)
  BY HoursFacts
<1>2. [i \in DOMAIN (s \o q) |-> HoursOf((s \o q)[i])] = a \o b
  <2>1. DOMAIN s = 1 .. Len(s) /\ DOMAIN q = 1 .. Len(q) /\ DOMAIN (s \o q) = 1 .. Len(s) + Len(q)
        /\ Len(s) \in Nat /\ Len(q) \in Nat
    OBVIOUS
  <2>2. Len(a) = Len(s) /\ Len(b) = Len(q)
    BY <2>1, <1>1
  <2>3. (a \o b) \in Seq(Int) /\ DOMAIN (a \o b) = 1 .. Len(s) + Len(q)
    <3> HIDE DEF a, b
    <3>1. (a \o b) \in Seq(Int) /\ Len(a \o b) = Len(a) + Len(b)
      BY <1>1
    <3> DEFINE w == a \o b
    <3>2. DOMAIN w = 1 .. Len(w)
      <4>1. w \in Seq(Int)
        BY <3>1
      <4> HIDE DEF w
      <4> QED BY <4>1
    <3> QED BY <2>2, <3>1, <3>2
  <2>4. ASSUME NEW i \in 1 .. Len(s) + Len(q) PROVE (a \o b)[i] = HoursOf((s \o q)[i])
    <3>1. (s \o q)[i] = IF i <= Len(s) THEN s[i] ELSE q[i - Len(s)]
      BY <2>1
    <3>2. (a \o b)[i] = IF i <= Len(s) THEN a[i] ELSE b[i - Len(s)]
      <4> HIDE DEF a, b
      <4> QED BY <1>1, <2>1, <2>2
    <3> QED BY <3>1, <3>2, <2>1
  <2> DEFINE w == a \o b
             v == s \o q
             N == Len(s) + Len(q)
  <2>5. w \in [1 .. N -> Int] /\ DOMAIN v = 1 .. N
    <3>1. w \in Seq(Int) /\ DOMAIN w = 1 .. N
      BY <2>3
    <3>2. DOMAIN v = 1 .. N
      BY <2>1
    <3> HIDE DEF w, N, v
    <3>3. w \in [1 .. Len(w) -> Int] /\ DOMAIN w = 1 .. Len(w)
      BY <3>1
    <3> QED BY <3>1, <3>2, <3>3
  <2>6. \A i \in 1 .. N : w[i] = HoursOf(v[i])
    BY <2>4
  <2>7. [i \in DOMAIN v |-> HoursOf(v[i])] = w
    <3> HIDE DEF w, v, N
    <3> QED BY <2>5, <2>6
  <2> QED BY <2>7
<1>3. SumFunction(a \o b) = SumFunction(a) + SumFunction(b)
  <2> HIDE DEF a, b
  <2> QED BY <1>1, SumJoined
<1> QED BY <1>2, <1>3 DEF HoursOfAll

-----------------------------------------------------------------------------
(* Dry runs.                                                               *)

WorkDays(targets) == {t.day : t \in {u \in targets : Working(u.kind)}}

LEMMA FirstIsOne ==
  ASSUME NEW days, days \subseteq PlanDays
  PROVE  FirstDate(days) \subseteq days
<1>1. CASE days = {}
  BY <1>1 DEF FirstDate
<1>2. CASE days # {}
  <2>1. days \subseteq Nat
    BY DaysFacts
  <2>2. \E x \in days : \A q \in days : x <= q
    BY <1>2, <2>1, LeastExists
  <2>3. Min(days) \in days
    BY <2>2 DEF Min
  <2> QED BY <1>2, <2>3 DEF FirstDate
<1> QED BY <1>1, <1>2

(* Only leave stands against force; and without it there is more, but all  *)
(* on days of work.                                                        *)
LEMMA RefusedFacts ==
  ASSUME NEW targets, \A t \in targets : t.day \in PlanDays, NEW force \in BOOLEAN, NEW replaced
  PROVE  /\ Refused(targets, force, replaced) \cap onLeave = WorkDays(targets) \cap onLeave
         /\ force => Refused(targets, force, replaced) = WorkDays(targets) \cap onLeave
         /\ ~force => OverHours({t \in targets : Working(t.kind)}, replaced) \subseteq Refused(targets, force, replaced)
<1> DEFINE work == {t \in targets : Working(t.kind)}
           dates == {t.day : t \in work}
           read == {d \in PlanDays : d >= Min(dates) - Pad /\ d <= Max(dates) + Pad}
           days == {d \in read : d \notin replaced /\ HasWork(d)} \cup dates
           tooLong == {d \in dates : MostInARow > 0 /\ InARow(d, days) > MostInARow}
           tooFewRests == {d \in dates : RestDays > 0 /\ AtWorkInWeekFrom(d, days) > WeekLength - RestDays}
           over == OverHours(work, replaced)
           more == FirstDate(tooLong) \cup FirstDate(tooFewRests) \cup over
<1>1. Refused(targets, force, replaced)
        = IF work = {} THEN {} ELSE (dates \cap onLeave) \cup (IF force THEN {} ELSE more)
  BY DEF Refused
<1>2. dates = WorkDays(targets) /\ dates \subseteq PlanDays
  BY DEF WorkDays
<1>3. over \subseteq dates
  BY DEF OverHours
<1>4. tooLong \subseteq dates /\ tooFewRests \subseteq dates
  OBVIOUS
<1> HIDE DEF tooLong, tooFewRests, over
<1>5. FirstDate(tooLong) \subseteq dates /\ FirstDate(tooFewRests) \subseteq dates
  <2> HIDE DEF dates
  <2>1. tooLong \subseteq PlanDays /\ tooFewRests \subseteq PlanDays
    BY <1>2, <1>4
  <2>2. FirstDate(tooLong) \subseteq tooLong /\ FirstDate(tooFewRests) \subseteq tooFewRests
    BY <2>1, FirstIsOne
  <2> QED BY <1>4, <2>2
<1>6. work = {} => dates = {}
  OBVIOUS
<1> HIDE DEF dates, work
<1>7. more \subseteq dates /\ over \subseteq more
  BY <1>3, <1>5
<1> HIDE DEF more
<1>8. over = OverHours({t \in targets : Working(t.kind)}, replaced) /\ (work = {} => over = {})
  BY <1>3, <1>6 DEF over, work
<1> QED BY <1>1, <1>2, <1>6, <1>7, <1>8

LEMMA ShownIsPlanned ==
  ASSUME NEW targets, \A t \in targets : t.day \in PlanDays
  PROVE  Shown(targets) = Planned(targets, TRUE)
<1> DEFINE open == {t \in targets : ~IsHeld(t.day)}
           held == {t.day : t \in {u \in targets : IsHeld(u.day)}}
           replaced == {t.day : t \in open}
<1>1. Candidates(targets, TRUE) = open
  BY DEF Candidates
<1>2. Refused(targets, FALSE, {}) \cap onLeave = WorkDays(targets) \cap onLeave
  BY RefusedFacts
<1>3. Refused(open, TRUE, replaced) = WorkDays(open) \cap onLeave
  <2>1. \A t \in open : t.day \in PlanDays
    OBVIOUS
  <2> HIDE DEF open, replaced
  <2> QED BY <2>1, RefusedFacts
<1>4. Shown(targets) = {t \in targets : t.day \notin (WorkDays(targets) \cap onLeave) \cup held}
  BY <1>2 DEF Shown
<1>5. Planned(targets, TRUE) = {t \in open : t.day \notin WorkDays(open) \cap onLeave}
  BY <1>1, <1>3 DEF Planned
<1>6. ASSUME NEW t \in targets PROVE t.day \in held <=> IsHeld(t.day)
  OBVIOUS
<1>7. ASSUME NEW t \in targets, ~IsHeld(t.day) PROVE t.day \in WorkDays(targets) <=> t.day \in WorkDays(open)
  BY <1>7 DEF WorkDays
<1> HIDE DEF held
<1> QED BY <1>4, <1>5, <1>6, <1>7

LEMMA DryRunsAre == DryRunsAreHonest
BY ShownIsPlanned DEF DryRunsAreHonest

-----------------------------------------------------------------------------
(* Months.                                                                 *)

Months == 1 .. Len(Firsts)

LEMMA FirstsFacts ==
  /\ Len(Firsts) \in Nat /\ Len(Firsts) >= 2 /\ DOMAIN Firsts = Months
  /\ \A m \in Months : Firsts[m] \in Nat
  /\ \A i, j \in Months : i < j => Firsts[i] < Firsts[j]
  /\ \A i, j \in Months : i <= j => Firsts[i] <= Firsts[j]
  /\ Firsts[1] <= 1
  /\ \A d \in PlanDays : d < Firsts[Len(Firsts) - 1]
<1>1. Firsts \in Seq(Nat) /\ Len(Firsts) >= 2 /\ Firsts[1] <= 1
      /\ (\A i, j \in DOMAIN Firsts : i < j => Firsts[i] < Firsts[j])
      /\ \A d \in PlanDays : d < Firsts[Len(Firsts) - 1]
  BY PlanningAssumption
<1>2. Len(Firsts) \in Nat /\ DOMAIN Firsts = Months /\ \A m \in Months : Firsts[m] \in Nat
  BY <1>1 DEF Months
<1>3. \A i, j \in Months : i \in Int /\ j \in Int
  BY <1>2 DEF Months
<1> QED BY <1>1, <1>2, <1>3

(* Every planned day lies in a month that two more come after.             *)
LEMMA MonthFacts ==
  ASSUME NEW d \in PlanDays
  PROVE  /\ MonthOf(d) \in Months /\ Firsts[MonthOf(d)] <= d
         /\ MonthOf(d) < Len(Firsts) - 1
         /\ d < Firsts[MonthOf(d) + 1]
<1> DEFINE last == Len(Firsts) - 1
           later == {m \in Months : d < Firsts[m]}
<1>1. d \in Nat /\ d >= 1
  BY DaysFacts
<1>2. last \in Months /\ last \in later
  BY FirstsFacts DEF Months
<1>3. PICK first \in later : \A q \in later : first <= q
  <2>1. later \subseteq Nat
    BY FirstsFacts DEF Months
  <2> QED BY <1>2, <2>1, LeastExists
<1>4. first \in Nat /\ first > 1 /\ first <= last
  BY <1>1, <1>2, <1>3, FirstsFacts DEF Months
<1>5. first - 1 \in Months /\ first - 1 \notin later
  BY <1>2, <1>3, <1>4, FirstsFacts DEF Months
<1>6. Firsts[first - 1] <= d /\ d < Firsts[(first - 1) + 1]
  BY <1>1, <1>3, <1>4, <1>5, FirstsFacts
<1>7. \E m \in DOMAIN Firsts : Firsts[m] <= d /\ (m < Len(Firsts) => d < Firsts[m + 1])
  BY <1>5, <1>6, FirstsFacts
<1>8. MonthOf(d) \in Months /\ Firsts[MonthOf(d)] <= d /\ (MonthOf(d) < Len(Firsts) => d < Firsts[MonthOf(d) + 1])
  BY <1>7, FirstsFacts DEF MonthOf
<1>9. MonthOf(d) < last
  <2> SUFFICES ASSUME last <= MonthOf(d) PROVE FALSE
    BY <1>8, FirstsFacts DEF Months
  <2>1. Firsts[last] <= Firsts[MonthOf(d)]
    BY <1>2, <1>8, FirstsFacts
  <2> QED BY <1>1, <1>2, <1>8, <2>1, FirstsFacts
<1> QED BY <1>8, <1>9, FirstsFacts DEF Months

(* The same day some months on lies in that month.                         *)
LEMMA AddMonthsFacts ==
  ASSUME NEW d \in PlanDays, NEW k \in Nat, MonthOf(d) + k < Len(Firsts)
  PROVE  /\ AddMonths(d, k) \in Int
         /\ Firsts[MonthOf(d) + k] <= AddMonths(d, k)
         /\ AddMonths(d, k) < Firsts[MonthOf(d) + k + 1]
<1> DEFINE m == MonthOf(d)
           a == Firsts[m]
           b == Firsts[m + k]
           c == Firsts[m + k + 1]
<1>1. m \in Months /\ m + k \in Months /\ m + k + 1 \in Months
  BY MonthFacts, FirstsFacts DEF Months
<1>2. a \in Nat /\ b \in Nat /\ c \in Nat /\ b < c /\ a <= d /\ d \in Nat
  <2>1. m + k < m + k + 1
    BY <1>1 DEF Months
  <2> QED BY <1>1, <2>1, FirstsFacts, MonthFacts, DaysFacts
<1>3. AddMonths(d, k) = IF b + (d - a) < c THEN b + (d - a) ELSE c - 1
  BY DEF AddMonths
<1> HIDE DEF a, b, c
<1>4. AddMonths(d, k) \in Int /\ b <= AddMonths(d, k) /\ AddMonths(d, k) < c
  BY <1>2, <1>3
<1> QED BY <1>4 DEF a, b, c

(* A copy ends before the next one that is made begins.                    *)
LEMMA CopiesFollow ==
  ASSUME NEW s, s.span \in Nat, s.monthly \in BOOLEAN, NEW start \in PlanDays, NEW until \in PlanDays,
         NEW k \in CopiesMade(s, start, until), NEW l \in CopiesMade(s, start, until), k < l
  PROVE  /\ CopyStart(s, start, l) \in Int /\ CopyEnd(s, start, k) \in Int
         /\ CopyEnd(s, start, k) < CopyStart(s, start, l)
<1>1. k \in Nat /\ l \in Nat /\ l >= 1 /\ (s.monthly => MonthOf(start) + l < Len(Firsts))
  BY DaysFacts DEF CopiesMade
<1>2. start \in Nat
  BY DaysFacts
<1>3. CASE s.monthly
  <2> DEFINE m == MonthOf(start)
  <2>1. m \in Nat /\ m + l < Len(Firsts) /\ m + (k + 1) < Len(Firsts) /\ Len(Firsts) \in Nat /\ m + k < Len(Firsts)
    BY <1>1, <1>3, MonthFacts, FirstsFacts DEF Months
  <2>2. /\ AddMonths(start, k + 1) \in Int /\ AddMonths(start, k + 1) < Firsts[m + (k + 1) + 1]
        /\ AddMonths(start, l) \in Int /\ Firsts[m + l] <= AddMonths(start, l)
    BY <1>1, <2>1, AddMonthsFacts
  <2>3. CASE l = k + 1
    BY <2>2, <2>3, <1>3 DEF CopyStart, CopyEnd
  <2>4. CASE l # k + 1
    <3>1. m + (k + 1) + 1 \in Months /\ m + l \in Months /\ m + (k + 1) + 1 <= m + l
      BY <1>1, <2>1, <2>4, MonthFacts DEF Months
    <3>2. Firsts[m + (k + 1) + 1] <= Firsts[m + l] /\ Firsts[m + (k + 1) + 1] \in Nat /\ Firsts[m + l] \in Nat
      BY <3>1, FirstsFacts
    <3>3. AddMonths(start, k + 1) - 1 < AddMonths(start, l)
      <4> DEFINE a == AddMonths(start, k + 1)
                 b == AddMonths(start, l)
                 c == Firsts[m + (k + 1) + 1]
                 e == Firsts[m + l]
      <4>1. a \in Int /\ b \in Int /\ c \in Nat /\ e \in Nat /\ a < c /\ c <= e /\ e <= b
        BY <2>2, <3>2
      <4> HIDE DEF a, b, c, e
      <4>2. a - 1 < b
        BY <4>1
      <4> QED BY <4>2 DEF a, b
    <3> QED BY <2>2, <3>3, <1>3 DEF CopyStart, CopyEnd
  <2> QED BY <2>3, <2>4
<1>4. CASE ~s.monthly
  <2> DEFINE n == s.span
  <2>1. CopyEnd(s, start, k) = start + (k * n) + n - 1 /\ CopyStart(s, start, l) = start + (l * n)
    BY <1>4 DEF CopyEnd, CopyStart
  <2>2. PICK gap \in Nat : l = k + 1 + gap
    <3>1. l - k - 1 \in Nat /\ l = k + 1 + (l - k - 1)
      BY <1>1
    <3> QED BY <3>1
  <2> HIDE DEF n
  <2>3. n \in Nat
    BY DEF n
  <2>4. k * n \in Nat /\ gap * n \in Nat /\ l * n = (k * n) + n + (gap * n)
    BY <1>1, <2>2, <2>3
  <2> DEFINE a == k * n
             b == gap * n
             c == l * n
  <2>5. a \in Nat /\ b \in Nat /\ c = a + n + b
    BY <2>4
  <2>6. CopyEnd(s, start, k) = start + a + n - 1 /\ CopyStart(s, start, l) = start + c
    BY <2>1
  <2> HIDE DEF a, b, c
  <2> QED BY <1>2, <2>3, <2>5, <2>6
<1> QED BY <1>3, <1>4

LEMMA CopyIs ==
  ASSUME NEW s, NEW start, NEW until, NEW t \in SnapshotCopies(s, start, until)
  PROVE  \E k \in CopiesMade(s, start, until), e \in s.entries :
           /\ t = [copy |-> k, place |-> e.offset * MostShifts + e.place,
                   day |-> CopyStart(s, start, k) + e.offset, kind |-> e.kind]
           /\ t.day <= CopyEnd(s, start, k)
BY DEF SnapshotCopies

LEMMA CopiesAreApart ==
  ASSUME PlanTypeOK
  PROVE  CopiesKeepApart
<1> SUFFICES ASSUME NEW p \in Spans, NEW t \in SnapshotCopies(snapshot, p[1], p[2]),
                    NEW u \in SnapshotCopies(snapshot, p[1], p[2]), t.day = u.day, t.copy # u.copy
             PROVE  FALSE
  BY DEF CopiesKeepApart
<1>1. p[1] \in PlanDays /\ p[2] \in PlanDays
  BY DEF Spans
<1>2. PICK k \in CopiesMade(snapshot, p[1], p[2]), e \in snapshot.entries :
        /\ t.copy = k /\ t.day = CopyStart(snapshot, p[1], k) + e.offset
        /\ t.day <= CopyEnd(snapshot, p[1], k)
  BY CopyIs
<1>3. PICK l \in CopiesMade(snapshot, p[1], p[2]), f \in snapshot.entries :
        /\ u.copy = l /\ u.day = CopyStart(snapshot, p[1], l) + f.offset
        /\ u.day <= CopyEnd(snapshot, p[1], l)
  BY CopyIs
<1>4. e.offset \in Nat /\ f.offset \in Nat /\ snapshot.span \in Nat /\ snapshot.monthly \in BOOLEAN
  BY DEF PlanTypeOK
<1>5. k \in Nat /\ l \in Nat
  BY DaysFacts DEF CopiesMade
<1>6. CASE k < l
  <2>1. /\ CopyStart(snapshot, p[1], l) \in Int /\ CopyEnd(snapshot, p[1], k) \in Int
        /\ CopyEnd(snapshot, p[1], k) < CopyStart(snapshot, p[1], l)
    BY <1>1, <1>4, <1>6, CopiesFollow
  <2>2. u.day \in Int /\ CopyStart(snapshot, p[1], l) <= u.day
    BY <1>3, <1>4, <2>1
  <2>3. u.day <= CopyEnd(snapshot, p[1], k)
    BY <1>2
  <2> QED BY <2>1, <2>2, <2>3
<1>7. CASE l < k
  <2>1. /\ CopyStart(snapshot, p[1], k) \in Int /\ CopyEnd(snapshot, p[1], l) \in Int
        /\ CopyEnd(snapshot, p[1], l) < CopyStart(snapshot, p[1], k)
    BY <1>1, <1>4, <1>7, CopiesFollow
  <2> QED BY <1>2, <1>3, <1>4, <2>1
<1> QED BY <1>2, <1>3, <1>5, <1>6, <1>7

-----------------------------------------------------------------------------
(* What a write adds.                                                      *)

LEMMA RosteredOverFacts ==
  ASSUME shifts \in [PlanDays -> Seq(ShiftKinds)], NEW days \in SUBSET PlanDays,
         NEW replaced, \A d \in replaced : shifts[d] = <<>>
  PROVE  /\ RosteredOver(days) \in Nat
         /\ RosteredOver(days \ replaced) = RosteredOver(days)
         /\ \A d \in PlanDays : RosteredOver({d}) = Rostered(d)
<1> DEFINE f == [d \in PlanDays |-> Rostered(d)]
           sum(S) == SumFunctionOnSet(f, S)
<1>1. \A d \in PlanDays : f[d] \in Nat /\ f[d] \in Int /\ f[d] = Rostered(d)
  BY RosteredFacts
<1>2. ASSUME NEW S \in SUBSET PlanDays PROVE RosteredOver(S) = sum(S) /\ IsFiniteSet(S)
  <2> DEFINE h == [d \in S |-> Rostered(d)]
  <2>1. IsFiniteSet(S)
    BY DaysFacts, FS_Subset
  <2>2. \A d \in S : h[d] \in Int /\ f[d] = h[d]
    BY RosteredFacts
  <2>3. RosteredOver(S) = SumFunctionOnSet(h, S)
    BY DEF RosteredOver, SumFunction
  <2> HIDE DEF f, h
  <2>4. SumFunctionOnSet(f, S) = SumFunctionOnSet(h, S)
    BY <2>1, <2>2, SumSame
  <2> QED BY <2>1, <2>3, <2>4
<1>3. \A d \in PlanDays : d \in replaced => f[d] = 0
  BY RosteredFacts
<1> HIDE DEF f
<1>4. sum(days) \in Nat
  BY <1>1, <1>2, SumNat
<1>5. sum(days) = sum(days \ replaced) + sum(days \cap replaced)
  <2> DEFINE S == days \ replaced
             R == days \cap replaced
  <2>1. IsFiniteSet(S) /\ IsFiniteSet(R) /\ S \cap R = {} /\ (\A d \in S \cup R : f[d] \in Int) /\ S \cup R = days
    <3>1. S \in SUBSET PlanDays /\ R \in SUBSET PlanDays
      OBVIOUS
    <3> QED BY <1>1, <1>2, <3>1
  <2> HIDE DEF S, R
  <2>2. sum(S \cup R) = sum(S) + sum(R)
    BY <2>1, SumUnion
  <2> QED BY <2>1, <2>2 DEF S, R
<1>6. sum(days \cap replaced) = 0
  <2> DEFINE R == days \cap replaced
  <2>1. IsFiniteSet(R) /\ \A d \in R : f[d] = 0
    <3>1. R \in SUBSET PlanDays
      OBVIOUS
    <3> QED BY <1>2, <1>3, <3>1
  <2> HIDE DEF R
  <2> QED BY <2>1, SumZero DEF R
<1>7. sum(days \ replaced) \in Int
  <2>1. days \ replaced \in SUBSET days /\ \A d \in days : f[d] \in Int
    BY <1>1
  <2> QED BY <1>2, <2>1, SumFacts
<1>8. ASSUME NEW d \in PlanDays PROVE sum({d}) = Rostered(d)
  <2>1. IsFiniteSet(PlanDays) /\ \A e \in PlanDays : f[e] \in Int
    BY <1>1, DaysFacts
  <2>2. /\ sum({}) = 0
        /\ \A R \in SUBSET PlanDays : \A e \in PlanDays \ R : sum(R \cup {e}) = f[e] + sum(R)
    BY <2>1, SumFacts
  <2> HIDE DEF sum
  <2>3. sum({} \cup {d}) = f[d] + sum({}) /\ {} \cup {d} = {d}
    BY <2>2
  <2> QED BY <1>1, <2>2, <2>3
<1>9. days \ replaced \in SUBSET PlanDays /\ \A d \in PlanDays : {d} \in SUBSET PlanDays
  OBVIOUS
<1> HIDE DEF sum
<1>10. sum(days \ replaced) = sum(days)
  BY <1>4, <1>5, <1>6, <1>7
<1> QED BY <1>2, <1>4, <1>8, <1>9, <1>10

AddsHours(targets) == \A d \in PlanDays : Rostered(d)' = Rostered(d) + PutIn({t \in targets : t.day = d})

LEMMA WrittenOver ==
  ASSUME shifts \in [PlanDays -> Seq(ShiftKinds)], NEW targets, IsFiniteSet(targets), AddsHours(targets),
         NEW days \in SUBSET PlanDays
  PROVE  RosteredOver(days)' = RosteredOver(days) + PutIn({t \in targets : t.day \in days})
<1> DEFINE f == [d \in days |-> Rostered(d)]
           g == [d \in days |-> Rostered(d)']
           put(S) == PutIn({t \in targets : t.day \in S})
           sum(h, S) == SumFunctionOnSet(h, S)
           T == {S \in SUBSET days : sum(g, S) = sum(f, S) + put(S)}
<1>1. IsFiniteSet(days)
  BY DaysFacts, FS_Subset
<1>2. RosteredOver(days) = sum(f, days) /\ RosteredOver(days)' = sum(g, days)
  BY DEF RosteredOver, SumFunction
<1>3. ASSUME NEW d \in days
      PROVE  f[d] \in Int /\ g[d] \in Int /\ g[d] = f[d] + PutIn({t \in targets : t.day = d})
             /\ PutIn({t \in targets : t.day = d}) \in Int
  <2>1. Rostered(d) \in Nat
    BY RosteredFacts
  <2>2. Rostered(d)' = Rostered(d) + PutIn({t \in targets : t.day = d})
    BY DEF AddsHours
  <2>3. IsFiniteSet({t \in targets : t.day = d})
    BY FS_Subset
  <2>4. PutIn({t \in targets : t.day = d}) \in Nat
    BY <2>3, PutInFacts
  <2> QED BY <2>1, <2>2, <2>4
<1> HIDE DEF f, g
<1>4. \A R \in SUBSET days : sum(f, R) \in Int /\ \A e \in days \ R : sum(f, R \cup {e}) = f[e] + sum(f, R)
  <2>1. \A e \in days : f[e] \in Int
    BY <1>3
  <2> QED BY <1>1, <2>1, SumFacts
<1>5. \A R \in SUBSET days : sum(g, R) \in Int /\ \A e \in days \ R : sum(g, R \cup {e}) = g[e] + sum(g, R)
  <2>1. \A e \in days : g[e] \in Int
    BY <1>3
  <2> QED BY <1>1, <2>1, SumFacts
<1>6. sum(f, {}) = 0 /\ sum(g, {}) = 0
  BY <1>1, <1>3, SumFacts
<1>7. put({}) = 0
  BY PutInFacts
<1>8. ASSUME NEW S \in SUBSET days, NEW d \in days \ S, S \in T PROVE S \cup {d} \in T
  <2> DEFINE here == {t \in targets : t.day = d}
             there == {t \in targets : t.day \in S}
  <2>1. sum(g, S \cup {d}) = g[d] + sum(g, S) /\ sum(f, S \cup {d}) = f[d] + sum(f, S)
        /\ sum(f, S) \in Int /\ sum(g, S) \in Int
    BY <1>4, <1>5
  <2>2. put(S \cup {d}) = put(S) + PutIn(here)
    <3>1. there \cap here = {} /\ there \in SUBSET targets /\ here \in SUBSET targets
      OBVIOUS
    <3>2. {t \in targets : t.day \in S \cup {d}} = there \cup here
      OBVIOUS
    <3> HIDE DEF here, there
    <3>3. PutIn(there \cup here) = PutIn(there) + PutIn(here)
      BY <3>1, PutInFacts
    <3> QED BY <3>2, <3>3 DEF there
  <2>3. put(S) \in Int
    <3>1. IsFiniteSet(there)
      BY FS_Subset
    <3>2. PutIn(there) \in Nat
      BY <3>1, PutInFacts
    <3> QED BY <3>2
  <2>4. g[d] = f[d] + PutIn(here) /\ f[d] \in Int /\ g[d] \in Int /\ PutIn(here) \in Int
    BY <1>3
  <2>5. sum(g, S) = sum(f, S) + put(S)
    BY <1>8
  <2> HIDE DEF sum, put, here
  <2>6. sum(g, S \cup {d}) = sum(f, S \cup {d}) + put(S \cup {d})
    BY <2>1, <2>2, <2>3, <2>4, <2>5
  <2> QED BY <2>6
<1>9. {} \in T
  <2> HIDE DEF sum, put
  <2> QED BY <1>6, <1>7
<1> HIDE DEF T
<1>10. days \in T
  BY <1>1, <1>8, <1>9, SetsInduction
<1> QED BY <1>2, <1>10 DEF T

(* What every write leaves in order.                                       *)
LEMMA PutFacts ==
  ASSUME PlanInv, NEW targets, Tellable(targets), NEW replaced, NEW force, Put(targets, replaced, force)
  PROVE  PlanTypeOK' /\ plans' \in Nat /\ EntriesTell'
<1>1. \A d \in PlanDays : KindsOn(d, targets) \in Seq(ShiftKinds)
  <2> SUFFICES ASSUME NEW d \in PlanDays PROVE KindsOn(d, targets) \in Seq(ShiftKinds)
    OBVIOUS
  <2>1. KindsOn(d, targets) \in Seq(PutKinds) /\ PutKinds \subseteq ShiftKinds
    BY KindsOnFacts DEF PutKinds
  <2> QED BY <2>1, WiderSeq
<1>2. shifts' \in [PlanDays -> Seq(ShiftKinds)]
  <2>1. shifts' = [d \in PlanDays |-> (IF d \in replaced THEN <<>> ELSE shifts[d]) \o KindsOn(d, targets)]
    BY DEF Put
  <2>2. ASSUME NEW d \in PlanDays
        PROVE  ((IF d \in replaced THEN <<>> ELSE shifts[d]) \o KindsOn(d, targets)) \in Seq(ShiftKinds)
    <3>1. (IF d \in replaced THEN <<>> ELSE shifts[d]) \in Seq(ShiftKinds)
      BY DEF PlanInv, PlanTypeOK
    <3> QED BY <1>1, <3>1
  <2> QED BY <2>1, <2>2
<1>3. unforced' \subseteq PlanDays
  BY DEF Put, Tellable, Target
<1>4. plans' \in 0 .. MostPlans /\ plans' \in Nat
  <2>1. plans \in Nat /\ plans < MostPlans /\ plans' = plans + 1 /\ MostPlans \in Nat
    BY PlanningAssumption DEF Put, PlanInv
  <2> QED BY <2>1
<1>5. onLeave' = onLeave /\ snapshot' = snapshot
  BY DEF Put
<1> QED BY <1>2, <1>3, <1>4, <1>5 DEF PlanInv, PlanTypeOK, EntriesTell

(* What is put on top adds its hours.                                      *)
LEMMA PutAdds ==
  ASSUME shifts \in [PlanDays -> Seq(ShiftKinds)], NEW targets, Tellable(targets), NEW replaced,
         \A d \in replaced : shifts[d] = <<>>, NEW force, Put(targets, replaced, force)
  PROVE  AddsHours(targets)
<1> SUFFICES ASSUME NEW d \in PlanDays
             PROVE  Rostered(d)' = Rostered(d) + PutIn({t \in targets : t.day = d})
  BY DEF AddsHours
<1>1. shifts'[d] = shifts[d] \o KindsOn(d, targets)
  BY DEF Put
<1>2. shifts[d] \in Seq(ShiftKinds)
  OBVIOUS
<1>3. KindsOn(d, targets) \in Seq(PutKinds) /\ HoursOfAll(KindsOn(d, targets)) = PutIn({t \in targets : t.day = d})
  BY KindsOnFacts
<1>4. KindsOn(d, targets) \in Seq(ShiftKinds)
  <2>1. PutKinds \subseteq ShiftKinds
    BY DEF PutKinds
  <2> QED BY <1>3, <2>1, WiderSeq
<1>5. HoursOfAll(shifts[d] \o KindsOn(d, targets)) = HoursOfAll(shifts[d]) + HoursOfAll(KindsOn(d, targets))
  BY <1>2, <1>4, HoursJoined
<1> QED BY <1>1, <1>3, <1>5 DEF Rostered

(* What is left out of a write that is not forced are the days on which it *)
(* would break a limit: the last day of work of a week that is written on  *)
(* has been judged with all the hours of the week.                         *)
LEMMA JudgedHours ==
  ASSUME shifts \in [PlanDays -> Seq(ShiftKinds)], NEW targets, Tellable(targets),
         NEW replaced, \A d \in replaced : shifts[d] = <<>>,
         NEW d \in WorkDays(targets),
         d \notin OverHours({t \in targets : Working(t.kind)}, replaced)
  PROVE  /\ MostPerDay > 0 =>
              Rostered(d) + PutIn({t \in targets : Working(t.kind) /\ t.day = d}) <= MostPerDay
         /\ MostPerWeek > 0 =>
              RosteredOver(WeekOf(d))
                + PutIn({t \in targets : Working(t.kind) /\ t.day \in WeekOf(d) /\ t.day <= d}) <= MostPerWeek
<1> DEFINE work == {t \in targets : Working(t.kind)}
           on(e) == {t \in work : t.day = e}
           upTo(e) == {t \in work : t.day \in WeekOf(e) /\ t.day <= e}
<1>1. PICK u \in work : u.day = d
  BY DEF WorkDays
<1>2. d \in PlanDays /\ WeekOf(d) \in SUBSET PlanDays /\ {d} \in SUBSET PlanDays
  BY <1>1 DEF Tellable, Target, WeekOf
<1>3. ~\/ /\ MostPerDay > 0
          /\ RosteredOver({d} \ replaced) + PutIn(on(d)) > MostPerDay
       \/ /\ MostPerWeek > 0
          /\ RosteredOver(WeekOf(d) \ replaced) + PutIn(upTo(d)) > MostPerWeek
  BY <1>1 DEF OverHours
<1>4. RosteredOver({d} \ replaced) = Rostered(d) /\ RosteredOver(WeekOf(d) \ replaced) = RosteredOver(WeekOf(d))
      /\ Rostered(d) \in Nat /\ RosteredOver(WeekOf(d)) \in Nat
  BY <1>2, RosteredOverFacts, RosteredFacts
<1>5. PutIn(on(d)) \in Nat /\ PutIn(upTo(d)) \in Nat
  <2>1. IsFiniteSet(on(d)) /\ IsFiniteSet(upTo(d))
    BY FS_Subset DEF Tellable
  <2> HIDE DEF on, upTo
  <2> QED BY <2>1, PutInFacts
<1>6. on(d) = {t \in targets : Working(t.kind) /\ t.day = d}
      /\ upTo(d) = {t \in targets : Working(t.kind) /\ t.day \in WeekOf(d) /\ t.day <= d}
  OBVIOUS
<1>7. MostPerDay \in Nat /\ MostPerWeek \in Nat
  BY PlanningAssumption
<1> HIDE DEF on, upTo
<1> QED BY <1>3, <1>4, <1>5, <1>6, <1>7

LEMMA WorkCounts ==
  ASSUME NEW those, IsFiniteSet(those), NEW others \in SUBSET those, \A t \in those \ others : ~Working(t.kind)
  PROVE  PutIn(those) = PutIn(others)
<1> DEFINE rest == those \ others
<1>1. rest \in SUBSET those /\ rest \cap others = {} /\ rest \cup others = those /\ \A t \in rest : ~Working(t.kind)
  OBVIOUS
<1> HIDE DEF rest
<1>2. IsFiniteSet(rest)
  BY <1>1, FS_Subset
<1>3. PutIn(rest) = 0
  BY <1>1, <1>2, PutInFacts
<1>4. PutIn(rest \cup others) = PutIn(rest) + PutIn(others) /\ PutIn(others) \in Nat
  <2>1. IsFiniteSet(others)
    BY FS_Subset
  <2> QED BY <1>1, <2>1, PutInFacts
<1> QED BY <1>1, <1>3, <1>4

LEMMA LastDay ==
  ASSUME NEW days, days \subseteq PlanDays, days # {}
  PROVE  \E e \in days : \A d \in days : d <= e
<1> DEFINE N == Cardinality(PlanDays)
           back == {N - d : d \in days}
<1>1. N \in Nat /\ \A d \in days : d \in 1 .. N
  BY DaysFacts
<1>2. back \subseteq Nat /\ back # {}
  BY <1>1
<1>3. PICK q \in back : \A x \in back : q <= x
  BY <1>2, LeastExists
<1>4. PICK e \in days : q = N - e
  BY <1>3
<1>5. \A d \in days : N - e <= N - d
  BY <1>3, <1>4
<1> HIDE DEF N
<1> QED BY <1>1, <1>5

LEMMA UnforcedPut ==
  ASSUME PlanInv, NEW targets, Tellable(targets), NEW replaced, \A d \in replaced : shifts[d] = <<>>,
         NEW kept, kept = {t \in targets : t.day \notin Refused(targets, FALSE, replaced)},
         NEW emptied, emptied \subseteq replaced, Put(kept, emptied, FALSE)
  PROVE  UnforcedWorkKeepsTheHours'
<1> DEFINE refused == Refused(targets, FALSE, replaced)
           work == {t \in targets : Working(t.kind)}
<1>0. shifts \in [PlanDays -> Seq(ShiftKinds)] /\ onLeave' = onLeave
  BY DEF PlanInv, PlanTypeOK, Put
<1>1. Tellable(kept) /\ IsFiniteSet(kept) /\ IsFiniteSet(targets) /\ \A t \in targets : t.day \in PlanDays
  <2>1. IsFiniteSet(kept)
    BY FS_Subset DEF Tellable
  <2> QED BY <2>1 DEF Tellable, Target
<1>2. AddsHours(kept)
  BY <1>0, <1>1, PutAdds
<1>3. WorkDays(targets) \cap onLeave \subseteq refused /\ OverHours(work, replaced) \subseteq refused
  <2>1. refused \cap onLeave = WorkDays(targets) \cap onLeave /\ OverHours(work, replaced) \subseteq refused
    BY <1>1, RefusedFacts
  <2> HIDE DEF refused
  <2> QED BY <2>1
<1>4. unforced' = WorkDays(kept)
  BY DEF Put, WorkDays
<1>5. WorkDays(kept) \subseteq WorkDays(targets) \ refused /\ WorkDays(kept) \subseteq PlanDays
  BY <1>1 DEF WorkDays
<1> HIDE DEF refused
<1>6. \A t \in targets : t.day \notin refused => t \in kept
  BY DEF refused
<1>7. MostPerDay \in Nat /\ MostPerWeek \in Nat
  BY PlanningAssumption
<1> SUFFICES ASSUME NEW d \in WorkDays(kept)
             PROVE  /\ d \notin onLeave
                    /\ MostPerDay > 0 => Rostered(d)' <= MostPerDay
                    /\ MostPerWeek > 0 => RosteredOver(WeekOf(d))' <= MostPerWeek
  BY <1>0, <1>4 DEF UnforcedWorkKeepsTheHours
<1>8. d \notin onLeave /\ d \in PlanDays
  BY <1>3, <1>5
<1>9. MostPerDay > 0 => Rostered(d)' <= MostPerDay
  <2> DEFINE put == {t \in kept : t.day = d}
             judged == {t \in targets : Working(t.kind) /\ t.day = d}
  <2>1. d \in WorkDays(targets) /\ d \notin OverHours(work, replaced)
    BY <1>3, <1>5
  <2>2. MostPerDay > 0 => Rostered(d) + PutIn(judged) <= MostPerDay
    BY <1>0, <2>1, JudgedHours
  <2>3. Rostered(d)' = Rostered(d) + PutIn(put)
    BY <1>2, <1>8 DEF AddsHours
  <2>4. IsFiniteSet(put)
    BY <1>1, FS_Subset
  <2>5. judged \subseteq put /\ \A t \in put \ judged : ~Working(t.kind)
    BY <1>5, <1>6
  <2> HIDE DEF put, judged
  <2>6. PutIn(put) = PutIn(judged)
    BY <2>4, <2>5, WorkCounts
  <2> QED BY <2>2, <2>3, <2>6
<1>10. MostPerWeek > 0 => RosteredOver(WeekOf(d))' <= MostPerWeek
  <2> DEFINE week == WeekOf(d)
             put == {t \in kept : t.day \in week}
             done == {t \in kept : Working(t.kind) /\ t.day \in week}
  <2>1. week \in SUBSET PlanDays /\ d \in week
    BY <1>8 DEF WeekOf
  <2>2. PICK e \in WorkDays(kept) \cap week : \A x \in WorkDays(kept) \cap week : x <= e
    <3> HIDE DEF week
    <3>1. WorkDays(kept) \cap week \subseteq PlanDays /\ WorkDays(kept) \cap week # {}
      BY <2>1
    <3> QED BY <3>1, LastDay
  <2>3. WeekOf(e) = week
    BY <2>2 DEF WeekOf
  <2> DEFINE judged == {t \in targets : Working(t.kind) /\ t.day \in week /\ t.day <= e}
  <2>4. e \in WorkDays(targets) /\ e \notin OverHours(work, replaced)
    BY <1>3, <1>5, <2>2
  <2>5. MostPerWeek > 0 => RosteredOver(week) + PutIn(judged) <= MostPerWeek
    <3>1. MostPerWeek > 0 => RosteredOver(WeekOf(e))
            + PutIn({t \in targets : Working(t.kind) /\ t.day \in WeekOf(e) /\ t.day <= e}) <= MostPerWeek
      BY <1>0, <2>4, JudgedHours
    <3> HIDE DEF week
    <3> QED BY <2>3, <3>1
  <2>6. RosteredOver(week)' = RosteredOver(week) + PutIn(put) /\ RosteredOver(week) \in Nat
    <3>1. RosteredOver(WeekOf(d))' = RosteredOver(WeekOf(d)) + PutIn({t \in kept : t.day \in WeekOf(d)})
      BY <1>0, <1>1, <1>2, <2>1, WrittenOver
    <3>2. RosteredOver(WeekOf(d)) \in Nat
      BY <1>0, <2>1, RosteredOverFacts
    <3> QED BY <3>1, <3>2
  <2>7. IsFiniteSet(put) /\ IsFiniteSet(judged)
    BY <1>1, FS_Subset
  <2>8. done \subseteq put /\ \A t \in put \ done : ~Working(t.kind)
    OBVIOUS
  <2>9. done \in SUBSET judged
    <3> SUFFICES ASSUME NEW t \in done PROVE t \in judged
      OBVIOUS
    <3>1. t \in targets /\ t.day \in WorkDays(kept) \cap week
      BY DEF WorkDays
    <3> QED BY <2>2, <3>1
  <2> HIDE DEF put, done, judged
  <2>10. PutIn(put) = PutIn(done)
    BY <2>7, <2>8, WorkCounts
  <2>11. PutIn(done) <= PutIn(judged) /\ PutIn(judged) \in Nat /\ PutIn(done) \in Nat
    <3>1. IsFiniteSet(done)
      BY <2>7, <2>9, FS_Subset
    <3> QED BY <2>7, <2>9, <3>1, PutInFacts
  <2>12. MostPerWeek > 0 => RosteredOver(week)' <= MostPerWeek
    <3> DEFINE a == RosteredOver(week)
               b == RosteredOver(week)'
               p == PutIn(judged)
               q == PutIn(done)
    <3>1. (MostPerWeek > 0 => a + p <= MostPerWeek) /\ b = a + q /\ q <= p /\ a \in Nat /\ p \in Nat /\ q \in Nat
      BY <2>5, <2>6, <2>10, <2>11
    <3> HIDE DEF a, b, p, q, week
    <3>2. MostPerWeek > 0 => b <= MostPerWeek
      BY <1>7, <3>1
    <3> QED BY <3>2 DEF b
  <2> QED BY <2>12
<1> QED BY <1>8, <1>9, <1>10

-----------------------------------------------------------------------------
(* Every write is of shifts that can be told apart.                        *)

LEMMA PartTells ==
  ASSUME NEW targets, Tellable(targets), NEW part, part \subseteq targets
  PROVE  Tellable(part)
<1>1. IsFiniteSet(part)
  BY FS_Subset DEF Tellable
<1> QED BY <1>1 DEF Tellable

LEMMA SpanFacts ==
  ASSUME NEW s \in Spans
  PROVE  /\ s[1] \in PlanDays /\ s[2] \in PlanDays /\ s[1] <= s[2]
         /\ s[1] .. s[2] \subseteq PlanDays /\ IsFiniteSet(s[1] .. s[2])
<1>1. s[1] \in PlanDays /\ s[2] \in PlanDays /\ s[1] <= s[2]
  BY DEF Spans
<1>2. s[1] .. s[2] \subseteq PlanDays
  <2> DEFINE a == s[1]
             b == s[2]
  <2>1. a \in 1 .. Cardinality(PlanDays) /\ b \in 1 .. Cardinality(PlanDays) /\ Cardinality(PlanDays) \in Nat
    BY <1>1, DaysFacts
  <2> HIDE DEF a, b
  <2>2. a .. b \subseteq 1 .. Cardinality(PlanDays)
    BY <2>1
  <2> QED BY <2>2, DaysFacts DEF a, b
<1> QED BY <1>1, <1>2, DaysFacts, FS_Subset

LEMMA SinglesTell ==
  ASSUME NEW days, days \subseteq PlanDays, NEW kindOf, \A d \in days : kindOf[d] \in PutKinds
  PROVE  Tellable({Single(d, kindOf[d]) : d \in days})
<1> DEFINE those == {Single(d, kindOf[d]) : d \in days}
<1>1. IsFiniteSet(days)
  BY DaysFacts, FS_Subset
<1>2. IsFiniteSet(those)
  <2> DEFINE f == [d \in days |-> Single(d, kindOf[d])]
  <2>1. IsFiniteSet({f[d] : d \in days})
    <3> HIDE DEF f
    <3> QED BY <1>1, FiniteImage
  <2>2. those = {f[d] : d \in days}
    OBVIOUS
  <2> QED BY <2>1, <2>2
<1>3. \A d \in days : Single(d, kindOf[d]) \in Target /\ Single(d, kindOf[d]).day = d
  BY DEF Single, Target
<1> QED BY <1>2, <1>3 DEF Tellable

LEMMA WeekCopiesTell ==
  ASSUME PlanTypeOK, NEW s \in Spans, NEW start \in PlanDays,
         \A t \in WeekCopies(s[1], s[2], start) : t.day \in PlanDays
  PROVE  Tellable(WeekCopies(s[1], s[2], start))
<1> DEFINE from == s[1]
           to == s[2]
           places == {x \in (from .. to) \X (1 .. MostShifts) :
                        x[2] \in DOMAIN shifts[x[1]] /\ shifts[x[1]][x[2]] # "leave"}
           Copy(x) == [copy |-> 0, place |-> x[2], day |-> start + (x[1] - from), kind |-> shifts[x[1]][x[2]]]
           those == {Copy(x) : x \in places}
<1>1. WeekCopies(from, to, start) = those
  BY DEF WeekCopies
<1>2. MostShifts \in Nat /\ start \in Nat /\ from \in Nat /\ \A e \in from .. to : e \in Nat
  BY PlanningAssumption, DaysFacts, SpanFacts
<1>3. IsFiniteSet(places)
  <2>1. IsFiniteSet((from .. to) \X (1 .. MostShifts))
    <3>1. IsFiniteSet(1 .. MostShifts) /\ IsFiniteSet(from .. to)
      BY <1>2, SpanFacts, FS_Interval
    <3> DEFINE A == from .. to
               B == 1 .. MostShifts
    <3> HIDE DEF A, B
    <3>2. IsFiniteSet(A \X B)
      BY <3>1, FS_Product DEF A, B
    <3> QED BY <3>2 DEF A, B
  <2> QED BY <2>1, FS_Subset
<1>4. IsFiniteSet(those)
  <2> DEFINE f == [x \in places |-> Copy(x)]
  <2>1. IsFiniteSet({f[x] : x \in places})
    <3> HIDE DEF f, places
    <3> QED BY <1>3, FiniteImage
  <2>2. those = {f[x] : x \in places}
    <3> HIDE DEF places, Copy
    <3> QED OBVIOUS
  <2> QED BY <2>1, <2>2
<1>5. ASSUME NEW x \in places
      PROVE  /\ x[1] \in Nat /\ x[2] \in Nat /\ Copy(x).copy \in Nat /\ Copy(x).place = x[2]
             /\ Copy(x).day = start + (x[1] - from) /\ Copy(x).kind \in PutKinds
             /\ Copy(x).kind = shifts[x[1]][x[2]]
  <2>1. x[1] \in from .. to /\ x[2] \in 1 .. MostShifts /\ x[2] \in DOMAIN shifts[x[1]]
        /\ shifts[x[1]][x[2]] # "leave"
    OBVIOUS
  <2>2. x[1] \in PlanDays
    BY <2>1, SpanFacts
  <2>3. shifts[x[1]] \in Seq(ShiftKinds)
    BY <2>2 DEF PlanTypeOK
  <2>4. shifts[x[1]][x[2]] \in PutKinds
    BY <2>1, <2>3 DEF PutKinds
  <2> QED BY <1>2, <2>1, <2>4
<1>6. ASSUME NEW x \in places PROVE Copy(x) \in Target
  <2>1. Copy(x) \in those
    OBVIOUS
  <2>2. Copy(x).day \in PlanDays
    BY <1>1, <2>1
  <2> QED BY <1>5, <2>2 DEF Target
<1>7. ASSUME NEW x \in places, NEW y \in places, Copy(x).day = Copy(y).day, Copy(x).place = Copy(y).place
      PROVE  Copy(x) = Copy(y)
  <2>1. x[2] = y[2] /\ start + (x[1] - from) = start + (y[1] - from)
    BY <1>5, <1>7
  <2>2. x[1] = y[1]
    BY <1>2, <1>5, <2>1
  <2> QED BY <2>1, <2>2
<1> HIDE DEF places, Copy
<1> QED BY <1>1, <1>4, <1>6, <1>7 DEF Tellable

LEMMA SnapshotCopiesTell ==
  ASSUME PlanTypeOK, EntriesTell, NEW start \in PlanDays, NEW until \in PlanDays,
         \A t \in SnapshotCopies(snapshot, start, until) : t.day \in PlanDays
  PROVE  Tellable(SnapshotCopies(snapshot, start, until))
<1> DEFINE made == CopiesMade(snapshot, start, until)
           Copy(k, e) == [copy |-> k, place |-> e.offset * MostShifts + e.place,
                          day |-> CopyStart(snapshot, start, k) + e.offset, kind |-> e.kind]
           Pairs == made \X snapshot.entries
           all == {Copy(x[1], x[2]) : x \in Pairs}
           those == SnapshotCopies(snapshot, start, until)
<1>1. MostShifts \in Nat
  BY PlanningAssumption
<1>2. IsFiniteSet(made) /\ made \subseteq Nat
  <2>1. made \subseteq 0 .. Cardinality(PlanDays)
    BY DaysFacts DEF CopiesMade
  <2>2. IsFiniteSet(0 .. Cardinality(PlanDays))
    BY DaysFacts, FS_Interval
  <2> QED BY <2>1, <2>2, DaysFacts, FS_Subset
<1>3. IsFiniteSet(all)
  <2>1. IsFiniteSet(Pairs)
    <3> HIDE DEF made
    <3> QED BY <1>2, FS_Product DEF EntriesTell
  <2> DEFINE f == [x \in Pairs |-> Copy(x[1], x[2])]
  <2>2. IsFiniteSet({f[x] : x \in Pairs})
    <3> HIDE DEF f, Pairs
    <3> QED BY <2>1, FiniteImage
  <2>3. all = {f[x] : x \in Pairs}
    <3> HIDE DEF Pairs, Copy
    <3> QED OBVIOUS
  <2> QED BY <2>2, <2>3
<1>4. ASSUME NEW t \in those PROVE \E k \in made, e \in snapshot.entries : t = Copy(k, e)
  BY CopyIs
<1>5. those \subseteq all
  <2> SUFFICES ASSUME NEW t \in those PROVE t \in all
    OBVIOUS
  <2>1. PICK k \in made, e \in snapshot.entries : t = Copy(k, e)
    BY <1>4
  <2>2. <<k, e>> \in Pairs /\ t = Copy(<<k, e>>[1], <<k, e>>[2])
    BY <2>1
  <2> HIDE DEF Pairs, Copy
  <2> QED BY <2>2
<1>6. IsFiniteSet(those)
  BY <1>3, <1>5, FS_Subset
<1>7. \A e \in snapshot.entries : e.offset \in Nat /\ e.place \in Nat /\ e.kind \in PutKinds
  BY DEF PlanTypeOK, PutKinds
<1>8. those \subseteq Target
  <2> SUFFICES ASSUME NEW t \in those PROVE t \in Target
    OBVIOUS
  <2>1. PICK k \in made, e \in snapshot.entries : t = Copy(k, e)
    BY <1>4
  <2>2. t.day \in PlanDays
    OBVIOUS
  <2>3. e.offset * MostShifts + e.place \in Nat
    BY <1>1, <1>7
  <2> HIDE DEF made, those
  <2>4. k \in Nat
    BY <1>2
  <2> QED BY <1>7, <2>1, <2>2, <2>3, <2>4 DEF Target
<1>9. ASSUME NEW t \in those, NEW u \in those, t.day = u.day, t.copy = u.copy, t.place = u.place
      PROVE  t = u
  <2>1. PICK k \in made, e \in snapshot.entries : t = Copy(k, e)
    BY <1>4
  <2>2. PICK l \in made, f \in snapshot.entries : u = Copy(l, f)
    BY <1>4
  <2>3. k = l /\ CopyStart(snapshot, start, k) + e.offset = CopyStart(snapshot, start, l) + f.offset
        /\ e.offset * MostShifts + e.place = f.offset * MostShifts + f.place
    BY <1>9, <2>1, <2>2
  <2>4. CopyStart(snapshot, start, k) \in Int
    <3>1. k \in made /\ k \in Nat
      BY <1>2
    <3>2. snapshot.span \in Nat /\ snapshot.monthly \in BOOLEAN
      BY DEF PlanTypeOK
    <3>3. CASE snapshot.monthly
      <4>1. MonthOf(start) + k < Len(Firsts)
        BY <3>1, <3>3, MonthFacts, FirstsFacts DEF CopiesMade, Months
      <4>2. AddMonths(start, k) \in Int
        BY <3>1, <4>1, AddMonthsFacts
      <4> QED BY <4>2, <3>3 DEF CopyStart
    <3>4. CASE ~snapshot.monthly
      <4>1. k * snapshot.span \in Nat
        BY <3>1, <3>2
      <4>2. start \in Nat
        BY DaysFacts
      <4> QED BY <3>4, <4>1, <4>2 DEF CopyStart
    <3> QED BY <3>2, <3>3, <3>4
  <2>5. e.offset = f.offset
    <3> DEFINE a == CopyStart(snapshot, start, k)
               b == e.offset
               c == f.offset
    <3>1. a \in Int /\ b \in Nat /\ c \in Nat /\ a + b = a + c
      BY <1>7, <2>3, <2>4
    <3> HIDE DEF a, b, c
    <3>2. b = c
      BY <3>1
    <3> QED BY <3>2 DEF b, c
  <2>6. e.place = f.place
    <3> DEFINE a == e.offset * MostShifts
               b == e.place
               c == f.place
    <3>1. a \in Nat /\ b \in Nat /\ c \in Nat /\ a + b = a + c
      BY <1>1, <1>7, <2>3, <2>5
    <3> HIDE DEF a, b, c
    <3>2. b = c
      BY <3>1
    <3> QED BY <3>2 DEF b, c
  <2>7. e = f
    BY <2>5, <2>6 DEF EntriesTell
  <2> QED BY <2>1, <2>2, <2>3, <2>7
<1> HIDE DEF those
<1>10. Tellable(those)
  BY <1>6, <1>8, <1>9 DEF Tellable
<1> QED BY <1>10 DEF those

-----------------------------------------------------------------------------
(* Every step.                                                             *)

LEMMA NothingUnforced ==
  ASSUME unforced' = {} PROVE UnforcedWorkKeepsTheHours'
BY DEF UnforcedWorkKeepsTheHours

(* A write is forced, or leaves out what is refused.                       *)
HeedsTheRules(kept, emptied, targets, replaced, force) ==
  /\ kept \subseteq targets
  /\ ~force => /\ \A d \in replaced : shifts[d] = <<>>
               /\ emptied \subseteq replaced
               /\ kept = {t \in targets : t.day \notin Refused(targets, FALSE, replaced)}

LEMMA WritesKeep ==
  ASSUME PlanInv, NEW targets, Tellable(targets), NEW replaced, NEW emptied, NEW force \in BOOLEAN, NEW kept,
         Put(kept, emptied, force), HeedsTheRules(kept, emptied, targets, replaced, force)
  PROVE  PlanInv'
<1>1. Tellable(kept)
  BY PartTells DEF HeedsTheRules
<1>2. PlanTypeOK' /\ plans' \in Nat /\ EntriesTell'
  BY <1>1, PutFacts
<1>3. CASE force
  <2>1. unforced' = {}
    BY <1>3 DEF Put
  <2> QED BY <1>2, <2>1, NothingUnforced DEF PlanInv
<1>4. CASE ~force
  <2>1. Put(kept, emptied, FALSE)
    <3>1. force = FALSE
      BY <1>4
    <3> QED BY <3>1
  <2>2. (\A d \in replaced : shifts[d] = <<>>) /\ emptied \subseteq replaced
        /\ kept = {t \in targets : t.day \notin Refused(targets, FALSE, replaced)}
    BY <1>4 DEF HeedsTheRules
  <2>3. UnforcedWorkKeepsTheHours'
    BY <2>1, <2>2, UnforcedPut
  <2> QED BY <1>2, <2>3 DEF PlanInv
<1> QED BY <1>3, <1>4

LEMMA CreateOneKeeps ==
  ASSUME PlanInv, NEW d \in PlanDays, NEW kind \in {"short", "long", "rest"}, NEW force \in BOOLEAN,
         CreateOne(d, kind, force)
  PROVE  PlanInv'
<1> DEFINE targets == {Single(d, kind)}
           kindOf == [e \in {d} |-> kind]
<1>1. Tellable(targets)
  <2> DEFINE days == {d}
  <2>1. days \subseteq PlanDays /\ \A e \in days : kindOf[e] \in PutKinds
    BY DEF PutKinds, ShiftKinds
  <2>2. targets = {Single(e, kindOf[e]) : e \in days}
    OBVIOUS
  <2> HIDE DEF kindOf, targets, days
  <2> QED BY <2>1, <2>2, SinglesTell
<1>2. Refused(targets, force, {}) = {} /\ Put(targets, {}, force)
  BY DEF CreateOne
<1>3. HeedsTheRules(targets, {}, targets, {}, force)
  BY <1>2 DEF HeedsTheRules
<1> HIDE DEF targets
<1> QED BY <1>1, <1>2, <1>3, WritesKeep

LEMMA BulkCreateKeeps ==
  ASSUME PlanInv, NEW s \in Spans, NEW kind \in {"short", "long"}, NEW force \in BOOLEAN,
         BulkCreate(s[1] .. s[2], kind, force)
  PROVE  PlanInv'
<1> DEFINE days == s[1] .. s[2]
           targets == {Single(d, kind) : d \in days}
           kindOf == [d \in days |-> kind]
           kept == {t \in targets : t.day \notin Refused(targets, force, {})}
<1>1. Tellable(targets)
  <2>1. days \subseteq PlanDays /\ \A d \in days : kindOf[d] \in PutKinds
    BY SpanFacts DEF PutKinds, ShiftKinds
  <2>2. targets = {Single(d, kindOf[d]) : d \in days}
    OBVIOUS
  <2> HIDE DEF kindOf, targets, days
  <2> QED BY <2>1, <2>2, SinglesTell
<1>2. Put(kept, {}, force)
  BY DEF BulkCreate
<1>3. HeedsTheRules(kept, {}, targets, {}, force)
  BY DEF HeedsTheRules
<1> HIDE DEF targets, kept
<1> QED BY <1>1, <1>2, <1>3, WritesKeep

LEMMA ApplyTemplateKeeps ==
  ASSUME PlanInv, NEW s \in Spans, NEW pattern \in Templates, NEW force \in BOOLEAN,
         ApplyTemplate(pattern, s[1], s[2], force)
  PROVE  PlanInv'
<1> DEFINE start == s[1]
           last == s[2]
           Of(d) == pattern[((d - start) % Len(pattern)) + 1]
           days == {e \in start .. last : Of(e) # "none"}
           targets == {Single(d, Of(d)) : d \in days}
           free == {t \in targets : shifts[t.day] = <<>>}
           kept == {t \in free : t.day \notin Refused(free, force, {})}
           kindOf == [d \in days |-> Of(d)]
<1>1. ASSUME NEW d \in days PROVE Of(d) \in PutKinds
  <2>1. pattern \in Seq({"short", "long", "rest", "none"}) /\ pattern # <<>>
    BY PlanningAssumption
  <2>2. d \in Nat /\ start \in Nat /\ Of(d) # "none"
    BY SpanFacts, DaysFacts
  <2> DEFINE n == Len(pattern)
             x == d - start
  <2>3. n \in Nat \ {0} /\ x \in Int
    BY <2>1, <2>2
  <2> HIDE DEF n, x
  <2>4. (x % n) \in 0 .. n - 1
    BY <2>3
  <2>5. (x % n) + 1 \in 1 .. n
    BY <2>3, <2>4
  <2>6. pattern[(x % n) + 1] \in {"short", "long", "rest", "none"}
    BY <2>1, <2>5 DEF n
  <2> QED BY <2>2, <2>6 DEF n, x, PutKinds, ShiftKinds
<1>2. Tellable(targets)
  <2>1. days \subseteq PlanDays /\ \A d \in days : kindOf[d] \in PutKinds
    <3>1. \A d \in days : kindOf[d] = Of(d)
      OBVIOUS
    <3>2. days \subseteq PlanDays
      BY SpanFacts
    <3> HIDE DEF kindOf, Of, days
    <3> QED BY <1>1, <3>1, <3>2
  <2>2. targets = {Single(d, kindOf[d]) : d \in days}
    <3> HIDE DEF Of, days
    <3> QED OBVIOUS
  <2> HIDE DEF kindOf, targets, days
  <2> QED BY <2>1, <2>2, SinglesTell
<1>3. Put(kept, {}, force)
  BY DEF ApplyTemplate
<1>4. Tellable(free)
  <2> HIDE DEF targets
  <2> QED BY <1>2, PartTells
<1>5. HeedsTheRules(kept, {}, free, {}, force)
  BY DEF HeedsTheRules
<1> HIDE DEF free, kept
<1> QED BY <1>3, <1>4, <1>5, WritesKeep

LEMMA ApplyCopiesKeeps ==
  ASSUME PlanInv, NEW targets, Tellable(targets), NEW overwrite \in BOOLEAN, ApplyCopies(targets, overwrite)
  PROVE  PlanInv'
<1> DEFINE candidates == Candidates(targets, overwrite)
           replaced == {t.day : t \in candidates}
           planned == Planned(targets, overwrite)
           emptied == {t.day : t \in planned}
<1>1. candidates \subseteq targets
  BY DEF Candidates
<1>2. planned = {t \in candidates : t.day \notin Refused(candidates, overwrite, replaced)}
  BY DEF Planned
<1>3. Put(planned, emptied, overwrite)
  BY DEF ApplyCopies
<1>4. ~overwrite => \A d \in replaced : shifts[d] = <<>>
  BY DEF Candidates
<1>5. planned \subseteq candidates /\ emptied \subseteq replaced
  BY <1>2
<1> HIDE DEF candidates, planned, emptied, replaced
<1>6. Tellable(candidates)
  BY <1>1, PartTells
<1>7. HeedsTheRules(planned, emptied, candidates, replaced, overwrite)
  BY <1>2, <1>4, <1>5 DEF HeedsTheRules
<1> QED BY <1>3, <1>6, <1>7, WritesKeep

LEMMA CopyWeekKeeps ==
  ASSUME PlanInv, NEW s \in Spans, NEW start \in PlanDays, NEW force \in BOOLEAN,
         CopyWeek(s[1], s[2], start, force)
  PROVE  PlanInv'
<1>1. /\ \A t \in WeekCopies(s[1], s[2], start) : t.day \in PlanDays
      /\ ApplyCopies(WeekCopies(s[1], s[2], start), force)
  BY DEF CopyWeek
<1>2. Tellable(WeekCopies(s[1], s[2], start))
  BY <1>1, WeekCopiesTell DEF PlanInv
<1> QED BY <1>1, <1>2, ApplyCopiesKeeps

LEMMA ApplySnapshotKeeps ==
  ASSUME PlanInv, NEW s \in Spans, NEW force \in BOOLEAN, ApplySnapshot(s[1], s[2], force)
  PROVE  PlanInv'
<1>1. /\ \A t \in SnapshotCopies(snapshot, s[1], s[2]) : t.day \in PlanDays
      /\ ApplyCopies(SnapshotCopies(snapshot, s[1], s[2]), force)
  BY DEF ApplySnapshot
<1>2. Tellable(SnapshotCopies(snapshot, s[1], s[2]))
  BY <1>1, SpanFacts, SnapshotCopiesTell DEF PlanInv
<1> QED BY <1>1, <1>2, ApplyCopiesKeeps

LEMMA CaptureKeeps ==
  ASSUME PlanInv, NEW s \in Spans, NEW monthly \in BOOLEAN, Capture(s[1], s[2], monthly)
  PROVE  PlanInv'
<1> DEFINE from == s[1]
           to == s[2]
           copies == WeekCopies(from, to, from)
           entryOf == [c \in copies |-> [offset |-> c.day - from, place |-> c.place, kind |-> c.kind]]
           entries == {entryOf[c] : c \in copies}
<1>1. from \in PlanDays /\ from \in Nat /\ to \in Nat /\ from <= to /\ from .. to \subseteq PlanDays
  BY SpanFacts, DaysFacts
<1>2. ASSUME NEW c \in copies
      PROVE  c.day \in from .. to /\ c.day \in PlanDays /\ c.place \in 1 .. MostShifts
  <2>1. PICK x \in (from .. to) \X (1 .. MostShifts) : c.place = x[2] /\ c.day = from + (x[1] - from)
    BY DEF WeekCopies
  <2>2. x[1] \in from .. to /\ x[2] \in 1 .. MostShifts
    OBVIOUS
  <2>3. c.day = x[1]
    BY <1>1, <2>1, <2>2
  <2> QED BY <1>1, <2>1, <2>2, <2>3
<1>3. Tellable(copies)
  <2>1. \A t \in WeekCopies(s[1], s[2], s[1]) : t.day \in PlanDays
    BY <1>2
  <2> QED BY <1>1, <2>1, WeekCopiesTell DEF PlanInv
<1>4. snapshot' = [span |-> to - from + 1, monthly |-> monthly, entries |-> entries]
  <2>1. {[offset |-> d.day - from, place |-> d.place, kind |-> d.kind] : d \in copies} = entries
    <3> HIDE DEF copies
    <3> QED OBVIOUS
  <2> QED BY <2>1 DEF Capture
<1>5. \A c \in copies : entryOf[c] = [offset |-> c.day - from, place |-> c.place, kind |-> c.kind]
  OBVIOUS
<1>6. \A c \in copies : c.kind \in PutKinds
  BY <1>3 DEF Tellable, Target
<1>7. \A b, c \in copies : b.day = c.day /\ b.place = c.place => b = c
  <2>1. \A c \in copies : c.copy = 0
    BY DEF WeekCopies
  <2> HIDE DEF copies
  <2> QED BY <1>3, <2>1 DEF Tellable
<1>8. IsFiniteSet(entries)
  <2>1. IsFiniteSet(copies)
    BY <1>3 DEF Tellable
  <2> HIDE DEF copies, entryOf
  <2> QED BY <2>1, FiniteImage
<1> HIDE DEF copies, entryOf, from, to
<1>9. ASSUME NEW c \in copies
      PROVE  /\ entryOf[c].offset = c.day - from /\ entryOf[c].offset \in 0 .. to - from
             /\ entryOf[c].place = c.place /\ entryOf[c].kind = c.kind
             /\ entryOf[c] \in [offset : 0 .. to - from, place : 1 .. MostShifts, kind : PutKinds]
  <2>1. c.day - from \in 0 .. to - from /\ c.place \in 1 .. MostShifts /\ c.kind \in PutKinds
    BY <1>1, <1>2, <1>6
  <2>2. entryOf[c] = [offset |-> c.day - from, place |-> c.place, kind |-> c.kind]
    BY <1>5
  <2> QED BY <2>1, <2>2
<1>10. entries \subseteq [offset : 0 .. to - from, place : 1 .. MostShifts, kind : PutKinds]
  BY <1>9
<1>11. ASSUME NEW e \in entries, NEW f \in entries, e.offset = f.offset, e.place = f.place PROVE e = f
  <2>1. PICK b \in copies : e = entryOf[b]
    OBVIOUS
  <2>2. PICK c \in copies : f = entryOf[c]
    OBVIOUS
  <2>3. b.day - from = c.day - from /\ b.place = c.place
    BY <1>9, <1>11, <2>1, <2>2
  <2>4. b.day = c.day
    BY <1>1, <1>2, <2>3
  <2> QED BY <1>7, <2>1, <2>2, <2>3, <2>4
<1> HIDE DEF entries
<1>12. snapshot'.span = to - from + 1 /\ snapshot'.monthly = monthly /\ snapshot'.entries = entries
  BY <1>4
<1>13. snapshot'.span \in Nat /\ 0 .. snapshot'.span - 1 = 0 .. to - from
  <2>1. to - from \in Nat
    BY <1>1
  <2> QED BY <1>12, <2>1
<1>14. plans' \in 0 .. MostPlans /\ plans' \in Nat
  <2>1. plans \in Nat /\ plans < MostPlans /\ plans' = plans + 1 /\ MostPlans \in Nat
    BY PlanningAssumption DEF Capture, PlanInv
  <2> QED BY <2>1
<1>15. shifts' = shifts /\ onLeave' = onLeave /\ unforced' = {}
  BY DEF Capture
<1>16. EntriesTell'
  BY <1>8, <1>11, <1>12 DEF EntriesTell
<1>17. PlanTypeOK'
  <2>1. snapshot'.entries \subseteq [offset : 0 .. snapshot'.span - 1, place : 1 .. MostShifts, kind : ShiftKinds \ {"leave"}]
    BY <1>10, <1>12, <1>13 DEF PutKinds
  <2> QED BY <1>12, <1>13, <1>14, <1>15, <2>1 DEF PlanInv, PlanTypeOK
<1> QED BY <1>14, <1>15, <1>16, <1>17, NothingUnforced DEF PlanInv

(* A leave that comes or goes, and a day that is cleared.                  *)
LEMMA DayKeeps ==
  ASSUME PlanInv, NEW d \in PlanDays, NEW kinds \in Seq(ShiftKinds), plans < MostPlans, plans' = plans + 1,
         shifts' = [shifts EXCEPT ![d] = kinds], onLeave' \subseteq PlanDays, unforced' = {}, snapshot' = snapshot
  PROVE  PlanInv'
<1>1. plans' \in 0 .. MostPlans /\ plans' \in Nat
  <2>1. plans \in Nat /\ plans < MostPlans /\ plans' = plans + 1 /\ MostPlans \in Nat
    BY PlanningAssumption DEF PlanInv
  <2> QED BY <2>1
<1>2. shifts' \in [PlanDays -> Seq(ShiftKinds)]
  BY DEF PlanInv, PlanTypeOK
<1> QED BY <1>1, <1>2, NothingUnforced DEF PlanInv, PlanTypeOK, EntriesTell

LEMMA LeaveAndClearKeep ==
  ASSUME PlanInv, NEW d \in PlanDays, LeaveGiven(d) \/ LeaveTaken(d) \/ ClearDay(d)
  PROVE  PlanInv'
<1>0. shifts[d] \in Seq(ShiftKinds) /\ onLeave \subseteq PlanDays
  BY DEF PlanInv, PlanTypeOK
<1>1. CASE LeaveGiven(d)
  <2>1. <<"leave">> \in Seq(ShiftKinds)
    BY DEF ShiftKinds
  <2> QED BY <1>0, <1>1, <2>1, DayKeeps DEF LeaveGiven
<1>2. CASE LeaveTaken(d)
  <2> DEFINE q == shifts[d]
             I == {i \in DOMAIN q : q[i] # "leave"}
  <2>1. Kept(q, I) \in Seq({q[i] : i \in I})
    <3>1. q \in Seq(ShiftKinds) /\ I \subseteq DOMAIN q
      BY <1>0
    <3> HIDE DEF q, I
    <3> QED BY <3>1, KeptFacts
  <2>2. {q[i] : i \in I} \subseteq ShiftKinds
    <3>1. \A i \in DOMAIN q : q[i] \in ShiftKinds
      BY <1>0
    <3> QED BY <3>1
  <2>3. Kept(q, I) \in Seq(ShiftKinds)
    <3> HIDE DEF q, I
    <3> QED BY <2>1, <2>2, WiderSeq
  <2> QED BY <1>0, <1>2, <2>3, DayKeeps DEF LeaveTaken
<1>3. CASE ClearDay(d)
  <2>1. <<>> \in Seq(ShiftKinds)
    OBVIOUS
  <2> QED BY <1>0, <1>3, <2>1, DayKeeps DEF ClearDay
<1> QED BY <1>1, <1>2, <1>3

LEMMA PlanBegins == PlanInit => PlanInv
<1> SUFFICES ASSUME PlanInit PROVE PlanInv
  OBVIOUS
<1>1. shifts \in [PlanDays -> Seq(ShiftKinds)]
  BY DEF PlanInit
<1>2. snapshot.span = 0 /\ snapshot.monthly = FALSE /\ snapshot.entries = {}
  BY DEF PlanInit, NoSnapshot
<1>3. plans = 0 /\ MostPlans \in Nat
  BY PlanningAssumption DEF PlanInit
<1>4. onLeave = {} /\ unforced = {}
  BY DEF PlanInit
<1>5. PlanTypeOK
  <2>1. snapshot.monthly \in BOOLEAN
    BY Zenon DEF PlanInit, NoSnapshot
  <2>2. plans \in 0 .. MostPlans
    BY <1>3
  <2>3. snapshot.span \in Nat
        /\ snapshot.entries \subseteq
             [offset : 0 .. snapshot.span - 1, place : 1 .. MostShifts, kind : ShiftKinds \ {"leave"}]
    BY <1>2
  <2> QED BY <1>1, <1>4, <2>1, <2>2, <2>3 DEF PlanTypeOK
<1>6. EntriesTell
  BY <1>2, FS_EmptySet DEF EntriesTell
<1> QED BY <1>3, <1>4, <1>5, <1>6 DEF PlanInv, UnforcedWorkKeepsTheHours

LEMMA PlanStep ==
  ASSUME PlanInv, [PlanNext]_planVars PROVE PlanInv'
<1>1. CASE UNCHANGED planVars
  BY <1>1 DEF planVars, PlanInv, PlanTypeOK, EntriesTell, UnforcedWorkKeepsTheHours, Rostered, RosteredOver, WeekOf
<1>2. CASE PlanNext
  <2>1. ASSUME NEW d \in PlanDays, NEW kind \in {"short", "long", "rest"}, NEW force \in BOOLEAN,
               CreateOne(d, kind, force)
        PROVE  PlanInv'
    BY <2>1, CreateOneKeeps
  <2>2. ASSUME NEW s \in Spans, NEW force \in BOOLEAN, NEW kind \in {"short", "long"},
               BulkCreate(s[1] .. s[2], kind, force)
        PROVE  PlanInv'
    BY <2>2, BulkCreateKeeps
  <2>3. ASSUME NEW s \in Spans, NEW force \in BOOLEAN, NEW pattern \in Templates,
               ApplyTemplate(pattern, s[1], s[2], force)
        PROVE  PlanInv'
    BY <2>3, ApplyTemplateKeeps
  <2>4. ASSUME NEW s \in Spans, NEW force \in BOOLEAN, NEW start \in PlanDays, CopyWeek(s[1], s[2], start, force)
        PROVE  PlanInv'
    BY <2>4, CopyWeekKeeps
  <2>5. ASSUME NEW s \in Spans, NEW force \in BOOLEAN, ApplySnapshot(s[1], s[2], force)
        PROVE  PlanInv'
    BY <2>5, ApplySnapshotKeeps
  <2>6. ASSUME NEW s \in Spans, NEW monthly \in BOOLEAN, Capture(s[1], s[2], monthly) PROVE PlanInv'
    BY <2>6, CaptureKeeps
  <2>7. ASSUME NEW d \in PlanDays, LeaveGiven(d) \/ LeaveTaken(d) \/ ClearDay(d) PROVE PlanInv'
    BY <2>7, LeaveAndClearKeep
  <2> QED BY <1>2, <2>1, <2>2, <2>3, <2>4, <2>5, <2>6, <2>7 DEF PlanNext
<1> QED BY <1>1, <1>2

LEMMA WordIs ==
  ASSUME PlanInv PROVE WordIsKept
BY DryRunsAre, CopiesAreApart DEF PlanInv, WordIsKept

(* A plan does what it was shown to do, copies keep apart, and nobody is   *)
(* put to work on leave or beyond the hours of a day or a week but by      *)
(* force: for any calendar, limits, templates and number of plans.         *)
THEOREM PlansTheorem == PlanSpec => PlannedAsPromised
<1>1. PlanInit => PlanInv
  BY PlanBegins
<1>2. PlanInv /\ [PlanNext]_planVars => PlanInv'
  BY PlanStep
<1>3. PlanInv => WordIsKept /\ (plans > 0 => WordIsKept)
  BY WordIs
<1> QED BY <1>1, <1>2, <1>3, PTL DEF PlanSpec, PlannedAsPromised
=============================================================================
