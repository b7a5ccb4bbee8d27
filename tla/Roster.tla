------------------------------- MODULE Roster -------------------------------
(***************************************************************************)
(* The roster and what is laid over it: the shifts planners write, the     *)
(* leaves that cover them, the days off a holiday makes, and the days that *)
(* a signed-off payroll run has closed.                                    *)
(*                                                                         *)
(* A cell is one employee's day. Its shifts are a sequence, in the order   *)
(* of their sequence numbers. Times, sites and notes are left out, and so  *)
(* are the guardrails a planner may force (hours, rest, runs of work): a   *)
(* placement they refuse is one that was not asked for.                    *)
(***************************************************************************)
EXTENDS Integers, FiniteSets, Sequences, Lists

CONSTANTS
  Employees,
  Days,        \* consecutive days, as integers
  Leaves,      \* leave requests
  Remarks,     \* holidays, wherever they are on the calendar
  None,        \* NULL
  LeaveOf,     \* leave -> the employee
  Span,        \* leave -> the days from its first to its last
  Counted,     \* leave -> the days of it that consume leave
  Selections,  \* the sets of cells a planner works on at once
  Statuses,    \* the kinds of shifts that planners write by hand
  Patterns,    \* what templates and snapshots put on which cells
  Runs,        \* the cells of the payroll runs
  MaxShifts,   \* bound on the shifts of a cell
  MaxWrites    \* bound on the writes of planners

\* The categories of a shift's status, and the day off that a holiday makes. A
\* planner may write any of them: a "leave" of theirs names no leave request.
Kinds == {"work", "rest", "off", "leave"}

ASSUME RosterAssumption ==
  /\ Days \subseteq Int
  /\ None \notin Leaves /\ None \notin Remarks /\ None \notin Days /\ None \notin Kinds
  /\ LeaveOf \in [Leaves -> Employees]
  /\ Span \in [Leaves -> SUBSET Days]
  /\ Counted \in [Leaves -> SUBSET Days]
  /\ \A l \in Leaves : Counted[l] \subseteq Span[l]
  /\ Statuses \subseteq Kinds
  /\ Selections \cup Runs \subseteq SUBSET (Employees \X Days)
  /\ \A p \in Patterns : DOMAIN p \subseteq Employees \X Days /\ p \in [DOMAIN p -> Seq(Kinds)]

VARIABLES
  roster,    \* the shifts of each cell
  approved,  \* the approved leaves, in the order they were reviewed
  holiday,   \* the day of each remark that is a holiday
  locked,    \* cells in an approved or finalized payroll run
  cleared,   \* cells a bulk delete took a leave off, at the planner's word
  writes     \* writes of planners so far

vars == <<roster, approved, holiday, locked, cleared, writes>>

Cells == Employees \X Days

(* A shift under a leave keeps what it hid: hidden is original_status, was *)
(* is original_is_published. One that was made for the leave hides None.   *)
Shift == [kind : Kinds, published : BOOLEAN, leave : Leaves \cup {None},
          hidden : Kinds \cup {None}, was : BOOLEAN, holiday : Remarks \cup {None}]

TypeOK ==
  /\ roster \in [Cells -> Seq(Shift)]
  /\ approved \in Seq(Leaves)
  /\ holiday \in [Remarks -> Days \cup {None}]
  /\ locked \subseteq Cells
  /\ cleared \subseteq Cells
  /\ writes \in Nat

Init ==
  /\ roster = [c \in Cells |-> <<>>]
  /\ approved = <<>>
  /\ holiday = [r \in Remarks |-> None]
  /\ locked = {}
  /\ cleared = {}
  /\ writes = 0

-----------------------------------------------------------------------------
(* Shifts and cells.                                                       *)

Draft(k) == [kind |-> k, published |-> FALSE, leave |-> None, hidden |-> None,
             was |-> FALSE, holiday |-> None]

Approved == {approved[i] : i \in DOMAIN approved}
Held(c) == \E i \in DOMAIN roster[c] : roster[c][i].leave # None

Open(c) == Kept(roster[c], {i \in DOMAIN roster[c] : roster[c][i].leave = None})
LeaveDays(e) == UNION {Span[l] : l \in {m \in Approved : LeaveOf[m] = e}}

(* validate_placements, without force: no work on a day of approved leave. *)
Fits(c, k) == k = "work" => c[2] \notin LeaveDays(c[1])

(* shift.before_write vetoes a write to a locked cell. *)
Unlocked(cells) == cells \cap locked = {}

Write(change) ==
  /\ roster' = [c \in Cells |-> IF c \in DOMAIN change THEN change[c] ELSE roster[c]]
  /\ \A c \in Cells : Len(roster'[c]) <= MaxShifts

Edit(change) ==
  /\ Write(change)
  /\ writes < MaxWrites
  /\ writes' = writes + 1
  /\ UNCHANGED <<approved, locked>>

Plan(change) == Edit(change) /\ UNCHANGED holiday

Without(s, i) == Kept(s, DOMAIN s \ {i})

-----------------------------------------------------------------------------
(* What planners do.                                                       *)

(* create_shift and bulk_create_shifts; what does not fit is skipped.      *)
CreateShifts(cells, k) ==
  LET made == {c \in cells : Fits(c, k)}
  IN /\ made # {}
     /\ Unlocked(made)
     /\ Plan([c \in made |-> Append(roster[c], Draft(k))])
     /\ UNCHANGED cleared

(* copy_shifts: the source's own shifts, added to what the target has.     *)
CopyShifts(e, days, f, offset) ==
  LET Source(c) == IF c[2] - offset \in days THEN Open(<<e, c[2] - offset>>) ELSE <<>>
      Copies(c) == [i \in DOMAIN Source(c) |-> Draft(Source(c)[i].kind)]
      targets == {c \in {f} \X Days :
                    /\ Source(c) # <<>>
                    /\ \A i \in DOMAIN Source(c) : Fits(c, Source(c)[i].kind)}
  IN /\ targets # {}
     /\ Unlocked(targets)
     /\ Plan([c \in targets |-> roster[c] \o Copies(c)])
     /\ UNCHANGED cleared

(* apply_template, apply_snapshot and copy_week: a cell under a leave is   *)
(* skipped, one with shifts is skipped or its shifts are replaced.         *)
ApplyTargets(target, overwrite) ==
  LET plan == {c \in DOMAIN target :
                 /\ ~Held(c)
                 /\ overwrite \/ roster[c] = <<>>
                 /\ \A i \in DOMAIN target[c] : Fits(c, target[c][i])}
  IN /\ plan # {}
     /\ Unlocked(plan)
     /\ Plan([c \in plan |-> [i \in DOMAIN target[c] |-> Draft(target[c][i])]])
     /\ UNCHANGED cleared

(* copy_week reads its targets off the roster, leaving leave days out.     *)
WeekTargets(employees, days, offset) ==
  LET Source(c) == Open(<<c[1], c[2] - offset>>)
  IN [c \in {d \in employees \X Days : d[2] - offset \in days /\ Source(d) # <<>>} |->
        [i \in DOMAIN Source(c) |-> Source(c)[i].kind]]

(* A slip: a move announces only where it goes. *)
KeysOfTarget(c, to) == {to}

(* Both the old and the new cell of a move. *)
Keys(c, to) == {c, to}

(* update_shift: another kind, another cell, or only its notes. Whatever   *)
(* is edited is no longer the holiday's.                                   *)
UpdateShift(c, i, to, k) ==
  LET s == roster[c][i]
      edited == [s EXCEPT !.kind = IF s.leave = None THEN k ELSE @, !.holiday = None]
      moves == to # c
  IN /\ moves \/ s.kind # k => s.leave = None /\ Fits(to, k)
     /\ edited # s \/ moves
     /\ Unlocked(Keys(c, to))
     /\ Plan([d \in {c, to} |->
                CASE ~moves -> [roster[c] EXCEPT ![i] = edited]
                  [] moves /\ d = c -> Without(roster[c], i)
                  [] moves /\ d = to -> Append(roster[to], edited)])
     /\ UNCHANGED cleared

DeleteShift(c, i) ==
  /\ roster[c][i].leave = None
  /\ Unlocked({c})
  /\ Plan([d \in {c} |-> Without(roster[c], i)])
  /\ UNCHANGED cleared

(* bulk_delete_shifts keeps the days on leave unless told not to.          *)
BulkDelete(cells, includeLeave) ==
  LET doomed == {c \in cells : IF includeLeave THEN roster[c] # <<>> ELSE Open(c) # <<>>}
      stay(c) == {i \in DOMAIN roster[c] : roster[c][i].leave # None /\ ~includeLeave}
  IN /\ doomed # {}
     /\ Unlocked(doomed)
     /\ Plan([c \in doomed |-> Kept(roster[c], stay(c))])
     /\ cleared' = cleared \cup {c \in doomed : includeLeave /\ Held(c)}

(* publish_range, and unpublish_range, which leaves days on leave alone.   *)
Publish(cells) ==
  LET Drafts(c) == {i \in DOMAIN roster[c] : ~roster[c][i].published}
      drafted == {c \in cells : Drafts(c) # {}}
  IN /\ drafted # {}
     /\ Unlocked(drafted)
     /\ Plan([c \in drafted |-> [i \in DOMAIN roster[c] |-> [roster[c][i] EXCEPT !.published = TRUE]]])
     /\ UNCHANGED cleared

Unpublish(cells) ==
  LET Shown(c) == {i \in DOMAIN roster[c] : roster[c][i].published /\ roster[c][i].leave = None}
      shown == {c \in cells : Shown(c) # {}}
  IN /\ shown # {}
     /\ Unlocked(shown)
     /\ Plan([c \in shown |-> [i \in DOMAIN roster[c] |->
                [roster[c][i] EXCEPT !.published = @ /\ i \notin Shown(c)]]])
     /\ UNCHANGED cleared

-----------------------------------------------------------------------------
(* Holidays. A day off is made for those who have nothing that day; what   *)
(* nobody has touched since goes with the holiday.                         *)

DayOff(r) == [Draft("off") EXCEPT !.published = TRUE, !.holiday = r]

Generated(r, d) == [c \in {x \in Employees \X {d} : roster[x] = <<>>} |-> <<DayOff(r)>>]

Touched(s, r) == ~(s.holiday = r /\ s.kind = "off" /\ s.leave = None)
Holds(r) == {c \in Cells : \E i \in DOMAIN roster[c] : ~Touched(roster[c][i], r)}
TakenBack(r, cells) ==
  [c \in cells \cap Holds(r) |-> Kept(roster[c], {i \in DOMAIN roster[c] : Touched(roster[c][i], r)})]

(* create_date_remark; whether days off are made is a setting. *)
DeclareHoliday(r, d, automatic) ==
  LET change == IF automatic THEN Generated(r, d) ELSE <<>>
  IN /\ holiday[r] = None
     /\ \A q \in Remarks : holiday[q] # d
     /\ Unlocked(DOMAIN change)
     /\ Edit(change)
     /\ holiday' = [holiday EXCEPT ![r] = d]
     /\ UNCHANGED cleared

(* update_date_remark with another date. *)
MoveHoliday(r, d, automatic) ==
  LET back == TakenBack(r, Employees \X {holiday[r]})
      made == IF automatic THEN Generated(r, d) ELSE <<>>
  IN /\ holiday[r] # None
     /\ \A q \in Remarks : holiday[q] # d
     /\ Unlocked(DOMAIN back \cup DOMAIN made)
     /\ Edit([c \in DOMAIN back \cup DOMAIN made |->
                 IF c \in DOMAIN back THEN back[c] ELSE made[c]])
     /\ holiday' = [holiday EXCEPT ![r] = d]
     /\ UNCHANGED cleared

(* delete_date_remark; the key of a shift it leaves behind becomes NULL.   *)
DeleteHoliday(r) ==
  LET back == TakenBack(r, Cells)
      Forgotten(s) == [i \in DOMAIN s |-> IF s[i].holiday = r THEN [s[i] EXCEPT !.holiday = None]
                                          ELSE s[i]]
  IN /\ holiday[r] # None
     /\ Unlocked(DOMAIN back)
     /\ Edit([c \in Cells |-> Forgotten(IF c \in DOMAIN back THEN back[c] ELSE roster[c])])
     /\ holiday' = [holiday EXCEPT ![r] = None]
     /\ UNCHANGED cleared

-----------------------------------------------------------------------------
(* Leaves. A day that another leave holds stays with it.                   *)

(* A slip: the last leave to be approved gets the day. *)
ClaimedAnyway(s, l) ==
  [s EXCEPT !.kind = "leave", !.leave = l, !.hidden = IF s.leave = None THEN s.kind ELSE @,
            !.was = IF s.leave = None THEN s.published ELSE @, !.published = TRUE]

Claimed(s, l) ==
  IF s.leave = None
  THEN [s EXCEPT !.kind = "leave", !.leave = l, !.hidden = s.kind,
                 !.was = s.published, !.published = TRUE]
  ELSE s

MadeFor(l) == [Draft("leave") EXCEPT !.published = TRUE, !.leave = l]

Covered(shifts, l) ==
  IF shifts = <<>> THEN <<MadeFor(l)>> ELSE [i \in DOMAIN shifts |-> Claimed(shifts[i], l)]

Restored(s) == [s EXCEPT !.kind = s.hidden, !.leave = None, !.hidden = None,
                         !.published = s.was, !.was = FALSE]

(* revert_leave_overlay: what the leave hid comes back, what was made for  *)
(* it goes.                                                                *)
Lifted(shifts, l) ==
  LET kept == Kept(shifts, {i \in DOMAIN shifts : shifts[i].leave # l \/ shifts[i].hidden # None})
  IN [i \in DOMAIN kept |-> IF kept[i].leave = l THEN Restored(kept[i]) ELSE kept[i]]

Position(l) == CHOOSE i \in DOMAIN approved : approved[i] = l

HeldBy(l) == {c \in Cells : \E i \in DOMAIN roster[c] : roster[c][i].leave = l}

(* From the first to the last day that is freed.                           *)
Freed(l) == {c \in Cells : /\ c[1] = LeaveOf[l]
                           /\ \E a, b \in HeldBy(l) : a[2] <= c[2] /\ c[2] <= b[2]}

(* The other approved leaves of the employee that are laid on the cell,    *)
(* and the one of them that gets it: the first to be reviewed.             *)
Others(l, c) == {m \in Approved \ {l} : LeaveOf[m] = c[1] /\ c[2] \in Span[m]}
First(leaves) == CHOOSE m \in leaves : \A n \in leaves : Position(m) <= Position(n)

ApproveLeave(l) ==
  LET cells == {LeaveOf[l]} \X Counted[l]
  IN /\ l \notin Approved
     /\ Unlocked(cells)
     /\ Write([c \in cells |-> Covered(roster[c], l)])
     /\ approved' = Append(approved, l)
     /\ UNCHANGED <<holiday, locked, cleared, writes>>

(* unapprove, or any other way out of approved. *)
RevokeLeave(l) ==
  LET again == {c \in Freed(l) : Others(l, c) # {}}
      Left(c) == Lifted(roster[c], l)
  IN /\ l \in Approved
     /\ Unlocked(HeldBy(l) \cup again)
     /\ Write([c \in HeldBy(l) \cup again |->
                 IF c \in again THEN Covered(Left(c), First(Others(l, c))) ELSE Left(c)])
     /\ approved' = Kept(approved, {i \in DOMAIN approved : approved[i] # l})
     /\ UNCHANGED <<holiday, locked, cleared, writes>>

(* A payroll run of these cells is approved. *)
LockCells(cells) ==
  /\ cells \cap locked = {}
  /\ locked' = locked \cup cells
  /\ UNCHANGED <<roster, approved, holiday, cleared, writes>>

-----------------------------------------------------------------------------
Planners ==
  \/ \E cells \in Selections, k \in Statuses : CreateShifts(cells, k)
  \/ \E e, f \in Employees, d, to \in Days : CopyShifts(e, {d}, f, to - d)
  \/ \E p \in Patterns, overwrite \in BOOLEAN : ApplyTargets(p, overwrite)
  \/ \E d, to \in Days, overwrite \in BOOLEAN :
       ApplyTargets(WeekTargets(Employees, {d}, to - d), overwrite)
  \/ \E c, to \in Cells : \E i \in DOMAIN roster[c] :
       \E k \in Statuses \cup {roster[c][i].kind} : UpdateShift(c, i, to, k)
  \/ \E c \in Cells : \E i \in DOMAIN roster[c] : DeleteShift(c, i)
  \/ \E cells \in Selections, includeLeave \in BOOLEAN : BulkDelete(cells, includeLeave)
  \/ \E cells \in Selections : Publish(cells) \/ Unpublish(cells)

Calendar ==
  \/ \E r \in Remarks, d \in Days, automatic \in BOOLEAN :
       DeclareHoliday(r, d, automatic) \/ MoveHoliday(r, d, automatic)
  \/ \E r \in Remarks : DeleteHoliday(r)

LeaveDecisions == \E l \in Leaves : ApproveLeave(l) \/ RevokeLeave(l)

Next ==
  \/ Planners
  \/ Calendar
  \/ LeaveDecisions
  \/ \E cells \in Runs : LockCells(cells)

Spec == Init /\ [][Next]_vars

-----------------------------------------------------------------------------
(* The roster shows the leaves that are approved and no other leave. One   *)
(* shows on every day it counts, but where a planner insisted on clearing  *)
(* it; a shift is a leave's only while that leave is approved, and only of *)
(* the person whose leave it is: whatever else was laid over the day,      *)
(* lifted off it, swapped, copied or replaced in between. What a planner   *)
(* marks as leave by hand is no leave's.                                   *)
LeavesShowOnTheRoster ==
  /\ \A l \in Approved : \A d \in Counted[l] :
       <<LeaveOf[l], d>> \in cleared \/ Held(<<LeaveOf[l], d>>)
  /\ \A c \in Cells : \A i \in DOMAIN roster[c] :
       LET s == roster[c][i]
       IN s.leave # None => s.kind = "leave" /\ s.leave \in Approved /\ LeaveOf[s.leave] = c[1]

(* Nobody is down for work on a day of leave, even where the leave itself  *)
(* was cleared off the roster or another leave held the day first.         *)
NoWorkOnLeave ==
  \A l \in Approved : \A d \in Counted[l] : \A i \in DOMAIN roster[<<LeaveOf[l], d>>] :
    roster[<<LeaveOf[l], d>>][i].kind # "work"

(* A leave that has a day keeps it for as long as it is approved, unless a *)
(* planner insists: no later leave, lifted leave or swap takes it away.    *)
LeavesKeepTheirDays ==
  [][\A l \in Approved \cap Approved' : HeldBy(l) \subseteq HeldBy(l)' \cup cleared']_vars

(* What planners wrote, under the leaves. *)
IsPlanned(s) == s.leave = None \/ s.hidden # None
AsPlanned(s) == IF s.leave = None THEN [kind |-> s.kind, published |-> s.published]
                ELSE [kind |-> s.hidden, published |-> s.was]
Underneath(shifts) ==
  LET planned == Kept(shifts, {i \in DOMAIN shifts : IsPlanned(shifts[i])})
  IN [i \in DOMAIN planned |-> AsPlanned(planned[i])]

(* Approving a leave loses nothing that was planned, and revoking it gives *)
(* back exactly that, however leaves overlapped in between.                *)
LeavesLoseNothing ==
  [][approved' # approved => \A c \in Cells : Underneath(roster[c])' = Underneath(roster[c])]_vars

(* An approved leave has its days, keeps them from later leaves, and gives *)
(* them back as they were.                                                 *)
LeavesTakeTheirDays ==
  /\ [](TypeOK /\ LeavesShowOnTheRoster /\ NoWorkOnLeave)
  /\ LeavesKeepTheirDays /\ LeavesLoseNothing

(* What a cell shows. *)
Shows(shifts) ==
  [i \in DOMAIN shifts |-> [kind |-> shifts[i].kind, published |-> shifts[i].published,
                            leave |-> shifts[i].leave]]

(* A day that a payroll run has been approved for is never changed again,  *)
(* by a planner, a holiday or a leave.                                     *)
LockedDaysStand ==
  [][\A c \in locked : Shows(roster[c])' = Shows(roster[c])]_vars
=============================================================================
