------------------------------ MODULE Planning ------------------------------
(***************************************************************************)
(* Shifts written many at a time: bulk creation, templates that repeat,    *)
(* copies of a week and snapshots, the dry runs that show what a copy      *)
(* would do, and the limits on working time that all of them are judged    *)
(* by. Every employee is judged alone, so there is one here.               *)
(*                                                                         *)
(* A target is one shift that a copy would write: the copy, its place in   *)
(* it, the day and the kind of shift. Times of day are left out, and with  *)
(* them the rules on overlaps and on the rest between two shifts.          *)
(***************************************************************************)
EXTENDS Integers, Sequences, FiniteSets, FiniteSetsExt, Functions, Lists

CONSTANTS
  PlanDays,     \* consecutive days, 1..n
  Firsts,       \* the first day of each month of the calendar
  MostInARow,   \* max_consecutive_work_days, 0 for no limit
  RestDays,     \* min_rest_days_per_week, 0 for no limit
  WeekLength,   \* 7
  Pad,          \* the days around the placements that are read: 8
  MostPerDay,   \* max_work_hours_per_day, 0 for no limit
  MostPerWeek,  \* max_work_hours_per_week, 0 for no limit
  Templates,    \* sequences of "short", "long", "rest" and "none"
  MostShifts,   \* bound on the shifts of a day
  MostPlans     \* bound on the writes, captures and leaves

ASSUME PlanningAssumption ==
  /\ IsFiniteSet(PlanDays) /\ PlanDays = 1..Cardinality(PlanDays)
  /\ Firsts \in Seq(Nat) /\ Len(Firsts) >= 2
  /\ \A i, j \in DOMAIN Firsts : i < j => Firsts[i] < Firsts[j]
  /\ Firsts[1] <= 1 /\ \A d \in PlanDays : d < Firsts[Len(Firsts) - 1]
  /\ {MostInARow, RestDays, MostPerDay, MostPerWeek, MostShifts, MostPlans} \subseteq Nat
  /\ WeekLength \in Nat \ {0} /\ Pad \in Nat
  /\ Templates \subseteq Seq({"short", "long", "rest", "none"}) \ {<<>>}

VARIABLES
  shifts,     \* the kinds of shift of each day
  onLeave,    \* the days of approved leave
  snapshot,   \* what was captured last
  unforced,   \* the days the last write put work on without being forced to
  plans       \* writes, captures and leaves so far

planVars == <<shifts, onLeave, snapshot, unforced, plans>>

ShiftKinds == {"short", "long", "rest", "leave"}
NoSnapshot == [span |-> 0, monthly |-> FALSE, entries |-> {}]

PlanTypeOK ==
  /\ shifts \in [PlanDays -> Seq(ShiftKinds)]
  /\ onLeave \subseteq PlanDays /\ unforced \subseteq PlanDays
  /\ snapshot.span \in Nat /\ snapshot.monthly \in BOOLEAN
  /\ snapshot.entries \subseteq
       [offset : 0 .. snapshot.span - 1, place : 1 .. MostShifts, kind : ShiftKinds \ {"leave"}]
  /\ plans \in 0..MostPlans

PlanInit ==
  /\ shifts = [d \in PlanDays |-> <<>>]
  /\ onLeave = {} /\ unforced = {}
  /\ snapshot = NoSnapshot
  /\ plans = 0

-----------------------------------------------------------------------------
(* The limits.                                                             *)

Working(kind) == kind \in {"short", "long"}
HoursOf(kind) == CASE kind = "short" -> 1 [] kind = "long" -> 2 [] OTHER -> 0

HoursOfAll(kinds) == SumFunction([i \in DOMAIN kinds |-> HoursOf(kinds[i])])
Rostered(d) == HoursOfAll(shifts[d])
RosteredOver(days) == SumFunction([e \in days |-> Rostered(e)])
PutIn(targets) == SumFunction([t \in targets |-> HoursOf(t.kind)])

HasWork(d) == \E i \in DOMAIN shifts[d] : Working(shifts[d][i])
IsHeld(d) == \E i \in DOMAIN shifts[d] : shifts[d][i] = "leave"
WeekOf(d) == {e \in PlanDays : (e - 1) \div WeekLength = (d - 1) \div WeekLength}

\* The run of work days a day lies in.
InARow(d, days) == Cardinality({e \in days : \A x \in (IF e < d THEN e..d ELSE d..e) : x \in days})
AtWorkInWeekFrom(d, days) == Cardinality(days \cap (d .. (d + WeekLength - 1)))

\* One hit is enough: the scan stops at the first day over a limit.
FirstDate(days) == IF days = {} THEN {} ELSE {Min(days)}

\* Hours count on the day the shift starts. A week's hours run up in the order
\* of the days, and from where they pass the limit on every day is a hit.
OverHours(work, replaced) ==
  LET on(d) == {t \in work : t.day = d}
      upTo(d) == {t \in work : t.day \in WeekOf(d) /\ t.day <= d}
  IN {t.day : t \in {u \in work :
        \/ /\ MostPerDay > 0
           /\ RosteredOver({u.day} \ replaced) + PutIn(on(u.day)) > MostPerDay
        \/ /\ MostPerWeek > 0
           /\ RosteredOver(WeekOf(u.day) \ replaced) + PutIn(upTo(u.day)) > MostPerWeek}}

\* validate_placements: the days it refuses, of what is about to be written.
\* Only leave stands against force.
Refused(targets, force, replaced) ==
  LET work == {t \in targets : Working(t.kind)}
      dates == {t.day : t \in work}
      read == {d \in PlanDays : d >= Min(dates) - Pad /\ d <= Max(dates) + Pad}
      days == {d \in read : d \notin replaced /\ HasWork(d)} \cup dates
      tooLong == {d \in dates : MostInARow > 0 /\ InARow(d, days) > MostInARow}
      tooFewRests == {d \in dates : RestDays > 0 /\ AtWorkInWeekFrom(d, days) > WeekLength - RestDays}
  IN IF work = {} THEN {}
     ELSE (dates \cap onLeave)
          \cup (IF force THEN {} ELSE FirstDate(tooLong) \cup FirstDate(tooFewRests) \cup OverHours(work, replaced))

-----------------------------------------------------------------------------
(* What is written.                                                        *)

CopyOrder(targets) ==
  {tu \in targets \X targets : \/ tu[1].copy < tu[2].copy
                               \/ tu[1].copy = tu[2].copy /\ tu[1].place < tu[2].place}
KindsOn(d, targets) ==
  LET those == {t \in targets : t.day = d}
      inOrder == InOrder(those, CopyOrder(those))
  IN [i \in DOMAIN inOrder |-> inOrder[i].kind]

\* Shifts of replaced days make room; all others are added to.
Put(targets, replaced, force) ==
  /\ targets # {} /\ plans < MostPlans
  /\ plans' = plans + 1
  /\ shifts' = [d \in PlanDays |-> (IF d \in replaced THEN <<>> ELSE shifts[d]) \o KindsOn(d, targets)]
  /\ \A d \in PlanDays : Len(shifts'[d]) <= MostShifts
  /\ unforced' = IF force THEN {} ELSE {t.day : t \in {u \in targets : Working(u.kind)}}
  /\ UNCHANGED <<onLeave, snapshot>>

Single(d, kind) == [copy |-> 0, place |-> 0, day |-> d, kind |-> kind]

\* create_shift: refused as a whole. Other than work may join a day of leave.
CreateOne(d, kind, force) ==
  /\ Refused({Single(d, kind)}, force, {}) = {}
  /\ Put({Single(d, kind)}, {}, force)

\* bulk_create_shifts: what is refused is left out, days with shifts get more.
BulkCreate(days, kind, force) ==
  LET targets == {Single(d, kind) : d \in days}
      refused == Refused(targets, force, {})
  IN Put({t \in targets : t.day \notin refused}, {}, force)

\* apply_template: the pattern over and over, but not on days with shifts.
ApplyTemplate(pattern, start, last, force) ==
  LET Entry(d) == pattern[((d - start) % Len(pattern)) + 1]
      targets == {Single(d, Entry(d)) : d \in {e \in start..last : Entry(e) # "none"}}
      free == {t \in targets : shifts[t.day] = <<>>}
      refused == Refused(free, force, {})
  IN Put({t \in free : t.day \notin refused}, {}, force)

\* _apply_targets: a day with a leave on it is skipped, and one with shifts is
\* skipped, or in overwriting its shifts are replaced.
Candidates(targets, overwrite) ==
  {t \in targets : ~IsHeld(t.day) /\ (overwrite \/ shifts[t.day] = <<>>)}

Planned(targets, overwrite) ==
  LET candidates == Candidates(targets, overwrite)
      replaced == {t.day : t \in candidates}
      refused == Refused(candidates, overwrite, replaced)
  IN {t \in candidates : t.day \notin refused}

ApplyCopies(targets, overwrite) ==
  LET planned == Planned(targets, overwrite)
  IN Put(planned, {t.day : t \in planned}, overwrite)

\* A slip: the dry run looks for leave in the requests alone.
ShownOffLeave(targets) == {t \in targets : t.day \notin Refused(targets, FALSE, {}) \cap onLeave}

\* _preview_targets, create_count: everything but the days leave stands on.
Shown(targets) ==
  LET blocked == (Refused(targets, FALSE, {}) \cap onLeave) \cup {t.day : t \in {u \in targets : IsHeld(u.day)}}
  IN {t \in targets : t.day \notin blocked}

-----------------------------------------------------------------------------
(* Copies of a week, and snapshots that repeat.                            *)

\* _week_copy_targets: the shifts of a window, but for leave, some days on.
WeekCopies(from, to, start) ==
  {[copy |-> 0, place |-> at[2], day |-> start + (at[1] - from), kind |-> shifts[at[1]][at[2]]] :
     at \in {x \in (from..to) \X (1..MostShifts) :
               x[2] \in DOMAIN shifts[x[1]] /\ shifts[x[1]][x[2]] # "leave"}}

CopyWeek(from, to, start, overwrite) ==
  LET targets == WeekCopies(from, to, start)
  IN /\ \A t \in targets : t.day \in PlanDays
     /\ ApplyCopies(targets, overwrite)

\* create_snapshot.
Capture(from, to, monthly) ==
  /\ plans < MostPlans
  /\ plans' = plans + 1
  /\ snapshot' = [span |-> to - from + 1, monthly |-> monthly,
                  entries |-> {[offset |-> d.day - from, place |-> d.place, kind |-> d.kind] :
                                 d \in WeekCopies(from, to, from)}]
  /\ unforced' = {}
  /\ UNCHANGED <<shifts, onLeave>>

MonthOf(d) == CHOOSE m \in DOMAIN Firsts : Firsts[m] <= d /\ (m < Len(Firsts) => d < Firsts[m + 1])

\* _add_months: the same day of a later month, or its last.
AddMonths(d, k) ==
  LET m == MonthOf(d)
      same == Firsts[m + k] + (d - Firsts[m])
  IN IF same < Firsts[m + k + 1] THEN same ELSE Firsts[m + k + 1] - 1

CopyStart(s, start, k) == IF s.monthly THEN AddMonths(start, k) ELSE start + (k * s.span)
CopyEnd(s, start, k) == IF s.monthly THEN AddMonths(start, k + 1) - 1 ELSE CopyStart(s, start, k) + s.span - 1

\* At least one copy is made, and as many more as start by the last day.
CopiesMade(s, start, until) ==
  {0} \cup {k \in 1..Cardinality(PlanDays) : /\ s.monthly => MonthOf(start) + k < Len(Firsts)
                                             /\ CopyStart(s, start, k) <= until}

\* _snapshot_targets: a day its month does not have is dropped.
SnapshotCopies(s, start, until) ==
  {t \in {[copy |-> k, place |-> e.offset * MostShifts + e.place,
           day |-> CopyStart(s, start, k) + e.offset, kind |-> e.kind] :
            k \in CopiesMade(s, start, until), e \in s.entries} :
     t.day <= CopyEnd(s, start, t.copy)}

ApplySnapshot(start, until, overwrite) ==
  LET targets == SnapshotCopies(snapshot, start, until)
  IN /\ \A t \in targets : t.day \in PlanDays
     /\ ApplyCopies(targets, overwrite)

-----------------------------------------------------------------------------
(* A leave is approved: it takes the place of the day's shifts. A planner  *)
(* may clear a day after that.                                             *)

LeaveGiven(d) ==
  /\ plans < MostPlans /\ plans' = plans + 1
  /\ d \notin onLeave
  /\ onLeave' = onLeave \cup {d}
  /\ shifts' = [shifts EXCEPT ![d] = <<"leave">>]
  /\ unforced' = {}
  /\ UNCHANGED snapshot

LeaveTaken(d) ==
  /\ plans < MostPlans /\ plans' = plans + 1
  /\ d \in onLeave
  /\ onLeave' = onLeave \ {d}
  /\ shifts' = [shifts EXCEPT ![d] = Kept(shifts[d], {i \in DOMAIN shifts[d] : shifts[d][i] # "leave"})]
  /\ unforced' = {}
  /\ UNCHANGED snapshot

ClearDay(d) ==
  /\ plans < MostPlans /\ plans' = plans + 1
  /\ shifts[d] # <<>>
  /\ shifts' = [shifts EXCEPT ![d] = <<>>]
  /\ unforced' = {}
  /\ UNCHANGED <<onLeave, snapshot>>

Spans == {s \in PlanDays \X PlanDays : s[1] <= s[2]}

PlanNext ==
  \/ \E d \in PlanDays, kind \in {"short", "long", "rest"}, force \in BOOLEAN : CreateOne(d, kind, force)
  \/ \E s \in Spans, force \in BOOLEAN :
       \/ \E kind \in {"short", "long"} : BulkCreate(s[1]..s[2], kind, force)
       \/ \E pattern \in Templates : ApplyTemplate(pattern, s[1], s[2], force)
       \/ \E start \in PlanDays : CopyWeek(s[1], s[2], start, force)
       \/ ApplySnapshot(s[1], s[2], force)
  \/ \E s \in Spans, monthly \in BOOLEAN : Capture(s[1], s[2], monthly)
  \/ \E d \in PlanDays : LeaveGiven(d) \/ LeaveTaken(d) \/ ClearDay(d)

PlanSpec == PlanInit /\ [][PlanNext]_planVars

-----------------------------------------------------------------------------
(* What a dry run counts is what overwriting then writes, of a week's      *)
(* copy and of a snapshot: nobody is promised a day that leave stands on,  *)
(* nor told of fewer.                                                      *)
DryRunsAreHonest ==
  \A s \in Spans :
    /\ \A start \in PlanDays :
         LET targets == {t \in WeekCopies(s[1], s[2], start) : t.day \in PlanDays}
         IN Shown(targets) = Planned(targets, TRUE)
    /\ LET targets == {t \in SnapshotCopies(snapshot, s[1], s[2]) : t.day \in PlanDays}
       IN Shown(targets) = Planned(targets, TRUE)

(* The copies of a snapshot keep apart: no day gets shifts from two.       *)
CopiesKeepApart ==
  \A s \in Spans : \A t, u \in SnapshotCopies(snapshot, s[1], s[2]) : t.day = u.day => t.copy = u.copy

(* Nobody is put to work, unless by force, for more hours than a day or a  *)
(* week may have, however many shifts are written at once; and by nobody   *)
(* on leave.                                                               *)
UnforcedWorkKeepsTheHours ==
  \A d \in unforced :
    /\ d \notin onLeave
    /\ MostPerDay > 0 => Rostered(d) <= MostPerDay
    /\ MostPerWeek > 0 => RosteredOver(WeekOf(d)) <= MostPerWeek

(* Bulk planning writes what it announced, once, and nothing unforced that *)
(* breaks the rules about hours, at first and after every plan.            *)
WordIsKept == PlanTypeOK /\ DryRunsAreHonest /\ CopiesKeepApart /\ UnforcedWorkKeepsTheHours

PlannedAsPromised == WordIsKept /\ [](plans > 0 => WordIsKept)
=============================================================================
