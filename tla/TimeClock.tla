----------------------------- MODULE TimeClock -----------------------------
(***************************************************************************)
(* One employee's time clock: clocking in and out, the job that closes     *)
(* forgotten clock-ins and marks no-shows, the planners who change the     *)
(* roster under it, the people who correct a day by hand, and the          *)
(* attendance records that are derived from all of it.                     *)
(*                                                                         *)
(* An instant is a natural number; a day has DayLength of them. A clock-in *)
(* and the clock-out paired with it are one stretch of work. Where the     *)
(* punch was made, lateness, overtime and undertime are left out, and so   *)
(* are holidays. Each handler is one step, and an instant is long enough   *)
(* for one clock-in.                                                       *)
(***************************************************************************)
EXTENDS Integers, FiniteSets, FiniteSetsExt, Functions

CONSTANTS
  LastDay,      \* the days are 0 .. LastDay
  DayLength,
  Slots,        \* sequence numbers of a day's shifts
  Shifts,       \* shifts a day can be given: [from, to], times of day
  FirstRosters, \* rosters to start with
  Typed,        \* what somebody may type in: [from, to], times of day
  Grace,        \* auto_clockout_after_hours
  Unscheduled,  \* auto_clockout_unscheduled_hours
  DayHours,     \* the hours of an ordinary working day
  AbsentAfter,  \* auto_absent_after_minutes
  Lookback,     \* ABSENT_LOOKBACK_DAYS
  Nothing,      \* NULL
  MaxEdits,     \* bound on what other people do
  MaxStretches  \* bound on clock-ins

ClockDays == 0 .. LastDay
Lower(a, b) == IF a <= b THEN a ELSE b
Upper(a, b) == IF a <= b THEN b ELSE a

(* Whatever is clocked in on one of the days counts as forgotten by then.  *)
LastInstant == Upper((LastDay + 2) * DayLength + Grace, (LastDay + 1) * DayLength + Unscheduled) - 1
Instants == 0 .. LastInstant

ASSUME TimeClockAssumption ==
  /\ LastDay \in Nat /\ DayLength \in Nat \ {0}
  /\ Slots \subseteq Nat /\ IsFiniteSet(Slots)
  /\ Shifts \subseteq [from : 0 .. DayLength - 1, to : 0 .. DayLength - 1]
  /\ FirstRosters \subseteq [ClockDays -> [Slots -> Shifts \cup {Nothing}]]
  /\ Typed \subseteq [from : 0 .. DayLength - 1, to : 0 .. DayLength - 1]
  /\ {Grace, Unscheduled, DayHours, AbsentAfter, Lookback, MaxEdits, MaxStretches} \subseteq Nat

VARIABLES
  now,
  roster,     \* the published work shifts of each day
  stretches,  \* the time punches, in pairs
  record,     \* the attendance record of each day
  excused,    \* days of approved leave
  locked,     \* days that an approved or finalized payroll run has paid
  typed,      \* history: days whose times somebody typed in last
  edits       \* how much other people did

clockVars == <<now, roster, stretches, record, excused, locked, typed, edits>>

Stretch == [in : Instants, out : Instants \cup {Nothing}, day : ClockDays,
            shift : (ClockDays \X Slots) \cup {Nothing}, auto : BOOLEAN]
Record == [start : Instants \cup {Nothing}, end : Instants \cup {Nothing},
           hours : Nat \cup {Nothing}, status : {"here", "absent", "excused"}, noShow : BOOLEAN]

ASSUME NothingAssumption == Nothing \notin Instants /\ Nothing \notin Record

ClockTypeOK ==
  /\ now \in Instants
  /\ roster \in [ClockDays -> [Slots -> Shifts \cup {Nothing}]]
  /\ stretches \subseteq Stretch
  /\ record \in [ClockDays -> Record \cup {Nothing}]
  /\ excused \subseteq ClockDays /\ locked \subseteq ClockDays /\ typed \subseteq ClockDays
  /\ edits \in 0 .. MaxEdits

ClockInit ==
  /\ now = 0
  /\ roster \in FirstRosters
  /\ stretches = {}
  /\ record = [d \in ClockDays |-> Nothing]
  /\ excused = {} /\ locked = {} /\ typed = {} /\ edits = 0

-----------------------------------------------------------------------------
(* The roster around a punch.                                              *)
DayOf(t) == t \div DayLength
TimeOf(t) == t % DayLength

PastMidnight(s) == s.to <= s.from
StartOf(d, s) == d * DayLength + s.from
EndOf(d, s) == d * DayLength + s.to + (IF PastMidnight(s) THEN DayLength ELSE 0)

Planned(d) == {i \in Slots : roster[d][i] # Nothing}

(* How far two times of day are apart, around the clock.                   *)
Apart(a, b) ==
  LET gap == Upper(a, b) - Lower(a, b) IN Lower(gap, DayLength - gap)

(* The shift of day d whose start is nearest to a clock-in at t.           *)
Matched(d, t) ==
  IF Planned(d) = {} THEN Nothing
  ELSE <<d, CHOOSE i \in Planned(d) :
              \A j \in Planned(d) :
                LET here == Apart(TimeOf(t), roster[d][i].from)
                    there == Apart(TimeOf(t), roster[d][j].from)
                IN here < there \/ (here = there /\ i <= j)>>

(* The day a clock-in belongs to: today, unless yesterday's night shift is *)
(* still running.                                                          *)
BusinessDay(t) ==
  LET yesterday == DayOf(t) - 1 IN
  IF yesterday \in ClockDays
     /\ \E i \in Planned(yesterday) :
          PastMidnight(roster[yesterday][i]) /\ TimeOf(t) < roster[yesterday][i].to
  THEN yesterday ELSE DayOf(t)

(* When an open clock-in is to be closed, and from when it is forgotten.   *)
AutoClose(s) ==
  LET shift == IF s.shift = Nothing THEN Nothing ELSE roster[s.shift[1]][s.shift[2]] IN
  IF shift # Nothing
  THEN LET end == EndOf(s.shift[1], shift)
       IN [at |-> Upper(end, s.in), late |-> end + Grace]
  ELSE [at |-> s.in + Lower(DayHours, Unscheduled), late |-> s.in + Unscheduled]

Open(S) == {s \in S : s.out = Nothing}
Latest(S) == CHOOSE s \in S : \A t \in S : t.in <= s.in

(* Clock-ins that are closed by the system.                                *)
Closed(S, F) == (S \ F) \cup {[s EXCEPT !.out = AutoClose(s).at, !.auto = TRUE] : s \in F}

DaysOf(S) == {s.day : s \in S}

-----------------------------------------------------------------------------
(* Deriving a day. The hours are the closed stretches' if the times on the *)
(* record are still the clock's, and else what was typed.                  *)
Of(S, d) == {s \in S : s.day = d}
FirstIn(S) == Min({s.in : s \in S})
Outs(S) == {s.out : s \in S} \ {Nothing}
LastOut(S) == IF Outs(S) = {} THEN Nothing ELSE Max(Outs(S))
ClosedHours(S) ==
  IF Outs(S) = {} THEN Nothing
  ELSE SumFunction([s \in S \ Open(S) |-> s.out - s.in])

Hours(S, d, start, end) ==
  IF Of(S, d) # {} /\ start = FirstIn(Of(S, d)) /\ end = LastOut(Of(S, d))
  THEN ClosedHours(Of(S, d))
  ELSE IF start = Nothing \/ end = Nothing THEN Nothing ELSE end - start

Derived(S, off, d, start, end, noShow) ==
  [start |-> start, end |-> end, hours |-> Hours(S, d, start, end),
   status |-> IF start # Nothing THEN "here" ELSE IF d \in off THEN "excused" ELSE "absent",
   noShow |-> noShow]

Punched(S, d) == Derived(S, excused, d, FirstIn(Of(S, d)), LastOut(Of(S, d)), FALSE)

(* What punches make of their days; a paid day is left alone.              *)

(* A slip: a day that has a record already keeps it.                       *)
SyncedOnce(R, S, D) ==
  [d \in ClockDays |-> IF d \in D \ locked /\ R[d] = Nothing THEN Punched(S, d) ELSE R[d]]

Synced(R, S, D) == [d \in ClockDays |-> IF d \in D \ locked THEN Punched(S, d) ELSE R[d]]

-----------------------------------------------------------------------------
(* Clocking in. A clock-in forgotten on an earlier day is closed first.    *)
Stale(s) ==
  \/ now >= AutoClose(s).late
  \/ s.day < BusinessDay(now) /\ now >= AutoClose(s).at

LatestOpen == IF Open(stretches) = {} THEN {} ELSE {Latest(Open(stretches))}

(* The rest of a step that changes the punches: the days they fall on are  *)
(* derived anew, and what was typed in for them is gone.                   *)
Write(S, D) ==
  /\ stretches' = S
  /\ record' = Synced(record, S, D)
  /\ typed' = typed \ (D \ locked)

ClockIn ==
  /\ Cardinality(stretches) < MaxStretches
  /\ DayOf(now) \in ClockDays /\ now \notin {s.in : s \in stretches}
  /\ \A s \in LatestOpen : Stale(s)
  /\ LET d == BusinessDay(now)
         new == [in |-> now, out |-> Nothing, day |-> d, shift |-> Matched(d, now), auto |-> FALSE]
     IN Write(Closed(stretches, LatestOpen) \cup {new}, DaysOf(LatestOpen) \cup {d})
  /\ UNCHANGED <<now, roster, excused, locked, edits>>

(* Clocking out: now, or where the job would have closed a forgotten one.  *)
ClockOut ==
  /\ LatestOpen # {}
  /\ \E s \in LatestOpen :
       Write(IF now >= AutoClose(s).late THEN Closed(stretches, {s})
             ELSE (stretches \ {s}) \cup {[s EXCEPT !.out = now]}, {s.day})
  /\ UNCHANGED <<now, roster, excused, locked, edits>>

(* The job: forgotten clock-ins are closed, then no-shows are marked.      *)
Forgotten == {s \in Open(stretches) : now >= AutoClose(s).late}

NoShows(S, R) ==
  {d \in ClockDays \ (excused \cup locked) :
     /\ DayOf(now) - Lookback <= d /\ d <= DayOf(now)
     /\ Planned(d) # {} /\ R[d] = Nothing /\ Of(S, d) = {}
     /\ \E i \in Planned(d) : StartOf(d, roster[d][i]) + AbsentAfter <= now
     /\ \A i \in Planned(d) : EndOf(d, roster[d][i]) <= now}

CloseAndMark ==
  /\ stretches' = Closed(stretches, Forgotten)
  /\ LET closed == Synced(record, stretches', DaysOf(Forgotten))
     IN record' = [d \in ClockDays |-> IF d \in NoShows(stretches', closed)
                                  THEN Derived(stretches', excused, d, Nothing, Nothing, TRUE)
                                  ELSE closed[d]]
  /\ typed' = typed \ (DaysOf(Forgotten) \ locked)
  /\ UNCHANGED <<now, roster, excused, locked, edits>>

-----------------------------------------------------------------------------
(* What others do meanwhile.                                               *)

(* A day's times are typed in, over what the clock or the job made of it.  *)
(* An end that is not after the start is on the next day.                  *)
TypeIn(d, start, end) ==
  /\ edits < MaxEdits /\ d \notin locked
  /\ record' = [record EXCEPT ![d] = Derived(stretches, excused, d, start, end, FALSE)]
  /\ typed' = typed \cup {d}
  /\ edits' = edits + 1
  /\ UNCHANGED <<now, roster, stretches, excused, locked>>

(* A planner publishes a shift, or changes the times of a published one.   *)
Plan(d, i, s) ==
  /\ edits < MaxEdits /\ d \notin locked
  /\ roster' = [roster EXCEPT ![d][i] = s]
  /\ edits' = edits + 1
  /\ UNCHANGED <<now, stretches, record, excused, locked, typed>>

(* Or deletes one: its punches lose it.                                    *)
Delete(d, i) ==
  /\ edits < MaxEdits /\ d \notin locked /\ roster[d][i] # Nothing
  /\ roster' = [roster EXCEPT ![d][i] = Nothing]
  /\ stretches' = {IF s.shift = <<d, i>> THEN [s EXCEPT !.shift = Nothing] ELSE s : s \in stretches}
  /\ edits' = edits + 1
  /\ UNCHANGED <<now, record, excused, locked, typed>>

(* Leave over day d is approved, or no longer is.                          *)
DecideLeave(d) ==
  /\ edits < MaxEdits
  /\ excused' = IF d \in excused THEN excused \ {d} ELSE excused \cup {d}
  /\ record' = IF record[d] = Nothing \/ d \in locked THEN record
               ELSE [record EXCEPT ![d] = Derived(stretches, excused', d, @.start, @.end, @.noShow)]
  /\ edits' = edits + 1
  /\ UNCHANGED <<now, roster, stretches, locked, typed>>

(* A payroll run that covers day d is signed off.                          *)
Lock(d) ==
  /\ edits < MaxEdits /\ d \notin locked
  /\ locked' = locked \cup {d}
  /\ edits' = edits + 1
  /\ UNCHANGED <<now, roster, stretches, record, excused, typed>>

Tick ==
  /\ now < LastInstant
  /\ now' = now + 1
  /\ UNCHANGED <<roster, stretches, record, excused, locked, typed, edits>>

Punches == ClockIn \/ ClockOut

OtherPeople ==
  \E d \in ClockDays :
    \/ \E t \in Typed : TypeIn(d, StartOf(d, t), EndOf(d, t))
    \/ \E i \in Slots : Delete(d, i) \/ \E s \in Shifts : Plan(d, i, s)
    \/ DecideLeave(d)
    \/ Lock(d)

ClockNext == CloseAndMark \/ Punches \/ OtherPeople \/ Tick

(* The clock runs, and the scheduler runs the job every minute.            *)
ClockSpec == ClockInit /\ [][ClockNext]_clockVars /\ WF_clockVars(Tick) /\ WF_clockVars(CloseAndMark)

-----------------------------------------------------------------------------
(* The employee is never in two stretches of work at once, and none goes   *)
(* on into the future: whatever is forgotten, closed by the system or      *)
(* planned anew meanwhile, no hour is paid twice.                          *)
NoHourCountsTwice ==
  \A s \in stretches :
    /\ s.out # Nothing => s.in <= s.out /\ s.out <= now
    /\ \A t \in stretches \ {s} :
         \/ s.out # Nothing /\ s.out <= t.in
         \/ t.out # Nothing /\ t.out <= s.in

(* A day that was not typed in says what the clock says, in particular     *)
(* that nobody who clocked in was a no-show, and without a punch it can    *)
(* only be one: however often it was derived, and from whatever it held.   *)
RecordsFollowTheClock ==
  \A d \in ClockDays \ (typed \cup locked) :
    IF Of(stretches, d) # {}
    THEN record[d] = Punched(stretches, d)
    ELSE record[d] # Nothing => record[d].noShow /\ record[d].hours = Nothing

(* What a payroll run has paid for stays on the day's record.              *)
PaidDaysKeepTheirRecordStep == \A d \in locked : record'[d] = record[d]
PaidDaysKeepTheirRecord == [][PaidDaysKeepTheirRecordStep]_clockVars

(* A forgotten clock-in is closed in the end, whatever becomes of its      *)
(* shift.                                                                  *)
ForgottenOnesAreClosed == (Open(stretches) # {}) ~> (Open(stretches) = {})

(* "Once someone corrects the times by hand, the correction is what the    *)
(* day is judged on": until the employee clocks in or out again, or it is  *)
(* corrected once more.                                                    *)
CorrectionsStandStep ==
  \A d \in typed \ locked :
    \/ d \in typed'
    \/ \E s \in stretches' \ stretches : s.day = d /\ ~s.auto

CorrectionsStand == [][CorrectionsStandStep]_clockVars

(* Hours count once, on the record of the day they were worked, and what   *)
(* was paid for stays as it was paid.                                      *)
HoursAreTrue ==
  [](ClockTypeOK /\ NoHourCountsTwice /\ RecordsFollowTheClock) /\ PaidDaysKeepTheirRecord
=============================================================================
