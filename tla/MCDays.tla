------------------------------ MODULE MCDays ------------------------------
(***************************************************************************)
(* The days of the roster: the rosters themselves with leaves and change   *)
(* requests, the planning of a week, and the holidays. They share no       *)
(* variable here, so a behaviour is about one of them, `subject`, and the  *)
(* others stay as they began.                                              *)
(***************************************************************************)
EXTENDS ScheduleChange, Planning, Holidays

(* Two days of two employees. Two leaves of employee 1 overlap on the      *)
(* second day; employee 2 asks to swap that day, or 1 to change a day.     *)
CONSTANTS l1, l2

MCLeaveOf == [l \in {l1, l2} |-> 1]
MCSpan == [l \in {l1, l2} |-> IF l = l1 THEN {1, 2} ELSE {2}]
MCCounted == MCSpan
MCSelections == {{1} \X Days, Cells}
MCPatterns == {[c \in {1} \X Days |-> <<"work">>]}
MCRuns == {Employees \X {1}}

MCChainOf == <<<<2, 3>>, <<1, 3>>>>
MCWanted == {[by |-> 2, with |-> 1, days |-> {2}, wish |-> "times"],
             [by |-> 1, with |-> None, days |-> Days, wish |-> "times"]}

(* Months of one day and of two: there may be no same day in the next.    *)
MCFirsts == <<1, 3, 4, 6, 8>>
MCTemplates == {<<"short", "none">>, <<"long", "rest", "short">>}

Entry(date, region, kind) == [date |-> date, region |-> region, kind |-> kind]
MCFeeds ==
  {{Entry(1, National, "regular"), Entry(2, "north", "unlabelled"), Entry(3, National, "special")},
   {Entry(2, National, "special"), Entry(2, "north", "regular")}}

VARIABLE subject

(* What is not the subject has one beginning.                              *)
Pinned(x, S) == subject # "holidays" => x = CHOOSE y \in S : TRUE

DaysInit ==
  /\ subject \in {"roster", "plans", "holidays"}
  /\ ChangeInit /\ PlanInit /\ HolidayInit
  /\ Pinned(feed, Feeds \cup {Down}) /\ Pinned(autoOff, BOOLEAN) /\ Pinned(autoSync, BOOLEAN)

DaysNext ==
  /\ UNCHANGED subject
  /\ \/ subject = "roster" /\ ChangeNext /\ UNCHANGED <<planVars, holidayVars>>
     \/ subject = "plans" /\ PlanNext /\ UNCHANGED <<changeVars, holidayVars>>
     \/ subject = "holidays" /\ HolidayNext /\ UNCHANGED <<changeVars, planVars>>

DaysSpec == DaysInit /\ [][DaysNext]_<<changeVars, planVars, holidayVars, subject>>
=============================================================================
