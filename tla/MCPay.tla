------------------------------- MODULE MCPay -------------------------------
(***************************************************************************)
(* What is paid: the payroll runs, the time clock and the overtime that    *)
(* come before them, the attendance policies, the arithmetic of a payslip, *)
(* the salaries and who may see them. They share no variable here, so a    *)
(* behaviour is about one of them, `subject`, and the others stay as they  *)
(* began.                                                                  *)
(***************************************************************************)
EXTENDS MCPayroll, MCTimeClock, Policies, PayFigures, Salaries, SalaryEnrollment

(* Attendance policies: overtime that is no holiday work, lateness or a    *)
(* day of ordinary length, all work, and lateness again.                   *)
When(f, op, v) == [is |-> op, field |-> f, value |-> v]
Do(type, convert) == [type |-> type, convert |-> convert]
Stage(min, max, action) == [min |-> min, max |-> max, action |-> action]
Staged(stages) == [type |-> "bands", field |-> "late", bands |-> stages]

MCPolicies ==
  <<[when |-> [is |-> "all", of |-> {When("overtime", "gt", 0),
                                     [is |-> "not", of |-> {When("holiday", "gt", 0)}]}],
     actions |-> <<Do("apply_ot_category", TRUE), Do("apply_night_diff", TRUE)>>, stop |-> FALSE],
    [when |-> [is |-> "any", of |-> {When("late", "gt", 0), When("shift_hours", "lte", 8)}],
     actions |-> <<Staged(<<Stage(1, 1, Do("send_warning", FALSE)),
                            Stage(1, 9, Do("leave_deduction", FALSE))>>)>>, stop |-> FALSE],
    [when |-> When("hours", "gt", 0),
     actions |-> <<Do("apply_holiday_pay", FALSE), Do("apply_night_diff", FALSE),
                   Do("apply_ot_category", FALSE)>>, stop |-> TRUE],
    [when |-> When("late", "gt", 0), actions |-> <<Do("mark_excused", FALSE)>>, stop |-> FALSE]>>

MCConditions ==
  LET rules == {MCPolicies[i].when : i \in DOMAIN MCPolicies}
      groups == {c \in rules : c.is \in Groups}
      within == UNION {c.of : c \in groups}
  IN rules \cup within \cup UNION {c.of : c \in {d \in within : d.is \in Groups}}

Figured(overtime, late, night, holiday, hours, onHoliday) ==
  [overtime |-> overtime, late |-> late, night |-> night, holiday |-> holiday, hours |-> hours,
   onHoliday |-> onHoliday]
MCDayFigures ==
  {Figured(8, 0, 8, 0, 16, FALSE), Figured(8, 1, 0, 8, 8, TRUE), Figured(0, 2, 8, 0, 8, TRUE),
   Figured(0, 0, 0, 0, 0, TRUE)}

(* A night of overtime under a policy that turns night work into leave,    *)
(* and people who turn overtime into leave by hand: what an hour is worth. *)
ConversionPolicies ==
  <<[when |-> When("overtime", "gt", 0),
     actions |-> <<Do("apply_ot_category", FALSE), Do("apply_night_diff", TRUE)>>,
     stop |-> FALSE]>>
ConversionFigures == {Figured(8, 0, 8, 0, 16, FALSE)}

(* Night windows on either side of midnight; tables out of order, with     *)
(* full amounts, and with what validate_brackets refuses.                  *)
MCWindows == {<<3, 1>>, <<1, 3>>}
Band(over, upTo, base, part, full) ==
  [over |-> over, upTo |-> upTo, base |-> base, rate |-> part, full |-> full]
MCTables ==
  {<<Band(2, NoUpperEnd, 1, 1, FALSE), Band(0, 2, 0, 0, FALSE)>>,
   <<Band(1, 2, 1, 0, FALSE), Band(2, 4, 1, 2, TRUE)>>,
   <<Band(0, 1, 0, 1, FALSE), Band(2, NoUpperEnd, 1, 1, FALSE)>>,
   <<Band(0, 3, 0, 1, FALSE), Band(2, NoUpperEnd, 1, 1, FALSE)>>}

Deduction(code, type, of, part, amount, employer) ==
  [code |-> code, type |-> type, of |-> of, rate |-> part, amount |-> amount,
   employer |-> employer]
MCDeductions ==
  {Deduction(1, "tiered", "gross", 0, 0, FALSE), Deduction(2, "fixed", "gross", 0, 1, TRUE),
   Deduction(3, "percentage", "base", 1, 1, FALSE)}
(* A grade that pays nothing and one that asks for money, raises that do   *)
(* nothing or go down.                                                     *)
MCPayAmounts == -1 .. 1
MCMultiple == [holiday |-> 2, night |-> 3]

VARIABLE subject

(* A company starts with the rules that it has; what is not the subject    *)
(* has one beginning.                                                      *)
Pinned(x, S, theme) == subject # theme => x = CHOOSE y \in S : TRUE

PayInit ==
  /\ subject \in {"payroll", "clock", "policies", "figures", "salaries", "salary access"}
  /\ Init /\ ClockInit /\ PolicyInit /\ FigureInit /\ SalaryInit /\ EnrollmentInit
  /\ Pinned(roster, FirstRosters, "clock")
  /\ Pinned(figures, DayFigures, "policies") /\ Pinned(active, SUBSET DOMAIN Rules, "policies")
  /\ Pinned(window, Windows, "figures")

moneyVars == <<salaryVars, enrollmentVars>>

PayNext ==
  /\ UNCHANGED subject
  /\ \/ subject = "payroll" /\ Next /\ UNCHANGED <<clockVars, policyVars, figureVars, moneyVars>>
     \/ subject = "clock" /\ ClockNext /\ UNCHANGED <<vars, policyVars, figureVars, moneyVars>>
     \/ subject = "policies" /\ PolicyNext /\ UNCHANGED <<vars, clockVars, figureVars, moneyVars>>
     \/ subject = "figures" /\ FigureNext /\ UNCHANGED <<vars, clockVars, policyVars, moneyVars>>
     \/ subject = "salaries" /\ SalaryNext
        /\ UNCHANGED <<vars, clockVars, policyVars, figureVars, enrollmentVars>>
     \/ subject = "salary access" /\ EnrollmentNext
        /\ UNCHANGED <<vars, clockVars, policyVars, figureVars, salaryVars>>

payVars == <<vars, clockVars, policyVars, figureVars, moneyVars, subject>>

PaySpec == PayInit /\ [][PayNext]_payVars

ConversionSpec == PayInit /\ subject = "policies" /\ [][PayNext]_payVars

(* It does not matter who runs the payroll, nor which grade is which.      *)
Alike == Permutations(Makers) \cup Permutations(Grades)
=============================================================================
