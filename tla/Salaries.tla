------------------------------ MODULE Salaries ------------------------------
(***************************************************************************)
(* What one employee earns from which day on: the rows of employee_salary, *)
(* the grades they point to, the raises that write new rows, and the lines *)
(* of the compensation ledger that each raise leaves. Money is counted in  *)
(* whole units, and a percentage is a multiple, so nothing is rounded.     *)
(***************************************************************************)
EXTENDS Integers, Sequences, FiniteSetsExt, Functions

CONSTANTS
  PayDays,     \* days, as integers
  Grades,
  NoGrade,     \* nothing assigned
  PayAmounts,  \* the monthly rates and increases that are entered, zero and less too
  MostPay,     \* bound on a salary, and on a debt
  MostEntries  \* bound on what is entered

ASSUME SalaryAssumption ==
  /\ PayDays \subseteq Nat /\ PayAmounts \subseteq -MostPay .. MostPay
  /\ NoGrade \notin Grades
  /\ MostPay \in Nat /\ MostEntries \in Nat

VARIABLES
  rows,      \* the row of employee_salary of each day, if there is one
  rate,      \* the monthly rate of a grade
  standing,  \* of a grade: "none" if it is not there, "retired" if it is not active
  ledger,    \* the salary_adjustment lines: the day and the difference
  inTurn,    \* history: since the one assignment, only raises, none of them
             \* before a day that had a row or to a salary that it does not pay
  entries    \* entries so far

salaryVars == <<rows, rate, standing, ledger, inTurn, entries>>

\* An override of zero counts as none (`monthly_rate_override or ...`).
NoRow == [grade |-> NoGrade, over |-> 0]
Pay == -MostPay .. MostPay

SalaryTypeOK ==
  /\ rows \in [PayDays -> [grade : Grades \cup {NoGrade}, over : Pay]]
  /\ rate \in [Grades -> Pay]
  /\ standing \in [Grades -> {"none", "active", "retired"}] /\ inTurn \in BOOLEAN
  /\ ledger \in Seq([on : PayDays, delta : Int])

SalaryInit ==
  /\ rows = [d \in PayDays |-> NoRow]
  /\ rate = [g \in Grades |-> 0]
  /\ standing = [g \in Grades |-> "none"] /\ ledger = <<>> /\ inTurn = TRUE /\ entries = 0

Entry == entries < MostEntries /\ entries' = entries + 1

-----------------------------------------------------------------------------
(* get_employee_current_salary: the last row by the day. Its override      *)
(* counts before the grade's rate.                                         *)

RowDays == {d \in PayDays : rows[d] # NoRow}
AsOf(d) == {e \in RowDays : e <= d}
CurrentRow(d) == IF AsOf(d) = {} THEN NoRow ELSE rows[Max(AsOf(d))]

RateOf(row) == IF row = NoRow THEN 0 ELSE IF row.over # 0 THEN row.over ELSE rate[row.grade]
Basic(d) == RateOf(CurrentRow(d))

-----------------------------------------------------------------------------
(* Grades.                                                                 *)

CreateGrade(g, amount, as) ==
  /\ Entry
  /\ standing[g] = "none"
  /\ rate' = [rate EXCEPT ![g] = amount]
  /\ standing' = [standing EXCEPT ![g] = as]
  /\ UNCHANGED <<rows, ledger, inTurn>>

\* A new rate holds for every salary of the grade, those of the past included.
UpdateGrade(g, amount, as) ==
  /\ Entry
  /\ standing[g] # "none"
  /\ rate' = [rate EXCEPT ![g] = amount]
  /\ standing' = [standing EXCEPT ![g] = as]
  /\ inTurn' = (inTurn /\ \A d \in PayDays : rows[d].grade # g)
  /\ UNCHANGED <<rows, ledger>>

\* A grade that was ever used is retired, another one goes.
DeleteGrade(g) ==
  /\ Entry
  /\ standing[g] # "none"
  /\ standing' = [standing EXCEPT ![g] = IF \E d \in PayDays : rows[d].grade = g THEN "retired" ELSE "none"]
  /\ rate' = [rate EXCEPT ![g] = IF standing'[g] = "none" THEN 0 ELSE @]
  /\ UNCHANGED <<rows, ledger, inTurn>>

-----------------------------------------------------------------------------
(* Salaries.                                                               *)

\* assign_employee_salary: on a day that has a row it corrects that row. A
\* retired grade can be assigned.
Assign(d, g, over) ==
  /\ Entry
  /\ standing[g] # "none"
  /\ rows' = [rows EXCEPT ![d] = [grade |-> g, over |-> over]]
  /\ inTurn' = (RowDays = {})
  /\ UNCHANGED <<rate, standing, ledger>>

\* The new basic of a raise, and the row that is to pay it.
NewBasic(mode, d, amount, g) ==
  CASE mode = "grade" -> rate[g]
    [] mode = "fixed" -> Basic(d) + amount
    [] mode = "percent" -> Basic(d) * (1 + amount)

Raised(mode, d, amount, g) ==
  IF mode = "grade" THEN [grade |-> g, over |-> 0]
  ELSE [grade |-> CurrentRow(d).grade, over |-> NewBasic(mode, d, amount, g)]

\* A slip: the difference is told against the day before.
DifferenceFromBefore(basic, d) ==
  LET earlier == {e \in RowDays : e < d}
  IN IF CurrentRow(d) = NoRow THEN 0
     ELSE basic - (IF earlier = {} THEN Basic(d) ELSE Basic(Max(earlier)))

\* The ledger's line: against the salary that day, and nothing when there was
\* none.
Difference(basic, d) == IF CurrentRow(d) = NoRow THEN 0 ELSE basic - Basic(d)

\* give_raise: relative raises skip an employee without a salary. A raise to
\* nothing writes an override of zero, which the grade's rate takes the place of.
GiveRaise(mode, d, amount, g) ==
  LET row == Raised(mode, d, amount, g)
      basic == NewBasic(mode, d, amount, g)
  IN /\ Entry
     /\ mode # "grade" => CurrentRow(d) # NoRow
     /\ mode = "grade" => standing[g] # "none"
     /\ basic \in Pay
     /\ rows' = [rows EXCEPT ![d] = row]
     /\ ledger' = Append(ledger, [on |-> d, delta |-> Difference(basic, d)])
     /\ inTurn' = (inTurn /\ RowDays # {} /\ (\A e \in RowDays : e <= d) /\ RateOf(row) = basic)
     /\ UNCHANGED <<rate, standing>>

SalaryNext ==
  \/ \E g \in Grades :
       \/ \E amount \in PayAmounts, as \in {"active", "retired"} :
            CreateGrade(g, amount, as) \/ UpdateGrade(g, amount, as)
       \/ DeleteGrade(g)
       \/ \E d \in PayDays :
            \/ \E over \in PayAmounts \cup {0} : Assign(d, g, over)
            \/ GiveRaise("grade", d, 0, g)
  \/ \E d \in PayDays, mode \in {"fixed", "percent"}, amount \in PayAmounts :
       GiveRaise(mode, d, amount, NoGrade)

SalarySpec == SalaryInit /\ [][SalaryNext]_salaryVars

-----------------------------------------------------------------------------
\* The salary on the day of the first row, as it was assigned.
Started == RateOf(rows[Min(RowDays)])
LedgerUpTo(d) ==
  SumFunctionOnSet([n \in DOMAIN ledger |-> ledger[n].delta], {n \in DOMAIN ledger : ledger[n].on <= d})
Opening == Started - LedgerUpTo(Min(RowDays))

(* A change of salary can be reconstructed from the ledger: on every day   *)
(* the employee earns what was assigned and all the differences up to      *)
(* then, however often a day's raise is entered again, as long as raises   *)
(* are entered in the order of their days and none is to a salary of       *)
(* nothing while the grade has a rate.                                     *)
LedgerTellsTheSalary ==
  inTurn /\ RowDays # {} =>
    \A d \in PayDays : AsOf(d) # {} => Basic(d) = Opening + LedgerUpTo(d)

(* A salary once assigned keeps its grade: no grade that any row names, a  *)
(* past one or one that is yet to come, is ever deleted.                   *)
SalariesStand == \A d \in RowDays : rows[d].grade \in Grades /\ standing[rows[d].grade] # "none"

(* "the raise applies automatically to any run whose end date is on/after *)
(* effective_date": whoever gets a raise from a day on earns that much     *)
(* more on every later day. No run checks it: a raise that is dated before *)
(* a later row of the salary does not reach that row.                      *)
RaisesApplyFromTheirDay ==
  [][\A d, e \in PayDays, amount \in PayAmounts :
       GiveRaise("fixed", d, amount, NoGrade) /\ e >= d => Basic(e)' = Basic(e) + amount]_salaryVars

(* On every day an employee earns a salary that the ledger explains.       *)
SalariesAreExplained ==
    SalaryTypeOK /\ LedgerTellsTheSalary /\ SalariesStand
=============================================================================
