----------------------------- MODULE MCPayroll -----------------------------
(***************************************************************************)
(* One employee with one day of overtime, and two periods that overlap, as *)
(* a monthly and a semi-monthly run do; bonuses are due in the first and   *)
(* allowances in the second.                                               *)
(***************************************************************************)
EXTENDS Payroll

MCEmployeeOf == [x \in Days \cup Bonuses \cup Occurrences |-> CHOOSE e \in Employees : TRUE]
MCCovers == [p \in Periods |-> Days]
MCDue == [p \in Periods |-> IF p = "p1" THEN Bonuses ELSE Occurrences]
MCHorizon == [p \in Periods |-> IF p = "p1" THEN {} ELSE Occurrences]
=============================================================================
