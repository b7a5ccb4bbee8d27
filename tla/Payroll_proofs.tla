--------------------------- MODULE Payroll_proofs ---------------------------
(***************************************************************************)
(* What the payroll runs, the salaries and the time clock promise, for any *)
(* number of periods, days, people, grades and punches.                    *)
(*                                                                         *)
(* Payroll runs. Two facts the properties do not state carry the argument. *)
(* A run that is being computed has one task, and the task knows of        *)
(* occurrences that nobody else makes in its name, so its commit neither   *)
(* touches a run that was signed off nor revives a line that was paid      *)
(* (TasksAreSole). And whatever figures name is still there: a log by its  *)
(* copy, which only goes up, a line by its status (FiguresAreReal).        *)
(*                                                                         *)
(* Salaries. Every row stands on a grade that is there (SalariesStand), so *)
(* there is always a rate to tell a difference against; and a raise that   *)
(* comes after all the rows changes the last day's worth and the sum of    *)
(* the lines by the same amount (LedgerGrows).                             *)
(*                                                                         *)
(* The time clock. Stretches that do not overlap, of which one is open at  *)
(* most (LaidOut), and times on a record that make sense (ClockInv), are   *)
(* what each step needs to keep the record of a day what its punches say.  *)
(*                                                                         *)
(* Payslips. A minute of a night belongs to one night (OneNight), so the   *)
(* nights cut the night minutes of a stretch into parts that add up; an    *)
(* accepted table runs upwards (TablesRunUpwards), so the last band that   *)
(* begins at or below a sum is the only one that holds it.                 *)
(*                                                                         *)
(* Attendance policies. After some rules a slot has what the first of them *)
(* asked for (RulesFill), by induction over the rules and over the actions *)
(* of each; and every row has an id of its own (RowsAreOwn), by which      *)
(* every credit tells the one row that it is of (CreditsAreRows).          *)
(***************************************************************************)
EXTENDS Payroll, Salaries, TimeClock, PayFigures, Policies, Lists

TasksAreSole ==
  \A t \in tasks :
    /\ period[t.p].status = "computing"
    /\ \A u \in tasks : t.p = u.p => t = u
    /\ \A r \in Rows : r.by = t.p /\ r.what \in t.missing => line[r] = "none"

(* A log that figures name is of a day the run covers and an employee it   *)
(* pays; unless it was derived anew, it was approved and is not undecided. *)
RealLog(p, d, n) ==
  /\ d \in Covers[p]
  /\ EmployeeOf[d] \in items[p].employees
  /\ n <= log[d].copy
  /\ n = log[d].copy => log[d].status \in {"approved", "converted"}

FiguresAreReal ==
  \A p \in Periods :
    /\ \A d \in Days, n \in Copies : <<d, n>> \in items[p].logs => RealLog(p, d, n)
    /\ \A r \in Rows : r \in items[p].rows => line[r] # "none"

Inv == TypeOK /\ TasksAreSole /\ FiguresAreReal /\ NobodySignsOffTheirOwnRun /\ MarksMatchTheRuns

-----------------------------------------------------------------------------
(* The bounds are numbers, and the rows of the ledger what they are.       *)
LEMMA CopiesAreNumbers == Copies \subseteq Nat /\ \A n \in Copies : n < MaxCopies => n + 1 \in Copies
BY PayrollAssumption DEF Copies

(* What moving a run on does to the rows of the periods.                   *)
LEMMA MoveFacts ==
  ASSUME NEW op \in {"compute", "approve", "finalize"}, NEW u \in Makers, NEW p \in Periods,
         period \in [Periods -> PeriodRow], Move(op, u, p)
  PROVE  /\ period' \in [Periods -> PeriodRow]
         /\ \A q \in Periods \ {p} : period'[q] = period[q]
         /\ op = "compute" => /\ ~SignedOff(period[p])
                              /\ period[p].status # "computing"
                              /\ period'[p].status = "computing"
                              /\ period'[p].maker = u
         /\ op = "approve" => /\ period[p].status = "computed"
                              /\ period[p].maker # u
                              /\ period'[p].status = "approved"
                              /\ period'[p].maker = period[p].maker
                              /\ period'[p].checker = u
         /\ op = "finalize" => /\ period[p].status = "approved"
                               /\ period[p].maker # u
                               /\ period'[p].status = "finalized"
                               /\ period'[p].maker = period[p].maker
                               /\ period'[p].checker = period[p].checker
                               /\ period'[p].closer = u
<1>1. period[p] \in PeriodRow
  OBVIOUS
<1>2. After(op, u, period[p]) \in PeriodRow
  BY <1>1 DEF After, PeriodRow, Statuses
<1>3. /\ period' \in [Periods -> PeriodRow]
      /\ period'[p] = After(op, u, period[p])
      /\ \A q \in Periods \ {p} : period'[q] = period[q]
  BY <1>2 DEF Move
<1>4. CASE op = "compute"
  BY <1>1, <1>3, <1>4 DEF Move, Allowed, After, PeriodRow, SignedOff
<1>5. CASE op = "approve"
  BY <1>1, <1>3, <1>5 DEF Move, Allowed, After, PeriodRow, SignedOff
<1>6. CASE op = "finalize"
  BY <1>1, <1>3, <1>6 DEF Move, Allowed, After, PeriodRow, SignedOff
<1> QED BY <1>4, <1>5, <1>6

(* The state the model starts in.                                          *)
LEMMA InitInv == Init => Inv
<1> SUFFICES ASSUME Init PROVE Inv
  OBVIOUS
<1> USE PayrollAssumption
<1>1. TypeOK
  BY DEF Init, TypeOK, PeriodRow, Statuses, Figures, NoFigures, Log, Copies, Rows
<1>2. TasksAreSole
  BY DEF Init, TasksAreSole
<1>3. FiguresAreReal
  BY DEF Init, FiguresAreReal, NoFigures
<1>4. NobodySignsOffTheirOwnRun
  BY DEF Init, NobodySignsOffTheirOwnRun, SignedOff
<1>5. MarksMatchTheRuns
  BY DEF Init, MarksMatchTheRuns
<1> QED BY <1>1, <1>2, <1>3, <1>4, <1>5 DEF Inv

-----------------------------------------------------------------------------
(* One lemma per action.                                                   *)

LEMMA StartComputeInv ==
  ASSUME Inv, NEW u \in Makers, NEW p \in Periods, StartCompute(u, p)
  PROVE  Inv'
<1> DEFINE new == [p |-> p, by |-> u, missing |-> {}, phase |-> "due"]
<1>1. /\ period' \in [Periods -> PeriodRow]
      /\ \A q \in Periods \ {p} : period'[q] = period[q]
      /\ ~SignedOff(period[p]) /\ period[p].status # "computing"
      /\ period'[p].status = "computing"
  BY MoveFacts DEF Inv, TypeOK, StartCompute
<1>2. tasks' = tasks \cup {new} /\ UNCHANGED <<items, log, line, payable, crashes>>
  BY DEF StartCompute
<1>3. new \in Task
  BY DEF Task
<1>4. TypeOK'
  BY <1>1, <1>2, <1>3 DEF Inv, TypeOK
<1>5. TasksAreSole'
  <2>1. \A t \in tasks : t.p # p /\ t.p \in Periods
    BY <1>1 DEF Inv, TypeOK, TasksAreSole, Task
  <2>2. \A t \in tasks : period'[t.p].status = "computing"
    BY <2>1, <1>1 DEF Inv, TasksAreSole
  <2>3. \A t \in tasks' : t \in tasks \/ (t = new /\ t.p = p /\ t.missing = {})
    BY <1>2
  <2>4. \A t \in tasks' : period'[t.p].status = "computing"
    BY <2>2, <2>3, <1>1
  <2>5. \A t, w \in tasks' : t.p = w.p => t = w
    BY <2>1, <2>3 DEF Inv, TasksAreSole
  <2>6. \A t \in tasks', r \in Rows : r.by = t.p /\ r.what \in t.missing => line'[r] = "none"
    BY <2>3, <1>2 DEF Inv, TasksAreSole
  <2> HIDE DEF new
  <2> QED BY <2>4, <2>5, <2>6 DEF TasksAreSole
<1>6. FiguresAreReal'
  BY <1>2 DEF Inv, FiguresAreReal, RealLog
<1>7. NobodySignsOffTheirOwnRun'
  BY <1>1 DEF Inv, NobodySignsOffTheirOwnRun, SignedOff
<1>8. MarksMatchTheRuns'
  BY <1>1, <1>2, PayrollAssumption DEF Inv, TypeOK, MarksMatchTheRuns, SignedOff, Log
<1> QED BY <1>4, <1>5, <1>6, <1>7, <1>8 DEF Inv

LEMMA ApproveInv ==
  ASSUME Inv, NEW u \in Makers, NEW p \in Periods, Approve(u, p)
  PROVE  Inv'
<1>1. /\ period' \in [Periods -> PeriodRow]
      /\ \A q \in Periods \ {p} : period'[q] = period[q]
      /\ period[p].status = "computed" /\ period[p].maker # u
      /\ period'[p].status = "approved"
      /\ period'[p].maker = period[p].maker /\ period'[p].checker = u
  BY MoveFacts DEF Inv, TypeOK, Approve
<1>2. UNCHANGED <<items, log, line, payable, tasks, crashes>>
  BY DEF Approve
<1>3. TypeOK'
  BY <1>1, <1>2 DEF Inv, TypeOK
<1>4. TasksAreSole'
  BY <1>1, <1>2 DEF Inv, TypeOK, TasksAreSole, Task
<1>5. FiguresAreReal'
  BY <1>2 DEF Inv, FiguresAreReal, RealLog
<1>6. NobodySignsOffTheirOwnRun'
  BY <1>1, PayrollAssumption DEF Inv, NobodySignsOffTheirOwnRun, SignedOff
<1>7. MarksMatchTheRuns'
  BY <1>1, <1>2, PayrollAssumption DEF Inv, TypeOK, MarksMatchTheRuns, Log
<1> QED BY <1>3, <1>4, <1>5, <1>6, <1>7 DEF Inv

(* What finalizing marks is in the figures of the run and still there.     *)
LEMMA FinalizeFacts ==
  ASSUME Inv, NEW u \in Makers, NEW p \in Periods, Finalize(u, p)
  PROVE  /\ \A d \in Days :
              /\ log'[d].copy = log[d].copy /\ log'[d].status = log[d].status
              /\ IF <<d, log[d].copy>> \in items[p].logs THEN log'[d].paid = p
                 ELSE log'[d].paid = log[d].paid
         /\ \A r \in Rows :
              line'[r] = IF r \in items[p].rows /\ line[r] = "scheduled" THEN "paid" ELSE line[r]
         /\ log' \in [Days -> Log]
         /\ line' \in [Rows -> {"none", "scheduled", "paid", "void"}]
<1>1. \A d \in Days : log[d] \in Log /\ log[d].copy \in Copies
  BY DEF Inv, TypeOK, Log
<1>2. \A d \in Days : <<d, log[d].copy>> \in items[p].logs => log[d].status # "none"
  BY <1>1 DEF Inv, FiguresAreReal, RealLog
<1>3. /\ log' = [d \in Days |-> PaidLog(p, d)]
      /\ line' = [r \in Rows |-> PaidLine(p, r)]
  BY DEF Finalize
<1>4. \A d \in Days : PaidLog(p, d) \in Log
  BY <1>1 DEF PaidLog, Log
<1> QED BY <1>1, <1>2, <1>3, <1>4 DEF PaidLog, PaidLine, Log, Inv, TypeOK

LEMMA FinalizeInv ==
  ASSUME Inv, NEW u \in Makers, NEW p \in Periods, Finalize(u, p)
  PROVE  Inv'
<1>1. /\ period' \in [Periods -> PeriodRow]
      /\ \A q \in Periods \ {p} : period'[q] = period[q]
      /\ period[p].status = "approved" /\ period[p].maker # u
      /\ period'[p].status = "finalized"
      /\ period'[p].maker = period[p].maker
      /\ period'[p].checker = period[p].checker /\ period'[p].closer = u
  BY MoveFacts DEF Inv, TypeOK, Finalize
<1>2. UNCHANGED <<items, payable, tasks, crashes>>
  BY DEF Finalize
<1>3. /\ \A d \in Days :
           /\ log'[d].copy = log[d].copy /\ log'[d].status = log[d].status
           /\ IF <<d, log[d].copy>> \in items[p].logs THEN log'[d].paid = p
              ELSE log'[d].paid = log[d].paid
      /\ \A r \in Rows :
           line'[r] = IF r \in items[p].rows /\ line[r] = "scheduled" THEN "paid" ELSE line[r]
      /\ log' \in [Days -> Log]
      /\ line' \in [Rows -> {"none", "scheduled", "paid", "void"}]
  BY FinalizeFacts
<1>4. TypeOK'
  BY <1>1, <1>2, <1>3 DEF Inv, TypeOK
<1>5. TasksAreSole'
  BY <1>1, <1>2, <1>3 DEF Inv, TypeOK, TasksAreSole, Task
<1>6. FiguresAreReal'
  <2>1. \A d \in Days : d \in Days => log'[d].copy = log[d].copy /\ log'[d].status = log[d].status
    BY <1>3
  <2>2. \A r \in Rows : line[r] # "none" => line'[r] # "none"
    BY <1>3
  <2> QED BY <2>1, <2>2, <1>2 DEF Inv, FiguresAreReal, RealLog
<1>7. NobodySignsOffTheirOwnRun'
  BY <1>1, PayrollAssumption DEF Inv, NobodySignsOffTheirOwnRun, SignedOff
<1>8. MarksMatchTheRuns'
  <2>1. ASSUME NEW d \in Days, log'[d].paid # Nobody
        PROVE  /\ period'[log'[d].paid].status = "finalized"
               /\ <<d, log'[d].copy>> \in items'[log'[d].paid].logs
    <3>1. CASE <<d, log[d].copy>> \in items[p].logs
      <4>1. log'[d].paid = p /\ log'[d].copy = log[d].copy
        BY <3>1, <1>3
      <4> QED BY <3>1, <4>1, <1>1, <1>2
    <3>2. CASE <<d, log[d].copy>> \notin items[p].logs
      <4>1. log'[d].paid = log[d].paid /\ log[d].paid \in Periods \cup {Nobody}
        BY <3>2, <1>3 DEF Inv, TypeOK, Log
      <4>2. PICK q \in Periods : q = log[d].paid
        BY <4>1, <2>1
      <4>3. period[q].status = "finalized" /\ <<d, log[d].copy>> \in items[q].logs
        BY <4>1, <4>2, <2>1 DEF Inv, MarksMatchTheRuns
      <4>4. period'[q] = period[q]
        BY <4>3, <1>1
      <4>5. log'[d].copy = log[d].copy /\ items'[q] = items[q]
        BY <1>2, <1>3
      <4> QED BY <4>1, <4>2, <4>3, <4>4, <4>5
    <3> QED BY <3>1, <3>2
  <2>2. ASSUME NEW r \in Rows, line'[r] = "paid"
        PROVE  \E q \in Periods : period'[q].status = "finalized" /\ r \in items'[q].rows
    <3>1. CASE line[r] = "paid"
      <4>1. PICK q \in Periods : period[q].status = "finalized" /\ r \in items[q].rows
        BY <3>1 DEF Inv, MarksMatchTheRuns
      <4> QED BY <4>1, <1>1, <1>2
    <3>2. CASE line[r] # "paid"
      BY <3>2, <2>2, <1>1, <1>2, <1>3
    <3> QED BY <3>1, <3>2
  <2>3. ASSUME NEW q \in Periods, period'[q].status = "finalized"
        PROVE  /\ \A r \in items'[q].rows : line'[r] # "scheduled"
               /\ \A d \in Days : <<d, log'[d].copy>> \in items'[q].logs => log'[d].paid # Nobody
    <3>1. items[q].rows \subseteq Rows
      BY DEF Inv, TypeOK, Figures
    <3>2. CASE q = p
      BY <3>1, <3>2, <1>2, <1>3, PayrollAssumption
    <3>3. CASE q # p
      <4>1. period[q].status = "finalized" /\ items'[q] = items[q]
        BY <3>3, <2>3, <1>1, <1>2
      <4>2. /\ \A r \in items[q].rows : line[r] # "scheduled"
            /\ \A d \in Days : <<d, log[d].copy>> \in items[q].logs => log[d].paid # Nobody
        BY <4>1 DEF Inv, MarksMatchTheRuns
      <4>3. \A r \in items[q].rows : line'[r] # "scheduled"
        BY <4>2, <3>1, <1>3
      <4>4. \A d \in Days : <<d, log'[d].copy>> \in items[q].logs => log'[d].paid # Nobody
        BY <4>2, <1>3, PayrollAssumption
      <4> QED BY <4>1, <4>3, <4>4
    <3> QED BY <3>2, <3>3
  <2> QED BY <2>1, <2>2, <2>3 DEF MarksMatchTheRuns
<1> QED BY <1>4, <1>5, <1>6, <1>7, <1>8 DEF Inv

LEMMA TaskBeginsInv ==
  ASSUME Inv, NEW t \in tasks, TaskBegins(t)
  PROVE  Inv'
<1> DEFINE begun == [t EXCEPT !.phase = "running", !.missing = {o \in Horizon[t.p] : ~Made(o)}]
<1>1. t \in Task
  BY DEF Inv, TypeOK
<1>2. begun \in Task /\ begun.p = t.p /\ begun.missing = {o \in Horizon[t.p] : ~Made(o)}
  BY <1>1, PayrollAssumption DEF Task
<1>3. tasks' = (tasks \ {t}) \cup {begun} /\ UNCHANGED <<period, items, log, line, payable, crashes>>
  BY DEF TaskBegins
<1>4. \A r \in Rows : r.what \in begun.missing => line[r] = "none"
  BY <1>2 DEF Made
<1> HIDE DEF begun
<1>5. TypeOK'
  BY <1>2, <1>3 DEF Inv, TypeOK
<1>6. TasksAreSole'
  <2>1. \A w \in tasks' : period'[w.p].status = "computing"
    BY <1>2, <1>3 DEF Inv, TasksAreSole
  <2>2. \A w \in tasks \ {t} : w.p # t.p
    BY DEF Inv, TasksAreSole
  <2>3. \A w, x \in tasks' : w.p = x.p => w = x
    BY <2>2, <1>2, <1>3 DEF Inv, TasksAreSole
  <2>4. \A w \in tasks', r \in Rows : r.by = w.p /\ r.what \in w.missing => line'[r] = "none"
    BY <1>3, <1>4 DEF Inv, TasksAreSole
  <2> QED BY <2>1, <2>3, <2>4 DEF TasksAreSole
<1> QED BY <1>3, <1>5, <1>6 DEF Inv, FiguresAreReal, RealLog, NobodySignsOffTheirOwnRun, MarksMatchTheRuns

(* A successful task writes only for its own run, and only lines that were *)
(* not there before.                                                       *)
LEMMA TaskSucceedsFacts ==
  ASSUME Inv, NEW t \in tasks, TaskSucceeds(t)
  PROVE  /\ t.p \in Periods
         /\ period[t.p].status = "computing"
         /\ period' \in [Periods -> PeriodRow]
         /\ period'[t.p].status = "computed"
         /\ \A q \in Periods \ {t.p} : period'[q] = period[q] /\ items'[q] = items[q]
         /\ items' \in [Periods -> Figures]
         /\ items'[t.p] = Computed(t.p, line')
         /\ \A r \in Rows : \/ line'[r] = line[r]
                            \/ line[r] = "none" /\ line'[r] = "scheduled" /\ r.by = t.p
         /\ line' \in [Rows -> {"none", "scheduled", "paid", "void"}]
         /\ tasks' = tasks \ {t} /\ UNCHANGED <<log, payable, crashes>>
<1>1. t \in Task /\ t.p \in Periods /\ t.by \in Makers
  BY DEF Inv, TypeOK, Task
<1>2. period[t.p] \in PeriodRow /\ period[t.p].status = "computing"
  BY <1>1 DEF Inv, TypeOK, TasksAreSole
<1>3. /\ period' = [period EXCEPT ![t.p].status = "computed", ![t.p].maker = t.by]
      /\ items' = [items EXCEPT ![t.p] = Computed(t.p, line')]
      /\ line' = Expanded(t.p, t.missing)
      /\ tasks' = tasks \ {t} /\ UNCHANGED <<log, payable, crashes>>
  BY DEF TaskSucceeds
<1>4. /\ period' \in [Periods -> PeriodRow]
      /\ period'[t.p].status = "computed"
      /\ \A q \in Periods \ {t.p} : period'[q] = period[q]
  BY <1>1, <1>2, <1>3 DEF Inv, TypeOK, PeriodRow, Statuses
<1>5. \A r \in Rows : \/ line'[r] = line[r]
                      \/ line[r] = "none" /\ line'[r] = "scheduled" /\ r.by = t.p
  BY <1>3 DEF Expanded, Inv, TasksAreSole
<1>6. line' \in [Rows -> {"none", "scheduled", "paid", "void"}]
  BY <1>3 DEF Expanded, Inv, TypeOK
<1>7. Computed(t.p, line') \in Figures
  <2>1. Covers[t.p] \subseteq Days /\ payable \subseteq Employees
    BY <1>1, PayrollAssumption DEF Inv, TypeOK
  <2>2. \A d \in Days : log[d].copy \in Copies
    BY DEF Inv, TypeOK, Log
  <2> QED BY <2>1, <2>2 DEF Computed, Figures
<1>8. /\ items' \in [Periods -> Figures]
      /\ items'[t.p] = Computed(t.p, line')
      /\ \A q \in Periods \ {t.p} : items'[q] = items[q]
  BY <1>1, <1>3, <1>7 DEF Inv, TypeOK
<1> QED BY <1>1, <1>2, <1>3, <1>4, <1>5, <1>6, <1>8

LEMMA TaskSucceedsInv ==
  ASSUME Inv, NEW t \in tasks, TaskSucceeds(t)
  PROVE  Inv'
<1>1. /\ t.p \in Periods
      /\ period[t.p].status = "computing"
      /\ period' \in [Periods -> PeriodRow]
      /\ period'[t.p].status = "computed"
      /\ \A q \in Periods \ {t.p} : period'[q] = period[q] /\ items'[q] = items[q]
      /\ items' \in [Periods -> Figures]
      /\ items'[t.p] = Computed(t.p, line')
      /\ \A r \in Rows : \/ line'[r] = line[r]
                         \/ line[r] = "none" /\ line'[r] = "scheduled" /\ r.by = t.p
      /\ line' \in [Rows -> {"none", "scheduled", "paid", "void"}]
      /\ tasks' = tasks \ {t} /\ UNCHANGED <<log, payable, crashes>>
  BY TaskSucceedsFacts
<1>2. TypeOK'
  BY <1>1 DEF Inv, TypeOK
<1>3. TasksAreSole'
  <2>1. \A w \in tasks' : w \in tasks /\ w.p # t.p /\ w.p \in Periods
    BY <1>1 DEF Inv, TypeOK, TasksAreSole, Task
  <2>2. \A w \in tasks' : period'[w.p].status = "computing"
    BY <2>1, <1>1 DEF Inv, TasksAreSole
  <2>3. \A w \in tasks', r \in Rows : r.by = w.p /\ r.what \in w.missing => line'[r] = "none"
    BY <2>1, <1>1 DEF Inv, TasksAreSole
  <2> QED BY <2>1, <2>2, <2>3 DEF Inv, TasksAreSole
<1>4. FiguresAreReal'
  <2>1. ASSUME NEW d \in Days, NEW n \in Copies, <<d, n>> \in items'[t.p].logs
        PROVE  RealLog(t.p, d, n)'
    <3>1. log[d].copy \in Nat
      BY CopiesAreNumbers DEF Inv, TypeOK, Log
    <3>2. d \in Covers[t.p] /\ EmployeeOf[d] \in payable /\ log[d].status = "approved"
          /\ n = log[d].copy
      BY <2>1, <1>1 DEF Computed
    <3>3. EmployeeOf[d] \in items'[t.p].employees
      BY <3>2, <1>1 DEF Computed
    <3> QED BY <3>1, <3>2, <3>3, <1>1 DEF RealLog
  <2>2. \A r \in Rows : r \in items'[t.p].rows => line'[r] # "none"
    BY <1>1 DEF Computed
  <2>3. ASSUME NEW q \in Periods, q # t.p
        PROVE  /\ \A d \in Days, n \in Copies : <<d, n>> \in items'[q].logs => RealLog(q, d, n)'
               /\ \A r \in Rows : r \in items'[q].rows => line'[r] # "none"
    <3>1. items'[q] = items[q]
      BY <2>3, <1>1
    <3>2. \A d \in Days, n \in Copies : RealLog(q, d, n) => RealLog(q, d, n)'
      BY <3>1, <1>1 DEF RealLog
    <3>3. \A r \in Rows : line[r] # "none" => line'[r] # "none"
      BY <1>1
    <3> QED BY <3>1, <3>2, <3>3 DEF Inv, FiguresAreReal
  <2> QED BY <2>1, <2>2, <2>3 DEF FiguresAreReal
<1>5. NobodySignsOffTheirOwnRun'
  BY <1>1 DEF Inv, NobodySignsOffTheirOwnRun, SignedOff
<1>6. MarksMatchTheRuns'
  <2>1. ASSUME NEW q \in Periods, period'[q].status = "finalized"
        PROVE  period[q].status = "finalized" /\ items'[q] = items[q]
    BY <2>1, <1>1
  <2>2. ASSUME NEW q \in Periods, period[q].status = "finalized"
        PROVE  period'[q].status = "finalized" /\ items'[q] = items[q]
    BY <2>2, <1>1
  <2>3. ASSUME NEW d \in Days, log[d].paid # Nobody
        PROVE  /\ period'[log[d].paid].status = "finalized"
               /\ <<d, log[d].copy>> \in items'[log[d].paid].logs
    <3>1. log[d].paid \in Periods
      BY <2>3 DEF Inv, TypeOK, Log
    <3> QED BY <2>2, <2>3, <3>1 DEF Inv, MarksMatchTheRuns
  <2>4. ASSUME NEW r \in Rows, line'[r] = "paid"
        PROVE  \E q \in Periods : period'[q].status = "finalized" /\ r \in items'[q].rows
    <3>1. line[r] = "paid"
      BY <2>4, <1>1
    <3> QED BY <3>1, <2>2 DEF Inv, MarksMatchTheRuns
  <2>5. ASSUME NEW q \in Periods, period'[q].status = "finalized"
        PROVE  /\ \A r \in items'[q].rows : line'[r] # "scheduled"
               /\ \A d \in Days : <<d, log[d].copy>> \in items'[q].logs => log[d].paid # Nobody
    <3>1. period[q].status = "finalized" /\ items'[q] = items[q] /\ items[q].rows \subseteq Rows
      BY <2>1, <2>5 DEF Inv, TypeOK, Figures
    <3>2. \A r \in items[q].rows : r \in Rows /\ line[r] # "none" /\ line[r] # "scheduled"
      BY <3>1 DEF Inv, FiguresAreReal, MarksMatchTheRuns
    <3>3. \A r \in items[q].rows : line'[r] # "scheduled"
      BY <3>2, <1>1
    <3> QED BY <3>1, <3>3 DEF Inv, MarksMatchTheRuns
  <2> QED BY <2>3, <2>4, <2>5, <1>1 DEF MarksMatchTheRuns
<1> QED BY <1>2, <1>3, <1>4, <1>5, <1>6 DEF Inv

LEMMA TaskFailsInv ==
  ASSUME Inv, NEW t \in tasks, TaskFails(t)
  PROVE  Inv'
<1>1. t \in Task /\ t.p \in Periods /\ period[t.p] \in PeriodRow /\ period[t.p].status = "computing"
  BY DEF Inv, TypeOK, TasksAreSole, Task
<1>2. period' = [period EXCEPT ![t.p].status = "compute_failed"] /\ tasks' = tasks \ {t}
      /\ UNCHANGED <<items, log, line, payable, crashes>>
  BY DEF TaskFails
<1>3. /\ period' \in [Periods -> PeriodRow]
      /\ period'[t.p].status = "compute_failed"
      /\ \A q \in Periods \ {t.p} : period'[q] = period[q]
  BY <1>1, <1>2 DEF Inv, TypeOK, PeriodRow, Statuses
<1>4. TypeOK'
  BY <1>2, <1>3 DEF Inv, TypeOK
<1>5. TasksAreSole'
  <2>1. \A w \in tasks' : w \in tasks /\ w.p # t.p /\ w.p \in Periods
    BY <1>2 DEF Inv, TypeOK, TasksAreSole, Task
  <2> QED BY <2>1, <1>2, <1>3 DEF Inv, TasksAreSole
<1>6. FiguresAreReal'
  BY <1>2 DEF Inv, FiguresAreReal, RealLog
<1>7. NobodySignsOffTheirOwnRun'
  BY <1>3 DEF Inv, NobodySignsOffTheirOwnRun, SignedOff
<1>8. MarksMatchTheRuns'
  <2>1. \A q \in Periods : period'[q].status = "finalized" <=> period[q].status = "finalized"
    BY <1>1, <1>3
  <2>2. \A d \in Days : log[d].paid # Nobody => log[d].paid \in Periods
    BY DEF Inv, TypeOK, Log
  <2> QED BY <2>1, <2>2, <1>2 DEF Inv, MarksMatchTheRuns
<1> QED BY <1>4, <1>5, <1>6, <1>7, <1>8 DEF Inv

LEMMA CrashInv == Inv /\ Crash => Inv'
<1> SUFFICES ASSUME Inv, Crash PROVE Inv'
  OBVIOUS
<1>1. TypeOK'
  BY PayrollAssumption DEF Inv, TypeOK, Crash
<1> QED BY <1>1 DEF Inv, Crash, TasksAreSole, FiguresAreReal, RealLog, NobodySignsOffTheirOwnRun,
                    MarksMatchTheRuns

-----------------------------------------------------------------------------
(* Attendance touches one log: it makes a new copy of one that was not     *)
(* paid, or decides the copy there is.                                     *)
Renewed(d, new) ==
  new.copy = log[d].copy + 1 /\ log[d].paid = Nobody /\ new.paid = Nobody

DecidedAgain(d, new) ==
  /\ new.copy = log[d].copy /\ new.paid = log[d].paid
  /\ log[d].status \in {"approved", "converted"} => new.status \in {"approved", "converted"}

LEMMA LogStepInv ==
  ASSUME Inv, NEW d \in Days, NEW new \in Log, Renewed(d, new) \/ DecidedAgain(d, new),
         log' = [log EXCEPT ![d] = new],
         UNCHANGED <<period, items, line, payable, tasks, crashes>>
  PROVE  Inv'
<1>1. log[d] \in Log /\ log[d].copy \in Nat /\ Copies \subseteq Nat
  BY CopiesAreNumbers DEF Inv, TypeOK, Log
<1>2. /\ log' \in [Days -> Log] /\ log'[d] = new
      /\ \A e \in Days \ {d} : log'[e] = log[e]
  BY DEF Inv, TypeOK
<1>3. TypeOK'
  BY <1>2 DEF Inv, TypeOK
<1>4. TasksAreSole'
  BY DEF Inv, TasksAreSole
<1>5. ASSUME NEW p \in Periods, NEW e \in Days, NEW n \in Copies, <<e, n>> \in items[p].logs
      PROVE  RealLog(p, e, n)'
  <2>1. RealLog(p, e, n)
    BY <1>5 DEF Inv, FiguresAreReal
  <2>2. CASE e # d
    BY <2>1, <2>2, <1>2 DEF RealLog
  <2>3. CASE e = d /\ Renewed(d, new)
    <3>1. n <= log[d].copy /\ n \in Nat /\ log'[d].copy = log[d].copy + 1
      BY <2>1, <2>3, <1>1, <1>2 DEF RealLog, Renewed
    <3>2. n <= log'[d].copy /\ n # log'[d].copy
      BY <3>1, <1>1
    <3> QED BY <2>1, <2>3, <3>2 DEF RealLog
  <2>4. CASE e = d /\ DecidedAgain(d, new)
    BY <2>1, <2>4, <1>2 DEF RealLog, DecidedAgain
  <2> QED BY <2>2, <2>3, <2>4
<1>6. FiguresAreReal'
  BY <1>5 DEF Inv, FiguresAreReal
<1>7. NobodySignsOffTheirOwnRun'
  BY DEF Inv, NobodySignsOffTheirOwnRun
<1>8. MarksMatchTheRuns'
  <2>1. ASSUME NEW e \in Days, log'[e].paid # Nobody
        PROVE  log'[e].paid = log[e].paid /\ log'[e].copy = log[e].copy
    BY <2>1, <1>2 DEF Renewed, DecidedAgain
  <2>2. ASSUME NEW p \in Periods, NEW e \in Days, <<e, log'[e].copy>> \in items[p].logs
        PROVE  log'[e].paid = log[e].paid /\ log'[e].copy = log[e].copy
    <3>1. CASE e = d /\ Renewed(d, new)
      <4>1. log'[d].copy \in Copies
        BY <1>2 DEF Log
      <4>2. log'[d].copy <= log[d].copy
        BY <2>2, <3>1, <4>1 DEF Inv, FiguresAreReal, RealLog
      <4> QED BY <4>2, <3>1, <1>1, <1>2 DEF Renewed
    <3> QED BY <3>1, <1>2 DEF DecidedAgain
  <2> QED BY <2>1, <2>2 DEF Inv, MarksMatchTheRuns
<1> QED BY <1>3, <1>4, <1>6, <1>7, <1>8 DEF Inv

LEMMA AttendanceInv == Inv /\ Attendance => Inv'
<1> SUFFICES ASSUME Inv, NEW d \in Days,
                    \/ \E status \in {"none", "pending", "converted"} : Rederive(d, status)
                    \/ \E verdict \in {"approved", "rejected"} : DecideOvertime(d, verdict)
                    \/ ConvertToLeave(d)
             PROVE  Inv'
  BY DEF Attendance
<1>1. log[d] \in Log /\ log[d].copy \in Copies /\ log[d].copy \in Nat
  BY CopiesAreNumbers DEF Inv, TypeOK, Log
<1>2. ASSUME NEW status \in {"none", "pending", "converted"}, Rederive(d, status)
      PROVE  Inv'
  <2> DEFINE new == [copy |-> log[d].copy + 1, status |-> status, paid |-> Nobody]
  <2>1. new \in Log
    BY <1>1, <1>2, CopiesAreNumbers DEF Rederive, Log
  <2>2. Renewed(d, new)
    BY <1>2 DEF Rederive, Renewed
  <2>3. log' = [log EXCEPT ![d] = new] /\ UNCHANGED <<period, items, line, payable, tasks, crashes>>
    BY <1>2 DEF Rederive
  <2> HIDE DEF new
  <2> QED BY <2>1, <2>2, <2>3, LogStepInv
<1>3. ASSUME NEW status \in {"approved", "rejected", "converted"},
             log' = [log EXCEPT ![d].status = status],
             log[d].status = "pending" \/ status = "converted",
             UNCHANGED <<period, items, line, payable, tasks, crashes>>
      PROVE  Inv'
  <2> DEFINE new == [log[d] EXCEPT !.status = status]
  <2>1. new \in Log
    BY <1>1 DEF Log
  <2>2. DecidedAgain(d, new)
    BY <1>1, <1>3 DEF DecidedAgain, Log
  <2>3. log' = [log EXCEPT ![d] = new]
    BY <1>3
  <2> HIDE DEF new
  <2> QED BY <2>1, <2>2, <2>3, <1>3, LogStepInv
<1> QED BY <1>2, <1>3 DEF DecideOvertime, ConvertToLeave

-----------------------------------------------------------------------------
(* The ledger makes lines that no task will make, and voids lines that     *)
(* were not paid.                                                          *)
LEMMA LineStepInv ==
  ASSUME Inv,
         \A r \in Rows :
           \/ line'[r] = line[r]
           \/ line[r] = "none" /\ line'[r] = "scheduled" /\ (r.by = Nobody \/ r.what \in Bonuses)
           \/ line[r] = "scheduled" /\ line'[r] = "void",
         line' \in [Rows -> {"none", "scheduled", "paid", "void"}],
         UNCHANGED <<period, items, log, payable, tasks, crashes>>
  PROVE  Inv'
<1>1. TypeOK'
  BY DEF Inv, TypeOK
<1>2. TasksAreSole'
  <2>1. ASSUME NEW t \in tasks, NEW r \in Rows, r.by = t.p, r.what \in t.missing
        PROVE  line'[r] = "none"
    <3>1. t.p \in Periods /\ t.missing \subseteq Occurrences
      BY DEF Inv, TypeOK, Task
    <3>2. line[r] = "none" /\ r.by # Nobody /\ r.what \notin Bonuses
      BY <2>1, <3>1, PayrollAssumption DEF Inv, TasksAreSole
    <3> QED BY <3>2
  <2> QED BY <2>1 DEF Inv, TasksAreSole
<1>3. FiguresAreReal'
  BY DEF Inv, FiguresAreReal, RealLog
<1>4. NobodySignsOffTheirOwnRun'
  BY DEF Inv, NobodySignsOffTheirOwnRun
<1>5. MarksMatchTheRuns'
  <2>1. \A r \in Rows : line'[r] = "paid" => line[r] = "paid"
    OBVIOUS
  <2>2. ASSUME NEW p \in Periods, period[p].status = "finalized", NEW r \in items[p].rows
        PROVE  line'[r] # "scheduled"
    <3>1. r \in Rows
      BY DEF Inv, TypeOK, Figures
    <3>2. line[r] # "none" /\ line[r] # "scheduled"
      BY <2>2, <3>1 DEF Inv, FiguresAreReal, MarksMatchTheRuns
    <3> QED BY <3>1, <3>2
  <2> QED BY <2>1, <2>2 DEF Inv, MarksMatchTheRuns
<1> QED BY <1>1, <1>2, <1>3, <1>4, <1>5 DEF Inv

LEMMA LedgerInv == Inv /\ Ledger => Inv'
<1> SUFFICES ASSUME Inv, Ledger PROVE Inv'
  OBVIOUS
<1>1. line \in [Rows -> {"none", "scheduled", "paid", "void"}]
  BY DEF Inv, TypeOK
<1>2. ASSUME NEW r \in Rows, AddBonus(r) PROVE Inv'
  <2>1. \A q \in Rows : \/ line'[q] = line[q]
                        \/ line[q] = "none" /\ line'[q] = "scheduled" /\ q.what \in Bonuses
    BY <1>1, <1>2 DEF AddBonus
  <2>2. line' \in [Rows -> {"none", "scheduled", "paid", "void"}]
    BY <1>1, <1>2 DEF AddBonus
  <2> QED BY <2>1, <2>2, <1>2, LineStepInv DEF AddBonus
<1>3. ASSUME NEW r \in Rows, Void(r) PROVE Inv'
  <2>1. \A q \in Rows : \/ line'[q] = line[q]
                        \/ line[q] = "scheduled" /\ line'[q] = "void"
    BY <1>1, <1>3 DEF Void
  <2>2. line' \in [Rows -> {"none", "scheduled", "paid", "void"}]
    BY <1>1, <1>3 DEF Void
  <2> QED BY <2>1, <2>2, <1>3, LineStepInv DEF Void
<1>4. ASSUME NEW span \in SUBSET Occurrences, ExpandAhead(span) PROVE Inv'
  <2>1. \A q \in Rows : \/ line'[q] = line[q]
                        \/ line[q] = "none" /\ line'[q] = "scheduled" /\ q.by = Nobody
    BY <1>1, <1>4 DEF ExpandAhead, Made
  <2>2. line' \in [Rows -> {"none", "scheduled", "paid", "void"}]
    BY <1>1, <1>4 DEF ExpandAhead
  <2> QED BY <2>1, <2>2, <1>4, LineStepInv DEF ExpandAhead
<1> QED BY <1>2, <1>3, <1>4 DEF Ledger

LEMMA PeopleInv == Inv /\ People => Inv'
<1> SUFFICES ASSUME Inv, NEW e \in Employees, ChangePayable(e) PROVE Inv'
  BY DEF People
<1>1. TypeOK'
  BY DEF Inv, TypeOK, ChangePayable
<1> QED BY <1>1 DEF Inv, ChangePayable, TasksAreSole, FiguresAreReal, RealLog,
                    NobodySignsOffTheirOwnRun, MarksMatchTheRuns

-----------------------------------------------------------------------------
LEMMA NextInv == Inv /\ [Next]_vars => Inv'
<1> SUFFICES ASSUME Inv, [Next]_vars PROVE Inv'
  OBVIOUS
<1>1. CASE Handlers
  BY <1>1, StartComputeInv, ApproveInv, FinalizeInv DEF Handlers
<1>2. CASE Tasks
  BY <1>2, TaskBeginsInv, TaskSucceedsInv, TaskFailsInv DEF Tasks
<1>3. CASE Crash
  BY <1>3, CrashInv
<1>4. CASE Attendance
  BY <1>4, AttendanceInv
<1>5. CASE Ledger
  BY <1>5, LedgerInv
<1>6. CASE People
  BY <1>6, PeopleInv
<1>7. CASE UNCHANGED vars
  BY <1>7 DEF vars, Inv, TypeOK, TasksAreSole, FiguresAreReal, RealLog, NobodySignsOffTheirOwnRun,
              MarksMatchTheRuns
<1> QED BY <1>1, <1>2, <1>3, <1>4, <1>5, <1>6, <1>7 DEF Next

LEMMA AlwaysInv == Spec => []Inv
BY InitInv, NextInv, PTL DEF Spec

(* The state of the payroll is always of its type (Payroll.tla).           *)
THEOREM PayrollTypeTheorem == Spec => []TypeOK
BY AlwaysInv, PTL DEF Inv

(* Maker and checker, for any number of runs and people: a run that was    *)
(* signed off was neither approved nor finalized by whoever computed it.   *)
THEOREM MakerCheckerTheorem == Spec => []NobodySignsOffTheirOwnRun
BY AlwaysInv, PTL DEF Inv

(* The marks of what was paid and the figures of the finalized runs tell   *)
(* the same story, however runs overlap and computations fail.             *)
THEOREM MarksTheorem == Spec => []MarksMatchTheRuns
BY AlwaysInv, PTL DEF Inv

-----------------------------------------------------------------------------
(* What a step does to a run, a log and a line, whatever step it is.       *)

LEMMA RunSteps ==
  ASSUME Inv, [Next]_vars
  PROVE  SignedOffRunsAreFrozenStep
<1> SUFFICES ASSUME NEW p \in Periods, SignedOff(period[p])
             PROVE  /\ items'[p] = items[p]
                    /\ period'[p].maker = period[p].maker
                    /\ period'[p].checker = period[p].checker
                    /\ period'[p].status \in {period[p].status, "finalized"}
  BY DEF SignedOffRunsAreFrozenStep
<1>1. ASSUME NEW u \in Makers, NEW q \in Periods, StartCompute(u, q) PROVE period'[p] = period[p]
  BY <1>1, MoveFacts DEF Inv, TypeOK, StartCompute
<1>2. ASSUME NEW u \in Makers, NEW q \in Periods, Approve(u, q) PROVE period'[p] = period[p]
  BY <1>2, MoveFacts DEF Inv, TypeOK, Approve, SignedOff
<1>3. ASSUME NEW u \in Makers, NEW q \in Periods, Finalize(u, q)
      PROVE  /\ period'[p].maker = period[p].maker
             /\ period'[p].checker = period[p].checker
             /\ period'[p].status \in {period[p].status, "finalized"}
  BY <1>3, MoveFacts DEF Inv, TypeOK, Finalize
<1>4. CASE Handlers
  <2>1. items' = items
    BY <1>4 DEF Handlers, StartCompute, Approve, Finalize
  <2> QED BY <2>1, <1>1, <1>2, <1>3, <1>4 DEF Handlers
<1>5. ASSUME NEW t \in tasks, TaskSucceeds(t)
      PROVE  period'[p] = period[p] /\ items'[p] = items[p]
  BY <1>5, TaskSucceedsFacts DEF SignedOff
<1>6. ASSUME NEW t \in tasks, TaskFails(t)
      PROVE  period'[p] = period[p] /\ items'[p] = items[p]
  BY <1>6 DEF TaskFails, Inv, TypeOK, TasksAreSole, SignedOff
<1>7. CASE Tasks
  BY <1>5, <1>6, <1>7 DEF Tasks, TaskBegins
<1>8. CASE Crash \/ Attendance \/ Ledger \/ People \/ UNCHANGED vars
  BY <1>8 DEF vars, Crash, Attendance, Rederive, DecideOvertime, ConvertToLeave, Ledger, AddBonus,
              Void, ExpandAhead, People, ChangePayable
<1> QED BY <1>4, <1>7, <1>8 DEF Next

(* A log is copied anew when its day is not locked and it was not paid;    *)
(* otherwise it keeps its mark, and its verdict if there was one.          *)
LEMMA LogSteps ==
  ASSUME Inv, [Next]_vars, NEW d \in Days
  PROVE  \/ ~Locked(d) /\ log[d].paid = Nobody
         \/ /\ log'[d].copy = log[d].copy
            /\ \/ log'[d].status = log[d].status
               \/ log[d].status = "pending"
               \/ log[d].paid = Nobody
            /\ log[d].paid # Nobody => log'[d].paid # Nobody
<1>1. log[d] \in Log
  BY DEF Inv, TypeOK
<1>2. ASSUME NEW u \in Makers, NEW p \in Periods, Finalize(u, p)
      PROVE  /\ log'[d].copy = log[d].copy /\ log'[d].status = log[d].status
             /\ log[d].paid # Nobody => log'[d].paid # Nobody
  BY <1>2, FinalizeFacts, PayrollAssumption
<1>3. CASE Handlers
  BY <1>2, <1>3 DEF Handlers, StartCompute, Approve
<1>4. ASSUME NEW e \in Days, NEW status \in {"none", "pending", "converted"}, Rederive(e, status)
      PROVE  log'[d] = log[d] \/ (~Locked(d) /\ log[d].paid = Nobody)
  BY <1>4 DEF Rederive, Inv, TypeOK
<1>5. ASSUME NEW e \in Days, NEW verdict \in {"approved", "rejected"}, DecideOvertime(e, verdict)
      PROVE  \/ log'[d] = log[d]
             \/ /\ log'[d].copy = log[d].copy /\ log'[d].paid = log[d].paid
                /\ log[d].status = "pending"
  BY <1>5 DEF DecideOvertime, Inv, TypeOK, Log
<1>6. ASSUME NEW e \in Days, ConvertToLeave(e)
      PROVE  \/ log'[d] = log[d]
             \/ log'[d].copy = log[d].copy /\ log'[d].paid = log[d].paid /\ log[d].paid = Nobody
  BY <1>6 DEF ConvertToLeave, Inv, TypeOK, Log
<1>7. CASE Attendance
  BY <1>4, <1>5, <1>6, <1>7 DEF Attendance
<1>8. CASE Tasks \/ Crash \/ Ledger \/ People \/ UNCHANGED vars
  BY <1>8 DEF vars, Tasks, TaskBegins, TaskSucceeds, TaskFails, Crash, Ledger, AddBonus,
              Void, ExpandAhead, People, ChangePayable
<1> QED BY <1>3, <1>7, <1>8 DEF Next

(* A paid line stays paid.                                                 *)
LEMMA LineSteps ==
  ASSUME Inv, [Next]_vars, NEW r \in Rows, line[r] = "paid"
  PROVE  line'[r] = "paid"
<1>1. CASE Handlers
  BY <1>1 DEF Handlers, StartCompute, Approve, Finalize, PaidLine
<1>2. CASE Tasks
  <2>1. ASSUME NEW t \in tasks, TaskSucceeds(t) PROVE line'[r] = line[r]
    BY <2>1, TaskSucceedsFacts
  <2> QED BY <1>2, <2>1 DEF Tasks, TaskBegins, TaskFails
<1>3. CASE Ledger
  <2>1. line \in [Rows -> {"none", "scheduled", "paid", "void"}]
    BY DEF Inv, TypeOK
  <2>2. ASSUME NEW q \in Rows, AddBonus(q) \/ Void(q) PROVE line'[r] = "paid"
    BY <2>1, <2>2 DEF AddBonus, Void
  <2>3. ASSUME NEW span \in SUBSET Occurrences, ExpandAhead(span) PROVE line'[r] = "paid"
    BY <2>1, <2>3 DEF ExpandAhead, Made
  <2> QED BY <1>3, <2>2, <2>3 DEF Ledger
<1>4. CASE Crash \/ Attendance \/ People \/ UNCHANGED vars
  BY <1>4 DEF vars, Crash, Attendance, Rederive, DecideOvertime, ConvertToLeave, People, ChangePayable
<1> QED BY <1>1, <1>2, <1>3, <1>4 DEF Next

(* A run that was signed off keeps its figures, its maker and its checker, *)
(* whatever computations, failures and restarts follow.                    *)
THEOREM FrozenTheorem == Spec => SignedOffRunsAreFrozen
<1>1. Inv /\ [Next]_vars => [SignedOffRunsAreFrozenStep]_vars
  BY RunSteps
<1> QED BY <1>1, AlwaysInv, PTL DEF Spec, SignedOffRunsAreFrozen

(* A day that a signed-off run has paid for keeps its overtime.            *)
THEOREM LockedDaysTheorem == Spec => LockedDaysKeepTheirLog
<1>1. ASSUME Inv, [Next]_vars PROVE LockedDaysKeepTheirLogStep
  <2> SUFFICES ASSUME NEW p \in Periods, SignedOff(period[p]), NEW d \in Covers[p],
                      EmployeeOf[d] \in items[p].employees
               PROVE  log'[d].copy = log[d].copy
    BY DEF LockedDaysKeepTheirLogStep
  <2>1. d \in Days /\ Locked(d)
    BY PayrollAssumption DEF Locked
  <2> QED BY <1>1, <2>1, LogSteps
<1>2. Inv /\ [Next]_vars => [LockedDaysKeepTheirLogStep]_vars
  BY <1>1
<1> QED BY <1>2, AlwaysInv, PTL DEF Spec, LockedDaysKeepTheirLog

(* A run that was signed off is final, and so is what it has paid for.     *)
THEOREM SignedOffTheorem == Spec => SignedOffStands
<1> QED BY FrozenTheorem, LockedDaysTheorem DEF SignedOffStands

(* Overtime and lines that were paid are neither derived anew, decided     *)
(* again, turned into leave nor voided.                                    *)
THEOREM PaidTheorem == Spec => PaidIsFinal
<1>1. ASSUME Inv, [Next]_vars PROVE PaidIsFinalStep
  <2>1. ASSUME NEW d \in Days, log[d].paid # Nobody
        PROVE  /\ log'[d].copy = log[d].copy
               /\ log'[d].status = log[d].status
               /\ log'[d].paid # Nobody
    <3>1. log[d].paid \in Periods /\ log[d].copy \in Copies
      BY <1>1, <2>1 DEF Inv, TypeOK, Log
    <3>2. <<d, log[d].copy>> \in items[log[d].paid].logs
      BY <1>1, <2>1 DEF Inv, MarksMatchTheRuns
    <3>3. log[d].status # "pending"
      BY <1>1, <3>1, <3>2 DEF Inv, FiguresAreReal, RealLog
    <3> QED BY <1>1, <2>1, <3>3, LogSteps
  <2>2. \A r \in Rows : line[r] = "paid" => line'[r] = "paid"
    BY <1>1, LineSteps
  <2> QED BY <2>1, <2>2 DEF PaidIsFinalStep
<1>2. Inv /\ [Next]_vars => [PaidIsFinalStep]_vars
  BY <1>1
<1> QED BY <1>2, AlwaysInv, PTL DEF Spec, PaidIsFinal

-----------------------------------------------------------------------------
(* Min and Max of sets of numbers.                                         *)
LEMMA LeastIs ==
  ASSUME NEW T, T \subseteq Nat, T # {}
  PROVE  Min(T) \in T /\ \A x \in T : Min(T) <= x
BY LeastExists DEF Min

LEMMA GreatestIs ==
  ASSUME NEW T, T \subseteq Nat, NEW m \in T, \A x \in T : x <= m
  PROVE  Max(T) = m
<1>1. \E x \in T : \A y \in T : x >= y
  OBVIOUS
<1>2. Max(T) \in T /\ \A y \in T : Max(T) >= y
  BY <1>1 DEF Max
<1>3. Max(T) >= m /\ Max(T) <= m /\ Max(T) \in Nat /\ m \in Nat
  BY <1>2
<1> QED BY <1>3

LEMMA GreatestExists ==
  ASSUME NEW T, T \subseteq Nat, T # {}, NEW d \in Nat, \A x \in T : x <= d
  PROVE  Max(T) \in T /\ \A x \in T : x <= Max(T)
<1> DEFINE B == {n \in Nat : \A x \in T : x <= n}
<1>1. B \subseteq Nat /\ B # {}
  OBVIOUS
<1>2. PICK m \in B : \A n \in B : m <= n
  <2> HIDE DEF B
  <2> QED BY <1>1, LeastExists
<1>3. m \in T
  <2> SUFFICES ASSUME m \notin T PROVE FALSE
    OBVIOUS
  <2>1. \A x \in T : x \in Nat /\ x <= m /\ x # m
    BY <1>2
  <2>2. m - 1 \in Nat /\ \A x \in T : x <= m - 1
    <3>1. m \in Nat /\ \E x \in T : TRUE
      BY <1>2
    <3> QED BY <2>1, <3>1
  <2>3. m - 1 \in B
    BY <2>2
  <2> HIDE DEF B
  <2> QED BY <1>1, <1>2, <2>3
<1>4. Max(T) = m
  BY <1>2, <1>3, GreatestIs
<1> QED BY <1>2, <1>3, <1>4

Lines == [on : PayDays, delta : Int]
Deltas(s) == [n \in DOMAIN s |-> s[n].delta]
Until(s, d) == {n \in DOMAIN s : s[n].on <= d}

(* A line more adds its difference to the days from its own on.            *)
LEMMA LedgerGrows ==
  ASSUME NEW s \in Seq(Lines), NEW entry \in Lines, NEW d
  PROVE  /\ SumFunctionOnSet(Deltas(s), Until(s, d)) \in Int
         /\ s = <<>> => SumFunctionOnSet(Deltas(s), Until(s, d)) = 0
         /\ SumFunctionOnSet(Deltas(Append(s, entry)), Until(Append(s, entry), d)) =
              SumFunctionOnSet(Deltas(s), Until(s, d)) + (IF entry.on <= d THEN entry.delta ELSE 0)
<1> DEFINE S == Until(s, d)
           r == Append(s, entry)
           k == Len(s) + 1
<1>1. /\ Len(s) \in Nat /\ DOMAIN s = 1 .. Len(s) /\ DOMAIN r = 1 .. k /\ r[k] = entry
      /\ \A n \in 1 .. Len(s) : r[n] = s[n] /\ s[n] \in Lines
  BY AppendFacts
<1>2. entry.delta \in Int /\ \A n \in DOMAIN s : s[n].delta \in Int
  BY <1>1 DEF Lines
<1>3. IsFiniteSet(S) /\ S \subseteq DOMAIN s
  <2>1. IsFiniteSet(1 .. Len(s)) /\ S \in SUBSET (1 .. Len(s))
    BY <1>1, FS_Interval DEF Until
  <2> QED BY <1>1, <2>1, FS_Subset
<1>4. \A n \in S : Deltas(s)[n] \in Int
  BY <1>2, <1>3 DEF Deltas
<1>5. SumFunctionOnSet(Deltas(s), S) \in Int
  <2> HIDE DEF S
  <2> QED BY <1>3, <1>4, SumFirst
<1>6. s = <<>> => SumFunctionOnSet(Deltas(s), S) = 0
  <2>1. s = <<>> => S = {}
    BY <1>1 DEF Until
  <2> HIDE DEF S
  <2> QED BY <1>3, <1>4, <2>1, SumFirst
<1>7. /\ k \notin S /\ \A n \in S : Deltas(r)[n] = Deltas(s)[n]
      /\ Deltas(r)[k] = entry.delta
      /\ Until(r, d) = IF entry.on <= d THEN S \cup {k} ELSE S
  <2>1. \A n \in 1 .. k : n \in 1 .. Len(s) \/ n = k
    BY <1>1
  <2>2. k \in 1 .. k /\ k \notin 1 .. Len(s) /\ \A n \in 1 .. Len(s) : n \in 1 .. k
    BY <1>1
  <2> HIDE DEF k, r
  <2> QED BY <1>1, <2>1, <2>2 DEF Until, Deltas
<1> HIDE DEF S, r, k
<1>8. SumFunctionOnSet(Deltas(r), S) = SumFunctionOnSet(Deltas(s), S)
  BY <1>3, <1>4, <1>7, SumSame
<1>9. CASE entry.on <= d
  <2> DEFINE R == S \cup {k}
  <2>1. IsFiniteSet(R) /\ \A n \in R : Deltas(r)[n] \in Int
    BY <1>2, <1>3, <1>4, <1>7, FS_AddElement
  <2>2. k \in R /\ R \ {k} = S
    BY <1>7
  <2>4. Until(r, d) = R
    BY <1>7, <1>9
  <2> HIDE DEF R
  <2>3. SumFunctionOnSet(Deltas(r), R) = Deltas(r)[k] + SumFunctionOnSet(Deltas(r), R \ {k})
    BY <2>1, <2>2, SumAny
  <2>5. SumFunctionOnSet(Deltas(r), Until(r, d)) = entry.delta + SumFunctionOnSet(Deltas(s), S)
    BY <1>7, <1>8, <2>2, <2>3, <2>4
  <2>6. SumFunctionOnSet(Deltas(r), Until(r, d)) = SumFunctionOnSet(Deltas(s), S) + entry.delta
    BY <1>2, <1>5, <2>5
  <2> QED BY <1>5, <1>6, <1>9, <2>6 DEF S, r
<1>10. CASE ~(entry.on <= d)
  <2>1. Until(r, d) = S
    BY <1>7, <1>10
  <2>2. SumFunctionOnSet(Deltas(r), Until(r, d)) = SumFunctionOnSet(Deltas(s), S) + 0
    BY <1>5, <1>8, <2>1
  <2> QED BY <1>5, <1>6, <1>10, <2>2 DEF S, r
<1> QED BY <1>9, <1>10

SalaryInv ==
  SalaryTypeOK /\ SalariesStand /\ (RowDays = {} => ledger = <<>>) /\ LedgerTellsTheSalary

(* The row of the last day until e that has one is the current row of e.   *)
LEMMA LastRow ==
  ASSUME NEW R, R \subseteq Nat, NEW e \in Nat, NEW m \in R, m <= e,
         \A x \in R : x <= e => x <= m
  PROVE  {x \in R : x <= e} # {} /\ Max({x \in R : x <= e}) = m
<1> DEFINE T == {x \in R : x <= e}
<1>1. T \subseteq Nat /\ m \in T /\ \A x \in T : x <= m
  OBVIOUS
<1> HIDE DEF T
<1>2. T # {} /\ Max(T) = m
  BY <1>1, GreatestIs
<1> QED BY <1>2 DEF T

(* The row of a day is the last one up to it.                              *)
LEMMA RowFacts ==
  SalaryTypeOK /\ SalariesStand =>
    /\ RowDays \subseteq PayDays /\ PayDays \subseteq Nat
    /\ \A d \in RowDays : RateOf(rows[d]) \in Int
    /\ \A d \in PayDays : /\ AsOf(d) = {} => CurrentRow(d) = NoRow /\ \A x \in RowDays : ~(x <= d)
                          /\ AsOf(d) # {} => \E m \in RowDays : /\ m <= d /\ \A x \in RowDays : x <= d => x <= m
                                                                /\ CurrentRow(d) = rows[m]
                                                                /\ Basic(d) = RateOf(rows[m])
<1> SUFFICES ASSUME SalaryTypeOK, SalariesStand
             PROVE  /\ RowDays \subseteq PayDays /\ PayDays \subseteq Nat
                    /\ \A d \in RowDays : RateOf(rows[d]) \in Int
                    /\ \A d \in PayDays :
                         /\ AsOf(d) = {} => CurrentRow(d) = NoRow /\ \A x \in RowDays : ~(x <= d)
                         /\ AsOf(d) # {} => \E m \in RowDays : /\ m <= d /\ \A x \in RowDays : x <= d => x <= m
                                                               /\ CurrentRow(d) = rows[m]
                                                               /\ Basic(d) = RateOf(rows[m])
  OBVIOUS
<1>1. RowDays \subseteq PayDays /\ PayDays \subseteq Nat
  BY SalaryAssumption DEF RowDays
<1>2. ASSUME NEW d \in RowDays PROVE RateOf(rows[d]) \in Int
  <2>1. rows[d] \in [grade : Grades \cup {NoGrade}, over : Pay] /\ rows[d] # NoRow
    BY <1>1 DEF SalaryTypeOK, RowDays
  <2>2. rows[d].over \in Int /\ rate[rows[d].grade] \in Int
    BY <2>1, SalaryAssumption DEF SalaryTypeOK, SalariesStand, Pay
  <2> QED BY <2>1, <2>2 DEF RateOf
<1>3. ASSUME NEW d \in PayDays, AsOf(d) # {}
      PROVE  \E m \in RowDays : /\ m <= d /\ \A x \in RowDays : x <= d => x <= m
                                /\ CurrentRow(d) = rows[m]
                                /\ Basic(d) = RateOf(rows[m])
  <2>1. AsOf(d) \subseteq Nat /\ d \in Nat /\ \A x \in AsOf(d) : x <= d
    BY <1>1 DEF AsOf
  <2>2. Max(AsOf(d)) \in AsOf(d) /\ \A x \in AsOf(d) : x <= Max(AsOf(d))
    BY <1>3, <2>1, GreatestExists
  <2>3. CurrentRow(d) = rows[Max(AsOf(d))]
    BY <1>3 DEF CurrentRow
  <2> QED BY <2>2, <2>3 DEF AsOf, Basic
<1>4. \A d \in PayDays : AsOf(d) = {} => CurrentRow(d) = NoRow /\ \A x \in RowDays : ~(x <= d)
  BY DEF CurrentRow, AsOf
<1> QED BY <1>1, <1>2, <1>3, <1>4

(* A step that leaves the rows and the ledger alone, and the worth of      *)
(* every row, changes no salary.                                           *)
LEMMA WorthStands ==
  SalaryInv /\ UNCHANGED <<rows, ledger>> /\ (inTurn' => inTurn) /\ SalaryTypeOK'
    /\ SalariesStand' /\ (inTurn' => \A d \in RowDays : RateOf(rows[d])' = RateOf(rows[d]))
  => SalaryInv'
<1> SUFFICES ASSUME SalaryInv, UNCHANGED <<rows, ledger>>, inTurn' => inTurn, SalaryTypeOK', SalariesStand',
                    inTurn' => \A d \in RowDays : RateOf(rows[d])' = RateOf(rows[d])
             PROVE  SalaryInv'
  OBVIOUS
<1>1. RowDays' = RowDays /\ \A d : AsOf(d)' = AsOf(d) /\ LedgerUpTo(d)' = LedgerUpTo(d)
  BY DEF RowDays, AsOf, LedgerUpTo, NoRow
<1>2. ASSUME inTurn', RowDays # {}, NEW d \in PayDays, AsOf(d) # {}
      PROVE  Basic(d)' = Opening' + LedgerUpTo(d)'
  <2>1. /\ RowDays \subseteq Nat
        /\ \E m \in RowDays : CurrentRow(d) = rows[m] /\ Basic(d) = RateOf(rows[m])
    BY <1>2, RowFacts DEF SalaryInv
  <2>2. Min(RowDays) \in RowDays
    BY <1>2, <2>1, LeastIs
  <2>3. CurrentRow(d)' = CurrentRow(d)
    BY <1>1 DEF CurrentRow, NoRow
  <2>4. Basic(d)' = Basic(d)
    <3>1. PICK m \in RowDays : CurrentRow(d) = rows[m] /\ Basic(d) = RateOf(rows[m])
      BY <2>1
    <3>2. RateOf(rows[m])' = RateOf(rows[m])
      BY <1>2
    <3> QED BY <2>3, <3>1, <3>2 DEF Basic, RateOf, NoRow
  <2>5. Started' = Started
    <3>1. RateOf(rows[Min(RowDays)])' = RateOf(rows[Min(RowDays)])
      <4> DEFINE m == Min(RowDays)
      <4>1. m' = m
        BY <1>1
      <4>2. RateOf(rows[m])' = RateOf(rows[m])
        <5>1. \A x \in RowDays : RateOf(rows[x])' = RateOf(rows[x])
          BY <1>2
        <5> QED BY <2>2, <4>1, <5>1 DEF RateOf, NoRow
      <4> QED BY <4>2
    <3> QED BY <3>1 DEF Started
  <2>6. Opening' = Opening
    BY <1>1, <2>5 DEF Opening
  <2>7. Basic(d) = Opening + LedgerUpTo(d)
    BY <1>2 DEF SalaryInv, LedgerTellsTheSalary
  <2> QED BY <1>1, <2>4, <2>6, <2>7
<1> QED BY <1>1, <1>2 DEF SalaryInv, LedgerTellsTheSalary

LEMMA SalaryInitInv == SalaryInit => SalaryInv
<1> SUFFICES ASSUME SalaryInit PROVE SalaryInv
  OBVIOUS
<1>1. RowDays = {}
  BY DEF SalaryInit, RowDays
<1>2. rows \in [PayDays -> [grade : Grades \cup {NoGrade}, over : Pay]]
  BY SalaryAssumption DEF SalaryInit, NoRow, Pay
<1>3. rate \in [Grades -> Pay] /\ ledger \in Seq([on : PayDays, delta : Int])
  BY SalaryAssumption DEF SalaryInit, Pay
<1> QED BY <1>1, <1>2, <1>3 DEF SalaryInit, SalaryInv, SalaryTypeOK, SalariesStand, LedgerTellsTheSalary

(* Grades come and go without touching a salary that is in turn.           *)
LEMMA GradesKeepTheInv ==
  ASSUME SalaryInv, NEW g \in Grades, NEW amount \in Pay, NEW as \in {"active", "retired"},
         DeleteGrade(g) \/ CreateGrade(g, amount, as) \/ UpdateGrade(g, amount, as)
  PROVE  SalaryInv'
<1>0. SalaryTypeOK /\ 0 \in Pay
  BY SalaryAssumption DEF SalaryInv, Pay
<1>1. /\ UNCHANGED <<rows, ledger>>
      /\ inTurn' = inTurn \/ inTurn' = (inTurn /\ \A d \in PayDays : rows[d].grade # g)
  BY DEF UpdateGrade, CreateGrade, DeleteGrade
<1>11. (inTurn' => inTurn) /\ inTurn' \in BOOLEAN
  <2>1. inTurn \in BOOLEAN
    BY <1>0 DEF SalaryTypeOK
  <2>2. CASE inTurn' = inTurn
    BY <2>1, <2>2
  <2> DEFINE unused == \A d \in PayDays : rows[d].grade # g
  <2>3. CASE inTurn' = (inTurn /\ unused)
    <3> HIDE DEF unused
    <3>1. inTurn' => inTurn
      BY <2>3
    <3>2. inTurn' = TRUE \/ inTurn' = FALSE
      BY <2>3
    <3> QED BY <3>1, <3>2
  <2> QED BY <1>1, <2>2, <2>3
<1>2. rate' \in [Grades -> Pay] /\ \A h \in Grades \ {g} : rate'[h] = rate[h]
  BY <1>0 DEF CreateGrade, UpdateGrade, DeleteGrade, SalaryTypeOK
<1>3. /\ standing' \in [Grades -> {"none", "active", "retired"}]
      /\ \A h \in Grades \ {g} : standing'[h] = standing[h]
  BY <1>0 DEF CreateGrade, UpdateGrade, DeleteGrade, SalaryTypeOK
<1>4. SalaryTypeOK'
  BY <1>0, <1>1, <1>2, <1>3, <1>11 DEF SalaryTypeOK
<1>5. RowDays' = RowDays /\ \A d \in RowDays : d \in PayDays /\ rows'[d] = rows[d] /\ rows[d] # NoRow
  BY <1>1 DEF RowDays, NoRow
<1>6. \A d \in RowDays : rows[d].grade \in Grades /\ standing[rows[d].grade] # "none"
  BY DEF SalaryInv, SalariesStand
<1>7. ASSUME \E d \in RowDays : rows[d].grade = g
      PROVE  standing'[g] # "none" /\ (inTurn' => rate'[g] = rate[g])
  <2>1. standing[g] # "none" /\ \E d \in PayDays : rows[d].grade = g
    BY <1>5, <1>6, <1>7
  <2>2. CASE UpdateGrade(g, amount, as)
    BY <1>0, <2>1, <2>2 DEF UpdateGrade, SalaryTypeOK
  <2>3. CASE CreateGrade(g, amount, as)
    BY <2>1, <2>3 DEF CreateGrade
  <2>4. CASE DeleteGrade(g)
    <3>1. standing' = [standing EXCEPT ![g] = "retired"]
      BY <2>1, <2>4 DEF DeleteGrade
    <3>2. standing'[g] = "retired"
      BY <1>0, <3>1 DEF SalaryTypeOK
    <3>3. rate' = [rate EXCEPT ![g] = rate[g]]
      BY <2>4, <3>2 DEF DeleteGrade
    <3> QED BY <1>0, <3>2, <3>3 DEF SalaryTypeOK
  <2> QED BY <2>2, <2>3, <2>4
<1>8. ASSUME NEW d \in RowDays
      PROVE  standing'[rows[d].grade] # "none" /\ (inTurn' => rate'[rows[d].grade] = rate[rows[d].grade])
  BY <1>2, <1>3, <1>6, <1>7, Zenon
<1>9. SalariesStand'
  <2>1. \A d \in RowDays' : rows'[d].grade \in Grades /\ standing'[rows'[d].grade] # "none"
    BY <1>5, <1>6, <1>8, Zenon
  <2> QED BY <2>1 DEF SalariesStand
<1>10. inTurn' => \A d \in RowDays : RateOf(rows[d])' = RateOf(rows[d])
  <2>1. ASSUME inTurn', NEW d \in RowDays PROVE RateOf(rows[d])' = RateOf(rows[d])
    <3>1. rows'[d] = rows[d] /\ rate'[rows[d].grade] = rate[rows[d].grade]
      BY <1>5, <1>8, <2>1, Zenon
    <3> QED BY <3>1 DEF RateOf, NoRow
  <2> QED BY <2>1
<1> QED BY <1>1, <1>4, <1>9, <1>10, <1>11, WorthStands

(* An assignment opens the account, or takes it out of turn.               *)
LEMMA AssignKeepsTheInv ==
  ASSUME SalaryInv, NEW g \in Grades, NEW d \in PayDays, NEW over \in PayAmounts \cup {0}, Assign(d, g, over)
  PROVE  SalaryInv'
<1> DEFINE row == [grade |-> g, over |-> over]
<1>1. row \in [grade : Grades \cup {NoGrade}, over : Pay] /\ row.grade = g /\ row # NoRow
  <2>1. over \in Pay /\ NoRow.grade # g
    BY SalaryAssumption DEF NoRow, Pay
  <2> QED BY <2>1
<1>2. rows' = [rows EXCEPT ![d] = row] /\ UNCHANGED <<rate, standing, ledger>> /\ inTurn' = (RowDays = {})
  BY DEF Assign
<1>3. standing[g] # "none"
  BY DEF Assign
<1> HIDE DEF row
<1>4. SalaryTypeOK'
  BY <1>1, <1>2 DEF SalaryInv, SalaryTypeOK
<1>5. RowDays' = RowDays \cup {d} /\ rows'[d] = row /\ \A x \in RowDays \ {d} : rows'[x] = rows[x]
  BY <1>1, <1>2 DEF RowDays, NoRow, SalaryInv, SalaryTypeOK
<1>6. SalariesStand'
  BY <1>1, <1>2, <1>3, <1>5 DEF SalariesStand, SalaryInv
<1>7. ASSUME inTurn', NEW e \in PayDays, AsOf(e)' # {} PROVE Basic(e)' = Opening' + LedgerUpTo(e)'
  <2>1. RowDays' = {d} /\ ledger' = <<>>
    BY <1>2, <1>5, <1>7 DEF SalaryInv
  <2>2. d \in Nat /\ e \in Nat
    BY SalaryAssumption
  <2>3. d <= e /\ AsOf(e)' = {x \in RowDays' : x <= e}
    BY <1>7, <2>1 DEF AsOf
  <2>4. Max(AsOf(e)') = d /\ Min(RowDays') = d
    <3>1. \A R : R = {d} => R \subseteq Nat /\ Min(R) = d
      BY <2>2, LeastIs
    <3>2. \A R : R = {d} => Max({x \in R : x <= e}) = d
      BY <2>2, <2>3, LastRow
    <3> QED BY <2>1, <2>3, <3>1, <3>2
  <2>5. Basic(e)' = RateOf(rows[d])' /\ Started' = RateOf(rows[d])'
    <3>1. CurrentRow(e)' = rows'[d]
      BY <1>7, <2>4 DEF CurrentRow
    <3> QED BY <2>4, <3>1 DEF Basic, Started, RateOf
  <2>6. \A x : LedgerUpTo(x)' = 0
    <3>1. \A x : SumFunctionOnSet(Deltas(ledger'), Until(ledger', x)) = 0
      <4>1. <<>> \in Seq(Lines) /\ [on |-> d, delta |-> 0] \in Lines
        BY DEF Lines
      <4> QED BY <2>1, <4>1, LedgerGrows
    <3> QED BY <3>1 DEF LedgerUpTo, Deltas, Until
  <2>7. RateOf(rows[d])' \in Int
    <3>1. rows'[d].over \in Int /\ rate'[rows'[d].grade] \in Int
      BY <1>1, <1>2, <1>5, SalaryAssumption DEF SalaryInv, SalaryTypeOK, Pay
    <3> QED BY <3>1 DEF RateOf
  <2>8. Opening' = RateOf(rows[d])' - 0
    BY <2>5, <2>6 DEF Opening
  <2> QED BY <2>5, <2>6, <2>7, <2>8
<1> QED BY <1>4, <1>5, <1>6, <1>7 DEF SalaryInv, LedgerTellsTheSalary

(* What a raise writes: a row of a known grade; the salary it is to pay is *)
(* told against the one that was.                                          *)
LEMMA RaiseFacts ==
  ASSUME SalaryInv, NEW mode \in {"fixed", "percent", "grade"}, NEW d \in PayDays,
         NEW amount \in Int, NEW g, mode = "grade" => g \in Grades,
         GiveRaise(mode, d, amount, g)
  PROVE  LET row == Raised(mode, d, amount, g)
         IN /\ row.grade \in Grades /\ standing[row.grade] # "none"
            /\ row \in [grade : Grades \cup {NoGrade}, over : Pay] /\ row # NoRow
            /\ NewBasic(mode, d, amount, g) \in Int
<1> DEFINE row == Raised(mode, d, amount, g)
           basic == NewBasic(mode, d, amount, g)
<1>1. basic \in Pay /\ basic \in Int /\ 0 \in Pay /\ NoGrade \notin Grades
  BY SalaryAssumption DEF GiveRaise, Pay
<1> HIDE DEF basic
<1>2. CASE mode = "grade"
  <2>1. row = [grade |-> g, over |-> 0] /\ standing[g] # "none" /\ g \in Grades
    BY <1>2 DEF Raised, GiveRaise
  <2>2. row # NoRow
    BY <1>1, <2>1 DEF NoRow
  <2> QED BY <1>1, <2>1, <2>2 DEF basic
<1>3. CASE mode # "grade"
  <2>1. CurrentRow(d) # NoRow /\ row = [grade |-> CurrentRow(d).grade, over |-> basic]
    BY <1>3 DEF GiveRaise, Raised, basic
  <2>2. PICK m \in RowDays : CurrentRow(d) = rows[m]
    BY <2>1, RowFacts DEF SalaryInv
  <2>3. rows[m].grade \in Grades /\ standing[rows[m].grade] # "none"
    BY DEF SalaryInv, SalariesStand
  <2>4. row # NoRow
    BY <1>1, <2>1, <2>2, <2>3 DEF NoRow
  <2> HIDE DEF row
  <2>5. row.grade = rows[m].grade /\ row \in [grade : Grades \cup {NoGrade}, over : Pay]
    BY <1>1, <2>1, <2>2, <2>3
  <2> QED BY <1>1, <2>3, <2>4, <2>5 DEF row, basic
<1> QED BY <1>2, <1>3

(* A raise in turn moves the salary and the ledger by the same amount.     *)
LEMMA RaisesKeepTheInv ==
  ASSUME SalaryInv, NEW mode \in {"fixed", "percent", "grade"}, NEW d \in PayDays,
         NEW amount \in Int, NEW g, mode = "grade" => g \in Grades,
         GiveRaise(mode, d, amount, g)
  PROVE  SalaryInv'
<1> DEFINE row == Raised(mode, d, amount, g)
           basic == NewBasic(mode, d, amount, g)
           delta == Difference(basic, d)
           Up(x) == LedgerUpTo(x)
<1>1. /\ row.grade \in Grades /\ standing[row.grade] # "none"
      /\ row \in [grade : Grades \cup {NoGrade}, over : Pay] /\ row # NoRow
      /\ basic \in Int
  BY RaiseFacts
<1>2. /\ rows' = [rows EXCEPT ![d] = row] /\ UNCHANGED <<rate, standing>>
      /\ ledger' = Append(ledger, [on |-> d, delta |-> delta])
      /\ inTurn' = (inTurn /\ RowDays # {} /\ (\A e \in RowDays : e <= d) /\ RateOf(row) = basic)
  BY DEF GiveRaise
<1>3. /\ RowDays \subseteq PayDays /\ PayDays \subseteq Nat /\ d \in Nat
      /\ \A e \in PayDays : /\ AsOf(e) = {} => CurrentRow(e) = NoRow /\ \A x \in RowDays : ~(x <= e)
                            /\ AsOf(e) # {} => \E m \in RowDays : /\ m <= e /\ \A x \in RowDays : x <= e => x <= m
                                                                  /\ CurrentRow(e) = rows[m]
                                                                  /\ Basic(e) = RateOf(rows[m])
      /\ \A x \in RowDays : RateOf(rows[x]) \in Int /\ rows[x] # NoRow
  <2>1. SalaryTypeOK /\ SalariesStand
    BY DEF SalaryInv
  <2>2. \A x \in RowDays : rows[x] # NoRow
    BY DEF RowDays
  <2> QED BY <2>1, <2>2, RowFacts
<1>4. delta \in Int /\ (CurrentRow(d) # NoRow => delta = basic - Basic(d) /\ Basic(d) \in Int)
  <2>1. CASE CurrentRow(d) = NoRow
    BY <2>1 DEF Difference
  <2>2. CASE CurrentRow(d) # NoRow
    <3>1. AsOf(d) # {}
      BY <1>3, <2>2
    <3>2. Basic(d) \in Int
      BY <1>3, <3>1
    <3>3. delta = basic - Basic(d)
      BY <2>2 DEF Difference
    <3> HIDE DEF basic
    <3> QED BY <1>1, <3>2, <3>3
  <2> QED BY <2>1, <2>2
<1> HIDE DEF row, basic, delta
<1>5. RowDays' = RowDays \cup {d} /\ rows'[d] = row /\ \A x \in RowDays \ {d} : rows'[x] = rows[x]
  BY <1>1, <1>2, <1>3 DEF RowDays, NoRow, SalaryInv, SalaryTypeOK
<1>6. \A r : RateOf(r)' = RateOf(r)
  BY <1>2 DEF RateOf, NoRow
<1>14. RateOf(rows[d])' = RateOf(row) /\ \A x \in RowDays \ {d} : RateOf(rows[x])' = RateOf(rows[x])
  BY <1>2, <1>5 DEF RateOf, NoRow
<1>7. SalaryTypeOK'
  <2>1. [on |-> d, delta |-> delta] \in [on : PayDays, delta : Int]
    BY <1>4
  <2>2. ledger' \in Seq([on : PayDays, delta : Int])
    BY <1>2, <2>1, AppendFacts DEF SalaryInv, SalaryTypeOK
  <2>3. inTurn' \in BOOLEAN
    BY <1>2, Zenon
  <2> QED BY <1>1, <1>2, <2>2, <2>3 DEF SalaryInv, SalaryTypeOK
<1>8. SalariesStand'
  BY <1>1, <1>2, <1>5 DEF SalariesStand, SalaryInv
<1>9. \A x : Up(x) \in Int /\ Up(x)' = Up(x) + (IF d <= x THEN delta ELSE 0)
  <2> DEFINE entry == [on |-> d, delta |-> delta]
  <2>1. entry \in Lines /\ ledger \in Seq(Lines) /\ entry.on = d /\ entry.delta = delta
    BY <1>4 DEF Lines, SalaryInv, SalaryTypeOK
  <2> HIDE DEF entry
  <2>2. \A x : /\ SumFunctionOnSet(Deltas(ledger), Until(ledger, x)) \in Int
               /\ SumFunctionOnSet(Deltas(Append(ledger, entry)), Until(Append(ledger, entry), x)) =
                    SumFunctionOnSet(Deltas(ledger), Until(ledger, x)) + (IF entry.on <= x THEN entry.delta ELSE 0)
    BY <2>1, LedgerGrows
  <2>3. ledger' = Append(ledger, entry)
    BY <1>2 DEF entry
  <2> QED BY <2>1, <2>2, <2>3 DEF LedgerUpTo, Deltas, Until
<1>10. ASSUME inTurn' PROVE LedgerTellsTheSalary'
  <2>1. inTurn /\ RowDays # {} /\ (\A x \in RowDays : x <= d) /\ RateOf(row) = basic
    BY <1>2, <1>10
  <2>2. \A e \in PayDays : AsOf(e) # {} => Basic(e) = Opening + Up(e)
    BY <2>1 DEF SalaryInv, LedgerTellsTheSalary
  <2>3. AsOf(d) # {}
    BY <2>1 DEF AsOf
  <2>4. PICK top \in RowDays : top <= d /\ (\A x \in RowDays : x <= top) /\ CurrentRow(d) = rows[top]
                               /\ Basic(d) = RateOf(rows[top])
    BY <1>3, <2>1, <2>3
  <2>5. delta = RateOf(row) - Basic(d) /\ Basic(d) \in Int /\ RateOf(row) \in Int
    BY <1>1, <1>3, <1>4, <2>1, <2>4
  <2> DEFINE first == Min(RowDays)
  <2>6. first \in RowDays /\ first \in PayDays /\ first \in Nat /\ first <= d /\ \A x \in RowDays : first <= x
    BY <1>3, <2>1, LeastIs
  <2>7. Min(RowDays') = first
    <3>1. RowDays' \subseteq Nat /\ RowDays' # {} /\ first \in RowDays' /\ \A x \in RowDays' : first <= x
      BY <1>3, <1>5, <2>6
    <3>2. \A T : T \subseteq Nat /\ T # {} => Min(T) \in T /\ \A x \in T : Min(T) <= x
      BY LeastIs
    <3>3. Min(RowDays') \in RowDays' /\ \A x \in RowDays' : Min(RowDays') <= x
      BY <3>1, <3>2, Zenon
    <3>4. Min(RowDays') <= first /\ first <= Min(RowDays') /\ Min(RowDays') \in Nat
      BY <3>1, <3>3
    <3> QED BY <2>6, <3>4
  <2>8. Started = RateOf(rows[first]) /\ Started \in Int
    BY <1>3, <2>6 DEF Started
  <2>9. PICK c \in Nat : c = first /\ Opening = Started - Up(c) /\ Opening' = Started' - Up(c)'
    <3>1. \E c \in Nat : c = first /\ c = Min(RowDays')
      BY <2>6, <2>7
    <3> QED BY <3>1 DEF Opening, LedgerUpTo
  <2> HIDE DEF first
  <2>10. Opening' = Opening /\ Opening \in Int
    <3>1. CASE first = d
      <4>1. top = d
        BY <1>3, <2>4, <2>6, <3>1
      <4>2. Started = Basic(d)
        BY <2>4, <2>8, <3>1, <4>1
      <4>3. Started' = RateOf(row)
        BY <1>14, <2>7, <3>1 DEF Started
      <4>4. Up(c)' = Up(c) + (RateOf(row) - Basic(d)) /\ Up(c) \in Int
        BY <1>9, <2>5, <2>6, <2>9, <3>1
      <4> QED BY <1>1, <2>5, <2>9, <4>2, <4>3, <4>4
    <3>2. CASE first # d
      <4>1. Started' = Started
        BY <1>14, <2>6, <2>7, <2>8, <3>2 DEF Started
      <4>2. Up(c)' = Up(c) + 0 /\ Up(c) \in Int
        BY <1>3, <1>9, <2>6, <2>9, <3>2
      <4> QED BY <2>8, <2>9, <4>1, <4>2
    <3> QED BY <3>1, <3>2
  <2>11. ASSUME NEW e \in PayDays, AsOf(e)' # {} PROVE Basic(e)' = Opening' + Up(e)'
    <3>1. e \in Nat /\ AsOf(e)' = {x \in RowDays' : x <= e} /\ RowDays' \subseteq Nat
      BY <1>3, <1>5 DEF AsOf
    <3>2. CASE d <= e
      <4>1. d \in RowDays' /\ \A x \in RowDays' : x <= e => x <= d
        BY <1>3, <1>5, <2>1
      <4>2. Max({x \in RowDays' : x <= e}) = d
        BY <3>1, <3>2, <4>1, LastRow
      <4>3. CurrentRow(e)' = rows'[d]
        BY <2>11, <3>1, <4>2 DEF CurrentRow
      <4>4. Basic(e)' = RateOf(row)
        BY <1>5, <1>14, <4>3 DEF Basic, RateOf
      <4>5. top \in AsOf(e)
        BY <1>3, <2>4, <3>1, <3>2 DEF AsOf
      <4>6. PICK m \in RowDays : m <= e /\ (\A x \in RowDays : x <= e => x <= m) /\ Basic(e) = RateOf(rows[m])
        BY <1>3, <4>5
      <4>7. m = top
        <5>1. top <= e /\ m \in Nat /\ top \in Nat
          BY <1>3, <4>5 DEF AsOf
        <5> QED BY <2>4, <4>6, <5>1
      <4>8. Basic(d) = Opening + Up(e)
        BY <2>2, <2>4, <4>5, <4>6, <4>7
      <4>9. Up(e)' = Up(e) + delta /\ Up(e) \in Int
        BY <1>9, <3>2
      <4> QED BY <1>1, <2>5, <2>10, <4>4, <4>8, <4>9
    <3>3. CASE ~(d <= e)
      <4>1. AsOf(e)' = AsOf(e) /\ d \notin AsOf(e)
        BY <1>5, <3>1, <3>3 DEF AsOf
      <4>2. CurrentRow(e)' = CurrentRow(e) /\ Basic(e)' = Basic(e)
        <5>1. \E m \in RowDays : m <= e /\ CurrentRow(e) = rows[m]
          BY <1>3, <2>11, <4>1
        <5>2. Max(AsOf(e)) \in AsOf(e)
          <6>1. AsOf(e) \subseteq Nat /\ \A x \in AsOf(e) : x <= e
            BY <1>3 DEF AsOf
          <6> QED BY <2>11, <3>1, <4>1, <6>1, GreatestExists
        <5>3. Max(AsOf(e)) \in RowDays \ {d}
          BY <4>1, <5>2 DEF AsOf
        <5>4. CurrentRow(e) = rows[Max(AsOf(e))] /\ CurrentRow(e)' = rows'[Max(AsOf(e))]
          BY <2>11, <4>1 DEF CurrentRow
        <5> QED BY <1>2, <1>5, <5>3, <5>4 DEF Basic, RateOf, NoRow
      <4>3. Up(e)' = Up(e) + 0 /\ Up(e) \in Int
        BY <1>9, <3>3
      <4>4. Basic(e) = Opening + Up(e)
        BY <2>2, <2>11, <4>1
      <4> QED BY <2>10, <4>2, <4>3, <4>4
    <3> QED BY <3>2, <3>3
  <2> QED BY <2>11 DEF LedgerTellsTheSalary
<1>11. RowDays' # {}
  BY <1>5
<1>12. LedgerTellsTheSalary'
  <2>1. CASE inTurn'
    BY <1>10, <2>1
  <2>2. CASE ~inTurn'
    BY <2>2 DEF LedgerTellsTheSalary
  <2> QED BY <2>1, <2>2
<1> QED BY <1>7, <1>8, <1>11, <1>12 DEF SalaryInv

(* Together: every step keeps the salaries explained.                      *)
LEMMA SalaryStep ==
  ASSUME SalaryInv, [SalaryNext]_salaryVars
  PROVE  SalaryInv'
<1>1. CASE UNCHANGED salaryVars
  <2>1. UNCHANGED <<rows, rate, standing, ledger, inTurn, entries>>
    BY <1>1 DEF salaryVars
  <2>2. SalaryTypeOK' /\ SalariesStand' /\ \A d \in RowDays : RateOf(rows[d])' = RateOf(rows[d])
    BY <2>1 DEF SalaryInv, SalaryTypeOK, SalariesStand, RowDays, RateOf, NoRow
  <2> QED BY <2>1, <2>2, WorthStands
<1>2. CASE SalaryNext
  <2>0. PayAmounts \subseteq Pay /\ 0 \in Pay /\ Pay \subseteq Int
    BY SalaryAssumption DEF Pay
  <2>1. CASE \E g \in Grades, amount \in PayAmounts, as \in {"active", "retired"} :
               CreateGrade(g, amount, as) \/ UpdateGrade(g, amount, as)
    BY <2>0, <2>1, GradesKeepTheInv
  <2>2. CASE \E g \in Grades : DeleteGrade(g)
    BY <2>0, <2>2, GradesKeepTheInv
  <2>3. CASE \E g \in Grades, d \in PayDays, over \in PayAmounts \cup {0} : Assign(d, g, over)
    BY <2>3, AssignKeepsTheInv
  <2>4. CASE \E g \in Grades, d \in PayDays : GiveRaise("grade", d, 0, g)
    BY <2>0, <2>4, RaisesKeepTheInv
  <2>5. CASE \E d \in PayDays, mode \in {"fixed", "percent"}, amount \in PayAmounts :
               GiveRaise(mode, d, amount, NoGrade)
    BY <2>0, <2>5, RaisesKeepTheInv
  <2> QED BY <1>2, <2>1, <2>2, <2>3, <2>4, <2>5 DEF SalaryNext
<1> QED BY <1>1, <1>2

(* On every day an employee earns a salary that the ledger explains, as    *)
(* long as raises come in turn, and every row of the salary has its grade: *)
(* whatever grades are made, changed or deleted, whatever they pay, zero   *)
(* and less included, and however often a raise is entered.                *)
THEOREM SalariesTheorem == SalarySpec => []SalariesAreExplained
<1>1. SalaryInv => SalariesAreExplained
  BY DEF SalaryInv, SalariesAreExplained
<1>2. SalaryInv /\ [SalaryNext]_salaryVars => SalaryInv'
  BY SalaryStep
<1> QED BY <1>1, <1>2, SalaryInitInv, PTL DEF SalarySpec

-----------------------------------------------------------------------------
(* Instants are numbers, and a shift of a day lies among them.             *)
LEMMA ClockNumbers ==
  /\ LastDay \in Nat /\ DayLength \in Nat /\ DayLength > 0
  /\ {Grace, Unscheduled, DayHours, AbsentAfter, Lookback, MaxEdits} \subseteq Nat
  /\ LastInstant \in Nat /\ Instants \subseteq Nat /\ Nothing \notin Instants
  /\ \A d \in ClockDays : d \in Nat /\ d * DayLength \in Nat
  /\ \A d \in ClockDays : \A s \in [from : 0 .. DayLength - 1, to : 0 .. DayLength - 1] :
       /\ StartOf(d, s) \in Instants /\ EndOf(d, s) \in Instants
       /\ StartOf(d, s) <= EndOf(d, s)
<1>1. /\ LastDay \in Nat /\ DayLength \in Nat /\ DayLength > 0
      /\ {Grace, Unscheduled, DayHours, AbsentAfter, Lookback, MaxEdits} \subseteq Nat
  BY TimeClockAssumption
<1> DEFINE top == LastDay * DayLength
           bound == (LastDay + 2) * DayLength + Grace
           other == (LastDay + 1) * DayLength + Unscheduled
<1>2. top \in Nat /\ bound = top + 2 * DayLength + Grace /\ other \in Nat
  BY <1>1
<1>3. LastInstant \in Nat /\ top + 2 * DayLength - 1 <= LastInstant
  <2> HIDE DEF top, bound, other
  <2>1. LastInstant = (IF bound <= other THEN other ELSE bound) - 1
    BY DEF LastInstant, Upper, bound, other
  <2>2. bound \in Nat /\ other \in Nat /\ bound >= 2 /\ top + 2 * DayLength <= bound
    BY <1>1, <1>2
  <2> QED BY <1>1, <1>2, <2>1, <2>2
<1>4. Instants \subseteq Nat /\ Nothing \notin Instants
  BY NothingAssumption DEF Instants
<1>5. ASSUME NEW d \in ClockDays PROVE d \in Nat /\ d * DayLength \in Nat /\ d * DayLength <= top
  <2>1. d \in Nat /\ d <= LastDay
    BY <1>1, <1>5 DEF ClockDays
  <2>2. (LastDay - d) * DayLength \in Nat
    <3>1. LastDay - d \in Nat
      BY <1>1, <2>1
    <3> QED BY <1>1, <3>1
  <2>3. top = d * DayLength + (LastDay - d) * DayLength
    BY <1>1, <2>1
  <2>4. d * DayLength \in Nat
    BY <1>1, <2>1
  <2> HIDE DEF top
  <2> QED BY <2>1, <2>2, <2>3, <2>4
<1> HIDE DEF top
<1>6. ASSUME NEW d \in ClockDays, NEW s \in [from : 0 .. DayLength - 1, to : 0 .. DayLength - 1]
      PROVE  /\ StartOf(d, s) \in Instants /\ EndOf(d, s) \in Instants
             /\ StartOf(d, s) <= EndOf(d, s)
  <2> DEFINE p == d * DayLength
  <2>1. p \in Nat /\ p <= top
    BY <1>5
  <2>2. s.from \in 0 .. DayLength - 1 /\ s.to \in 0 .. DayLength - 1
    OBVIOUS
  <2>3. StartOf(d, s) = p + s.from /\ EndOf(d, s) = p + s.to + (IF s.to <= s.from THEN DayLength ELSE 0)
    BY DEF StartOf, EndOf, PastMidnight
  <2> HIDE DEF p
  <2>4. StartOf(d, s) \in 0 .. LastInstant /\ EndOf(d, s) \in 0 .. LastInstant
    BY <1>1, <1>2, <1>3, <2>1, <2>2, <2>3
  <2> QED BY <1>1, <2>1, <2>2, <2>3, <2>4 DEF Instants
<1> QED BY <1>1, <1>3, <1>4, <1>5, <1>6

-----------------------------------------------------------------------------
LaidOut(S, n) ==
  /\ \A s \in S : s.in <= n /\ (s.out # Nothing => s.in <= s.out /\ s.out <= n)
  /\ \A s, t \in S : s # t =>
       /\ s.in # t.in
       /\ (s.out # Nothing /\ s.out <= t.in) \/ (t.out # Nothing /\ t.out <= s.in)

WellLaid(S, n) == S \subseteq Stretch /\ IsFiniteSet(S) /\ LaidOut(S, n)

(* Only one stretch is open, and ending it keeps the stretches apart.      *)
LEMMA OneIsOpen ==
  ASSUME NEW n \in Instants, NEW S, WellLaid(S, n)
  PROVE  /\ \A s, t \in Open(S) : s = t
         /\ Open(S) # {} => Latest(Open(S)) \in Open(S) /\ Open(S) = {Latest(Open(S))}
<1>1. \A s, t \in Open(S) : s = t
  BY DEF Open, WellLaid, LaidOut
<1>2. ASSUME Open(S) # {} PROVE Latest(Open(S)) \in Open(S)
  <2>1. PICK s \in Open(S) : TRUE
    BY <1>2
  <2>2. \A t \in Open(S) : t.in <= s.in
    <3>1. s.in \in Nat
      BY ClockNumbers DEF WellLaid, Stretch, Open
    <3> QED BY <1>1, <3>1
  <2> QED BY <2>1, <2>2 DEF Latest
<1> QED BY <1>1, <1>2

(* One open stretch is ended: only its day changes.                        *)
LEMMA EndFacts ==
  ASSUME NEW n \in Instants, NEW S, WellLaid(S, n), NEW s \in Open(S), NEW r \in Stretch,
         r.in = s.in, r.day = s.day, r.out \in Instants, s.in <= r.out, r.out <= n,
         NEW E, E = (S \ {s}) \cup {r}
  PROVE  /\ WellLaid(E, n) /\ Open(E) = {}
         /\ \A d : d # s.day => Of(E, d) = Of(S, d)
         /\ \A x \in E : \E y \in S : x.in = y.in
<1>1. E \subseteq Stretch
  BY DEF WellLaid
<1>2. IsFiniteSet(E)
  <2> DEFINE A == S \ {s}
  <2>1. IsFiniteSet(A) /\ E = A \cup {r}
    BY FS_RemoveElement DEF WellLaid
  <2> HIDE DEF A
  <2>2. IsFiniteSet(A \cup {r})
    BY <2>1, FS_AddElement
  <2> QED BY <2>2 DEF A
<1>3. s \in S /\ s.out = Nothing /\ r.out # Nothing
  BY ClockNumbers DEF Open
<1>4. \A x \in S \ {s} : x.out # Nothing /\ x.out <= s.in /\ x.in # s.in
  BY <1>3 DEF WellLaid, LaidOut
<1>5. LaidOut(E, n)
  <2>1. \A x \in E : x.in <= n /\ (x.out # Nothing => x.in <= x.out /\ x.out <= n)
    BY <1>3 DEF WellLaid, LaidOut
  <2>2. ASSUME NEW x \in E, NEW y \in E, x # y
        PROVE  /\ x.in # y.in
               /\ (x.out # Nothing /\ x.out <= y.in) \/ (y.out # Nothing /\ y.out <= x.in)
    <3>1. CASE x = r
      BY <1>4, <2>2, <3>1
    <3>2. CASE y = r
      BY <1>4, <2>2, <3>2
    <3>3. CASE x # r /\ y # r
      BY <2>2, <3>3 DEF WellLaid, LaidOut
    <3> QED BY <3>1, <3>2, <3>3
  <2> QED BY <2>1, <2>2 DEF LaidOut
<1>6. Open(E) = {}
  BY <1>3, <1>4 DEF Open
<1>7. /\ \A d : d # s.day => Of(E, d) = Of(S, d)
      /\ \A x \in E : \E y \in S : x.in = y.in
  BY <1>3 DEF Of
<1> QED BY <1>1, <1>2, <1>5, <1>6, <1>7 DEF WellLaid

(* What is forgotten by now is closed at an instant that has passed.       *)
LEMMA AutoCloseFacts ==
  ASSUME ClockTypeOK, NEW s \in Stretch, s.in <= now
  PROVE  /\ AutoClose(s).at \in Nat /\ AutoClose(s).late \in Int /\ s.in <= AutoClose(s).at
         /\ AutoClose(s).late <= now => AutoClose(s).at <= now
<1> DEFINE shift == IF s.shift = Nothing THEN Nothing ELSE roster[s.shift[1]][s.shift[2]]
<1>1. s.in \in Nat /\ now \in Nat /\ Grace \in Nat /\ Unscheduled \in Nat /\ DayHours \in Nat
  BY ClockNumbers DEF ClockTypeOK, Stretch
<1>2. CASE shift # Nothing
  <2>1. s.shift \in ClockDays \X Slots
    BY <1>2 DEF Stretch
  <2>2. s.shift[1] \in ClockDays /\ s.shift[2] \in Slots
    BY <2>1
  <2>3. shift \in Shifts
    <3>1. roster[s.shift[1]] \in [Slots -> Shifts \cup {Nothing}]
      BY <2>2 DEF ClockTypeOK
    <3>2. roster[s.shift[1]][s.shift[2]] \in Shifts \cup {Nothing}
      BY <2>2, <3>1
    <3> QED BY <1>2, <3>2
  <2> DEFINE end == EndOf(s.shift[1], shift)
  <2>4. end \in Nat
    BY <2>2, <2>3, ClockNumbers, TimeClockAssumption
  <2>5. AutoClose(s) = [at |-> Upper(end, s.in), late |-> end + Grace]
    BY <1>2 DEF AutoClose
  <2> HIDE DEF end, shift
  <2>6. AutoClose(s).at = (IF end <= s.in THEN s.in ELSE end) /\ AutoClose(s).late = end + Grace
    BY <2>5 DEF Upper
  <2> QED BY <1>1, <2>4, <2>6
<1>3. CASE shift = Nothing
  <2>1. /\ AutoClose(s).at = s.in + (IF DayHours <= Unscheduled THEN DayHours ELSE Unscheduled)
        /\ AutoClose(s).late = s.in + Unscheduled
    BY <1>3 DEF AutoClose, Lower
  <2> QED BY <1>1, <2>1
<1> QED BY <1>2, <1>3

(* Closing what is forgotten ends one stretch at most.                     *)
LEMMA ClosedFacts ==
  ASSUME ClockTypeOK, WellLaid(stretches, now), NEW F, F \subseteq Open(stretches),
         \A s \in F : AutoClose(s).at <= now
  PROVE  /\ WellLaid(Closed(stretches, F), now)
         /\ F = Open(stretches) => Open(Closed(stretches, F)) = {}
         /\ DaysOf(F) \subseteq ClockDays
         /\ \A d \in DaysOf(F) : Of(Closed(stretches, F), d) # {}
         /\ \A d : d \notin DaysOf(F) => Of(Closed(stretches, F), d) = Of(stretches, d)
         /\ \A x \in Closed(stretches, F) : \E y \in stretches : x.in = y.in
<1>1. CASE F = {}
  <2>1. Closed(stretches, F) = stretches /\ DaysOf(F) = {}
    BY <1>1 DEF Closed, DaysOf
  <2> QED BY <1>1, <2>1
<1>2. CASE F # {}
  <2>1. now \in Instants /\ now \in Nat /\ stretches \subseteq Stretch /\ Instants = 0 .. LastInstant
    BY ClockNumbers DEF ClockTypeOK, Instants
  <2>2. PICK s \in F : F = {s} /\ F = Open(stretches)
    BY <1>2, <2>1, OneIsOpen
  <2> DEFINE r == [s EXCEPT !.out = AutoClose(s).at, !.auto = TRUE]
  <2>3. s \in Stretch /\ s \in Open(stretches) /\ s.in <= now
    BY <2>1, <2>2 DEF Open, WellLaid, LaidOut
  <2>4. AutoClose(s).at \in Instants /\ s.in <= AutoClose(s).at /\ AutoClose(s).at <= now
    <3>1. AutoClose(s).at \in Nat /\ s.in <= AutoClose(s).at
      BY <2>3, AutoCloseFacts
    <3>2. LastInstant \in Nat
      BY ClockNumbers
    <3> QED BY <2>1, <3>1, <3>2
  <2>5. r \in Stretch /\ r.in = s.in /\ r.day = s.day /\ r.out = AutoClose(s).at
    BY <2>3, <2>4 DEF Stretch
  <2>6. Closed(stretches, F) = (stretches \ {s}) \cup {r} /\ DaysOf(F) = {s.day} /\ s.day \in ClockDays
    BY <2>2, <2>3 DEF Closed, DaysOf, Stretch
  <2> HIDE DEF r
  <2> DEFINE E == (stretches \ {s}) \cup {r}
  <2>7. /\ WellLaid(E, now) /\ Open(E) = {}
        /\ \A d : d # s.day => Of(E, d) = Of(stretches, d)
        /\ Of(E, s.day) # {}
        /\ \A x \in E : \E y \in stretches : x.in = y.in
    <3>1. r \in Stretch /\ r.in = s.in /\ r.day = s.day /\ r.out \in Instants /\ s.in <= r.out /\ r.out <= now
      BY <2>4, <2>5
    <3> HIDE DEF E
    <3>2. E = (stretches \ {s}) \cup {r}
      BY DEF E
    <3>3. /\ WellLaid(E, now) /\ Open(E) = {}
          /\ \A d : d # s.day => Of(E, d) = Of(stretches, d)
          /\ \A x \in E : \E y \in stretches : x.in = y.in
      BY <2>1, <2>3, <3>1, <3>2, EndFacts
    <3>4. r \in Of(E, s.day)
      BY <3>1, <3>2 DEF Of
    <3> QED BY <3>3, <3>4
  <2> HIDE DEF E
  <2> QED BY <2>6, <2>7 DEF E
<1> QED BY <1>1, <1>2

-----------------------------------------------------------------------------
(* What is derived for a day is a record.                                  *)
TimesMakeSense(start, end) ==
  /\ start \in Instants \cup {Nothing} /\ end \in Instants \cup {Nothing}
  /\ start # Nothing /\ end # Nothing => start <= end

(* The hours of closed stretches are a number.                             *)
LEMMA HoursOfStretches ==
  ASSUME NEW n \in Instants, NEW S, WellLaid(S, n)
  PROVE  ClosedHours(S) \in Nat \cup {Nothing}
<1> DEFINE A == S \ Open(S)
           f == [s \in A |-> s.out - s.in]
<1>1. IsFiniteSet(A)
  <2>1. A \in SUBSET S
    OBVIOUS
  <2> QED BY <2>1, FS_Subset DEF WellLaid
<1>2. \A s \in A : f[s] \in Nat
  <2> SUFFICES ASSUME NEW s \in A PROVE s.out - s.in \in Nat
    OBVIOUS
  <2>1. s \in Stretch /\ s.out # Nothing /\ s.in <= s.out
    BY DEF WellLaid, LaidOut, Open
  <2>2. s.in \in Nat /\ s.out \in Nat
    BY <2>1, ClockNumbers DEF Stretch
  <2> QED BY <2>1, <2>2
<1>3. DOMAIN f = A
  OBVIOUS
<1>4. ClosedHours(S) = IF Outs(S) = {} THEN Nothing ELSE SumFunction(f)
  BY DEF ClosedHours
<1> HIDE DEF A, f
<1>5. SumFunctionOnSet(f, A) \in Nat
  BY <1>1, <1>2, SumNat
<1> QED BY <1>3, <1>4, <1>5 DEF SumFunction

(* The punches of one day, and what its first and last say.                *)
LEMMA OfFacts ==
  ASSUME NEW n \in Instants, NEW S, WellLaid(S, n), NEW d
  PROVE  /\ WellLaid(Of(S, d), n)
         /\ Of(S, d) # {} => /\ FirstIn(Of(S, d)) \in Instants
                             /\ TimesMakeSense(FirstIn(Of(S, d)), LastOut(Of(S, d)))
<1> DEFINE A == Of(S, d)
           ins == {s.in : s \in A}
<1>1. A \in SUBSET S
  BY DEF Of
<1>2. WellLaid(A, n)
  <2>1. IsFiniteSet(A)
    BY <1>1, FS_Subset DEF WellLaid
  <2> QED BY <1>1, <2>1 DEF WellLaid, LaidOut
<1>3. ASSUME A # {}
      PROVE  FirstIn(A) \in Instants /\ TimesMakeSense(FirstIn(A), LastOut(A))
  <2>1. \A s \in A : s.in \in Instants /\ s.out \in Instants \cup {Nothing} /\ (s.out # Nothing => s.in <= s.out)
    BY <1>2 DEF WellLaid, LaidOut, Stretch
  <2> HIDE DEF A
  <2>2. ins \subseteq Instants /\ ins \subseteq Nat /\ ins # {}
    BY <1>3, <2>1, ClockNumbers
  <2>3. FirstIn(A) = Min(ins)
    BY DEF FirstIn
  <2> HIDE DEF ins
  <2>4. FirstIn(A) \in ins /\ \A x \in ins : FirstIn(A) <= x
    BY <2>2, <2>3, LeastIs
  <2>5. ASSUME Outs(A) # {}
        PROVE  LastOut(A) \in Instants /\ FirstIn(A) <= LastOut(A)
    <3>1. Outs(A) \subseteq Nat /\ Outs(A) \subseteq Instants /\ \A x \in Outs(A) : x <= LastInstant
      <4>1. Outs(A) \subseteq Instants
        BY <2>1 DEF Outs
      <4> QED BY <4>1, ClockNumbers DEF Instants
    <3>2. Max(Outs(A)) \in Outs(A)
      BY <2>5, <3>1, ClockNumbers, GreatestExists
    <3>3. LastOut(A) = Max(Outs(A))
      BY <2>5 DEF LastOut
    <3>4. PICK s \in A : LastOut(A) = s.out /\ s.out # Nothing
      BY <3>2, <3>3 DEF Outs
    <3>5. FirstIn(A) <= s.in /\ s.in <= s.out /\ s.in \in Nat /\ s.out \in Nat
      <4>1. s.in \in ins
        BY <3>4 DEF ins
      <4> QED BY <2>1, <2>4, <3>4, <4>1, ClockNumbers
    <3>6. FirstIn(A) \in Nat
      BY <2>2, <2>4
    <3> QED BY <3>1, <3>2, <3>3, <3>4, <3>5, <3>6
  <2>6. Outs(A) = {} => LastOut(A) = Nothing
    BY DEF LastOut
  <2> QED BY <2>2, <2>4, <2>5, <2>6 DEF TimesMakeSense
<1> HIDE DEF A
<1> QED BY <1>2, <1>3 DEF A

(* Whatever the times, if they make sense, a record is derived.            *)
LEMMA DerivedFacts ==
  ASSUME NEW n \in Instants, NEW S, WellLaid(S, n), NEW off, NEW d, NEW start, NEW end,
         TimesMakeSense(start, end), NEW b \in BOOLEAN, NEW R, R = Derived(S, off, d, start, end, b)
  PROVE  R \in Record /\ R # Nothing /\ R.start = start /\ R.end = end /\ R.noShow = b
<1>1. Hours(S, d, start, end) \in Nat \cup {Nothing}
  <2>1. ClosedHours(Of(S, d)) \in Nat \cup {Nothing}
    BY OfFacts, HoursOfStretches
  <2>2. start # Nothing /\ end # Nothing => end - start \in Nat
    BY ClockNumbers DEF TimesMakeSense
  <2> QED BY <2>1, <2>2 DEF Hours
<1>2. R \in Record
  BY <1>1 DEF Derived, Record, TimesMakeSense
<1> QED BY <1>2, NothingAssumption DEF Derived

-----------------------------------------------------------------------------
ClockInv ==
  /\ ClockTypeOK /\ WellLaid(stretches, now) /\ RecordsFollowTheClock
  /\ \A d \in ClockDays : record[d] # Nothing => TimesMakeSense(record[d].start, record[d].end)
  /\ \A d \in ClockDays \ (typed \cup locked) :
       Of(stretches, d) = {} /\ record[d] # Nothing => record[d].start = Nothing

NoShow(S, d) == Derived(S, excused, d, Nothing, Nothing, TRUE)

(* A day with punches gets a record that makes sense.                      *)
LEMMA PunchedFacts ==
  ASSUME NEW n \in Instants, NEW S, WellLaid(S, n), NEW d, Of(S, d) # {}
  PROVE  /\ Punched(S, d) \in Record /\ Punched(S, d) # Nothing
         /\ TimesMakeSense(Punched(S, d).start, Punched(S, d).end)
<1> DEFINE start == FirstIn(Of(S, d))
           end == LastOut(Of(S, d))
<1>1. TimesMakeSense(start, end)
  BY OfFacts
<1>2. Punched(S, d) = Derived(S, excused, d, start, end, FALSE)
  BY DEF Punched
<1> DEFINE R == Punched(S, d)
<1> HIDE DEF start, end, R
<1>3. PICK b \in BOOLEAN : b = FALSE /\ R = Derived(S, excused, d, start, end, b)
  BY <1>2 DEF R, Derived
<1>4. R \in Record /\ R # Nothing /\ R.start = start /\ R.end = end
  BY <1>1, <1>3, DerivedFacts
<1> QED BY <1>1, <1>4 DEF R

(* So does a day without any.                                              *)
LEMMA NoShowFacts ==
  ASSUME NEW n \in Instants, NEW S, WellLaid(S, n), NEW d
  PROVE  /\ NoShow(S, d) \in Record /\ NoShow(S, d) # Nothing
         /\ NoShow(S, d).start = Nothing /\ NoShow(S, d).noShow
         /\ TimesMakeSense(NoShow(S, d).start, NoShow(S, d).end)
         /\ Of(S, d) = {} => NoShow(S, d).hours = Nothing
<1>1. TimesMakeSense(Nothing, Nothing)
  BY DEF TimesMakeSense
<1>2. Of(S, d) = {} => NoShow(S, d).hours = Nothing
  BY DEF NoShow, Derived, Hours
<1> DEFINE R == NoShow(S, d)
<1>8. PICK b \in BOOLEAN : b = TRUE
  OBVIOUS
<1>3. PICK none : none = Nothing /\ R = Derived(S, excused, d, none, none, b)
  BY <1>8 DEF NoShow, Derived, R
<1>4. TimesMakeSense(none, none)
  BY <1>1, <1>3
<1> HIDE DEF R
<1>5. R = Derived(S, excused, d, none, none, b)
  BY <1>3
<1>6. R \in Record /\ R # Nothing /\ R.start = none /\ R.end = none
  BY ONLY n \in Instants, WellLaid(S, n), <1>4, <1>5, b \in BOOLEAN, DerivedFacts
<1>7. R.noShow
  BY <1>3, <1>8 DEF Derived
<1> QED BY <1>1, <1>2, <1>3, <1>6, <1>7 DEF R

(* Days derived anew from the punches, and days without a punch or a       *)
(* record that are marked.                                                 *)
LEMMA PunchesKeepTheInv ==
  ASSUME ClockInv, NEW S, NEW D, WellLaid(S, now), D \subseteq ClockDays,
         \A d \in D : Of(S, d) # {},
         \A d \in ClockDays \ D : Of(S, d) = Of(stretches, d),
         UNCHANGED <<now, roster, excused, locked, edits>>,
         stretches' = S, typed' = typed \ (D \ locked), DOMAIN record' = ClockDays,
         record' = [d \in ClockDays |-> record'[d]],
         \A d \in D \ locked : record'[d] = Punched(S, d),
         \A d \in ClockDays \ (D \ locked) :
           \/ record'[d] = record[d]
           \/ d \notin locked /\ Of(S, d) = {} /\ record'[d] = NoShow(S, d)
  PROVE  ClockInv' /\ PaidDaysKeepTheirRecordStep
<1>1. now \in Instants
  BY DEF ClockInv, ClockTypeOK
<1>2. \A d \in ClockDays : /\ record'[d] \in Record \cup {Nothing}
                           /\ record'[d] # Nothing => TimesMakeSense(record'[d].start, record'[d].end)
  <2> SUFFICES ASSUME NEW d \in ClockDays
               PROVE  /\ record'[d] \in Record \cup {Nothing}
                      /\ record'[d] # Nothing => TimesMakeSense(record'[d].start, record'[d].end)
    OBVIOUS
  <2>1. CASE d \in D \ locked
    BY <1>1, <2>1, PunchedFacts
  <2>2. CASE record'[d] = record[d]
    BY <2>2 DEF ClockInv, ClockTypeOK
  <2>3. CASE record'[d] = NoShow(S, d)
    BY <1>1, <2>3, NoShowFacts
  <2> QED BY <2>1, <2>2, <2>3
<1>3. ClockTypeOK'
  BY <1>2 DEF ClockInv, ClockTypeOK, WellLaid
<1>4. \A d : Punched(stretches, d)' = Punched(S, d)
  BY DEF Punched, Derived
<1>5. ASSUME NEW d \in ClockDays, d \notin typed', d \notin locked'
      PROVE  /\ Of(S, d) # {} => record'[d] = Punched(S, d)
             /\ Of(S, d) = {} /\ record'[d] # Nothing =>
                  record'[d].noShow /\ record'[d].hours = Nothing /\ record'[d].start = Nothing
  <2>1. CASE d \in D
    BY <1>5, <2>1
  <2>2. CASE d \notin D
    <3>1. d \notin typed /\ d \notin locked /\ Of(S, d) = Of(stretches, d)
      BY <1>5, <2>2
    <3>2. CASE record'[d] = record[d]
      <4>1. Punched(S, d) = Punched(stretches, d)
        BY <3>1 DEF Punched, Derived, Hours
      <4> QED BY <3>1, <3>2, <4>1 DEF ClockInv, RecordsFollowTheClock
    <3>3. CASE Of(S, d) = {} /\ record'[d] = NoShow(S, d)
      BY <1>1, <3>3, NoShowFacts
    <3> QED BY <2>2, <3>2, <3>3
  <2> QED BY <2>1, <2>2
<1>6. RecordsFollowTheClock'
  BY <1>4, <1>5 DEF RecordsFollowTheClock
<1>7. PaidDaysKeepTheirRecordStep
  <2>1. locked \subseteq ClockDays
    BY DEF ClockInv, ClockTypeOK
  <2> QED BY <2>1 DEF PaidDaysKeepTheirRecordStep
<1>8. WellLaid(stretches, now)'
  <2>1. stretches' = S /\ now' = now
    OBVIOUS
  <2> QED BY <2>1 DEF WellLaid, LaidOut
<1>9. (\A d \in ClockDays : record[d] # Nothing => TimesMakeSense(record[d].start, record[d].end))'
  BY <1>2
<1>10. (\A d \in ClockDays \ (typed \cup locked) :
          Of(stretches, d) = {} /\ record[d] # Nothing => record[d].start = Nothing)'
  BY <1>5
<1> QED BY <1>3, <1>6, <1>7, <1>8, <1>9, <1>10 DEF ClockInv

-----------------------------------------------------------------------------
(* A clock-in is matched with a shift of its day, or with none.            *)
LEMMA MatchedFacts ==
  ASSUME ClockTypeOK, NEW d \in ClockDays, NEW t \in Nat
  PROVE  Matched(d, t) \in (ClockDays \X Slots) \cup {Nothing}
<1> DEFINE near(i) == Apart(TimeOf(t), roster[d][i].from)
           values == {near(i) : i \in Planned(d)}
<1>1. CASE Planned(d) = {}
  BY <1>1 DEF Matched
<1>2. CASE Planned(d) # {}
  <2>1. Planned(d) \subseteq Slots /\ Slots \subseteq Nat
    BY TimeClockAssumption DEF Planned
  <2>2. \A i \in Planned(d) : near(i) \in Nat
    <3> SUFFICES ASSUME NEW i \in Planned(d) PROVE near(i) \in Nat
      OBVIOUS
    <3>1. roster[d][i] \in Shifts
      <4>1. roster[d] \in [Slots -> Shifts \cup {Nothing}]
        BY DEF ClockTypeOK
      <4> QED BY <2>1, <4>1 DEF Planned
    <3>2. roster[d][i].from \in 0 .. DayLength - 1
      BY <3>1, TimeClockAssumption
    <3>3. TimeOf(t) \in 0 .. DayLength - 1
      BY ClockNumbers DEF TimeOf
    <3> DEFINE a == TimeOf(t)
               b == roster[d][i].from
    <3> HIDE DEF a, b
    <3>4. a \in 0 .. DayLength - 1 /\ b \in 0 .. DayLength - 1 /\ near(i) = Apart(a, b)
      BY <3>2, <3>3 DEF a, b
    <3>5. Apart(a, b) \in Nat
      BY <3>4, ClockNumbers DEF Apart, Upper, Lower
    <3> QED BY <3>4, <3>5
  <2> HIDE DEF near
  <2>3. PICK v \in values : \A w \in values : v <= w
    <3>1. values \subseteq Nat /\ values # {}
      BY <1>2, <2>2
    <3> HIDE DEF values
    <3> QED BY <3>1, LeastExists
  <2> DEFINE best == {i \in Planned(d) : near(i) = v}
  <2>4. PICK i \in best : \A j \in best : i <= j
    <3>1. best \subseteq Nat /\ best # {}
      BY <2>1
    <3> HIDE DEF best
    <3> QED BY <3>1, LeastExists
  <2>5. \A j \in Planned(d) : near(i) < near(j) \/ (near(i) = near(j) /\ i <= j)
    <3> SUFFICES ASSUME NEW j \in Planned(d) PROVE near(i) < near(j) \/ (near(i) = near(j) /\ i <= j)
      OBVIOUS
    <3>1. near(i) = v /\ v <= near(j) /\ v \in Nat /\ near(j) \in Nat
      BY <2>2, <2>3
    <3> QED BY <2>4, <3>1
  <2>6. i \in Planned(d)
    OBVIOUS
  <2> DEFINE nearest(k) == \A j \in Planned(d) : near(k) < near(j) \/ (near(k) = near(j) /\ k <= j)
  <2> DEFINE c == CHOOSE k \in Planned(d) : nearest(k)
  <2>7. c \in Planned(d)
    BY <2>5, <2>6
  <2>8. Matched(d, t) = <<d, c>>
    BY <1>2 DEF Matched, near
  <2> HIDE DEF c
  <2> QED BY <2>1, <2>7, <2>8
<1> QED BY <1>1, <1>2

-----------------------------------------------------------------------------
(* What Write leaves behind is what PunchesKeepTheInv asks for.            *)
LEMMA WritingKeepsTheInv ==
  ASSUME ClockInv, NEW S, NEW D, WellLaid(S, now), D \subseteq ClockDays,
         \A d \in D : Of(S, d) # {},
         \A d \in ClockDays \ D : Of(S, d) = Of(stretches, d),
         Write(S, D), UNCHANGED <<now, roster, excused, locked, edits>>
  PROVE  ClockInv' /\ PaidDaysKeepTheirRecordStep
<1>1. /\ stretches' = S /\ typed' = typed \ (D \ locked)
      /\ record' = [d \in ClockDays |-> IF d \in D \ locked THEN Punched(S, d) ELSE record[d]]
  BY DEF Write, Synced
<1>2. /\ DOMAIN record' = ClockDays
      /\ record' = [d \in ClockDays |-> record'[d]]
      /\ \A d \in D \ locked : record'[d] = Punched(S, d)
      /\ \A d \in ClockDays \ (D \ locked) :
           \/ record'[d] = record[d]
           \/ d \notin locked /\ Of(S, d) = {} /\ record'[d] = NoShow(S, d)
  BY <1>1, Zenon
<1> QED BY <1>1, <1>2, PunchesKeepTheInv

(* Clocking in: what was forgotten is over by now, so nothing overlaps.    *)
LEMMA ClockInKeepsTheInv ==
  ASSUME ClockInv, ClockIn
  PROVE  ClockInv' /\ PaidDaysKeepTheirRecordStep
<1> DEFINE F == LatestOpen
           E == Closed(stretches, F)
           e == BusinessDay(now)
           new == [in |-> now, out |-> Nothing, day |-> e, shift |-> Matched(e, now), auto |-> FALSE]
           S == E \cup {new}
           D == DaysOf(F) \cup {e}
<1>1. WellLaid(stretches, now) /\ ClockTypeOK /\ now \in Instants /\ now \in Nat
  BY ClockNumbers DEF ClockInv, ClockTypeOK
<1>2. F = Open(stretches)
  BY <1>1, OneIsOpen DEF LatestOpen
<1>3. e \in ClockDays
  BY DEF ClockIn, BusinessDay
<1>4. ASSUME NEW s \in F PROVE AutoClose(s).at <= now
  <2>1. s \in Stretch /\ s.in <= now
    BY <1>1, <1>2 DEF Open, WellLaid, LaidOut
  <2>2. AutoClose(s).at \in Nat /\ AutoClose(s).late \in Int /\ (AutoClose(s).late <= now => AutoClose(s).at <= now)
    BY <1>1, <2>1, AutoCloseFacts
  <2>3. Stale(s)
    BY DEF ClockIn
  <2> QED BY <1>1, <2>2, <2>3 DEF Stale
<1>5. /\ WellLaid(E, now) /\ Open(E) = {}
      /\ DaysOf(F) \subseteq ClockDays
      /\ \A d \in DaysOf(F) : Of(E, d) # {}
      /\ \A d : d \notin DaysOf(F) => Of(E, d) = Of(stretches, d)
      /\ \A x \in E : \E y \in stretches : x.in = y.in
  <2> HIDE DEF F
  <2>1. F \subseteq Open(stretches) /\ (\A s \in F : AutoClose(s).at <= now)
    BY <1>2, <1>4
  <2> QED BY <1>1, <1>2, <2>1, ClosedFacts
<1>6. new \in Stretch
  <2> DEFINE shift == Matched(e, now)
  <2>1. shift \in (ClockDays \X Slots) \cup {Nothing}
    <3> HIDE DEF e
    <3> QED BY <1>1, <1>3, MatchedFacts
  <2> HIDE DEF e, shift
  <2>2. [in |-> now, out |-> Nothing, day |-> e, shift |-> shift, auto |-> FALSE] \in Stretch
    BY <1>1, <1>3, <2>1 DEF Stretch
  <2> QED BY <2>2 DEF shift
<1>7. new.in = now /\ new.out = Nothing /\ new.day = e
  OBVIOUS
<1>8. \A x \in E : x.in # now
  BY <1>5 DEF ClockIn
<1>9. Write(S, D) /\ UNCHANGED <<now, roster, excused, locked, edits>>
  BY DEF ClockIn
<1> HIDE DEF E, F, e, new
<1>10. WellLaid(S, now)
  <2>1. IsFiniteSet(S)
    BY <1>5, FS_AddElement DEF WellLaid
  <2>2. S \subseteq Stretch
    BY <1>5, <1>6 DEF WellLaid
  <2>3. \A x \in E : x.out # Nothing /\ x.out <= new.in /\ x.in # new.in
    BY <1>5, <1>7, <1>8 DEF WellLaid, LaidOut, Open
  <2>4. \A x \in S : x.in <= now /\ (x.out # Nothing => x.in <= x.out /\ x.out <= now)
    BY <1>1, <1>5, <1>7 DEF WellLaid, LaidOut
  <2>5. ASSUME NEW x \in S, NEW y \in S, x # y
        PROVE  /\ x.in # y.in
               /\ (x.out # Nothing /\ x.out <= y.in) \/ (y.out # Nothing /\ y.out <= x.in)
    <3>1. CASE x = new
      BY <2>3, <2>5, <3>1
    <3>2. CASE y = new
      BY <2>3, <2>5, <3>2
    <3>3. CASE x # new /\ y # new
      BY <1>5, <2>5, <3>3 DEF WellLaid, LaidOut
    <3> QED BY <3>1, <3>2, <3>3
  <2> HIDE DEF S
  <2> QED BY <2>1, <2>2, <2>4, <2>5 DEF WellLaid, LaidOut
<1>11. \A d \in D : Of(S, d) # {}
  <2>1. new \in Of(S, e)
    BY <1>7 DEF Of
  <2>2. \A d : Of(E, d) \subseteq Of(S, d)
    BY DEF Of
  <2> QED BY <1>5, <2>1, <2>2
<1>12. \A d \in ClockDays \ D : Of(S, d) = Of(stretches, d)
  <2>1. \A d : d # e => Of(S, d) = Of(E, d)
    BY <1>7 DEF Of
  <2> QED BY <1>5, <2>1
<1>13. D \subseteq ClockDays
  BY <1>3, <1>5
<1> HIDE DEF S, D
<1> QED BY <1>9, <1>10, <1>11, <1>12, <1>13, WritingKeepsTheInv

(* Clocking out ends the open stretch now or where the job would have.     *)
LEMMA ClockOutKeepsTheInv ==
  ASSUME ClockInv, ClockOut
  PROVE  ClockInv' /\ PaidDaysKeepTheirRecordStep
<1>1. WellLaid(stretches, now) /\ ClockTypeOK /\ now \in Instants /\ now \in Nat
  BY ClockNumbers DEF ClockInv, ClockTypeOK
<1>2. PICK s \in LatestOpen :
        Write(IF now >= AutoClose(s).late THEN Closed(stretches, {s})
              ELSE (stretches \ {s}) \cup {[s EXCEPT !.out = now]}, {s.day})
  BY DEF ClockOut
<1>3. s \in Open(stretches) /\ Open(stretches) = {s}
  BY <1>1, OneIsOpen DEF LatestOpen
<1>4. s \in Stretch /\ s.in <= now /\ s.day \in ClockDays
  BY <1>1, <1>3 DEF Open, WellLaid, LaidOut, Stretch
<1>5. UNCHANGED <<now, roster, excused, locked, edits>>
  BY DEF ClockOut
<1> DEFINE D == {s.day}
<1>6. CASE now >= AutoClose(s).late
  <2> DEFINE F == {s}
             E == Closed(stretches, F)
  <2>1. F \subseteq Open(stretches) /\ \A t \in F : AutoClose(t).at <= now
    <3>1. AutoClose(s).late \in Int /\ (AutoClose(s).late <= now => AutoClose(s).at <= now)
      BY <1>1, <1>4, AutoCloseFacts
    <3> QED BY <1>1, <1>3, <1>6, <3>1
  <2>2. DaysOf(F) = D /\ Write(E, D)
    BY <1>2, <1>6 DEF DaysOf
  <2> HIDE DEF F, D
  <2>3. /\ WellLaid(E, now) /\ DaysOf(F) \subseteq ClockDays
        /\ \A d \in DaysOf(F) : Of(E, d) # {}
        /\ \A d : d \notin DaysOf(F) => Of(E, d) = Of(stretches, d)
    BY <1>1, <2>1, ClosedFacts
  <2> HIDE DEF E
  <2> QED BY <1>5, <2>2, <2>3, WritingKeepsTheInv
<1>7. CASE ~(now >= AutoClose(s).late)
  <2> DEFINE r == [s EXCEPT !.out = now]
             E == (stretches \ {s}) \cup {r}
  <2>1. r \in Stretch /\ r.in = s.in /\ r.day = s.day /\ r.out = now
    BY <1>1, <1>4 DEF Stretch
  <2>2. Write(E, D)
    BY <1>2, <1>7
  <2> HIDE DEF r
  <2>3. r \in Of(E, s.day)
    BY <2>1 DEF Of
  <2>4. PICK L : L = E
    OBVIOUS
  <2>5. /\ WellLaid(L, now)
        /\ \A d : d # s.day => Of(L, d) = Of(stretches, d)
    <3>1. r.out \in Instants /\ s.in <= r.out /\ r.out <= now
      BY <1>1, <1>4, <2>1
    <3> QED BY <1>1, <1>3, <2>1, <2>4, <3>1, EndFacts
  <2> HIDE DEF E
  <2>6. /\ D \subseteq ClockDays
        /\ \A d \in D : Of(L, d) # {}
        /\ \A d \in ClockDays \ D : Of(L, d) = Of(stretches, d)
    BY <1>4, <2>3, <2>4, <2>5
  <2> HIDE DEF D
  <2> QED BY <1>5, <2>2, <2>4, <2>5, <2>6, WritingKeepsTheInv
<1> QED BY <1>6, <1>7

(* The job: closed days are derived anew, empty ones are marked.           *)
LEMMA CloseAndMarkKeepsTheInv ==
  ASSUME ClockInv, CloseAndMark
  PROVE  ClockInv' /\ PaidDaysKeepTheirRecordStep
<1> DEFINE F == Forgotten
           S == Closed(stretches, F)
           D == DaysOf(F)
           closed == Synced(record, S, D)
<1>1. WellLaid(stretches, now) /\ ClockTypeOK /\ now \in Instants /\ now \in Nat
  BY ClockNumbers DEF ClockInv, ClockTypeOK
<1>2. F \subseteq Open(stretches)
  BY DEF Forgotten
<1>3. ASSUME NEW s \in F PROVE AutoClose(s).at <= now
  <2>1. s \in Stretch /\ s.in <= now /\ now >= AutoClose(s).late
    BY <1>1 DEF Forgotten, Open, WellLaid, LaidOut
  <2>2. AutoClose(s).late \in Int /\ (AutoClose(s).late <= now => AutoClose(s).at <= now)
    BY <1>1, <2>1, AutoCloseFacts
  <2> QED BY <1>1, <2>1, <2>2
<1>4. /\ stretches' = S /\ typed' = typed \ (D \ locked)
      /\ record' = [d \in ClockDays |-> IF d \in NoShows(S, closed) THEN NoShow(S, d) ELSE closed[d]]
      /\ UNCHANGED <<now, roster, excused, locked, edits>>
  BY DEF CloseAndMark, NoShow
<1> HIDE DEF F
<1>5. /\ WellLaid(S, now) /\ D \subseteq ClockDays
      /\ \A d \in D : Of(S, d) # {}
      /\ \A d : d \notin D => Of(S, d) = Of(stretches, d)
  BY <1>1, <1>2, <1>3, ClosedFacts
<1> HIDE DEF S, D
<1>6. \A d \in NoShows(S, closed) : d \in ClockDays /\ d \notin locked /\ Of(S, d) = {}
  BY DEF NoShows
<1>7. \A d \in ClockDays : closed[d] = IF d \in D \ locked THEN Punched(S, d) ELSE record[d]
  BY DEF Synced
<1> HIDE DEF closed
<1>8. DOMAIN record' = ClockDays /\ record' = [d \in ClockDays |-> record'[d]]
  BY <1>4
<1>9. \A d \in D \ locked : record'[d] = Punched(S, d)
  BY <1>4, <1>5, <1>6, <1>7
<1>10. \A d \in ClockDays \ (D \ locked) :
         \/ record'[d] = record[d]
         \/ d \notin locked /\ Of(S, d) = {} /\ record'[d] = NoShow(S, d)
  BY <1>4, <1>6, <1>7
<1> QED BY <1>4, <1>5, <1>8, <1>9, <1>10, PunchesKeepTheInv

-----------------------------------------------------------------------------
(* What the times say does not depend on the shifts of the stretches.      *)
LEMMA SameTimes ==
  ASSUME NEW n \in Instants, NEW A, WellLaid(A, n), NEW m,
         \A s \in A : m[s] \in Stretch /\ m[s].in = s.in /\ m[s].out = s.out,
         NEW B, B = {m[s] : s \in A}
  PROVE  /\ WellLaid(B, n)
         /\ FirstIn(B) = FirstIn(A) /\ LastOut(B) = LastOut(A) /\ ClosedHours(B) = ClosedHours(A)
<1>1. \A s, t \in A : m[s] = m[t] => s = t
  BY DEF WellLaid, LaidOut
<1> DEFINE P == A \ Open(A)
           f == [s \in P |-> s.out - s.in]
           Q == B \ Open(B)
           g == [s \in Q |-> s.out - s.in]
<1>2. IsFiniteSet(P)
  <2>1. P \in SUBSET A
    OBVIOUS
  <2> QED BY <2>1, FS_Subset DEF WellLaid
<1>3. Q = {m[s] : s \in P}
  BY DEF Open
<1>4. ASSUME NEW s \in P PROVE f[s] \in Int /\ g[m[s]] = f[s]
  <2>1. m[s] \in Q /\ s \in A
    BY <1>3
  <2>2. f[s] = s.out - s.in /\ g[m[s]] = m[s].out - m[s].in
    BY <2>1
  <2>3. s.in \in Nat /\ s.out \in Nat
    <3>1. s \in Stretch /\ s.out # Nothing
      BY DEF WellLaid, Open
    <3> QED BY <3>1, ClockNumbers DEF Stretch
  <2> QED BY <2>1, <2>2, <2>3
<1>5. IsFiniteSet(B)
  <2> DEFINE h == [s \in A |-> m[s]]
  <2>1. h \in Surjection(A, B)
    BY DEF Surjection
  <2> HIDE DEF h
  <2> QED BY <2>1, FS_Surjection DEF WellLaid
<1>6. LaidOut(B, n)
  <2>1. \A x \in B : x.in <= n /\ (x.out # Nothing => x.in <= x.out /\ x.out <= n)
    BY DEF WellLaid, LaidOut
  <2>2. ASSUME NEW x \in B, NEW y \in B, x # y
        PROVE  /\ x.in # y.in
               /\ (x.out # Nothing /\ x.out <= y.in) \/ (y.out # Nothing /\ y.out <= x.in)
    <3>1. PICK s \in A, t \in A : x = m[s] /\ y = m[t]
      OBVIOUS
    <3>2. s # t /\ x.in = s.in /\ x.out = s.out /\ y.in = t.in /\ y.out = t.out
      BY <2>2, <3>1
    <3> QED BY <3>2 DEF WellLaid, LaidOut
  <2> QED BY <2>1, <2>2 DEF LaidOut
<1>7. B \subseteq Stretch
  OBVIOUS
<1>8. FirstIn(B) = FirstIn(A)
  <2>1. {s.in : s \in B} = {s.in : s \in A}
    OBVIOUS
  <2> QED BY <2>1 DEF FirstIn
<1>9. Outs(B) = Outs(A)
  BY DEF Outs
<1>10. ClosedHours(B) = ClosedHours(A)
  <2>1. DOMAIN f = P /\ DOMAIN g = Q
    OBVIOUS
  <2>2. /\ ClosedHours(A) = IF Outs(A) = {} THEN Nothing ELSE SumFunction(f)
        /\ ClosedHours(B) = IF Outs(B) = {} THEN Nothing ELSE SumFunction(g)
    BY DEF ClosedHours
  <2>3. \A s, t \in P : m[s] = m[t] => s = t
    BY <1>1
  <2> HIDE DEF f, g, P, Q
  <2>4. SumFunctionOnSet(g, {m[s] : s \in P}) = SumFunctionOnSet(f, P)
    BY <1>2, <1>4, <2>3, SumMapped
  <2> QED BY <1>3, <1>9, <2>1, <2>2, <2>4 DEF SumFunction
<1> QED BY <1>5, <1>6, <1>7, <1>8, <1>9, <1>10 DEF WellLaid, LastOut

(* A deleted shift leaves the times of its punches as they are.            *)
LEMMA DeleteKeepsTheInv ==
  ASSUME ClockInv, NEW e \in ClockDays, NEW i \in Slots, Delete(e, i)
  PROVE  ClockInv' /\ PaidDaysKeepTheirRecordStep
<1> DEFINE m == [s \in stretches |-> IF s.shift = <<e, i>> THEN [s EXCEPT !.shift = Nothing] ELSE s]
           S == stretches'
<1>1. now \in Instants /\ WellLaid(stretches, now) /\ stretches \subseteq Stretch
  BY DEF ClockInv, ClockTypeOK
<1>2. \A s \in stretches : m[s] \in Stretch /\ m[s].in = s.in /\ m[s].out = s.out /\ m[s].day = s.day
  BY <1>1 DEF Stretch
<1>3. S = {m[s] : s \in stretches}
  BY DEF Delete
<1>4. UNCHANGED <<now, record, excused, locked, typed>>
  BY DEF Delete
<1> HIDE DEF m, S
<1>5. WellLaid(S, now)
  BY <1>1, <1>2, <1>3, SameTimes
<1>6. ASSUME NEW d PROVE /\ Of(S, d) = {} <=> Of(stretches, d) = {}
                         /\ Punched(stretches, d)' = Punched(stretches, d)
  <2> DEFINE A == Of(stretches, d)
             B == Of(S, d)
  <2>1. B = {m[s] : s \in A}
    BY <1>2, <1>3 DEF Of
  <2>2. \A s \in A : m[s] \in Stretch /\ m[s].in = s.in /\ m[s].out = s.out
    BY <1>2 DEF Of
  <2>3. WellLaid(A, now)
    BY <1>1, OfFacts
  <2> HIDE DEF A, B
  <2>4. A = {} <=> B = {}
    BY <2>1
  <2>7. FirstIn(B) = FirstIn(A) /\ LastOut(B) = LastOut(A) /\ ClosedHours(B) = ClosedHours(A)
    BY <1>1, <2>1, <2>2, <2>3, SameTimes
  <2>5. /\ Punched(stretches, d)' = Derived(S, excused, d, FirstIn(B), LastOut(B), FALSE)
        /\ Punched(stretches, d) = Derived(stretches, excused, d, FirstIn(A), LastOut(A), FALSE)
    BY <1>4 DEF Punched, S, A, B, Derived
  <2>6. Hours(S, d, FirstIn(A), LastOut(A)) = Hours(stretches, d, FirstIn(A), LastOut(A))
    BY <2>4, <2>7 DEF Hours, A, B
  <2> QED BY <2>4, <2>5, <2>6, <2>7 DEF Derived, A, B
<1>7. roster' \in [ClockDays -> [Slots -> Shifts \cup {Nothing}]] /\ edits' \in 0 .. MaxEdits
  <2>1. edits' \in 0 .. MaxEdits
    <3>1. edits < MaxEdits /\ edits' = edits + 1 /\ edits \in 0 .. MaxEdits /\ MaxEdits \in Nat
      BY ClockNumbers DEF Delete, ClockInv, ClockTypeOK
    <3> QED BY <3>1
  <2>2. roster' = [roster EXCEPT ![e][i] = Nothing] /\ roster \in [ClockDays -> [Slots -> Shifts \cup {Nothing}]]
    BY DEF Delete, ClockInv, ClockTypeOK
  <2> QED BY <2>1, <2>2
<1>8. ClockTypeOK'
  BY <1>4, <1>5, <1>7 DEF ClockInv, ClockTypeOK, WellLaid, S
<1>9. RecordsFollowTheClock'
  <2> SUFFICES ASSUME NEW d \in ClockDays, d \notin typed, d \notin locked
               PROVE  IF Of(S, d) # {} THEN record[d] = Punched(stretches, d)'
                      ELSE record[d] # Nothing => record[d].noShow /\ record[d].hours = Nothing
    BY <1>4 DEF RecordsFollowTheClock, S
  <2> QED BY <1>6 DEF ClockInv, RecordsFollowTheClock
<1>10. (\A d \in ClockDays \ (typed \cup locked) :
          Of(stretches, d) = {} /\ record[d] # Nothing => record[d].start = Nothing)'
  BY <1>4, <1>6 DEF ClockInv, S
<1>11. WellLaid(stretches, now)'
  BY <1>4, <1>5 DEF WellLaid, LaidOut, S
<1> QED BY <1>4, <1>8, <1>9, <1>10, <1>11 DEF ClockInv, PaidDaysKeepTheirRecordStep

-----------------------------------------------------------------------------
(* A day's record is written over, the punches are not touched.            *)
LEMMA RewriteKeepsTheInv ==
  ASSUME ClockInv, NEW e \in ClockDays, e \notin locked, NEW R \in Record,
         TimesMakeSense(R.start, R.end), record' = [record EXCEPT ![e] = R],
         UNCHANGED <<now, roster, stretches, locked>>,
         excused' \subseteq ClockDays, \A d \in ClockDays \ {e} : d \in excused' <=> d \in excused,
         typed' \in {typed, typed \cup {e}}, edits' \in 0 .. MaxEdits,
         e \notin typed' =>
           IF Of(stretches, e) # {} THEN R = Punched(stretches, e)'
           ELSE R.noShow /\ R.hours = Nothing /\ R.start = Nothing
  PROVE  ClockInv' /\ PaidDaysKeepTheirRecordStep
<1>1. record \in [ClockDays -> Record \cup {Nothing}] /\ R # Nothing
  BY NothingAssumption DEF ClockInv, ClockTypeOK
<1>2. record'[e] = R /\ \A d \in ClockDays \ {e} : record'[d] = record[d]
  BY <1>1
<1>3. ClockTypeOK'
  BY <1>1 DEF ClockInv, ClockTypeOK
<1>4. \A d \in ClockDays \ {e} : Punched(stretches, d)' = Punched(stretches, d)
  BY DEF Punched, Derived
<1>5. RecordsFollowTheClock'
  <2> SUFFICES ASSUME NEW d \in ClockDays, d \notin typed', d \notin locked
               PROVE  IF Of(stretches, d) # {} THEN record'[d] = Punched(stretches, d)'
                      ELSE record'[d] # Nothing => record'[d].noShow /\ record'[d].hours = Nothing
    BY DEF RecordsFollowTheClock
  <2>1. CASE d = e
    BY <1>2, <2>1
  <2>2. CASE d # e
    <3>1. d \notin typed /\ record'[d] = record[d] /\ Punched(stretches, d)' = Punched(stretches, d)
      BY <1>2, <1>4, <2>2
    <3> QED BY <3>1 DEF ClockInv, RecordsFollowTheClock
  <2> QED BY <2>1, <2>2
<1>6. (\A d \in ClockDays : record[d] # Nothing => TimesMakeSense(record[d].start, record[d].end))'
  BY <1>2 DEF ClockInv
<1>7. (\A d \in ClockDays \ (typed \cup locked) :
          Of(stretches, d) = {} /\ record[d] # Nothing => record[d].start = Nothing)'
  <2> SUFFICES ASSUME NEW d \in ClockDays, d \notin typed', d \notin locked,
                      Of(stretches, d) = {}, record'[d] # Nothing
               PROVE  record'[d].start = Nothing
    OBVIOUS
  <2>1. CASE d = e
    BY <1>2, <2>1
  <2>2. CASE d # e
    BY <1>2, <2>2 DEF ClockInv
  <2> QED BY <2>1, <2>2
<1>8. WellLaid(stretches, now)'
  BY DEF ClockInv, WellLaid, LaidOut
<1>9. PaidDaysKeepTheirRecordStep
  BY <1>2 DEF PaidDaysKeepTheirRecordStep, ClockInv, ClockTypeOK
<1> QED BY <1>3, <1>5, <1>6, <1>7, <1>8, <1>9 DEF ClockInv

(* What others do stays within its bound.                                  *)
LEMMA OneMoreEdit ==
  ASSUME ClockInv, edits < MaxEdits, edits' = edits + 1
  PROVE  edits' \in 0 .. MaxEdits
<1>1. edits \in 0 .. MaxEdits /\ MaxEdits \in Nat
  BY ClockNumbers DEF ClockInv, ClockTypeOK
<1> QED BY <1>1

(* Typed times make sense, and the day is the clock's no longer.           *)
LEMMA TypeInKeepsTheInv ==
  ASSUME ClockInv, NEW e \in ClockDays, NEW t \in Typed, TypeIn(e, StartOf(e, t), EndOf(e, t))
  PROVE  ClockInv' /\ PaidDaysKeepTheirRecordStep
<1>1. PICK start, end : start = StartOf(e, t) /\ end = EndOf(e, t)
  OBVIOUS
<1>2. TimesMakeSense(start, end)
  <2>1. t \in [from : 0 .. DayLength - 1, to : 0 .. DayLength - 1]
    BY TimeClockAssumption
  <2> QED BY <1>1, <2>1, ClockNumbers DEF TimesMakeSense
<1>9. PICK b \in BOOLEAN : b = FALSE
  OBVIOUS
<1>3. PICK R : R = Derived(stretches, excused, e, start, end, b)
  OBVIOUS
<1>4. now \in Instants /\ WellLaid(stretches, now)
  BY DEF ClockInv, ClockTypeOK
<1>5. R \in Record /\ R.start = start /\ R.end = end
  BY <1>2, <1>3, <1>4, DerivedFacts
<1>6. /\ record' = [record EXCEPT ![e] = R] /\ e \notin locked
      /\ UNCHANGED <<now, roster, stretches, locked, excused>>
      /\ typed' = typed \cup {e} /\ edits < MaxEdits /\ edits' = edits + 1
  BY <1>1, <1>3, <1>9 DEF TypeIn
<1>7. edits' \in 0 .. MaxEdits
  BY <1>6, OneMoreEdit
<1>8. /\ excused' \subseteq ClockDays /\ \A d \in ClockDays \ {e} : d \in excused' <=> d \in excused
      /\ typed' \in {typed, typed \cup {e}} /\ e \in typed'
  BY <1>6 DEF ClockInv, ClockTypeOK
<1> QED BY <1>2, <1>5, <1>6, <1>7, <1>8, RewriteKeepsTheInv

(* A decided leave only changes how a day's record is judged.              *)
LEMMA DecideLeaveKeepsTheInv ==
  ASSUME ClockInv, NEW e \in ClockDays, DecideLeave(e)
  PROVE  ClockInv' /\ PaidDaysKeepTheirRecordStep
<1>1. /\ UNCHANGED <<now, roster, stretches, locked, typed>>
      /\ edits < MaxEdits /\ edits' = edits + 1
      /\ excused' = IF e \in excused THEN excused \ {e} ELSE excused \cup {e}
  BY DEF DecideLeave
<1>2. edits' \in 0 .. MaxEdits
  BY <1>1, OneMoreEdit
<1>3. excused' \subseteq ClockDays /\ \A d \in ClockDays \ {e} : d \in excused' <=> d \in excused
  BY <1>1 DEF ClockInv, ClockTypeOK
<1>4. record \in [ClockDays -> Record \cup {Nothing}]
  BY DEF ClockInv, ClockTypeOK
<1>5. CASE record[e] = Nothing \/ e \in locked
  <2>1. record' = record
    BY <1>5 DEF DecideLeave
  <2>2. ClockTypeOK'
    BY <1>1, <1>2, <1>3, <2>1 DEF ClockInv, ClockTypeOK
  <2>3. ASSUME NEW d \in ClockDays, d \notin typed, d \notin locked, Of(stretches, d) # {}
        PROVE  d # e /\ Punched(stretches, d)' = Punched(stretches, d)
    <3>1. now \in Instants /\ WellLaid(stretches, now)
      BY DEF ClockInv, ClockTypeOK
    <3>2. record[d] = Punched(stretches, d)
      BY <2>3 DEF ClockInv, RecordsFollowTheClock
    <3>3. d # e
      BY <1>5, <2>3, <3>1, <3>2, PunchedFacts
    <3> QED BY <1>1, <1>3, <3>3 DEF Punched, Derived
  <2>4. RecordsFollowTheClock'
    BY <1>1, <2>1, <2>3 DEF ClockInv, RecordsFollowTheClock
  <2>5. WellLaid(stretches, now)'
    BY <1>1 DEF ClockInv, WellLaid, LaidOut
  <2> QED BY <1>1, <2>1, <2>2, <2>4, <2>5 DEF ClockInv, PaidDaysKeepTheirRecordStep
<1>6. CASE record[e] # Nothing /\ e \notin locked
  <2>1. record[e] \in Record /\ TimesMakeSense(record[e].start, record[e].end)
    BY <1>4, <1>6 DEF ClockInv
  <2>10. PICK b \in BOOLEAN : b = record[e].noShow
    BY <2>1 DEF Record
  <2>2. PICK start, end : start = record[e].start /\ end = record[e].end /\ b = record[e].noShow
    BY <2>10
  <2>3. PICK R, off : R = Derived(stretches, off, e, start, end, b) /\ off = excused'
    OBVIOUS
  <2>4. now \in Instants /\ WellLaid(stretches, now)
    BY DEF ClockInv, ClockTypeOK
  <2>5. R \in Record /\ R.start = start /\ R.end = end
    BY <2>1, <2>2, <2>3, <2>4, DerivedFacts
  <2>6. record' = [record EXCEPT ![e] = R]
    <3>1. record' = [record EXCEPT ![e] = Derived(stretches, excused', e, record[e].start, record[e].end, record[e].noShow)]
      BY <1>6 DEF DecideLeave
    <3> QED BY <2>2, <2>3, <3>1
  <2>7. ASSUME e \notin typed
        PROVE  IF Of(stretches, e) # {} THEN R = Punched(stretches, e)'
               ELSE R.noShow /\ R.hours = Nothing /\ R.start = Nothing
    <3>1. CASE Of(stretches, e) # {}
      <4>1. record[e] = Punched(stretches, e)
        BY <1>6, <2>7, <3>1 DEF ClockInv, RecordsFollowTheClock
      <4>2. start = FirstIn(Of(stretches, e)) /\ end = LastOut(Of(stretches, e)) /\ b = FALSE
        BY <2>2, <4>1 DEF Punched, Derived
      <4>3. Punched(stretches, e)' = Derived(stretches, excused', e, FirstIn(Of(stretches, e)),
                                             LastOut(Of(stretches, e)), FALSE)
        BY <1>1 DEF Punched, Derived
      <4> QED BY <2>3, <3>1, <4>2, <4>3
    <3>2. CASE Of(stretches, e) = {}
      <4>1. record[e].noShow /\ record[e].start = Nothing
        BY <1>6, <2>7, <3>2 DEF ClockInv, RecordsFollowTheClock
      <4> QED BY <2>2, <2>3, <3>2, <4>1 DEF Derived, Hours
    <3> QED BY <3>1, <3>2
  <2>8. /\ TimesMakeSense(R.start, R.end)
        /\ UNCHANGED <<now, roster, stretches, locked>>
        /\ typed' \in {typed, typed \cup {e}}
        /\ e \notin typed' =>
             IF Of(stretches, e) # {} THEN R = Punched(stretches, e)'
             ELSE R.noShow /\ R.hours = Nothing /\ R.start = Nothing
    <3>1. typed' = typed
      BY <1>1
    <3>2. TimesMakeSense(R.start, R.end)
      BY <2>1, <2>2, <2>5
    <3> QED BY <1>1, <2>7, <3>1, <3>2
  <2> QED BY <1>2, <1>3, <1>6, <2>5, <2>6, <2>8, RewriteKeepsTheInv
<1> QED BY <1>5, <1>6

(* The roster, the locks and the time move on; the punches and the records *)
(* stay.                                                                   *)
LEMMA OthersKeepTheInv ==
  ASSUME ClockInv, UNCHANGED <<stretches, record, excused, typed>>,
         now' \in Instants, now <= now', locked \subseteq locked', locked' \subseteq ClockDays,
         roster' \in [ClockDays -> [Slots -> Shifts \cup {Nothing}]], edits' \in 0 .. MaxEdits
  PROVE  ClockInv' /\ PaidDaysKeepTheirRecordStep
<1>1. ClockTypeOK'
  BY DEF ClockInv, ClockTypeOK
<1>2. WellLaid(stretches, now)'
  <2>1. now \in Nat /\ now' \in Nat /\ stretches \subseteq Stretch /\ WellLaid(stretches, now)
    BY ClockNumbers DEF ClockInv, ClockTypeOK
  <2>2. \A s \in stretches : s.in \in Nat /\ (s.out # Nothing => s.out \in Nat)
    BY <2>1, ClockNumbers DEF Stretch
  <2>3. \A s \in stretches : s.in <= now' /\ (s.out # Nothing => s.in <= s.out /\ s.out <= now')
    <3> SUFFICES ASSUME NEW s \in stretches
                 PROVE  s.in <= now' /\ (s.out # Nothing => s.in <= s.out /\ s.out <= now')
      OBVIOUS
    <3>1. s.in <= now /\ (s.out # Nothing => s.in <= s.out /\ s.out <= now)
      BY <2>1 DEF WellLaid, LaidOut
    <3> QED BY <2>1, <2>2, <3>1
  <2> QED BY <2>1, <2>3 DEF WellLaid, LaidOut
<1>3. \A d : Punched(stretches, d)' = Punched(stretches, d)
  BY DEF Punched, Derived
<1>4. RecordsFollowTheClock'
  BY <1>3 DEF ClockInv, RecordsFollowTheClock
<1> QED BY <1>1, <1>2, <1>4 DEF ClockInv, PaidDaysKeepTheirRecordStep

(* The clock starts with nothing on it, and every step keeps it true.      *)
LEMMA ClockInitInv == ClockInit => ClockInv
<1> SUFFICES ASSUME ClockInit PROVE ClockInv
  OBVIOUS
<1>1. now \in Instants
  BY ClockNumbers DEF ClockInit, Instants
<1>2. ClockTypeOK
  BY <1>1, TimeClockAssumption DEF ClockInit, ClockTypeOK
<1>3. WellLaid(stretches, now)
  BY FS_EmptySet DEF ClockInit, WellLaid, LaidOut
<1>4. \A d \in ClockDays : Of(stretches, d) = {} /\ record[d] = Nothing
  BY DEF ClockInit, Of
<1> QED BY <1>2, <1>3, <1>4 DEF ClockInv, RecordsFollowTheClock

LEMMA ClockStep == ClockInv /\ [ClockNext]_clockVars => ClockInv' /\ PaidDaysKeepTheirRecordStep
<1> SUFFICES ASSUME ClockInv, [ClockNext]_clockVars PROVE ClockInv' /\ PaidDaysKeepTheirRecordStep
  OBVIOUS
<1>1. ClockTypeOK /\ now \in Nat /\ \A d \in ClockDays : roster[d] \in [Slots -> Shifts \cup {Nothing}]
  BY ClockNumbers DEF ClockInv, ClockTypeOK
<1>2. ASSUME NEW d \in ClockDays, NEW i \in Slots, NEW s \in Shifts, Plan(d, i, s)
      PROVE  ClockInv' /\ PaidDaysKeepTheirRecordStep
  <2>1. /\ UNCHANGED <<now, stretches, record, excused, locked, typed>>
        /\ edits < MaxEdits /\ edits' = edits + 1 /\ roster' = [roster EXCEPT ![d][i] = s]
    BY <1>2 DEF Plan
  <2>2. edits' \in 0 .. MaxEdits
    BY <2>1, OneMoreEdit
  <2>3. roster' \in [ClockDays -> [Slots -> Shifts \cup {Nothing}]]
    BY <1>1, <2>1 DEF ClockTypeOK
  <2>4. now' \in Instants /\ now <= now' /\ locked \subseteq locked' /\ locked' \subseteq ClockDays
    BY <1>1, <2>1 DEF ClockTypeOK
  <2> QED BY <2>1, <2>2, <2>3, <2>4, OthersKeepTheInv
<1>3. ASSUME NEW d \in ClockDays, Lock(d)
      PROVE  ClockInv' /\ PaidDaysKeepTheirRecordStep
  <2>1. /\ UNCHANGED <<now, roster, stretches, record, excused, typed>>
        /\ edits < MaxEdits /\ edits' = edits + 1 /\ locked' = locked \cup {d}
    BY <1>3 DEF Lock
  <2>2. edits' \in 0 .. MaxEdits
    BY <2>1, OneMoreEdit
  <2>3. /\ now' \in Instants /\ now <= now' /\ locked \subseteq locked' /\ locked' \subseteq ClockDays
        /\ roster' \in [ClockDays -> [Slots -> Shifts \cup {Nothing}]]
    BY <1>1, <2>1 DEF ClockTypeOK
  <2> QED BY <2>1, <2>2, <2>3, OthersKeepTheInv
<1>4. ASSUME Tick PROVE ClockInv' /\ PaidDaysKeepTheirRecordStep
  <2>1. UNCHANGED <<roster, stretches, record, excused, locked, typed, edits>> /\ now < LastInstant /\ now' = now + 1
    BY <1>4 DEF Tick
  <2>2. now' \in Instants /\ now <= now'
    BY <1>1, <2>1, ClockNumbers DEF Instants
  <2>3. /\ locked \subseteq locked' /\ locked' \subseteq ClockDays /\ edits' \in 0 .. MaxEdits
        /\ roster' \in [ClockDays -> [Slots -> Shifts \cup {Nothing}]]
    BY <1>1, <2>1 DEF ClockTypeOK
  <2> QED BY <2>1, <2>2, <2>3, OthersKeepTheInv
<1>5. ASSUME UNCHANGED clockVars PROVE ClockInv' /\ PaidDaysKeepTheirRecordStep
  <2>1. UNCHANGED <<now, roster, stretches, record, excused, locked, typed, edits>>
    BY <1>5 DEF clockVars
  <2>2. /\ now' \in Instants /\ now <= now' /\ locked \subseteq locked' /\ locked' \subseteq ClockDays
        /\ roster' \in [ClockDays -> [Slots -> Shifts \cup {Nothing}]] /\ edits' \in 0 .. MaxEdits
    BY <1>1, <2>1 DEF ClockTypeOK
  <2> QED BY <2>1, <2>2, OthersKeepTheInv
<1>6. ASSUME OtherPeople PROVE ClockInv' /\ PaidDaysKeepTheirRecordStep
  <2>1. PICK d \in ClockDays :
          \/ \E t \in Typed : TypeIn(d, StartOf(d, t), EndOf(d, t))
          \/ \E i \in Slots : Delete(d, i) \/ \E s \in Shifts : Plan(d, i, s)
          \/ DecideLeave(d)
          \/ Lock(d)
    BY <1>6 DEF OtherPeople
  <2> QED BY <1>2, <1>3, <2>1, TypeInKeepsTheInv, DeleteKeepsTheInv, DecideLeaveKeepsTheInv
<1> QED
  BY <1>4, <1>5, <1>6, ClockInKeepsTheInv, ClockOutKeepsTheInv, CloseAndMarkKeepsTheInv DEF ClockNext, Punches

(* Hours count once, on the record of the day they were worked, and what   *)
(* was paid for stays as it was paid: whatever is forgotten, typed in,     *)
(* planned anew or decided meanwhile, in whichever order.                  *)
THEOREM HoursTheorem == ClockSpec => HoursAreTrue
<1>1. ClockInv => ClockTypeOK /\ NoHourCountsTwice /\ RecordsFollowTheClock
  BY DEF ClockInv, WellLaid, LaidOut, NoHourCountsTwice
<1>2. ClockInv /\ [ClockNext]_clockVars => [PaidDaysKeepTheirRecordStep]_clockVars
  BY ClockStep
<1>3. ClockInv /\ [ClockNext]_clockVars => ClockInv'
  BY ClockStep
<1> QED BY <1>1, <1>2, <1>3, ClockInitInv, PTL DEF ClockSpec, HoursAreTrue, PaidDaysKeepTheirRecord

-----------------------------------------------------------------------------
(* Payslips.                                                               *)

(* Of a number of minutes, the whole days and the rest.                    *)
LEMMA Divided ==
  ASSUME NEW n \in Nat \ {0}, NEW t \in Int
  PROVE  /\ t \div n \in Int /\ t % n \in 0 .. n - 1
         /\ t = n * (t \div n) + (t % n)
  OBVIOUS

LEMMA DividedOnce ==
  ASSUME NEW n \in Nat \ {0}, NEW q \in Int, NEW k \in 0 .. n - 1
  PROVE  (n * q + k) \div n = q /\ (n * q + k) % n = k
  OBVIOUS

LEMMA TimesMore ==
  ASSUME NEW n \in Nat \ {0}, NEW p \in Int, NEW q \in Int, p < q
  PROVE  n * p + n <= n * q
  OBVIOUS

LEMMA TimesOneMore ==
  ASSUME NEW n \in Int, NEW p \in Int
  PROVE  n * (p + 1) = n * p + n
  OBVIOUS

(* The minutes of a stretch.                                               *)
Minutes(s, e) == s .. e - 1
ThoseIn(s, e, from, to) == {t \in Minutes(s, e) : from <= t /\ t < to}

LEMMA OverlapCounts ==
  ASSUME NEW s \in Int, NEW e \in Int, NEW from \in Int, NEW to \in Int
  PROVE  IsFiniteSet(ThoseIn(s, e, from, to)) /\ Overlap(s, e, from, to) = Cardinality(ThoseIn(s, e, from, to))
<1> DEFINE a == Most(s, from)
           b == Least(e, to) - 1
<1>1. a \in Int /\ b \in Int
  BY DEF Most, Least
<1>2. ThoseIn(s, e, from, to) = a .. b
  BY DEF ThoseIn, Minutes, Most, Least
<1>3. Overlap(s, e, from, to) = IF a > b THEN 0 ELSE b - a + 1
  BY DEF Overlap, Most, Least
<1> HIDE DEF a, b
<1>4. IsFiniteSet(a .. b) /\ Cardinality(a .. b) = IF a > b THEN 0 ELSE b - a + 1
  BY <1>1, FS_Interval
<1> QED BY <1>2, <1>3, <1>4

(* The night that a minute would belong to.                                *)
NightAt(t) == IF window[1] < window[2] \/ t % Day >= window[1] THEN t \div Day ELSE (t \div Day) - 1

LEMMA OneNight ==
  ASSUME window \in Windows, window[1] # window[2], NEW t \in Int, NEW d \in Int
  PROVE  /\ NightAt(t) \in Int
         /\ (NightOf(d)[1] <= t /\ t < NightOf(d)[2]) <=> (AtNight(t) /\ d = NightAt(t))
<1> DEFINE q == t \div Day
           m == t % Day
           a == window[1]
           b == window[2]
           base == Day * d
<1>1. Day \in Nat \ {0} /\ a \in 0 .. Day - 1 /\ b \in 0 .. Day - 1 /\ a # b
  BY FiguresAssumption
<1>2. q \in Int /\ m \in 0 .. Day - 1 /\ t = Day * q + m
  BY <1>1, Divided
<1>3. base \in Int /\ d * Day = base
  BY <1>1
<1>4. /\ NightOf(d)[1] = base + a
      /\ NightOf(d)[2] = IF a < b THEN base + b ELSE base + b + Day
  <2>1. NightOf(d) = <<base + a, IF base + b <= base + a THEN base + b + Day ELSE base + b>>
    BY <1>3 DEF NightOf, EndsAfter
  <2>2. base + b <= base + a <=> ~(a < b)
    <3> HIDE DEF base, a, b
    <3> QED BY <1>1, <1>3
  <2> QED BY <2>1, <2>2
<1>5. AtNight(t) <=> IF a < b THEN a <= m /\ m < b ELSE m >= a \/ m < b
  BY <1>1 DEF AtNight
<1>6. NightAt(t) = IF a < b \/ m >= a THEN q ELSE q - 1
  BY DEF NightAt
<1> DEFINE at == Day * q
<1>7. t = at + m /\ at \in Int
  BY <1>1, <1>2
<1>8. /\ d = q => base = at
      /\ d = q - 1 => base = at - Day
      /\ d > q => base >= at + Day
      /\ d < q - 1 => base <= at - Day - Day
  <2>1. d = q - 1 => base = at - Day
    <3>1. SUFFICES ASSUME d = q - 1 PROVE base = at - Day
      OBVIOUS
    <3>2. Day * (d + 1) = Day * d + Day /\ q = d + 1
      BY <1>1, <1>2, <3>1, TimesOneMore
    <3> QED BY <1>1, <1>3, <1>7, <3>2
  <2>2. d > q => base >= at + Day
    BY <1>1, <1>2, <1>3, <1>7, TimesMore
  <2>3. d < q - 1 => base <= at - Day - Day
    <3>1. SUFFICES ASSUME d < q - 1 PROVE base <= at - Day - Day
      OBVIOUS
    <3>2. d + 1 \in Int /\ d + 1 < q
      BY <1>2, <3>1
    <3>3. Day * (d + 1) + Day <= at /\ Day * (d + 1) = base + Day
      BY <1>1, <1>2, <3>2, TimesMore, TimesOneMore
    <3> QED BY <1>1, <1>3, <1>7, <3>3
  <2> QED BY <2>1, <2>2, <2>3
<1> HIDE DEF q, m, a, b, base, at
<1>9. d = q \/ d = q - 1 \/ d > q \/ d < q - 1
  BY <1>2
<1>10. (NightOf(d)[1] <= t /\ t < NightOf(d)[2]) <=> (AtNight(t) /\ d = NightAt(t))
  <2>1. CASE a < b
    BY <1>1, <1>2, <1>3, <1>4, <1>5, <1>6, <1>7, <1>8, <1>9, <2>1
  <2>2. CASE ~(a < b)
    BY <1>1, <1>2, <1>3, <1>4, <1>5, <1>6, <1>7, <1>8, <1>9, <2>2
  <2> QED BY <2>1, <2>2
<1> QED BY <1>2, <1>6, <1>10

(* The nights hold the night minutes of a stretch, if none is left out.    *)
LEMMA NightsHold ==
  ASSUME window \in Windows, window[1] # window[2], NEW s \in Int, NEW e \in Int,
         NEW D, D \subseteq Int, IsFiniteSet(D),
         \A t \in Minutes(s, e) : AtNight(t) => NightAt(t) \in D
  PROVE  /\ IsFiniteSet({t \in Minutes(s, e) : AtNight(t)})
         /\ SumFunction([d \in D |-> Overlap(s, e, NightOf(d)[1], NightOf(d)[2])])
              = Cardinality({t \in Minutes(s, e) : AtNight(t)})
<1> DEFINE A == [d \in D |-> ThoseIn(s, e, NightOf(d)[1], NightOf(d)[2])]
           f == [d \in D |-> Overlap(s, e, NightOf(d)[1], NightOf(d)[2])]
<1>0. \A t \in Minutes(s, e) : t \in Int
  BY DEF Minutes
<1>1. \A d \in D : NightOf(d)[1] \in Int /\ NightOf(d)[2] \in Int
  BY FiguresAssumption DEF NightOf, EndsAfter
<1>2. \A d \in D : IsFiniteSet(A[d]) /\ f[d] = Cardinality(A[d])
  BY <1>1, OverlapCounts
<1>3. \A d \in D : \A t : t \in A[d] <=> t \in Minutes(s, e) /\ AtNight(t) /\ d = NightAt(t)
  <2> SUFFICES ASSUME NEW d \in D, NEW t
               PROVE  t \in A[d] <=> t \in Minutes(s, e) /\ AtNight(t) /\ d = NightAt(t)
    OBVIOUS
  <2>1. t \in A[d] <=> t \in Minutes(s, e) /\ NightOf(d)[1] <= t /\ t < NightOf(d)[2]
    BY DEF ThoseIn
  <2>2. t \in Minutes(s, e) =>
          ((NightOf(d)[1] <= t /\ t < NightOf(d)[2]) <=> (AtNight(t) /\ d = NightAt(t)))
    BY <1>0, OneNight
  <2> QED BY <2>1, <2>2
<1> HIDE DEF A
<1>4. \A x, y \in D : x # y => A[x] \cap A[y] = {}
  BY <1>3
<1>5. UNION {A[d] : d \in D} = {t \in Minutes(s, e) : AtNight(t)}
  <2>1. ASSUME NEW t \in Minutes(s, e), AtNight(t) PROVE t \in A[NightAt(t)] /\ NightAt(t) \in D
    BY <1>3, <2>1
  <2>2. \A d \in D : \A t \in A[d] : t \in Minutes(s, e) /\ AtNight(t)
    BY <1>3
  <2> QED BY <2>1, <2>2
<1>6. /\ IsFiniteSet(UNION {A[d] : d \in D})
      /\ Cardinality(UNION {A[d] : d \in D}) = SumFunctionOnSet(f, D)
  <2> HIDE DEF f
  <2> QED BY <1>2, <1>4, PartsAddUp
<1>7. SumFunction(f) = SumFunctionOnSet(f, D)
  BY DEF SumFunction
<1> HIDE DEF f
<1> QED BY <1>5, <1>6, <1>7 DEF f

NightMinutesIn(s, e) == {t \in Minutes(s, e) : AtNight(t)}

LEMMA DivisionIsMonotone ==
  ASSUME NEW n \in Nat \ {0}, NEW a \in Int, NEW b \in Int, a <= b
  PROVE  a \div n <= b \div n
<1> DEFINE p == a \div n
           q == b \div n
<1>1. p \in Int /\ q \in Int /\ a % n \in 0 .. n - 1 /\ b % n \in 0 .. n - 1
      /\ a = n * p + (a % n) /\ b = n * q + (b % n)
  BY Divided
<1> HIDE DEF p, q
<1>2. q < p => n * q + n <= n * p
  BY <1>1, TimesMore
<1>3. n * p \in Int /\ n * q \in Int
  BY <1>1
<1>4. ~(q < p)
  <2> DEFINE u == n * p
             v == n * q
             x == a % n
             y == b % n
  <2>1. u \in Int /\ v \in Int /\ x \in 0 .. n - 1 /\ y \in 0 .. n - 1 /\ u + x <= v + y /\ (q < p => v + n <= u)
    BY <1>1, <1>2, <1>3
  <2> HIDE DEF u, v, x, y
  <2> QED BY <2>1
<1> QED BY <1>1, <1>4 DEF p, q

LEMMA NightsOfAStretch ==
  ASSUME window \in Windows, NEW s \in Int, NEW e \in Int
  PROVE  /\ IsFiniteSet(NightMinutesIn(s, e))
         /\ window[1] # window[2] => NightMinutesOf(s, e) = Cardinality(NightMinutesIn(s, e))
         /\ window[1] = window[2] => NightMinutesIn(s, e) = {}
<1>1. IsFiniteSet(Minutes(s, e))
  BY FS_Interval DEF Minutes
<1>2. IsFiniteSet(NightMinutesIn(s, e))
  <2>1. NightMinutesIn(s, e) \in SUBSET Minutes(s, e)
    BY DEF NightMinutesIn
  <2> QED BY <1>1, <2>1, FS_Subset
<1>3. ASSUME window[1] # window[2] PROVE NightMinutesOf(s, e) = Cardinality(NightMinutesIn(s, e))
  <2> DEFINE D == NightsAround(s, e)
  <2>1. Day \in Nat \ {0} /\ s \div Day \in Int /\ e \div Day \in Int
    BY FiguresAssumption, Divided
  <2>2. D \subseteq Int /\ IsFiniteSet(D)
    BY <2>1, FS_Interval DEF NightsAround
  <2>3. ASSUME NEW t \in Minutes(s, e) PROVE NightAt(t) \in D
    <3>1. t \in Int /\ s <= t /\ t <= e
      BY DEF Minutes
    <3>2. s \div Day <= t \div Day /\ t \div Day <= e \div Day /\ t \div Day \in Int
      BY <2>1, <3>1, Divided, DivisionIsMonotone
    <3> QED BY <2>1, <3>2 DEF NightAt, NightsAround
  <2> HIDE DEF D
  <2>4. SumFunction([d \in D |-> Overlap(s, e, NightOf(d)[1], NightOf(d)[2])])
              = Cardinality({t \in Minutes(s, e) : AtNight(t)})
    BY <1>3, <2>2, <2>3, NightsHold
  <2> QED BY <2>4 DEF D, NightMinutesOf, NightMinutesIn
<1>4. ASSUME window[1] = window[2] PROVE NightMinutesIn(s, e) = {}
  <2>1. window[1] \in Int
    BY FiguresAssumption
  <2>2. ASSUME NEW t \in Minutes(s, e) PROVE ~AtNight(t)
    <3>1. t % Day \in Int
      BY FiguresAssumption, Divided DEF Minutes
    <3> QED BY <1>4, <2>1, <3>1 DEF AtNight
  <2> QED BY <2>2 DEF NightMinutesIn
<1> QED BY <1>2, <1>3, <1>4

(* What was worked: one stretch, or two of which one follows the other.    *)
LEMMA WhatWasWorked ==
  ASSUME FigureTypeOK
  PROVE  /\ DOMAIN pieces = 1 .. Len(pieces) /\ Len(pieces) \in 0 .. 2
         /\ IsFiniteSet(DOMAIN pieces)
         /\ \A i \in DOMAIN pieces : /\ pieces[i][1] \in 0 .. Day - 1 /\ pieces[i][2] \in 1 .. 2 * Day
                                     /\ pieces[i][1] < pieces[i][2] /\ pieces[i][2] - pieces[i][1] <= Day
         /\ \A i, j \in DOMAIN pieces : i # j => Minutes(pieces[i][1], pieces[i][2])
                                                   \cap Minutes(pieces[j][1], pieces[j][2]) = {}
<1> DEFINE one == {p \in (0..(Day - 1)) \X (1..(2 * Day)) : p[1] < p[2] /\ p[2] - p[1] <= Day}
<1>0. Day \in Nat \ {0}
  BY FiguresAssumption
<1>1. pieces = <<>> \/ (\E p \in one : pieces = <<p>>) \/ (\E p, q \in one : pieces = <<p, q>>)
  BY DEF FigureTypeOK, Stretches
<1>2. \A p \in one : /\ p[1] \in 0 .. Day - 1 /\ p[2] \in 1 .. 2 * Day
                     /\ p[1] < p[2] /\ p[2] - p[1] <= Day
  OBVIOUS
<1> HIDE DEF one
<1>3. /\ DOMAIN pieces = 1 .. Len(pieces) /\ Len(pieces) \in 0 .. 2
      /\ \A i \in DOMAIN pieces : pieces[i] \in one
  BY <1>1
<1>4. IsFiniteSet(DOMAIN pieces)
  BY <1>3, FS_Interval
<1>5. ASSUME NEW i \in DOMAIN pieces, NEW j \in DOMAIN pieces, i < j
      PROVE  Minutes(pieces[i][1], pieces[i][2]) \cap Minutes(pieces[j][1], pieces[j][2]) = {}
  <2>1. i = 1 /\ j = 2
    BY <1>3, <1>5
  <2>2. pieces[1][2] <= pieces[2][1]
    BY <2>1 DEF FigureTypeOK, InTurn
  <2>3. pieces[1][2] \in Int /\ pieces[2][1] \in Int /\ pieces[2][2] \in Int /\ pieces[1][1] \in Int
    BY <1>0, <1>2, <1>3, <2>1
  <2> QED BY <2>1, <2>2, <2>3 DEF Minutes
<1>6. \A i, j \in DOMAIN pieces : i # j => i < j \/ j < i
  BY <1>3
<1>7. \A i, j \in DOMAIN pieces : i # j => Minutes(pieces[i][1], pieces[i][2])
                                            \cap Minutes(pieces[j][1], pieces[j][2]) = {}
  <2> SUFFICES ASSUME NEW i \in DOMAIN pieces, NEW j \in DOMAIN pieces, i # j
               PROVE Minutes(pieces[i][1], pieces[i][2]) \cap Minutes(pieces[j][1], pieces[j][2]) = {}
    OBVIOUS
  <2>1. CASE i < j
    BY <1>5, <2>1
  <2>2. CASE j < i
    BY <1>5, <2>2
  <2> QED BY <1>6, <2>1, <2>2
<1> QED BY <1>2, <1>3, <1>4, <1>7

(* What is counted of each stretch adds up to what is counted of the day.  *)
LEMMA StretchesAddUp ==
  ASSUME FigureTypeOK, NEW Q,
         NEW f, \A i \in DOMAIN pieces :
                  /\ IsFiniteSet({t \in Minutes(pieces[i][1], pieces[i][2]) : t \in Q})
                  /\ f[i] = Cardinality({t \in Minutes(pieces[i][1], pieces[i][2]) : t \in Q})
  PROVE  SumFunctionOnSet(f, DOMAIN pieces) = Cardinality({t \in MinutesOf(pieces) : t \in Q})
<1> DEFINE S == DOMAIN pieces
           A == [i \in S |-> {t \in Minutes(pieces[i][1], pieces[i][2]) : t \in Q}]
<1>1. \A i \in S : IsFiniteSet(A[i]) /\ f[i] = Cardinality(A[i])
  OBVIOUS
<1>2. \A x, y \in S : x # y => A[x] \cap A[y] = {}
  BY WhatWasWorked
<1>3. UNION {A[i] : i \in S} = {t \in MinutesOf(pieces) : t \in Q}
  BY DEF MinutesOf, Minutes
<1>4. IsFiniteSet(S)
  BY WhatWasWorked
<1> HIDE DEF A, S
<1>5. Cardinality(UNION {A[i] : i \in S}) = SumFunctionOnSet(f, S)
  BY <1>1, <1>2, <1>4, PartsAddUp
<1> QED BY <1>3, <1>5 DEF S

(* Every worked minute counts once, in the night and on its date.          *)
LEMMA MinutesCountOnce ==
  ASSUME FigureTypeOK
  PROVE  EveryMinuteCountsOnce
<1>0. Day \in Nat \ {0} /\ window \in Windows
  BY FiguresAssumption DEF FigureTypeOK
<1> DEFINE S == DOMAIN pieces
<1>1. \A i \in S : pieces[i][1] \in Int /\ pieces[i][2] \in Int
  BY <1>0, WhatWasWorked
<1>2. NightMinutes(pieces) = Cardinality({t \in MinutesOf(pieces) : AtNight(t)})
  <2> DEFINE Q == {t \in Int : AtNight(t)}
  <2>1. ASSUME NEW i \in S
        PROVE  {t \in Minutes(pieces[i][1], pieces[i][2]) : t \in Q} = NightMinutesIn(pieces[i][1], pieces[i][2])
    BY <1>1 DEF NightMinutesIn, Minutes
  <2>2. {t \in MinutesOf(pieces) : t \in Q} = {t \in MinutesOf(pieces) : AtNight(t)}
    BY <1>1 DEF MinutesOf
  <2>3. CASE window[1] = window[2]
    <3>1. \A i \in S : \A t \in Minutes(pieces[i][1], pieces[i][2]) : ~AtNight(t)
      BY <1>0, <1>1, <2>3, NightsOfAStretch DEF NightMinutesIn
    <3>2. {t \in MinutesOf(pieces) : AtNight(t)} = {}
      BY <3>1 DEF MinutesOf, Minutes
    <3>3. Cardinality({t \in MinutesOf(pieces) : AtNight(t)}) = 0
      BY <3>2, FS_EmptySet
    <3> QED BY <2>3, <3>3 DEF NightMinutes
  <2>4. CASE window[1] # window[2]
    <3> DEFINE f == [i \in S |-> NightMinutesOf(pieces[i][1], pieces[i][2])]
    <3>1. \A i \in S : /\ IsFiniteSet({t \in Minutes(pieces[i][1], pieces[i][2]) : t \in Q})
                       /\ f[i] = Cardinality({t \in Minutes(pieces[i][1], pieces[i][2]) : t \in Q})
      BY <1>0, <1>1, <2>1, <2>4, NightsOfAStretch
    <3>2. NightMinutes(pieces) = SumFunctionOnSet(f, S)
      BY <2>4 DEF NightMinutes, SumFunction
    <3> HIDE DEF f, Q
    <3>3. SumFunctionOnSet(f, DOMAIN pieces) = Cardinality({t \in MinutesOf(pieces) : t \in Q})
      BY <3>1, StretchesAddUp
    <3> QED BY <2>2, <3>2, <3>3
  <2> QED BY <2>3, <2>4
<1>3. ASSUME NEW d \in 0 .. 2
      PROVE  MinutesOn(d, pieces) = Cardinality({t \in MinutesOf(pieces) : t \div Day = d})
  <2> DEFINE Q == {t \in Int : t \div Day = d}
             from == d * Day
             to == (d + 1) * Day
             f == [i \in S |-> Overlap(pieces[i][1], pieces[i][2], d * Day, (d + 1) * Day)]
  <2>1. from \in Int /\ to \in Int /\ from = Day * d /\ to = Day * d + Day
    BY <1>0
  <2>2. ASSUME NEW t \in Int PROVE t \div Day = d <=> from <= t /\ t < to
    <3> DEFINE q == t \div Day
               m == t % Day
    <3>1. q \in Int /\ m \in 0 .. Day - 1 /\ t = Day * q + m /\ Day * q \in Int
      BY <1>0, Divided
    <3>2. q < d => Day * q + Day <= Day * d
      BY <1>0, <3>1, TimesMore
    <3>3. d < q => Day * d + Day <= Day * q
      BY <1>0, <3>1, TimesMore
    <3> DEFINE u == Day * q
    <3>4. (q < d => u + Day <= from) /\ (d < q => from + Day <= u) /\ (q = d => u = from) /\ to = from + Day
          /\ u \in Int /\ t = u + m
      BY <2>1, <3>1, <3>2, <3>3
    <3> HIDE DEF q, m, u, from, to
    <3>5. q = d <=> from <= t /\ t < to
      BY <1>0, <2>1, <3>1, <3>4
    <3> QED BY <3>5 DEF q
  <2>3. \A i \in S : /\ IsFiniteSet(ThoseIn(pieces[i][1], pieces[i][2], from, to))
                     /\ f[i] = Cardinality(ThoseIn(pieces[i][1], pieces[i][2], from, to))
    BY <1>1, <2>1, OverlapCounts
  <2>4. ASSUME NEW i \in S
        PROVE  {t \in Minutes(pieces[i][1], pieces[i][2]) : t \in Q} = ThoseIn(pieces[i][1], pieces[i][2], from, to)
    BY <1>1, <2>2 DEF ThoseIn, Minutes
  <2>5. MinutesOn(d, pieces) = SumFunctionOnSet(f, S)
    BY DEF MinutesOn, SumFunction
  <2>6. {t \in MinutesOf(pieces) : t \in Q} = {t \in MinutesOf(pieces) : t \div Day = d}
    BY <1>1 DEF MinutesOf
  <2> HIDE DEF f, Q
  <2>7. SumFunctionOnSet(f, DOMAIN pieces) = Cardinality({t \in MinutesOf(pieces) : t \in Q})
    BY <2>3, <2>4, StretchesAddUp
  <2> QED BY <2>5, <2>6, <2>7
<1>4. ASSUME Len(pieces) = 1
      PROVE  NightOfShift(pieces[1][1], pieces[1][2] % Day) = NightMinutes(pieces)
  <2> DEFINE s == pieces[1][1]
             e == pieces[1][2]
  <2>1. s \in 0 .. Day - 1 /\ e \in 1 .. 2 * Day /\ s < e /\ e - s <= Day /\ S = {1} /\ 1 \in S
    BY <1>4, WhatWasWorked
  <2>2. EndsAfter(s, e % Day) = e
    <3>1. CASE e < Day
      <4>0. Day \in Nat \ {0} /\ e \in 0 .. Day - 1 /\ 0 \in Int /\ Day * 0 + e = e
        BY <1>0, <2>1, <3>1
      <4>1. e % Day = e
        <5> HIDE DEF e
        <5>1. (Day * 0 + e) % Day = e
          BY <4>0, DividedOnce
        <5> QED BY <4>0, <5>1
      <4> QED BY <2>1, <4>1 DEF EndsAfter
    <3>2. CASE e >= Day
      <4> DEFINE k == e - Day
      <4>1. k \in 0 .. Day - 1 /\ Day * 1 + k = e
        BY <1>0, <2>1, <3>2
      <4>2. (Day * 1 + k) % Day = k
        <5> HIDE DEF k
        <5>1. Day \in Nat \ {0} /\ 1 \in Int
          BY <1>0
        <5> QED BY <4>1, <5>1, DividedOnce
      <4>3. e % Day = e - Day
        BY <4>1, <4>2
      <4>4. s \in Int /\ e \in Int /\ e - Day <= s /\ (e - Day) + Day = e
        BY <1>0, <2>1
      <4> QED BY <4>3, <4>4 DEF EndsAfter
    <3> QED BY <1>0, <2>1, <3>1, <3>2
  <2>3. CASE window[1] = window[2]
    BY <2>3 DEF NightOfShift, NightMinutes
  <2>4. CASE window[1] # window[2]
    <3>1. IsFiniteSet(-1 .. 1) /\ -1 .. 1 \subseteq Int
      <4>1. -1 .. 1 = {-1, 0, 1}
        OBVIOUS
      <4>2. IsFiniteSet({0}) /\ IsFiniteSet({0} \cup {1}) /\ IsFiniteSet(({0} \cup {1}) \cup {-1})
        BY FS_Singleton, FS_AddElement
      <4> QED BY <4>1, <4>2
    <3>2. ASSUME NEW t \in Minutes(s, e) PROVE NightAt(t) \in -1 .. 1
      <4>1. t \in Int /\ 0 <= t /\ t <= Day * 1 + (Day - 1)
        BY <1>0, <2>1 DEF Minutes
      <4>2. 0 \div Day = 0 /\ (Day * 1 + (Day - 1)) \div Day = 1
        <5>1. (Day * 0 + 0) \div Day = 0 /\ Day * 0 + 0 = 0
          BY <1>0, DividedOnce
        <5>2. Day - 1 \in 0 .. Day - 1
          BY <1>0
        <5>3. (Day * 1 + (Day - 1)) \div Day = 1
          BY <1>0, <5>2, DividedOnce
        <5> QED BY <5>1, <5>3
      <4>3. 0 <= t \div Day /\ t \div Day <= 1 /\ t \div Day \in Int
        <5>1. 0 \div Day <= t \div Day
          BY <1>0, <4>1, DivisionIsMonotone
        <5>2. Day * 1 + (Day - 1) \in Int
          BY <1>0
        <5>3. t \div Day <= (Day * 1 + (Day - 1)) \div Day
          BY <1>0, <4>1, <5>2, DivisionIsMonotone
        <5> QED BY <1>0, <4>1, <4>2, <5>1, <5>3, Divided
      <4> QED BY <4>3 DEF NightAt
    <3>3. NightOfShift(s, e % Day) = Cardinality(NightMinutesIn(s, e))
      <4> DEFINE D == -1 .. 1
      <4>1. NightOfShift(s, e % Day) = SumFunction([d \in D |-> Overlap(s, e, NightOf(d)[1], NightOf(d)[2])])
        BY <2>2, <2>4 DEF NightOfShift
      <4>2. D \subseteq Int /\ IsFiniteSet(D) /\ \A t \in Minutes(s, e) : AtNight(t) => NightAt(t) \in D
        BY <3>1, <3>2
      <4>3. s \in Int /\ e \in Int
        BY <2>1
      <4> HIDE DEF D, s, e
      <4>4. SumFunction([d \in D |-> Overlap(s, e, NightOf(d)[1], NightOf(d)[2])])
              = Cardinality({t \in Minutes(s, e) : AtNight(t)})
        BY <1>0, <2>4, <4>2, <4>3, NightsHold
      <4> QED BY <4>1, <4>4 DEF NightMinutesIn
    <3>4. {t \in MinutesOf(pieces) : AtNight(t)} = NightMinutesIn(s, e)
      BY <2>1 DEF MinutesOf, NightMinutesIn, Minutes
    <3> QED BY <1>2, <3>3, <3>4
  <2> QED BY <2>3, <2>4
<1> QED BY <1>2, <1>3, <1>4 DEF EveryMinuteCountsOnce

(* An accepted table runs upwards: no row starts before an earlier one     *)
(* ends.                                                                   *)
LEMMA TablesRunUpwards ==
  ASSUME bands \in Seq(Brackets), Accepted(bands)
  PROVE  \A i \in DOMAIN bands :
           /\ bands[i].over \in Int /\ (i < Len(bands) => bands[i].upTo \in Int)
           /\ \A j \in 1 .. i - 1 : bands[j].upTo \in Int /\ bands[j].upTo <= bands[i].over
<1> DEFINE n == Len(bands)
<1>1. n \in Nat /\ DOMAIN bands = 1 .. n
  OBVIOUS
<1>2. ASSUME NEW i \in 1 .. n
      PROVE  /\ bands[i].over \in Int
             /\ i < n => bands[i].upTo \in Int /\ bands[i].upTo > bands[i].over
             /\ i > 1 => bands[i].over = bands[i - 1].upTo
  <2>1. bands[i] \in Brackets
    BY <1>1
  <2>2. bands[i].over \in Int /\ bands[i].upTo \in Int \cup {NoUpperEnd}
    BY <2>1 DEF Brackets
  <2>3. /\ bands[i].upTo = NoUpperEnd => i = n
        /\ bands[i].upTo # NoUpperEnd => bands[i].upTo > bands[i].over
        /\ i > 1 => bands[i].over = bands[i - 1].upTo
    BY <1>1 DEF Accepted, Joined
  <2>4. i < n => bands[i].upTo # NoUpperEnd
    <3>1. i < n => i # n
      <4>1. i \in Int /\ n \in Int
        BY <1>1
      <4> HIDE DEF n
      <4> QED BY <4>1
    <3> QED BY <2>3, <3>1
  <2> QED BY <2>2, <2>3, <2>4
<1> HIDE DEF n
<1> DEFINE T == {m \in Nat : m \in 1 .. n => \A j \in 1 .. m - 1 : bands[j].upTo <= bands[m].over}
<1>3. 0 \in T
  OBVIOUS
<1>4. ASSUME NEW m \in Nat, m \in T PROVE m + 1 \in T
  <2> SUFFICES ASSUME m + 1 \in 1 .. n, NEW j \in 1 .. m PROVE bands[j].upTo <= bands[m + 1].over
    BY <1>4
  <2>1. m \in 1 .. n /\ j \in 1 .. n /\ m < n /\ j < n
    BY <1>1
  <2>2. bands[m].over \in Int /\ bands[m].upTo \in Int /\ bands[m].upTo > bands[m].over /\ bands[j].upTo \in Int
    BY <1>2, <2>1
  <2>3. bands[m + 1].over = bands[m].upTo
    <3>1. (m + 1) - 1 = m /\ m + 1 > 1
      BY <2>1
    <3> QED BY <1>2, <3>1
  <2>4. j < m => bands[j].upTo <= bands[m].over
    BY <1>4, <2>1
  <2> QED BY <2>2, <2>3, <2>4
<1> HIDE DEF T
<1>5. \A m \in Nat : m \in T
  BY <1>3, <1>4, Induction
<1>6. ASSUME NEW i \in 1 .. n, NEW j \in 1 .. i - 1
      PROVE  bands[j].upTo \in Int /\ bands[j].upTo <= bands[i].over
  <2>1. i \in Nat /\ j \in 1 .. n /\ j < n
    BY <1>1
  <2>2. i \in T
    BY <1>5, <2>1
  <2> QED BY <1>2, <2>1, <2>2 DEF T
<1> QED BY <1>1, <1>2, <1>6 DEF n

(* The band that a sum falls into is the last one that begins at or below  *)
(* it.                                                                     *)
LEMMA OneBandMatches ==
  ASSUME bands \in Seq(Brackets), Accepted(bands)
  PROVE  NoSumFallsThrough
<1> DEFINE n == Len(bands)
<1> SUFFICES ASSUME bands # <<>>, NEW basis \in Bases,
                    basis >= bands[1].over, bands[n].upTo = NoUpperEnd \/ basis < bands[n].upTo
             PROVE  Cardinality(Matching(basis)) = 1
  BY DEF NoSumFallsThrough
<1>1. n \in Nat /\ n # 0 /\ DOMAIN bands = 1 .. n /\ basis \in Int
  BY FiguresAssumption
<1>2. \A i \in 1 .. n : /\ bands[i].over \in Int /\ (i < n => bands[i].upTo \in Int)
                        /\ \A j \in 1 .. i - 1 : bands[j].upTo \in Int /\ bands[j].upTo <= bands[i].over
  BY <1>1, TablesRunUpwards
<1>3. \A i \in 1 .. n : /\ bands[i].upTo = NoUpperEnd => i = n
                        /\ i > 1 => bands[i].over = bands[i - 1].upTo
  BY <1>1 DEF Accepted, Joined
<1>4. \A i : i \in Matching(basis) <=>
          i \in 1 .. n /\ basis >= bands[i].over /\ (bands[i].upTo = NoUpperEnd \/ basis < bands[i].upTo)
  BY <1>1 DEF Matching, Within
<1> HIDE DEF n
<1> DEFINE T == {m \in 0 .. n - 1 : basis >= bands[n - m].over}
<1>5. n - 1 \in T /\ T \subseteq Nat
  <2>1. n - 1 \in 0 .. n - 1 /\ n - (n - 1) = 1
    BY <1>1
  <2> QED BY <1>1, <2>1
<1>6. PICK m \in T : \A k \in T : m <= k
  <2> HIDE DEF T
  <2> QED BY <1>5, LeastExists
<1> DEFINE i == n - m
<1>7. m \in 0 .. n - 1 /\ i \in 1 .. n /\ m = n - i /\ basis >= bands[i].over
  BY <1>1, <1>6
<1>8. i < n => basis < bands[i + 1].over
  <2> SUFFICES ASSUME i < n PROVE ~(basis >= bands[i + 1].over)
    BY <1>1, <1>2, <1>7
  <2>1. m - 1 \in 0 .. n - 1 /\ n - (m - 1) = i + 1 /\ ~(m <= m - 1)
    BY <1>1, <1>7
  <2> QED BY <1>6, <2>1
<1> HIDE DEF i, T
<1>9. i \in Matching(basis)
  <2>1. CASE i = n
    BY <1>4, <1>7, <2>1 DEF n
  <2>2. CASE i < n
    <3>1. i + 1 \in 1 .. n /\ i + 1 > 1 /\ (i + 1) - 1 = i
      BY <1>1, <1>7, <2>2
    <3>2. bands[i + 1].over = bands[i].upTo
      BY <1>3, <3>1
    <3> QED BY <1>4, <1>7, <1>8, <2>2, <3>2
  <2> QED BY <1>1, <1>7, <2>1, <2>2
<1>10. ASSUME NEW j \in Matching(basis), NEW k \in Matching(basis), j < k PROVE FALSE
  <2>1. j \in 1 .. n /\ k \in 1 .. n /\ j \in 1 .. k - 1
    BY <1>1, <1>4, <1>10
  <2>2. bands[j].upTo \in Int /\ bands[j].upTo <= bands[k].over /\ bands[k].over \in Int
    BY <1>2, <2>1
  <2>3. basis >= bands[k].over /\ (bands[j].upTo = NoUpperEnd \/ basis < bands[j].upTo)
    BY <1>4
  <2>4. bands[j].upTo # NoUpperEnd
    BY <2>2, FiguresAssumption
  <2> QED BY <1>1, <2>2, <2>3, <2>4
<1>11. Matching(basis) = {i}
  <2>1. \A j \in Matching(basis) : j = i \/ j < i \/ i < j
    BY <1>1, <1>4, <1>7
  <2> QED BY <1>9, <1>10, <2>1
<1> QED BY <1>11, FS_Singleton

-----------------------------------------------------------------------------
(* The deductions of a payslip are whole numbers, listed by their codes.   *)
LEMMA PremiumIsANumber ==
  ASSUME FigureTypeOK, NEW kind \in PremiumKinds, NEW m \in Int
  PROVE  Premium(kind, m, 1) \in Int
<1>1. Worked(pieces) \in Int
  <2> DEFINE f == [i \in DOMAIN pieces |-> pieces[i][2] - pieces[i][1]]
  <2>1. \A i \in DOMAIN pieces : f[i] \in Int
    BY FiguresAssumption, WhatWasWorked
  <2>2. IsFiniteSet(DOMAIN pieces)
    BY WhatWasWorked
  <2>3. Worked(pieces) = SumFunctionOnSet(f, DOMAIN pieces)
    BY DEF Worked, SumFunction
  <2> HIDE DEF f
  <2>4. SumFunctionOnSet(f, DOMAIN pieces) \in Int
    BY <2>1, <2>2, SumFirst
  <2> QED BY <2>3, <2>4
<1>2. PaidMinutes(pieces) \in Int
  BY <1>1, FiguresAssumption DEF PaidMinutes, Most
<1>3. Worked(pieces) >= 0
  <2> DEFINE f == [i \in DOMAIN pieces |-> pieces[i][2] - pieces[i][1]]
  <2>1. \A i \in DOMAIN pieces : f[i] \in Nat
    BY FiguresAssumption, WhatWasWorked
  <2>2. IsFiniteSet(DOMAIN pieces)
    BY WhatWasWorked
  <2>3. Worked(pieces) = SumFunctionOnSet(f, DOMAIN pieces)
    BY DEF Worked, SumFunction
  <2> HIDE DEF f
  <2>4. Worked(pieces) \in Nat
    BY <2>1, <2>2, <2>3, SumNat
  <2> QED BY <2>4
<1>4. Credited(m) \in Int
  <2> DEFINE w == Worked(pieces)
             x == 2 * m * PaidMinutes(pieces)
  <2>1. x \in Int /\ w \in Int /\ w >= 0
    BY <1>1, <1>2, <1>3
  <2>2. Credited(m) = IF w = 0 THEN 0 ELSE (x + w) \div (2 * w)
    BY DEF Credited
  <2> HIDE DEF w, x
  <2>3. w # 0 => 2 * w \in Nat \ {0} /\ x + w \in Int
    BY <2>1
  <2>4. w # 0 => (x + w) \div (2 * w) \in Int
    BY <2>3, Divided
  <2> QED BY <2>2, <2>4
<1>5. Most(0, Multiple[kind] - 1) \in Int
  BY FiguresAssumption DEF Most
<1> DEFINE earned == IF pieces = <<>> \/ logs[kind] \notin {"none", "approved"} THEN 0
                     ELSE IF logs[kind] = "approved" THEN 1 ELSE Credited(m)
<1>6. earned \in Int
  BY <1>4
<1>7. Premium(kind, m, 1) = earned * Most(0, Multiple[kind] - 1)
  BY DEF Premium
<1> HIDE DEF earned
<1> QED BY <1>5, <1>6, <1>7

LEMMA AmountsAreNumbers ==
  ASSUME FigureTypeOK, NEW gross \in Int, NEW base \in Int, NEW employers \in BOOLEAN
  PROVE  Amounts(gross, base, employers) \in Seq(Int)
<1> DEFINE S == {d \in Deductions : d.employer = employers}
           R == {ab \in Deductions \X Deductions : ab[1].code < ab[2].code}
           ours == InOrder(S, R)
<1>1. IsFiniteSet(S) /\ Cardinality(S) \in Nat
  BY FiguresAssumption, FS_Subset, FS_CardinalityType
<1>2. Orders(R, S)
  <2>1. \A d \in Deductions : d.code \in Int
    BY FiguresAssumption DEF DeductionTypes
  <2>2. \A x, y : <<x, y>> \in R <=> x \in Deductions /\ y \in Deductions /\ x.code < y.code
    OBVIOUS
  <2> HIDE DEF R
  <2>3. \A x \in S : <<x, x>> \notin R
    BY <2>1, <2>2
  <2>4. ASSUME NEW x \in S, NEW y \in S, x # y PROVE <<x, y>> \in R \/ <<y, x>> \in R
    <3>1. x.code # y.code /\ x.code \in Int /\ y.code \in Int
      BY <2>1, <2>4, FiguresAssumption
    <3> QED BY <2>2, <3>1
  <2>5. ASSUME NEW x \in S, NEW y \in S, NEW z \in S, <<x, y>> \in R, <<y, z>> \in R PROVE <<x, z>> \in R
    <3>1. x.code < y.code /\ y.code < z.code /\ x.code \in Int /\ y.code \in Int /\ z.code \in Int
      BY <2>1, <2>2, <2>5
    <3> QED BY <2>2, <3>1
  <2> QED BY <2>3, <2>4, <2>5 DEF Orders
<1>3. ours \in [1 .. Cardinality(S) -> S]
  <2> HIDE DEF S, R
  <2> QED BY <1>1, <1>2, InOrderFacts
<1>4. ASSUME NEW basis \in Int PROVE BracketAmount(basis) \in Int
  <2>1. CASE Matching(basis) = {}
    BY <2>1 DEF BracketAmount
  <2>2. CASE Matching(basis) # {}
    <3> DEFINE M == Matching(basis)
               i == CHOOSE x \in M : \A j \in M : x <= j
    <3>1. M \subseteq DOMAIN bands /\ DOMAIN bands \subseteq Nat
      BY DEF Matching, FigureTypeOK
    <3>2. i \in M
      <4> HIDE DEF M
      <4>1. \E x \in M : \A j \in M : x <= j
        BY <2>2, <3>1, LeastExists DEF M
      <4> QED BY <4>1
    <3>3. bands[i] \in Brackets
      <4>1. i \in DOMAIN bands
        BY <3>1, <3>2
      <4> HIDE DEF i
      <4> QED BY <4>1 DEF FigureTypeOK
    <3> DEFINE b == bands[i]
    <3>4. b.base \in Int /\ b.rate \in Int /\ b.over \in Int
      BY <3>3 DEF Brackets
    <3>5. BracketAmount(basis) = b.base + b.rate * (IF b.full THEN basis ELSE Most(0, basis - b.over))
      BY <2>2 DEF BracketAmount
    <3> HIDE DEF i, b
    <3> DEFINE u == IF b.full THEN basis ELSE Most(0, basis - b.over)
    <3>6. u \in Int
      BY <3>4 DEF Most
    <3> HIDE DEF u
    <3> QED BY <3>4, <3>5, <3>6 DEF u
  <2> QED BY <2>1, <2>2
<1>5. ASSUME NEW d \in Deductions PROVE DeductionAmount(d, gross, base) \in Int
  <2>1. d.rate \in Int /\ d.amount \in Int
    BY FiguresAssumption DEF DeductionTypes
  <2> DEFINE basis == IF d.of = "base" THEN base ELSE gross
  <2>2. basis \in Int
    OBVIOUS
  <2>3. DeductionAmount(d, gross, base) = CASE d.type = "percentage" -> basis * d.rate
                                            [] d.type = "tiered" -> BracketAmount(basis)
                                            [] OTHER -> d.amount
    BY DEF DeductionAmount
  <2> HIDE DEF basis
  <2>4. basis * d.rate \in Int /\ BracketAmount(basis) \in Int
    BY <1>4, <2>1, <2>2
  <2> QED BY <2>1, <2>3, <2>4
<1>6. Amounts(gross, base, employers) = [i \in DOMAIN ours |-> DeductionAmount(ours[i], gross, base)]
  BY DEF Amounts
<1>7. DOMAIN ours = 1 .. Cardinality(S) /\ \A i \in DOMAIN ours : ours[i] \in Deductions
  BY <1>3
<1> HIDE DEF ours
<1> DEFINE n == Cardinality(S)
           s == Amounts(gross, base, employers)
<1>8. n \in Nat /\ s \in [1 .. n -> Int]
  BY <1>1, <1>5, <1>6, <1>7
<1> HIDE DEF n, s
<1>9. s \in Seq(Int)
  BY <1>8
<1> QED BY <1>9 DEF s

(* What the lines of a payslip add up to is what was taken.                *)
LEMMA LinesAddUp ==
  ASSUME FigureTypeOK
  PROVE  PayslipsAddUp
<1> SUFFICES ASSUME NEW base \in Bases, NEW late \in 0..1, NEW holidays \in SUBSET {0, 1}
             PROVE  LET slip == ComputeOne(base, 0, late, holidays)
                    IN slip.net = slip.gross - SumFunction(slip.lines)
  BY DEF PayslipsAddUp
<1> DEFINE premiums == Premium("night", NightMinutes(pieces), 1)
                         + Premium("holiday", SumFunction([d \in holidays |-> MinutesOn(d, pieces)]), 1)
           gross == base + 0 + premiums
           ours == Amounts(gross, base, FALSE)
           lates == IF late > 0 THEN <<late>> ELSE <<>>
           slip == ComputeOne(base, 0, late, holidays)
<1>1. /\ slip.gross = gross
      /\ slip.net = gross - (late + SumFunction(ours))
      /\ slip.lines = lates \o ours
  BY DEF ComputeOne, Taken
<1>2. \A d \in Int : MinutesOn(d, pieces) \in Int
  <2> SUFFICES ASSUME NEW d \in Int PROVE MinutesOn(d, pieces) \in Int
    OBVIOUS
  <2> DEFINE f == [i \in DOMAIN pieces |-> Overlap(pieces[i][1], pieces[i][2], d * Day, (d + 1) * Day)]
  <2>1. ASSUME NEW i \in DOMAIN pieces PROVE f[i] \in Int
    <3>1. pieces[i][1] \in Int /\ pieces[i][2] \in Int /\ d * Day \in Int /\ (d + 1) * Day \in Int
      BY FiguresAssumption, WhatWasWorked
    <3> QED BY <3>1 DEF Overlap, Most, Least
  <2>2. IsFiniteSet(DOMAIN pieces)
    BY WhatWasWorked
  <2>3. MinutesOn(d, pieces) = SumFunctionOnSet(f, DOMAIN pieces)
    BY DEF MinutesOn, SumFunction
  <2> HIDE DEF f
  <2>4. SumFunctionOnSet(f, DOMAIN pieces) \in Int
    BY <2>1, <2>2, SumFirst
  <2> QED BY <2>3, <2>4
<1>3. SumFunction([d \in holidays |-> MinutesOn(d, pieces)]) \in Int
  <2> DEFINE f == [d \in holidays |-> MinutesOn(d, pieces)]
  <2>1. \A d \in holidays : f[d] \in Int
    BY <1>2
  <2>2. IsFiniteSet({0} \cup {1})
    BY FS_Singleton, FS_AddElement
  <2>3. {0, 1} = {0} \cup {1}
    OBVIOUS
  <2>4. IsFiniteSet(holidays)
    BY <2>2, <2>3, FS_Subset
  <2>5. SumFunction(f) = SumFunctionOnSet(f, holidays)
    BY DEF SumFunction
  <2> HIDE DEF f
  <2>6. SumFunctionOnSet(f, holidays) \in Int
    BY <2>1, <2>4, SumFirst
  <2> QED BY <2>5, <2>6 DEF f
<1>4. NightMinutes(pieces) \in Int
  <2>1. IsFiniteSet(MinutesOf(pieces))
    <3> DEFINE A == [i \in DOMAIN pieces |-> Minutes(pieces[i][1], pieces[i][2])]
               all == 0 .. 2 * Day
    <3>1. MinutesOf(pieces) \in SUBSET all
      BY FiguresAssumption, WhatWasWorked DEF MinutesOf
    <3>2. IsFiniteSet(all)
      BY FiguresAssumption, FS_Interval
    <3> HIDE DEF all
    <3> QED BY <3>1, <3>2, FS_Subset
  <2>2. IsFiniteSet({t \in MinutesOf(pieces) : AtNight(t)})
    BY <2>1, FS_Subset
  <2> QED BY <2>2, FS_CardinalityType, MinutesCountOnce DEF EveryMinuteCountsOnce
<1>5. premiums \in Int
  <2>1. Premium("night", NightMinutes(pieces), 1) \in Int
    BY <1>4, PremiumIsANumber DEF PremiumKinds
  <2>2. Premium("holiday", SumFunction([d \in holidays |-> MinutesOn(d, pieces)]), 1) \in Int
    BY <1>3, PremiumIsANumber DEF PremiumKinds
  <2> QED BY <2>1, <2>2
<1> HIDE DEF premiums
<1>6. gross \in Int /\ base \in Int
  BY <1>5, FiguresAssumption
<1> HIDE DEF gross
<1>7. ours \in Seq(Int)
  BY <1>6, AmountsAreNumbers
<1> HIDE DEF slip, ours
<1>8. lates \in Seq(Int) /\ SumFunction(lates) = late
  <2>1. CASE late > 0
    <3> DEFINE f == <<late>>
    <3>1. f \in Seq(Int) /\ DOMAIN f = {1} /\ f[1] = late /\ late \in Int
      OBVIOUS
    <3>2. IsFiniteSet({1}) /\ {1} \ {1} = {} /\ 1 \in {1} /\ \A i \in {1} : f[i] \in Int
      BY <3>1, FS_Singleton
    <3> HIDE DEF f
    <3>3. SumFunctionOnSet(f, {1}) = f[1] + SumFunctionOnSet(f, {1} \ {1})
      BY <3>2, SumAny
    <3>4. SumFunctionOnSet(f, {}) = 0
      BY FS_EmptySet, SumFirst
    <3>5. SumFunction(f) = late + 0
      BY <3>1, <3>2, <3>3, <3>4 DEF SumFunction
    <3> QED BY <2>1, <3>1, <3>5 DEF f
  <2>2. CASE ~(late > 0)
    <3> DEFINE f == <<>>
    <3>1. f \in Seq(Int) /\ DOMAIN f = {} /\ late = 0
      BY <2>2
    <3> HIDE DEF f
    <3>2. SumFunctionOnSet(f, {}) = 0
      BY FS_EmptySet, SumFirst
    <3> QED BY <2>2, <3>1, <3>2 DEF f, SumFunction
  <2> QED BY <2>1, <2>2
<1> HIDE DEF lates
<1>9. SumFunction(lates \o ours) = SumFunction(lates) + SumFunction(ours)
  BY <1>7, <1>8, SumJoined
<1>10. slip.net = slip.gross - SumFunction(slip.lines)
  BY <1>1, <1>8, <1>9
<1> QED BY <1>10 DEF slip

(* The figures that are stored are of their kinds, and every table that is *)
(* stored was accepted.                                                    *)
LEMMA TablesAreSorted ==
  ASSUME NEW table \in Tables
  PROVE  Sorted(table) \in Seq(Brackets)
<1> DEFINE n == Len(table)
           S == DOMAIN table
           R == {ij \in S \X S : \/ table[ij[1]].over < table[ij[2]].over
                                 \/ table[ij[1]].over = table[ij[2]].over /\ ij[1] < ij[2]}
           order == InOrder(S, R)
<1>1. n \in Nat /\ S = 1 .. n /\ \A i \in S : table[i] \in Brackets /\ table[i].over \in Int
  <2>1. table \in Seq(Brackets)
    BY FiguresAssumption
  <2>2. \A b \in Brackets : b.over \in Int
    BY DEF Brackets
  <2> QED BY <2>1, <2>2
<1>2. IsFiniteSet(S) /\ Cardinality(S) = n
  <2> HIDE DEF n, S
  <2> QED BY <1>1, FS_Interval
<1>3. \A i, j \in S : <<i, j>> \in R <=> \/ table[i].over < table[j].over
                                         \/ table[i].over = table[j].over /\ i < j
  OBVIOUS
<1> HIDE DEF n, S, R
<1>4. Orders(R, S)
  BY <1>1, <1>3 DEF Orders
<1>5. order \in [1 .. n -> S]
  BY <1>2, <1>4, InOrderFacts
<1>6. Sorted(table) = [i \in S |-> table[order[i]]]
  BY DEF Sorted, S, R
<1> HIDE DEF order
<1> DEFINE s == Sorted(table)
<1>7. s \in [1 .. n -> Brackets]
  BY <1>1, <1>5, <1>6
<1> HIDE DEF s
<1>8. s \in Seq(Brackets)
  BY <1>1, <1>7
<1> QED BY <1>8 DEF s

LEMMA FiguresKeepTheirKinds == FigureSpec => []FigureTypeOK
<1>1. FigureInit => FigureTypeOK
  <2> SUFFICES ASSUME FigureInit PROVE FigureTypeOK
    OBVIOUS
  <2>1. bands = <<>> /\ pieces = <<>> /\ window \in Windows
        /\ logs = [k \in PremiumKinds |-> "none"]
    BY DEF FigureInit
  <2>2. <<>> \in Seq(Brackets) /\ DOMAIN <<>> = {}
    OBVIOUS
  <2>3. Accepted(bands) /\ InTurn(pieces)
    BY <2>1, <2>2 DEF Accepted, InTurn
  <2>4. logs \in [PremiumKinds -> Verdicts]
    BY <2>1 DEF Verdicts
  <2> QED BY <2>1, <2>2, <2>3, <2>4 DEF FigureTypeOK
<1>2. FigureTypeOK /\ [FigureNext]_figureVars => FigureTypeOK'
  <2> SUFFICES ASSUME FigureTypeOK, [FigureNext]_figureVars PROVE FigureTypeOK'
    OBVIOUS
  <2>1. CASE \E t \in Tables : ReplaceBrackets(t)
    <3>1. PICK t \in Tables : ReplaceBrackets(t)
      BY <2>1
    <3>2. bands' \in Seq(Brackets) /\ Accepted(bands') /\ UNCHANGED <<window, pieces, logs>>
      BY <3>1, TablesAreSorted DEF ReplaceBrackets
    <3> QED BY <3>2 DEF FigureTypeOK
  <2>2. CASE \E s \in Stretches : DayRecord(s)
    <3>1. PICK s \in Stretches : DayRecord(s)
      BY <2>2
    <3>2. pieces' = s /\ InTurn(s) /\ UNCHANGED <<bands, window, logs>>
      BY <3>1 DEF DayRecord
    <3> QED BY <3>2 DEF FigureTypeOK
  <2>3. CASE \E k \in PremiumKinds, v \in Verdicts : LogIs(k, v)
    <3>1. PICK k \in PremiumKinds, v \in Verdicts : LogIs(k, v)
      BY <2>3
    <3>2. logs' = [logs EXCEPT ![k] = v] /\ UNCHANGED <<bands, window, pieces>>
      BY <3>1 DEF LogIs
    <3>3. logs' \in [PremiumKinds -> Verdicts]
      BY <3>2 DEF FigureTypeOK
    <3> QED BY <3>2, <3>3 DEF FigureTypeOK
  <2>4. CASE UNCHANGED figureVars
    BY <2>4 DEF FigureTypeOK, figureVars
  <2> QED BY <2>1, <2>2, <2>3, <2>4 DEF FigureNext
<1> QED BY <1>1, <1>2, PTL DEF FigureSpec

(* Every worked minute is counted once and where it falls, every sum has   *)
(* one band of an accepted table, and a payslip is the sum of its parts.   *)
THEOREM FiguresTheorem == FigureSpec => WorkedOutRight
<1>1. FigureTypeOK => FiguresAddUp
  BY MinutesCountOnce, OneBandMatches, LinesAddUp DEF FiguresAddUp, FigureTypeOK
<1>2. FigureTypeOK => (~NothingEntered => FiguresAddUp)
  BY <1>1
<1> QED BY <1>1, <1>2, FiguresKeepTheirKinds, PTL DEF WorkedOutRight

-----------------------------------------------------------------------------
(* Attendance policies.                                                    *)
Effect == {NoEffect} \cup [type : DOMAIN Slot, rule : Nat, convert : BOOLEAN]
Fillings == [ActionSlots -> Effect]

LEMMA SlotFacts ==
  /\ DOMAIN Slot = {"apply_ot_category", "apply_night_diff", "apply_holiday_pay", "salary_deduction",
                    "leave_deduction", "send_warning", "mark_excused"}
  /\ \A t \in DOMAIN Slot : Slot[t] \in ActionSlots
  /\ LogKinds = {"overtime", "night_differential", "holiday_shift"}
  /\ ActionSlots = LogKinds \cup {"resolution"}
<1>1. DOMAIN Slot = {"apply_ot_category", "apply_night_diff", "apply_holiday_pay", "salary_deduction",
                    "leave_deduction", "send_warning", "mark_excused"}
  BY DEF Slot
<1>2. \A t \in DOMAIN Slot : Slot[t] \in ActionSlots
  BY DEF ActionSlots
<1>3. ActionSlots = {"overtime", "night_differential", "holiday_shift", "resolution"}
  BY <1>1 DEF Slot, ActionSlots
<1> QED BY <1>1, <1>2, <1>3 DEF LogKinds

(* What an action comes to: an action of the kinds there are, or none.     *)
LEMMA ResolvedIs ==
  ASSUME NEW action \in Actions \cup Banded, NEW f
  PROVE  Resolved(action, f) \in Actions \cup {NoEffect}
<1>1. CASE action \in Actions
  <2>1. action.type # "bands"
    BY <1>1, SlotFacts DEF Actions
  <2> QED BY <1>1, <2>1 DEF Resolved
<1>2. CASE action \in Banded
  <2> DEFINE I == {i \in DOMAIN action.bands : InBand(f[action.field], action.bands[i])}
  <2>1. action.type = "bands" /\ action.bands \in Seq([min : Int, max : Int, action : Actions])
    BY <1>2 DEF Banded
  <2>2. CASE I = {}
    <3>1. Resolved(action, f) = NoEffect
      BY <2>1, <2>2 DEF Resolved
    <3> QED BY <3>1
  <2>3. CASE I # {}
    <3>1. I \subseteq Nat /\ I \subseteq DOMAIN action.bands
      BY <2>1
    <3>2. Min(I) \in I
      <4> HIDE DEF I
      <4>1. \E x \in I : \A y \in I : x <= y
        BY <2>3, <3>1, LeastExists
      <4> QED BY <4>1 DEF Min
    <3>3. action.bands[Min(I)] \in [min : Int, max : Int, action : Actions]
      <4> DEFINE B == [min : Int, max : Int, action : Actions]
                 list == action.bands
                 i == Min(I)
      <4>1. list \in Seq(B) /\ i \in DOMAIN list
        BY <2>1, <3>1, <3>2
      <4> HIDE DEF B, list, i
      <4>2. list[i] \in B
        BY <4>1
      <4> QED BY <4>2 DEF list, i, B
    <3>4. Resolved(action, f) = action.bands[Min(I)].action
      BY <2>1, <2>3 DEF Resolved
    <3> QED BY <3>3, <3>4
  <2> QED BY <2>2, <2>3
<1> QED BY <1>1, <1>2

LEMMA RulesAre ==
  /\ Len(Rules) \in Nat /\ DOMAIN Rules = 1 .. Len(Rules)
  /\ \A r \in DOMAIN Rules : /\ Rules[r].actions \in Seq(Actions \cup Banded) /\ Rules[r].stop \in BOOLEAN
                             /\ Len(Rules[r].actions) \in Nat
                             /\ DOMAIN Rules[r].actions = 1 .. Len(Rules[r].actions)
                             /\ \A i \in DOMAIN Rules[r].actions : Rules[r].actions[i] \in Actions \cup Banded
<1>1. Rules \in Seq([when : Conditions, actions : Seq(Actions \cup Banded), stop : BOOLEAN])
  BY PolicyAssumption
<1>2. \A r \in DOMAIN Rules : Rules[r].actions \in Seq(Actions \cup Banded) /\ Rules[r].stop \in BOOLEAN
  <2> DEFINE B == [when : Conditions, actions : Seq(Actions \cup Banded), stop : BOOLEAN]
  <2>1. \A r \in DOMAIN Rules : Rules[r] \in B
    <3>1. Rules \in Seq(B)
      BY <1>1
    <3> HIDE DEF B
    <3> QED BY <3>1
  <2>2. \A b \in B : b.actions \in Seq(Actions \cup Banded) /\ b.stop \in BOOLEAN
    OBVIOUS
  <2> QED BY <2>1, <2>2
<1>3. Len(Rules) \in Nat /\ DOMAIN Rules = 1 .. Len(Rules)
  BY <1>1
<1> QED BY <1>2, <1>3

LEMMA EffectsAre ==
  /\ NoEffect \in Effect /\ NoEffect.type = "none" /\ "none" \notin DOMAIN Slot
  /\ \A a \in Actions, r \in Nat : /\ Asked(a, r) \in Effect /\ Asked(a, r) # NoEffect
                                   /\ Asked(a, r).rule = r /\ a.type \in DOMAIN Slot
  /\ \A e \in Effect : e # NoEffect => e.type \in DOMAIN Slot /\ e.convert \in BOOLEAN
<1>1. "none" \notin DOMAIN Slot
  BY SlotFacts
<1>2. NoEffect \in Effect /\ NoEffect.type = "none"
  BY DEF Effect, NoEffect
<1>3. ASSUME NEW a \in Actions, NEW r \in Nat
      PROVE  Asked(a, r) \in Effect /\ Asked(a, r) # NoEffect /\ Asked(a, r).rule = r /\ a.type \in DOMAIN Slot
  <2>1. a.type \in DOMAIN Slot /\ a.convert \in BOOLEAN
    BY DEF Actions
  <2>2. Asked(a, r) \in [type : DOMAIN Slot, rule : Nat, convert : BOOLEAN]
    BY <2>1 DEF Asked
  <2>3. Asked(a, r).type = a.type
    BY DEF Asked
  <2> QED BY <1>1, <1>2, <2>1, <2>2, <2>3 DEF Asked, Effect
<1> QED BY <1>1, <1>2, <1>3 DEF Effect

(* A rule that asks for a slot, and would have an effect.                  *)
AsksFor(r, s, f, able) ==
  \E i \in DOMAIN Rules[r].actions :
    LET a == Resolved(Rules[r].actions[i], f) IN a.type \in able /\ Slot[a.type] = s

(* The actions of a rule: each fills a slot that is empty.                 *)
LEMMA ActionsFill ==
  ASSUME NEW r \in DOMAIN Rules, NEW f, NEW able, able \subseteq DOMAIN Slot, NEW filled \in Fillings
  PROVE  /\ AfterActions(filled, r, f, able) \in Fillings
         /\ \A s \in ActionSlots :
              /\ filled[s] # NoEffect => AfterActions(filled, r, f, able)[s] = filled[s]
              /\ filled[s] = NoEffect /\ ~AsksFor(r, s, f, able) => AfterActions(filled, r, f, able)[s] = NoEffect
              /\ filled[s] = NoEffect /\ AsksFor(r, s, f, able) =>
                   /\ AfterActions(filled, r, f, able)[s] # NoEffect
                   /\ AfterActions(filled, r, f, able)[s].rule = r
<1> DEFINE acts == Rules[r].actions
           N == Len(acts)
           round(n, x) == LET a == Resolved(acts[n], f) IN IF a.type \notin able THEN x ELSE Fill(x, a, r)
           body(g) == [n \in 0 .. N |-> IF n = 0 THEN filled ELSE round(n, g[n - 1])]
           after == CHOOSE g : g = body(g)
           hits(n, s) == LET a == Resolved(acts[n], f) IN a.type \in able /\ Slot[a.type] = s
<1>1. N \in Nat /\ DOMAIN acts = 1 .. N /\ r \in Nat
  BY RulesAre
<1>2. ASSUME NEW n \in 1 .. N, NEW x \in Fillings
      PROVE  /\ round(n, x) \in Fillings
             /\ \A s \in ActionSlots : /\ x[s] # NoEffect => round(n, x)[s] = x[s]
                                       /\ x[s] = NoEffect /\ ~hits(n, s) => round(n, x)[s] = NoEffect
                                       /\ x[s] = NoEffect /\ hits(n, s) => round(n, x)[s] # NoEffect /\ round(n, x)[s].rule = r
  <2> DEFINE a == Resolved(acts[n], f)
  <2>1. a \in Actions \cup {NoEffect}
    BY <1>1, RulesAre, ResolvedIs
  <2> HIDE DEF a
  <2>2. CASE a.type \notin able
    <3>1. round(n, x) = x /\ \A s \in ActionSlots : ~hits(n, s)
      BY <2>2 DEF a
    <3> QED BY <3>1
  <2>3. CASE a.type \in able
    <3>1. a \in Actions
      BY <2>1, <2>3, EffectsAre
    <3>2. round(n, x) = Fill(x, a, r) /\ \A s \in ActionSlots : hits(n, s) <=> s = Slot[a.type]
      BY <2>3 DEF a
    <3>3. Asked(a, r) \in Effect /\ Asked(a, r) # NoEffect /\ Asked(a, r).rule = r
      BY <1>1, <3>1, EffectsAre
    <3> HIDE DEF round, hits
    <3> QED BY <3>2, <3>3 DEF Fill, Fillings
  <2> QED BY <2>2, <2>3
<1>3. AfterActions(filled, r, f, able) = after[N]
  BY DEF AfterActions
<1> HIDE DEF round, hits, N
<1>4. after = body(after)
  <2> DEFINE F == [z \in (1 .. N) \X Fillings |-> round(z[1], z[2])]
  <2>1. \A n \in 1 .. N : \A x \in Fillings : F[<<n, x>>] = round(n, x) /\ F[<<n, x>>] \in Fillings
    BY <1>2
  <2> HIDE DEF F
  <2>2. PICK g \in [0 .. N -> Fillings] : g[0] = filled /\ \A n \in 1 .. N : g[n] = F[<<n, g[n - 1]>>]
    <3>1. Stays(F, N, Fillings)
      BY <2>1 DEF Stays
    <3>2. N \in Nat /\ filled \in Fillings
      BY <1>1
    <3> QED BY <3>1, <3>2, Rounds
  <2>3. ASSUME NEW n \in 0 .. N PROVE g[n] = IF n = 0 THEN filled ELSE round(n, g[n - 1])
    <3>1. CASE n = 0
      BY <2>2, <3>1
    <3>2. CASE n # 0
      <4>1. n \in 1 .. N /\ n - 1 \in 0 .. N
        BY <1>1, <3>2
      <4>2. g[n - 1] \in Fillings
        BY <4>1
      <4> QED BY <2>1, <2>2, <3>2, <4>1, <4>2
    <3> QED BY <3>1, <3>2
  <2>4. g = body(g)
    BY <2>3
  <2> HIDE DEF body
  <2> QED BY <2>4
<1> DEFINE asked(n, s) == \E i \in 1 .. n : hits(i, s)
           right(n) == /\ after[n] \in Fillings
                       /\ \A s \in ActionSlots :
                            /\ filled[s] # NoEffect => after[n][s] = filled[s]
                            /\ filled[s] = NoEffect /\ ~asked(n, s) => after[n][s] = NoEffect
                            /\ filled[s] = NoEffect /\ asked(n, s) => after[n][s] # NoEffect /\ after[n][s].rule = r
           T == {n \in Nat : n \in 0 .. N => right(n)}
<1>5. after[0] = filled /\ \A n \in 1 .. N : after[n] = round(n, after[n - 1])
  <2> HIDE DEF after
  <2>1. \A n \in 0 .. N : after[n] = IF n = 0 THEN filled ELSE round(n, after[n - 1])
    BY <1>4
  <2>2. \A n \in 1 .. N : n \in 0 .. N /\ n # 0
    BY <1>1
  <2> QED BY <1>1, <2>1, <2>2
<1> HIDE DEF after
<1>6. 0 \in T
  BY <1>5
<1>7. ASSUME NEW n \in Nat, n \in T PROVE n + 1 \in T
  <2> SUFFICES ASSUME n + 1 \in 0 .. N PROVE right(n + 1)
    OBVIOUS
  <2>1. n + 1 \in 1 .. N /\ n \in 0 .. N /\ (n + 1) - 1 = n
    BY <1>1
  <2>2. right(n) /\ after[n + 1] = round(n + 1, after[n])
    BY <1>5, <1>7, <2>1
  <2>3. \A s \in ActionSlots : asked(n + 1, s) <=> asked(n, s) \/ hits(n + 1, s)
    <3>1. \A i : i \in 1 .. n + 1 <=> i \in 1 .. n \/ i = n + 1
      OBVIOUS
    <3> QED BY <3>1
  <2> HIDE DEF asked
  <2>4. after[n] \in Fillings
    BY <2>2
  <2>5. /\ after[n + 1] \in Fillings
        /\ \A s \in ActionSlots :
             /\ after[n][s] # NoEffect => after[n + 1][s] = after[n][s]
             /\ after[n][s] = NoEffect /\ ~hits(n + 1, s) => after[n + 1][s] = NoEffect
             /\ after[n][s] = NoEffect /\ hits(n + 1, s) => after[n + 1][s] # NoEffect /\ after[n + 1][s].rule = r
    BY <1>2, <2>1, <2>2, <2>4
  <2> QED BY <2>2, <2>3, <2>5
<1> HIDE DEF T
<1>8. right(N)
  <2>1. N \in T /\ N \in 0 .. N
    BY <1>1, <1>6, <1>7, Induction
  <2> QED BY <2>1 DEF T
<1>9. \A s : asked(N, s) <=> AsksFor(r, s, f, able)
  BY <1>1 DEF AsksFor, hits
<1> HIDE DEF asked, acts
<1> QED BY <1>3, <1>8, <1>9

Ready(s, f, on, able) == {r \in DOMAIN Rules : r \in on /\ Holds(Rules[r].when, f) /\ AsksFor(r, s, f, able)}

(* The rules, one after the other: the first that asks for a slot fills    *)
(* it, if none is told to be the last.                                     *)
LEMMA RulesFill ==
  ASSUME NEW f, NEW on, NEW able, able \subseteq DOMAIN Slot
  PROVE  /\ Evaluated(f, on, able) \in Fillings
         /\ (\A r \in DOMAIN Rules : r \in on => ~Rules[r].stop) =>
              \A s \in ActionSlots :
                 /\ Ready(s, f, on, able) = {} => Evaluated(f, on, able)[s] = NoEffect
                 /\ \A r \in Ready(s, f, on, able) : (\A q \in Ready(s, f, on, able) : r <= q) =>
                       Evaluated(f, on, able)[s].rule = r
<1> DEFINE N == Len(Rules)
           S == [filled : Fillings, stopped : BOOLEAN]
           start == [filled |-> [s \in ActionSlots |-> NoEffect], stopped |-> FALSE]
           round(n, x) == AfterRule(x, n, f, on, able)
           body(g) == [n \in 0 .. N |-> IF n = 0 THEN start ELSE round(n, g[n - 1])]
           after == CHOOSE g : g = body(g)
           free == \A r \in DOMAIN Rules : r \in on => ~Rules[r].stop
           ready(n, s) == {r \in Ready(s, f, on, able) : r <= n}
<1>1. N \in Nat /\ DOMAIN Rules = 1 .. N
  BY RulesAre
<1>2. start \in S /\ start.stopped = FALSE /\ \A s \in ActionSlots : start.filled[s] = NoEffect
  BY EffectsAre DEF Fillings
<1>3. ASSUME NEW n \in 1 .. N, NEW x \in S
      PROVE  /\ round(n, x) \in S
             /\ free /\ ~x.stopped =>
                  /\ ~round(n, x).stopped
                  /\ \A s \in ActionSlots :
                       /\ x.filled[s] # NoEffect => round(n, x).filled[s] = x.filled[s]
                       /\ x.filled[s] = NoEffect /\ n \notin Ready(s, f, on, able) => round(n, x).filled[s] = NoEffect
                       /\ x.filled[s] = NoEffect /\ n \in Ready(s, f, on, able) =>
                            round(n, x).filled[s] # NoEffect /\ round(n, x).filled[s].rule = n
  <2> DEFINE new == AfterActions(x.filled, n, f, able)
  <2>0. n \in DOMAIN Rules /\ x.filled \in Fillings /\ Rules[n].stop \in BOOLEAN
    BY <1>1, RulesAre
  <2>1. CASE x.stopped \/ n \notin on \/ ~Holds(Rules[n].when, f)
    <3>1. round(n, x) = x
      BY <2>1 DEF AfterRule
    <3>2. ~x.stopped => \A s \in ActionSlots : n \notin Ready(s, f, on, able)
      BY <2>1 DEF Ready
    <3> HIDE DEF round, free
    <3> QED BY <3>1, <3>2
  <2>2. CASE ~(x.stopped \/ n \notin on \/ ~Holds(Rules[n].when, f))
    <3>1. round(n, x) = [filled |-> new, stopped |-> Rules[n].stop /\ new # x.filled]
      BY <2>2 DEF AfterRule
    <3>2. /\ new \in Fillings
          /\ \A s \in ActionSlots :
               /\ x.filled[s] # NoEffect => new[s] = x.filled[s]
               /\ x.filled[s] = NoEffect /\ ~AsksFor(n, s, f, able) => new[s] = NoEffect
               /\ x.filled[s] = NoEffect /\ AsksFor(n, s, f, able) => new[s] # NoEffect /\ new[s].rule = n
      BY <2>0, ActionsFill
    <3>3. \A s \in ActionSlots : n \in Ready(s, f, on, able) <=> AsksFor(n, s, f, able)
      BY <2>0, <2>2 DEF Ready
    <3>4. free => ~Rules[n].stop
      BY <2>0, <2>2
    <3> HIDE DEF new, free, round
    <3>5. round(n, x).filled = new /\ round(n, x).stopped = (Rules[n].stop /\ new # x.filled) /\ round(n, x) \in S
      BY <2>0, <3>1, <3>2
    <3> HIDE DEF S
    <3> QED BY <3>2, <3>3, <3>4, <3>5
  <2> QED BY <2>1, <2>2
<1>4. Evaluated(f, on, able) = after[N].filled
  BY DEF Evaluated
<1> HIDE DEF round, N, start, free
<1>5. after = body(after)
  <2> DEFINE F == [z \in (1 .. N) \X S |-> round(z[1], z[2])]
  <2>1. \A n \in 1 .. N : \A x \in S : F[<<n, x>>] = round(n, x) /\ F[<<n, x>>] \in S
    BY <1>3
  <2> HIDE DEF F, S
  <2>2. PICK g \in [0 .. N -> S] : g[0] = start /\ \A n \in 1 .. N : g[n] = F[<<n, g[n - 1]>>]
    <3>1. Stays(F, N, S)
      BY <2>1 DEF Stays
    <3>2. N \in Nat /\ start \in S
      BY <1>1, <1>2
    <3> QED BY <3>1, <3>2, Rounds
  <2>3. ASSUME NEW n \in 0 .. N PROVE g[n] = IF n = 0 THEN start ELSE round(n, g[n - 1])
    <3>1. CASE n = 0
      BY <2>2, <3>1
    <3>2. CASE n # 0
      <4>1. n \in 1 .. N /\ n - 1 \in 0 .. N
        BY <1>1, <3>2
      <4>2. g[n - 1] \in S
        BY <4>1
      <4> QED BY <2>1, <2>2, <3>2, <4>1, <4>2
    <3> QED BY <3>1, <3>2
  <2>4. g = body(g)
    BY <2>3
  <2> HIDE DEF body
  <2> QED BY <2>4
<1>6. after[0] = start /\ \A n \in 1 .. N : after[n] = round(n, after[n - 1])
  <2> HIDE DEF after
  <2>1. \A n \in 0 .. N : after[n] = IF n = 0 THEN start ELSE round(n, after[n - 1])
    BY <1>5
  <2>2. \A n \in 1 .. N : n \in 0 .. N /\ n # 0
    BY <1>1
  <2> QED BY <1>1, <2>1, <2>2
<1> HIDE DEF after
<1> DEFINE right(n) ==
             /\ after[n] \in S
             /\ free => /\ ~after[n].stopped
                        /\ \A s \in ActionSlots :
                             /\ ready(n, s) = {} => after[n].filled[s] = NoEffect
                             /\ \A r \in ready(n, s) : (\A q \in ready(n, s) : r <= q) =>
                                  after[n].filled[s] # NoEffect /\ after[n].filled[s].rule = r
           T == {n \in Nat : n \in 0 .. N => right(n)}
<1>7. \A n, s : ready(n, s) \subseteq Nat /\ ready(n, s) \subseteq Ready(s, f, on, able) /\ ready(n, s) \subseteq 1 .. N
  BY <1>1 DEF Ready
<1>8. 0 \in T
  <2>1. \A s : ready(0, s) = {}
    BY <1>7
  <2> HIDE DEF ready
  <2> QED BY <1>2, <1>6, <2>1
<1>9. ASSUME NEW n \in Nat, n \in T PROVE n + 1 \in T
  <2> SUFFICES ASSUME n + 1 \in 0 .. N PROVE right(n + 1)
    OBVIOUS
  <2>1. n + 1 \in 1 .. N /\ n \in 0 .. N /\ (n + 1) - 1 = n
    BY <1>1
  <2>2. right(n) /\ after[n + 1] = round(n + 1, after[n]) /\ after[n] \in S
    BY <1>6, <1>9, <2>1
  <2>3. ASSUME NEW s
        PROVE  /\ n + 1 \notin Ready(s, f, on, able) => ready(n + 1, s) = ready(n, s)
               /\ n + 1 \in Ready(s, f, on, able) => ready(n + 1, s) = ready(n, s) \cup {n + 1}
               /\ \A r \in ready(n, s) : r <= n
    <3>1. \A r \in Ready(s, f, on, able) : r \in Int /\ (r <= n + 1 <=> r <= n \/ r = n + 1)
      BY <1>1 DEF Ready
    <3> QED BY <3>1
  <2>4. after[n + 1] \in S
    BY <1>3, <2>1, <2>2
  <2>5. ASSUME free PROVE ~after[n + 1].stopped
    BY <1>3, <2>1, <2>2, <2>5
  <2>6. ASSUME free, NEW s \in ActionSlots
        PROVE  /\ ready(n + 1, s) = {} => after[n + 1].filled[s] = NoEffect
               /\ \A r \in ready(n + 1, s) : (\A q \in ready(n + 1, s) : r <= q) =>
                    after[n + 1].filled[s] # NoEffect /\ after[n + 1].filled[s].rule = r
    <3> DEFINE e == after[n].filled[s]
               e2 == after[n + 1].filled[s]
    <3>1. /\ e # NoEffect => e2 = e
          /\ e = NoEffect /\ n + 1 \notin Ready(s, f, on, able) => e2 = NoEffect
          /\ e = NoEffect /\ n + 1 \in Ready(s, f, on, able) => e2 # NoEffect /\ e2.rule = n + 1
      BY <1>3, <2>1, <2>2, <2>6
    <3>2. /\ ready(n, s) = {} => e = NoEffect
          /\ \A r \in ready(n, s) : (\A q \in ready(n, s) : r <= q) => e # NoEffect /\ e.rule = r
      BY <2>2, <2>6
    <3>3. ready(n, s) # {} => \E r \in ready(n, s) : \A q \in ready(n, s) : r <= q
      BY <1>7, LeastExists
    <3> HIDE DEF e, e2
    <3>4. CASE ready(n, s) = {}
      <4> HIDE DEF ready
      <4>1. e = NoEffect
        BY <3>2, <3>4
      <4>2. n + 1 \notin Ready(s, f, on, able) => ready(n + 1, s) = {} /\ e2 = NoEffect
        BY <2>3, <3>1, <3>4, <4>1
      <4>3. n + 1 \in Ready(s, f, on, able) => ready(n + 1, s) = {n + 1} /\ e2 # NoEffect /\ e2.rule = n + 1
        BY <2>3, <3>1, <3>4, <4>1
      <4> QED BY <4>2, <4>3 DEF e2
    <3>5. CASE ready(n, s) # {}
      <4>1. PICK m \in ready(n, s) : \A q \in ready(n, s) : m <= q
        BY <3>3, <3>5
      <4>2. e # NoEffect /\ e.rule = m /\ e2 = e
        BY <3>1, <3>2, <4>1
      <4>3. m \in ready(n + 1, s) /\ m <= n /\ m \in Nat
        BY <1>7, <2>3, <4>1
      <4>4. ASSUME NEW r \in ready(n + 1, s), \A q \in ready(n + 1, s) : r <= q PROVE r = m
        <5>1. r <= m /\ r \in Nat
          BY <1>7, <4>3, <4>4
        <5>2. r \in ready(n, s)
          <6>1. r # n + 1
            BY <4>3, <5>1
          <6> HIDE DEF ready
          <6> QED BY <2>3, <4>4, <6>1
        <5>3. m <= r
          BY <4>1, <5>2
        <5> QED BY <4>3, <5>1, <5>3
      <4> HIDE DEF ready
      <4> QED BY <4>2, <4>3, <4>4 DEF e2
    <3> QED BY <3>4, <3>5
  <2> HIDE DEF ready
  <2> QED BY <2>4, <2>5, <2>6
<1> HIDE DEF T
<1>10. right(N)
  <2>1. N \in T /\ N \in 0 .. N
    BY <1>1, <1>8, <1>9, Induction
  <2> QED BY <2>1 DEF T
<1>11. \A s : ready(N, s) = Ready(s, f, on, able)
  <2>1. \A s : \A r \in Ready(s, f, on, able) : r <= N
    BY <1>1 DEF Ready
  <2> QED BY <2>1
<1>12. after[N].filled \in Fillings
  BY <1>10
<1> HIDE DEF ready, S
<1> QED BY <1>4, <1>10, <1>11, <1>12 DEF free

LEMMA TheFirstFills ==
  ASSUME PolicyTypeOK
  PROVE  TheFirstRuleFillsTheSlot
<1> DEFINE asks(r, s) == \E i \in DOMAIN Rules[r].actions :
                           LET a == Resolved(Rules[r].actions[i], figures)
                           IN a.type # "none" /\ Slot[a.type] = s /\ Applies(a.type, figures)
           ready(s) == {r \in active : Holds(Rules[r].when, figures) /\ asks(r, s)}
           able == {type \in DOMAIN Slot : Slot[type] \notin {} /\ Applies(type, figures)}
<1>1. Effects(figures, active, {}) = Evaluated(figures, active, able)
  BY DEF Effects
<1>2. active \subseteq DOMAIN Rules /\ DOMAIN Rules \subseteq Nat
  BY RulesAre DEF PolicyTypeOK
<1>3. \A s : ready(s) = Ready(s, figures, active, able)
  <2>1. ASSUME NEW r \in DOMAIN Rules, NEW s PROVE asks(r, s) <=> AsksFor(r, s, figures, able)
    <3>1. ASSUME NEW i \in DOMAIN Rules[r].actions
          PROVE  LET a == Resolved(Rules[r].actions[i], figures)
                 IN (a.type # "none" /\ Slot[a.type] = s /\ Applies(a.type, figures))
                      <=> (a.type \in able /\ Slot[a.type] = s)
      <4> DEFINE a == Resolved(Rules[r].actions[i], figures)
      <4>1. a \in Actions \cup {NoEffect}
        BY RulesAre, ResolvedIs
      <4> HIDE DEF a
      <4>2. a.type # "none" <=> a.type \in DOMAIN Slot
        BY <4>1, EffectsAre DEF Actions
      <4>3. (a.type # "none" /\ Slot[a.type] = s /\ Applies(a.type, figures))
                      <=> (a.type \in able /\ Slot[a.type] = s)
        BY <4>2
      <4> QED BY <4>3 DEF a
    <3> QED BY <3>1 DEF AsksFor
  <2> HIDE DEF asks, able
  <2> QED BY <1>2, <2>1 DEF Ready
<1>4. able \subseteq DOMAIN Slot
  OBVIOUS
<1> HIDE DEF ready, able
<1>5. ASSUME \A r \in active : ~Rules[r].stop, NEW s \in ActionSlots
      PROVE  IF ready(s) = {} THEN Effects(figures, active, {})[s] = NoEffect
             ELSE Effects(figures, active, {})[s].rule = Min(ready(s))
  <2>1. \A r \in DOMAIN Rules : r \in active => ~Rules[r].stop
    BY <1>5
  <2>2. /\ ready(s) = {} => Effects(figures, active, {})[s] = NoEffect
        /\ \A r \in ready(s) : (\A q \in ready(s) : r <= q) => Effects(figures, active, {})[s].rule = r
    <3>1. /\ Ready(s, figures, active, able) = {} => Evaluated(figures, active, able)[s] = NoEffect
          /\ \A r \in Ready(s, figures, active, able) : (\A q \in Ready(s, figures, active, able) : r <= q) =>
                Evaluated(figures, active, able)[s].rule = r
      BY <1>4, <2>1, RulesFill
    <3> QED BY <1>1, <1>3, <3>1
  <2>3. ready(s) # {} => Min(ready(s)) \in ready(s) /\ \A q \in ready(s) : Min(ready(s)) <= q
    <3> DEFINE S == ready(s)
    <3>1. S \subseteq Nat
      BY <1>2 DEF ready
    <3> HIDE DEF S
    <3>2. S # {} => \E x \in S : \A y \in S : x <= y
      BY <3>1, LeastExists
    <3>3. S # {} => Min(S) \in S /\ \A q \in S : Min(S) <= q
      BY <3>2 DEF Min
    <3> QED BY <3>3 DEF S
  <2> QED BY <2>2, <2>3
<1> HIDE DEF asks
<1> QED BY <1>5 DEF TheFirstRuleFillsTheSlot, ready, asks

-----------------------------------------------------------------------------
(* Rows and their credits.                                                 *)
Earns(c, l) == l.status = "converted" /\ c.of = l.kind /\ c.id = l.id /\ c.hours = l.earned
Costs(c, t) == t.deducted > 0 /\ c.of = "resolution" /\ c.id = t.id /\ c.hours = -t.deducted

RowsAreOwn ==
  /\ \A l \in overtimeLogs : l.id < steps /\ (l.paid => l.status = "approved")
  /\ \A l, m \in overtimeLogs : l.kind = m.kind /\ l.id = m.id => l = m
  /\ \A t \in tardies : t.id < steps
  /\ \A t, u \in tardies : t.id = u.id => t = u

CreditsAreRows ==
  /\ \A c \in credits : (\E l \in overtimeLogs : Earns(c, l)) \/ (\E t \in tardies : Costs(c, t))
  /\ \A l \in overtimeLogs : l.status = "converted" => \E c \in credits : Earns(c, l)
  /\ \A t \in tardies : t.deducted > 0 => \E c \in credits : Costs(c, t)
  /\ \A c, d \in credits : c.of = d.of /\ c.id = d.id => c = d

PolicyInv == PolicyTypeOK /\ steps \in Nat /\ RowsAreOwn /\ CreditsAreRows

LEMMA EarningsAre ==
  ASSUME NEW lates, NEW c
  PROVE  c \in Earnings(lates) <=> \E l \in lates : l.status = "converted" /\ c = Credit(l.kind, l.id, l.earned)
  BY DEF Earnings

LEMMA LateDeductionsAre ==
  ASSUME NEW lates, NEW c
  PROVE  c \in LateDeductions(lates) <=> \E t \in lates : t.deducted > 0 /\ c = Credit("resolution", t.id, -t.deducted)
  BY DEF LateDeductions

LEMMA CreditIs ==
  ASSUME NEW of, NEW id, NEW hours
  PROVE  /\ Credit(of, id, hours).of = of /\ Credit(of, id, hours).id = id
         /\ Credit(of, id, hours).hours = hours
         /\ of \in ActionSlots /\ id \in Nat /\ hours \in Int /\ steps \in Nat => Credit(of, id, hours) \in Adjustment
  BY DEF Credit, Adjustment

LEMMA CreditsAreTheirs ==
  ASSUME PolicyInv
  PROVE  CreditsHaveTheirRows
<1> DEFINE anew(c) == [c EXCEPT !.at = steps]
<1>0. credits \subseteq Adjustment /\ overtimeLogs \subseteq OvertimeLog /\ tardies \subseteq Tardy
  BY DEF PolicyInv, PolicyTypeOK
<1>1. ASSUME NEW c \in credits PROVE anew(c) = Credit(c.of, c.id, c.hours)
  <2>1. c \in Adjustment
    BY <1>0
  <2> QED BY <2>1 DEF Adjustment, Credit
<1>2. \A c, l : Earns(c, l) => Credit(c.of, c.id, c.hours) = Credit(l.kind, l.id, l.earned) /\ l.status = "converted"
  BY DEF Earns
<1>3. \A c, t : Costs(c, t) => Credit(c.of, c.id, c.hours) = Credit("resolution", t.id, -t.deducted) /\ t.deducted > 0
  BY DEF Costs
<1>4. ASSUME NEW c \in credits PROVE anew(c) \in Earnings(overtimeLogs) \cup LateDeductions(tardies)
  <2>1. CASE \E l \in overtimeLogs : Earns(c, l)
    <3>1. PICK l \in overtimeLogs : Earns(c, l)
      BY <2>1
    <3>2. anew(c) = Credit(l.kind, l.id, l.earned) /\ l.status = "converted"
      BY <1>1, <1>2, <3>1
    <3> HIDE DEF anew
    <3> QED BY <3>2, EarningsAre
  <2>2. CASE \E t \in tardies : Costs(c, t)
    <3>1. PICK t \in tardies : Costs(c, t)
      BY <2>2
    <3>2. anew(c) = Credit("resolution", t.id, -t.deducted) /\ t.deducted > 0
      BY <1>1, <1>3, <3>1
    <3> HIDE DEF anew
    <3> QED BY <3>2, LateDeductionsAre
  <2> QED BY <2>1, <2>2 DEF PolicyInv, CreditsAreRows
<1>5. ASSUME NEW x \in Earnings(overtimeLogs) PROVE \E c \in credits : x = anew(c)
  <2>1. PICK l \in overtimeLogs : l.status = "converted" /\ x = Credit(l.kind, l.id, l.earned)
    BY EarningsAre
  <2>2. PICK c \in credits : Earns(c, l)
    BY <2>1 DEF PolicyInv, CreditsAreRows
  <2>3. anew(c) = x
    BY <1>1, <1>2, <2>1, <2>2
  <2> QED BY <2>3
<1>6. ASSUME NEW x \in LateDeductions(tardies) PROVE \E c \in credits : x = anew(c)
  <2>1. PICK t \in tardies : t.deducted > 0 /\ x = Credit("resolution", t.id, -t.deducted)
    BY LateDeductionsAre
  <2>2. PICK c \in credits : Costs(c, t)
    BY <2>1 DEF PolicyInv, CreditsAreRows
  <2>3. anew(c) = x
    BY <1>1, <1>3, <2>1, <2>2
  <2> QED BY <2>3
<1>7. {anew(c) : c \in credits} = Earnings(overtimeLogs) \cup LateDeductions(tardies)
  <2> HIDE DEF anew
  <2> QED BY <1>4, <1>5, <1>6
<1>8. \A c, d \in credits : c.of = d.of /\ c.id = d.id => c = d
  BY DEF PolicyInv, CreditsAreRows
<1> QED BY <1>7, <1>8 DEF CreditsHaveTheirRows

(* The rows that a day gives when it is derived.                           *)
LEMMA HoursAreWhole ==
  ASSUME NEW f \in DayFigures, NEW kind \in LogKinds
  PROVE  HoursOf(kind, f) \in Nat
<1>1. f \in Metrics /\ f.holiday <= f.hours
  BY PolicyAssumption
<1>2. f.overtime \in Nat /\ f.night \in Nat /\ f.holiday \in Nat /\ f.hours \in Nat
  BY <1>1 DEF Metrics
<1>3. ASSUME f.holiday < f.hours
      PROVE  Max({1, Nearest(f.overtime * f.holiday, f.hours)}) \in Nat
  <2> DEFINE x == f.overtime * f.holiday
             n == f.hours
             q == Nearest(x, n)
             S == {1, q}
  <2>1. n \in Nat \ {0} /\ x \in Nat
    BY <1>2, <1>3
  <2> HIDE DEF x, n
  <2>2. q \in Int
    BY <2>1, Divided DEF Nearest
  <2> HIDE DEF q
  <2>3. \E z \in S : \A y \in S : z >= y
    <3>1. CASE q <= 1
      BY <2>2, <3>1
    <3>2. CASE q > 1
      BY <2>2, <3>2
    <3> QED BY <2>2, <3>1, <3>2
  <2>4. Max(S) \in S /\ \A y \in S : Max(S) >= y
    <3> HIDE DEF S
    <3> QED BY <2>3 DEF Max
  <2>5. Max(S) \in Nat
    BY <2>2, <2>4
  <2> QED BY <2>5 DEF q, x, n
<1> QED BY <1>2, <1>3 DEF HoursOf

LEMMA NewLogIs ==
  ASSUME steps \in Nat, NEW f \in DayFigures, NEW kind \in LogKinds, NEW e \in Effect, e # NoEffect
  PROVE  LET l == NewLog(kind, e, f)
         IN l \in OvertimeLog /\ l.id = steps /\ l.kind = kind /\ ~l.paid
<1>1. HoursOf(kind, f) \in Nat
  BY HoursAreWhole
<1>2. e.convert \in BOOLEAN
  BY EffectsAre
<1>3. EarnedByRule(HoursOf(kind, f)) \in Nat
  BY <1>1, PolicyAssumption DEF EarnedByRule
<1> QED BY <1>1, <1>2, <1>3 DEF NewLog, OvertimeLog

LEMMA DeriveStep ==
  ASSUME PolicyInv, NEW f \in DayFigures, RederiveDay(f)
  PROVE  PolicyInv'
<1> DEFINE kept == {l \in overtimeLogs : l.paid}
           effects == Effects(f, active, {l.kind : l \in kept})
           asked == {j \in LogKinds : effects[j] # NoEffect}
           new == {NewLog(k, effects[k], f) : k \in asked}
           due == effects["resolution"]
           deducted == IF due.type = "leave_deduction" THEN f.late ELSE 0
           row == [id |-> steps, hours |-> f.late, deducted |-> deducted, outcome |-> due.type]
           lates == IF due = NoEffect \/ f.late = 0 THEN {} ELSE {row}
           gone == {Key(l.kind, l.id) : l \in overtimeLogs \ kept} \cup {Key("resolution", t.id) : t \in tardies}
<1>0. /\ overtimeLogs \subseteq OvertimeLog /\ tardies \subseteq Tardy /\ credits \subseteq Adjustment
      /\ active \subseteq DOMAIN Rules /\ signedOff \in BOOLEAN /\ steps \in Nat
  BY DEF PolicyInv, PolicyTypeOK
<1>1. /\ steps' = steps + 1 /\ figures' = f /\ UNCHANGED <<active, signedOff>>
      /\ overtimeLogs' = kept \cup new /\ tardies' = lates
      /\ credits' = Without(gone) \cup Earnings(new) \cup LateDeductions(lates)
  BY DEF RederiveDay, Derive, Step
<1>2. effects \in Fillings
  <2> DEFINE able == {type \in DOMAIN Slot : Slot[type] \notin {l.kind : l \in kept} /\ Applies(type, f)}
  <2>1. able \subseteq DOMAIN Slot /\ effects = Evaluated(f, active, able)
    BY DEF Effects
  <2> HIDE DEF able, effects
  <2> QED BY <2>1, RulesFill
<1> HIDE DEF effects
<1>3. \A k \in asked : LET l == NewLog(k, effects[k], f)
                       IN l \in OvertimeLog /\ l.id = steps /\ l.kind = k /\ ~l.paid
  <2>1. \A k \in asked : k \in LogKinds /\ effects[k] \in Effect /\ effects[k] # NoEffect
    BY <1>2, SlotFacts DEF Fillings
  <2> QED BY <1>0, <2>1, NewLogIs
<1> HIDE DEF asked
<1>4. /\ \A l \in new : l \in OvertimeLog /\ l.id = steps /\ ~l.paid
      /\ \A l, m \in new : l.kind = m.kind => l = m
  BY <1>3
<1>5. lates \subseteq Tardy /\ \A t \in lates : t = row /\ t.id = steps
  <2>1. f.late \in Nat
    BY PolicyAssumption DEF Metrics
  <2>2. due \in Effect
    BY <1>2, SlotFacts DEF Fillings
  <2> HIDE DEF due
  <2>3. due # NoEffect => due.type \in DOMAIN Slot
    BY <2>2, EffectsAre
  <2>4. deducted \in Nat
    BY <2>1
  <2> HIDE DEF deducted
  <2>5. due # NoEffect => row \in Tardy
    BY <1>0, <2>1, <2>3, <2>4 DEF Tardy
  <2> QED BY <2>5
<1>6. Without(gone) = {}
  <2> SUFFICES ASSUME NEW c \in credits PROVE Key(c.of, c.id) \in gone
    BY DEF Without
  <2>1. CASE \E l \in overtimeLogs : Earns(c, l)
    <3>1. PICK l \in overtimeLogs : Earns(c, l)
      BY <2>1
    <3>2. l \in overtimeLogs \ kept
      BY <3>1 DEF Earns, PolicyInv, RowsAreOwn
    <3>3. Key(c.of, c.id) = Key(l.kind, l.id)
      BY <3>1 DEF Earns
    <3> QED BY <3>2, <3>3
  <2>2. CASE \E t \in tardies : Costs(c, t)
    BY <2>2 DEF Costs
  <2> QED BY <2>1, <2>2 DEF PolicyInv, CreditsAreRows
<1> HIDE DEF new, lates, gone, row
<1>7. \A c : c \in credits' <=> \/ \E l \in new : l.status = "converted" /\ c = Credit(l.kind, l.id, l.earned)
                                \/ \E t \in lates : t.deducted > 0 /\ c = Credit("resolution", t.id, -t.deducted)
  BY <1>1, <1>6, EarningsAre, LateDeductionsAre
<1>8. \A l \in OvertimeLog : l.kind \in LogKinds /\ l.kind \in ActionSlots /\ l.kind # "resolution" /\ l.id \in Nat
                             /\ l.earned \in Int
  BY SlotFacts DEF OvertimeLog
<1>9. \A t \in Tardy : t.id \in Nat /\ -t.deducted \in Int /\ "resolution" \in ActionSlots
  BY SlotFacts DEF Tardy
<1>10. PolicyTypeOK' /\ steps' \in Nat
  <2>1. overtimeLogs' \subseteq OvertimeLog
    BY <1>0, <1>1, <1>4
  <2>2. credits' \subseteq Adjustment
    <3>1. ASSUME NEW l \in new PROVE Credit(l.kind, l.id, l.earned) \in Adjustment
      BY <1>0, <1>4, <1>8, CreditIs
    <3>2. ASSUME NEW t \in lates PROVE Credit("resolution", t.id, -t.deducted) \in Adjustment
      BY <1>0, <1>5, <1>9, CreditIs
    <3> QED BY <1>7, <3>1, <3>2
  <2> QED BY <1>0, <1>1, <1>5, <2>1, <2>2 DEF PolicyTypeOK
<1>11. RowsAreOwn'
  <2>1. ASSUME NEW l \in overtimeLogs' PROVE l.id < steps' /\ (l.paid => l.status = "approved")
    <3>1. CASE l \in kept
      <4>1. l.id < steps /\ (l.paid => l.status = "approved") /\ l.id \in Nat
        BY <1>0, <1>8, <3>1 DEF PolicyInv, RowsAreOwn
      <4> QED BY <1>0, <1>1, <4>1
    <3>2. CASE l \in new
      BY <1>0, <1>1, <1>4, <3>2
    <3> QED BY <1>1, <3>1, <3>2
  <2>2. ASSUME NEW l \in overtimeLogs', NEW m \in overtimeLogs', l.kind = m.kind, l.id = m.id PROVE l = m
    <3>1. \A o \in kept : o.id < steps /\ o.id \in Nat
      BY <1>0, <1>8 DEF PolicyInv, RowsAreOwn
    <3>2. \A o \in kept : o.id # steps
      BY <1>0, <3>1
    <3>3. l \in kept <=> m \in kept
      BY <1>1, <1>4, <2>2, <3>2
    <3>4. CASE l \in kept
      BY <2>2, <3>3, <3>4 DEF PolicyInv, RowsAreOwn
    <3>5. CASE l \notin kept
      BY <1>1, <1>4, <2>2, <3>3, <3>5
    <3> QED BY <3>4, <3>5
  <2>3. \A t \in tardies' : t.id < steps'
    BY <1>0, <1>1, <1>5
  <2>4. \A t, u \in tardies' : t.id = u.id => t = u
    BY <1>1, <1>5
  <2> QED BY <2>1, <2>2, <2>3, <2>4 DEF RowsAreOwn
<1>12. CreditsAreRows'
  <2>1. \A l : l.status = "converted" => Earns(Credit(l.kind, l.id, l.earned), l)
    BY CreditIs DEF Earns
  <2>2. \A t : t.deducted > 0 => Costs(Credit("resolution", t.id, -t.deducted), t)
    BY CreditIs DEF Costs
  <2>3. \A c \in credits' : (\E l \in overtimeLogs' : Earns(c, l)) \/ (\E t \in tardies' : Costs(c, t))
    BY <1>1, <1>7, <2>1, <2>2
  <2>4. ASSUME NEW l \in overtimeLogs', l.status = "converted" PROVE \E c \in credits' : Earns(c, l)
    <3>1. l \in new
      BY <1>1, <2>4 DEF PolicyInv, RowsAreOwn
    <3> QED BY <1>7, <2>1, <2>4, <3>1
  <2>5. \A t \in tardies' : t.deducted > 0 => \E c \in credits' : Costs(c, t)
    BY <1>1, <1>7, <2>2
  <2>6. ASSUME NEW c \in credits', NEW d \in credits', c.of = d.of, c.id = d.id PROVE c = d
    <3>1. \A l \in new : Credit(l.kind, l.id, l.earned).of = l.kind /\ l.kind # "resolution"
      BY <1>4, <1>8, CreditIs
    <3>2. \A t \in lates : Credit("resolution", t.id, -t.deducted).of = "resolution"
      BY CreditIs
    <3>3. CASE \E l \in new : l.status = "converted" /\ c = Credit(l.kind, l.id, l.earned)
      <4>1. PICK l \in new : c = Credit(l.kind, l.id, l.earned)
        BY <3>3
      <4>2. PICK m \in new : d = Credit(m.kind, m.id, m.earned)
        BY <1>7, <2>6, <3>1, <3>2, <4>1
      <4>3. l = m
        BY <1>4, <2>6, <3>1, <4>1, <4>2
      <4> QED BY <4>1, <4>2, <4>3
    <3>4. CASE \E t \in lates : t.deducted > 0 /\ c = Credit("resolution", t.id, -t.deducted)
      <4>1. PICK t \in lates : c = Credit("resolution", t.id, -t.deducted)
        BY <3>4
      <4>2. PICK u \in lates : d = Credit("resolution", u.id, -u.deducted)
        BY <1>7, <2>6, <3>1, <3>2, <4>1
      <4> QED BY <1>5, <4>1, <4>2
    <3> QED BY <1>7, <3>3, <3>4
  <2> QED BY <2>3, <2>4, <2>5, <2>6 DEF CreditsAreRows
<1> QED BY <1>10, <1>11, <1>12 DEF PolicyInv

(* A row is changed where it stands.                                       *)
LEMMA LogsChange ==
  ASSUME PolicyInv, NEW l \in overtimeLogs, NEW m \in OvertimeLog, Become(l, m), steps' = steps + 1,
         m.kind = l.kind, m.id = l.id, m.paid => m.status = "approved",
         UNCHANGED <<figures, active, tardies, signedOff>>, credits' \subseteq Adjustment
  PROVE  /\ PolicyTypeOK' /\ steps' \in Nat /\ RowsAreOwn'
         /\ \A o : o \in overtimeLogs' <=> o = m \/ (o \in overtimeLogs /\ o # l)
<1>1. \A o : o \in overtimeLogs' <=> o = m \/ (o \in overtimeLogs /\ o # l)
  BY DEF Become
<1>2. PolicyTypeOK' /\ steps' \in Nat
  BY <1>1 DEF PolicyInv, PolicyTypeOK
<1>3. ASSUME NEW o \in overtimeLogs' PROVE o.id < steps' /\ (o.paid => o.status = "approved")
  <2>1. l.id < steps /\ l.id \in Nat /\ steps \in Nat
    BY DEF PolicyInv, PolicyTypeOK, RowsAreOwn, OvertimeLog
  <2>2. CASE o = m
    BY <2>1, <2>2
  <2>3. CASE o \in overtimeLogs
    <3>1. o.id < steps /\ o.id \in Nat /\ (o.paid => o.status = "approved")
      BY <2>3 DEF PolicyInv, PolicyTypeOK, RowsAreOwn, OvertimeLog
    <3> QED BY <2>1, <3>1
  <2> QED BY <1>1, <2>2, <2>3
<1>4. ASSUME NEW o \in overtimeLogs', NEW q \in overtimeLogs', o.kind = q.kind, o.id = q.id PROVE o = q
  <2>1. \A a, b \in overtimeLogs : a.kind = b.kind /\ a.id = b.id => a = b
    BY DEF PolicyInv, RowsAreOwn
  <2> QED BY <1>1, <1>4, <2>1
<1>5. RowsAreOwn'
  <2>1. (\A t \in tardies : t.id < steps) /\ (\A t, u \in tardies : t.id = u.id => t = u) /\ steps \in Nat
        /\ \A t \in tardies : t.id \in Nat
    BY DEF PolicyInv, PolicyTypeOK, RowsAreOwn, Tardy
  <2>2. \A t \in tardies' : t.id < steps'
    BY <2>1
  <2> QED BY <1>3, <1>4, <2>1, <2>2 DEF RowsAreOwn
<1> QED BY <1>1, <1>2, <1>5

LEMMA DecideLogStep ==
  ASSUME PolicyInv, NEW l \in overtimeLogs, NEW verdict \in {"approved", "rejected"}, DecideLog(l, verdict)
  PROVE  PolicyInv'
<1> DEFINE m == [l EXCEPT !.status = verdict]
<1>1. /\ l \in OvertimeLog /\ l.status = "pending" /\ Become(l, m) /\ steps' = steps + 1
      /\ UNCHANGED <<figures, active, tardies, credits, signedOff>> /\ credits \subseteq Adjustment
  BY DEF DecideLog, Step, PolicyInv, PolicyTypeOK
<1>2. m \in OvertimeLog /\ m.kind = l.kind /\ m.id = l.id /\ m.status = verdict /\ m.paid = l.paid
  BY <1>1 DEF OvertimeLog
<1>3. ~l.paid
  BY <1>1 DEF PolicyInv, RowsAreOwn
<1> HIDE DEF m
<1>4. /\ PolicyTypeOK' /\ steps' \in Nat /\ RowsAreOwn'
      /\ \A o : o \in overtimeLogs' <=> o = m \/ (o \in overtimeLogs /\ o # l)
  BY <1>1, <1>2, <1>3, LogsChange
<1>5. \A c : ~Earns(c, l) /\ ~Earns(c, m)
  BY <1>1, <1>2 DEF Earns
<1>6. CreditsAreRows'
  <2>1. \A c \in credits' : (\E o \in overtimeLogs' : Earns(c, o)) \/ (\E t \in tardies' : Costs(c, t))
    BY <1>1, <1>4, <1>5 DEF PolicyInv, CreditsAreRows
  <2>2. \A o \in overtimeLogs' : o.status = "converted" => \E c \in credits' : Earns(c, o)
    BY <1>1, <1>2, <1>4 DEF PolicyInv, CreditsAreRows
  <2>3. \A t \in tardies' : t.deducted > 0 => \E c \in credits' : Costs(c, t)
    BY <1>1 DEF PolicyInv, CreditsAreRows
  <2>4. \A c, d \in credits' : c.of = d.of /\ c.id = d.id => c = d
    BY <1>1 DEF PolicyInv, CreditsAreRows
  <2> QED BY <2>1, <2>2, <2>3, <2>4 DEF CreditsAreRows
<1> QED BY <1>4, <1>6 DEF PolicyInv

LEMMA ConvertLogStep ==
  ASSUME PolicyInv, NEW l \in overtimeLogs, ConvertLog(l)
  PROVE  PolicyInv'
<1> DEFINE worth == EarnedByReviewer(l.hours)
           m == [l EXCEPT !.status = "converted", !.earned = worth]
           new == Credit(l.kind, l.id, worth)
<1>1. /\ l \in OvertimeLog /\ l.status = "approved" /\ ~l.paid /\ Become(l, m) /\ steps' = steps + 1
      /\ UNCHANGED <<figures, active, tardies, signedOff>> /\ credits \subseteq Adjustment
      /\ credits' = credits \cup {new} /\ steps \in Nat
  BY DEF ConvertLog, Step, PolicyInv, PolicyTypeOK
<1>2. worth \in Nat
  <2> DEFINE x == l.hours * FullDay
  <2>1. x \in Nat /\ Rate \in Nat \ {0}
    BY <1>1, PolicyAssumption DEF OvertimeLog
  <2> HIDE DEF x
  <2>2. x \div Rate \in Nat
    <3>1. x \div Rate \in Int /\ 0 \div Rate = 0
      <4>1. (Rate * 0 + 0) \div Rate = 0 /\ Rate * 0 + 0 = 0
        BY <2>1, DividedOnce
      <4> QED BY <2>1, <4>1, Divided
    <3>2. 0 \div Rate <= x \div Rate
      BY <2>1, DivisionIsMonotone
    <3> QED BY <3>1, <3>2
  <2> QED BY <2>2 DEF x, EarnedByReviewer
<1> HIDE DEF worth
<1>3. m \in OvertimeLog /\ m.kind = l.kind /\ m.id = l.id /\ m.status = "converted" /\ m.paid = l.paid /\ m.earned = worth
  BY <1>1, <1>2 DEF OvertimeLog
<1>4. l.kind \in ActionSlots /\ l.kind # "resolution" /\ l.id \in Nat
  BY <1>1, SlotFacts DEF OvertimeLog
<1>5. new \in Adjustment /\ new.of = l.kind /\ new.id = l.id /\ new.hours = worth
  BY <1>1, <1>2, <1>4, CreditIs
<1> HIDE DEF m, new
<1>6. /\ PolicyTypeOK' /\ steps' \in Nat /\ RowsAreOwn'
      /\ \A o : o \in overtimeLogs' <=> o = m \/ (o \in overtimeLogs /\ o # l)
  BY <1>1, <1>3, <1>5, LogsChange
<1>7. \A c : ~Earns(c, l)
  BY <1>1 DEF Earns
<1>8. Earns(new, m)
  BY <1>3, <1>5 DEF Earns
<1>9. CreditsAreRows'
  <2>1. \A c \in credits' : (\E o \in overtimeLogs' : Earns(c, o)) \/ (\E t \in tardies' : Costs(c, t))
    BY <1>1, <1>6, <1>7, <1>8 DEF PolicyInv, CreditsAreRows
  <2>2. \A o \in overtimeLogs' : o.status = "converted" => \E c \in credits' : Earns(c, o)
    BY <1>1, <1>6, <1>8 DEF PolicyInv, CreditsAreRows
  <2>3. \A t \in tardies' : t.deducted > 0 => \E c \in credits' : Costs(c, t)
    BY <1>1 DEF PolicyInv, CreditsAreRows
  <2>4. ASSUME NEW c \in credits, c.of = new.of, c.id = new.id PROVE FALSE
    <3>1. CASE \E o \in overtimeLogs : Earns(c, o)
      <4>1. PICK o \in overtimeLogs : Earns(c, o)
        BY <3>1
      <4>2. o = l
        BY <1>5, <2>4, <4>1 DEF Earns, PolicyInv, RowsAreOwn
      <4> QED BY <1>7, <4>1, <4>2
    <3>2. CASE \E t \in tardies : Costs(c, t)
      BY <1>4, <1>5, <2>4, <3>2 DEF Costs
    <3> QED BY <3>1, <3>2 DEF PolicyInv, CreditsAreRows
  <2>5. \A c, d \in credits' : c.of = d.of /\ c.id = d.id => c = d
    BY <1>1, <2>4 DEF PolicyInv, CreditsAreRows
  <2> QED BY <2>1, <2>2, <2>3, <2>5 DEF CreditsAreRows
<1> QED BY <1>6, <1>9 DEF PolicyInv

LEMMA ResolveStep ==
  ASSUME PolicyInv, NEW t \in tardies, NEW outcome \in {"salary_deduction", "leave_deduction", "send_warning"},
         ResolveTardiness(t, outcome)
  PROVE  PolicyInv'
<1> DEFINE u == [t EXCEPT !.outcome = outcome,
                          !.deducted = IF outcome = "leave_deduction" THEN t.hours ELSE 0]
           gone == {Key("resolution", t.id)}
<1>1. /\ t \in Tardy /\ steps' = steps + 1 /\ tardies' = (tardies \ {t}) \cup {u}
      /\ credits' = Without(gone) \cup LateDeductions({u})
      /\ UNCHANGED <<figures, active, overtimeLogs, signedOff>> /\ credits \subseteq Adjustment
      /\ overtimeLogs \subseteq OvertimeLog /\ tardies \subseteq Tardy /\ steps \in Nat
  BY DEF ResolveTardiness, Step, PolicyInv, PolicyTypeOK
<1>2. u \in Tardy /\ u.id = t.id
  BY <1>1, SlotFacts DEF Tardy
<1> HIDE DEF u
<1>3. \A c : c \in credits' <=> \/ c \in credits /\ ~(c.of = "resolution" /\ c.id = t.id)
                                \/ u.deducted > 0 /\ c = Credit("resolution", u.id, -u.deducted)
  <2>1. \A c : c \in LateDeductions({u}) <=> u.deducted > 0 /\ c = Credit("resolution", u.id, -u.deducted)
    BY LateDeductionsAre
  <2>2. \A c : c \in Without(gone) <=> c \in credits /\ ~(c.of = "resolution" /\ c.id = t.id)
    BY DEF Without, Key
  <2> HIDE DEF gone
  <2> QED BY <1>1, <2>1, <2>2
<1> DEFINE new == Credit("resolution", u.id, -u.deducted)
<1>4. new \in Adjustment /\ new.of = "resolution" /\ new.id = t.id /\ (u.deducted > 0 => Costs(new, u))
  <2>1. "resolution" \in ActionSlots /\ u.id \in Nat /\ -u.deducted \in Int
    BY <1>2, SlotFacts DEF Tardy
  <2> QED BY <1>1, <1>2, <2>1, CreditIs DEF Costs
<1> HIDE DEF new
<1>5. PolicyTypeOK' /\ steps' \in Nat
  <2>1. credits' \subseteq Adjustment
    BY <1>1, <1>3, <1>4 DEF new
  <2> QED BY <1>1, <1>2, <2>1 DEF PolicyInv, PolicyTypeOK
<1>6. RowsAreOwn'
  <2>1. \A l \in overtimeLogs : l.id < steps' /\ (l.paid => l.status = "approved")
    BY <1>1 DEF PolicyInv, RowsAreOwn, OvertimeLog
  <2>2. \A l, m \in overtimeLogs : l.kind = m.kind /\ l.id = m.id => l = m
    BY DEF PolicyInv, RowsAreOwn
  <2>3. \A v \in tardies' : v.id < steps'
    <3>1. \A v \in tardies : v.id < steps /\ v.id \in Nat
      BY <1>1 DEF PolicyInv, RowsAreOwn, Tardy
    <3> QED BY <1>1, <1>2, <3>1
  <2>4. \A v, w \in tardies' : v.id = w.id => v = w
    <3>1. \A v, w \in tardies : v.id = w.id => v = w
      BY DEF PolicyInv, RowsAreOwn
    <3> QED BY <1>1, <1>2, <3>1
  <2> QED BY <1>1, <2>1, <2>2, <2>3, <2>4 DEF RowsAreOwn
<1>7. \A c \in credits : Costs(c, t) => c.of = "resolution" /\ c.id = t.id
  BY DEF Costs
<1>8. \A c \in credits : \A v \in tardies : v # t /\ Costs(c, v) => ~(c.of = "resolution" /\ c.id = t.id)
  BY DEF Costs, PolicyInv, RowsAreOwn
<1>9. \A c \in credits : \A l \in overtimeLogs : Earns(c, l) => ~(c.of = "resolution" /\ c.id = t.id)
  BY <1>1, SlotFacts DEF Earns, OvertimeLog
<1>10. CreditsAreRows'
  <2>1. ASSUME NEW c \in credits'
        PROVE  (\E l \in overtimeLogs' : Earns(c, l)) \/ (\E v \in tardies' : Costs(c, v))
    <3>1. CASE c \in credits /\ ~(c.of = "resolution" /\ c.id = t.id)
      <4>1. (\E l \in overtimeLogs : Earns(c, l)) \/ (\E v \in tardies : Costs(c, v))
        BY <3>1 DEF PolicyInv, CreditsAreRows
      <4>2. ~Costs(c, t)
        BY <1>7, <3>1
      <4> QED BY <1>1, <4>1, <4>2
    <3>2. CASE u.deducted > 0 /\ c = new
      BY <1>1, <1>4, <3>2
    <3> QED BY <1>3, <3>1, <3>2 DEF new
  <2>2. \A l \in overtimeLogs' : l.status = "converted" => \E c \in credits' : Earns(c, l)
    BY <1>1, <1>3, <1>9 DEF PolicyInv, CreditsAreRows
  <2>3. ASSUME NEW v \in tardies', v.deducted > 0 PROVE \E c \in credits' : Costs(c, v)
    <3>1. CASE v = u
      BY <1>3, <1>4, <2>3, <3>1 DEF new
    <3>2. CASE v # u
      <4>1. v \in tardies /\ v # t
        BY <1>1, <3>2
      <4> QED BY <1>3, <1>8, <2>3, <4>1 DEF PolicyInv, CreditsAreRows
    <3> QED BY <3>1, <3>2
  <2>4. \A c, d \in credits' : c.of = d.of /\ c.id = d.id => c = d
    BY <1>3, <1>4 DEF PolicyInv, CreditsAreRows, new
  <2> QED BY <2>1, <2>2, <2>3, <2>4 DEF CreditsAreRows
<1> QED BY <1>5, <1>6, <1>10 DEF PolicyInv

LEMMA SignOffStep ==
  ASSUME PolicyInv, SignOff
  PROVE  PolicyInv'
<1> DEFINE paid(l) == [l EXCEPT !.paid = l.status = "approved"]
<1>0. /\ overtimeLogs \subseteq OvertimeLog /\ steps' = steps + 1 /\ steps \in Nat /\ signedOff' = TRUE
      /\ UNCHANGED <<figures, active, tardies, credits>> /\ tardies \subseteq Tardy
  BY DEF SignOff, Step, PolicyInv, PolicyTypeOK
<1>1. ASSUME NEW l \in OvertimeLog
      PROVE  /\ paid(l) \in OvertimeLog /\ paid(l).id = l.id /\ paid(l).kind = l.kind /\ paid(l).status = l.status
             /\ paid(l).earned = l.earned /\ (paid(l).paid => l.status = "approved")
  BY DEF OvertimeLog
<1>2. \/ overtimeLogs' = overtimeLogs
      \/ overtimeLogs' = {paid(l) : l \in overtimeLogs}
  BY DEF SignOff
<1> HIDE DEF paid
<1>3. \A c : \A l \in OvertimeLog : Earns(c, paid(l)) <=> Earns(c, l)
  BY <1>1 DEF Earns
<1>4. PolicyTypeOK' /\ steps' \in Nat
  BY <1>0, <1>1, <1>2 DEF PolicyInv, PolicyTypeOK
<1>5. \A l \in overtimeLogs : l.id < steps' /\ l.id \in Nat
  BY <1>0 DEF PolicyInv, RowsAreOwn, OvertimeLog
<1>6. RowsAreOwn'
  <2>1. \A l \in overtimeLogs' : l.id < steps' /\ (l.paid => l.status = "approved")
    BY <1>0, <1>1, <1>2, <1>5 DEF PolicyInv, RowsAreOwn
  <2>2. \A l, m \in overtimeLogs' : l.kind = m.kind /\ l.id = m.id => l = m
    <3>1. \A l, m \in overtimeLogs : l.kind = m.kind /\ l.id = m.id => l = m
      BY DEF PolicyInv, RowsAreOwn
    <3> QED BY <1>0, <1>1, <1>2, <3>1
  <2>3. \A t \in tardies' : t.id < steps'
    BY <1>0 DEF PolicyInv, RowsAreOwn, Tardy
  <2>4. \A t, u \in tardies' : t.id = u.id => t = u
    BY <1>0 DEF PolicyInv, RowsAreOwn
  <2> QED BY <2>1, <2>2, <2>3, <2>4 DEF RowsAreOwn
<1>7. CreditsAreRows'
  <2>1. \A c \in credits' : (\E l \in overtimeLogs' : Earns(c, l)) \/ (\E t \in tardies' : Costs(c, t))
    BY <1>0, <1>2, <1>3 DEF PolicyInv, CreditsAreRows
  <2>2. \A l \in overtimeLogs' : l.status = "converted" => \E c \in credits' : Earns(c, l)
    BY <1>0, <1>1, <1>2, <1>3 DEF PolicyInv, CreditsAreRows
  <2>3. \A t \in tardies' : t.deducted > 0 => \E c \in credits' : Costs(c, t)
    BY <1>0 DEF PolicyInv, CreditsAreRows
  <2>4. \A c, d \in credits' : c.of = d.of /\ c.id = d.id => c = d
    BY <1>0 DEF PolicyInv, CreditsAreRows
  <2> QED BY <2>1, <2>2, <2>3, <2>4 DEF CreditsAreRows
<1> QED BY <1>4, <1>6, <1>7 DEF PolicyInv

LEMMA PolicyInvHolds == PolicySpec => []PolicyInv
<1>1. PolicyInit => PolicyInv
  <2> SUFFICES ASSUME PolicyInit PROVE PolicyInv
    OBVIOUS
  <2>1. /\ figures \in DayFigures /\ active \subseteq DOMAIN Rules /\ overtimeLogs = {} /\ tardies = {}
        /\ credits = {} /\ signedOff = FALSE /\ steps = 0
    BY DEF PolicyInit
  <2>2. PolicyTypeOK /\ steps \in Nat
    BY <2>1 DEF PolicyTypeOK
  <2>3. RowsAreOwn /\ CreditsAreRows
    BY <2>1 DEF RowsAreOwn, CreditsAreRows
  <2> QED BY <2>2, <2>3 DEF PolicyInv
<1>2. PolicyInv /\ [PolicyNext]_policyVars => PolicyInv'
  <2> SUFFICES ASSUME PolicyInv, [PolicyNext]_policyVars PROVE PolicyInv'
    OBVIOUS
  <2>1. CASE \E f \in DayFigures : RederiveDay(f)
    BY <2>1, DeriveStep
  <2>2. CASE \E r \in DOMAIN Rules : ToggleRule(r)
    <3>1. PICK r \in DOMAIN Rules : ToggleRule(r)
      BY <2>2
    <3>2. /\ active' \subseteq DOMAIN Rules /\ steps' = steps + 1 /\ steps \in Nat
          /\ UNCHANGED <<figures, overtimeLogs, tardies, credits, signedOff>>
      BY <3>1 DEF ToggleRule, Step, PolicyInv, PolicyTypeOK
    <3>3. PolicyTypeOK' /\ steps' \in Nat /\ CreditsAreRows'
      BY <3>2 DEF PolicyInv, PolicyTypeOK, CreditsAreRows
    <3>4. RowsAreOwn'
      <4>1. (\A l \in overtimeLogs : l.id \in Nat) /\ \A t \in tardies : t.id \in Nat
        BY DEF PolicyInv, PolicyTypeOK, OvertimeLog, Tardy
      <4> QED BY <3>2, <4>1 DEF PolicyInv, RowsAreOwn
    <3> QED BY <3>3, <3>4 DEF PolicyInv
  <2>3. CASE \E l \in overtimeLogs, verdict \in {"approved", "rejected"} : DecideLog(l, verdict)
    BY <2>3, DecideLogStep
  <2>4. CASE \E l \in overtimeLogs : ConvertLog(l)
    BY <2>4, ConvertLogStep
  <2>5. CASE \E t \in tardies, o \in {"salary_deduction", "leave_deduction", "send_warning"} : ResolveTardiness(t, o)
    BY <2>5, ResolveStep
  <2>6. CASE SignOff
    BY <2>6, SignOffStep
  <2>7. CASE UNCHANGED policyVars
    BY <2>7 DEF policyVars, PolicyInv, PolicyTypeOK, RowsAreOwn, CreditsAreRows
  <2> QED BY <2>1, <2>2, <2>3, <2>4, <2>5, <2>6, <2>7 DEF PolicyNext
<1> QED BY <1>1, <1>2, PTL DEF PolicySpec

(* A slot is filled by the first rule that asks for it, and however often  *)
(* the day is derived again, every leave credit is that of the one row     *)
(* that gave or took it.                                                   *)
THEOREM PoliciesTheorem == PolicySpec => PolicyCreditsAreDue
<1>1. PolicyInv => PoliciesActOnce
  BY CreditsAreTheirs, TheFirstFills DEF PoliciesActOnce, PolicyInv
<1>2. PolicyInv => (steps > 0 => PoliciesActOnce)
  BY <1>1
<1> QED BY <1>1, <1>2, PolicyInvHolds, PTL DEF PolicyCreditsAreDue
=============================================================================
