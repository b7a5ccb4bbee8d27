------------------------------ MODULE Payroll ------------------------------
(***************************************************************************)
(* Payroll runs and what they pay: the periods with their maker and        *)
(* checker, the background computation, the overtime that attendance       *)
(* yields, and the ledger of bonuses and recurring allowances.             *)
(*                                                                         *)
(* A handler reads the period's row, decides, and commits the columns it   *)
(* changed in one step; a background task reads and writes in two.         *)
(*                                                                         *)
(* Amounts are left out: a figure is the set of things it pays for. A day  *)
(* is an employee's attendance record of a date; the policy engine keeps   *)
(* at most one log of each kind for it, all kinds alike, so here it is one.*)
(***************************************************************************)
EXTENDS Naturals, FiniteSets

CONSTANTS
  Employees,
  Makers,       \* people with finances:edit and salary access
  Nobody,       \* NULL in a column that names a person or a period
  Periods,
  Days,         \* attendance records
  Bonuses,      \* compensation lines added by hand
  Occurrences,  \* occurrences of recurring allowances
  EmployeeOf,   \* whose day, bonus or allowance it is
  Covers,       \* period -> the days between its two dates
  Due,          \* period -> the bonuses and occurrences it is to pay
  Horizon,      \* period -> the occurrences a computation of it makes
  MaxCopies,    \* bound on how often a day's overtime is derived anew
  MaxCrashes    \* bound on restarts of the server

(* The ledger's rows: `by` is the run whose computation made the row.      *)
Rows == [what : Bonuses, by : {Nobody}] \cup [what : Occurrences, by : Periods \cup {Nobody}]

ASSUME PayrollAssumption ==
  /\ Nobody \notin Makers \cup Periods
  /\ Bonuses \cap Occurrences = {}
  /\ EmployeeOf \in [Days \cup Bonuses \cup Occurrences -> Employees]
  /\ Covers \in [Periods -> SUBSET Days]
  /\ Due \in [Periods -> SUBSET (Bonuses \cup Occurrences)]
  /\ Horizon \in [Periods -> SUBSET Occurrences]
  /\ MaxCopies \in Nat
  /\ MaxCrashes \in Nat

VARIABLES
  period,   \* the row of each period: status, who computed, approved and finalized it
  items,    \* the payroll items of each period: whom and what they pay for
  log,      \* the overtime log of each day
  line,     \* the status of each row of the compensation ledger
  payable,  \* the active employees who have a salary
  tasks,    \* background computations
  crashes   \* how often the server has been restarted

vars == <<period, items, log, line, payable, tasks, crashes>>

Statuses == {"draft", "computing", "computed", "compute_failed", "approved", "finalized"}
PeriodRow == [status : Statuses, maker : Makers \cup {Nobody},
              checker : Makers \cup {Nobody}, closer : Makers \cup {Nobody}]
Copies == 0 .. MaxCopies
Figures == [employees : SUBSET Employees, logs : SUBSET (Days \X Copies), rows : SUBSET Rows]
Log == [copy : Copies, status : {"none", "pending", "approved", "rejected", "converted"},
        paid : Periods \cup {Nobody}]
Task == [p : Periods, by : Makers, missing : SUBSET Occurrences, phase : {"due", "running"}]

NoFigures == [employees |-> {}, logs |-> {}, rows |-> {}]

TypeOK ==
  /\ period \in [Periods -> PeriodRow]
  /\ items \in [Periods -> Figures]
  /\ log \in [Days -> Log]
  /\ line \in [Rows -> {"none", "scheduled", "paid", "void"}]
  /\ payable \subseteq Employees
  /\ tasks \subseteq Task
  /\ crashes \in 0 .. MaxCrashes

Init ==
  /\ period = [p \in Periods |-> [status |-> "draft", maker |-> Nobody,
                                  checker |-> Nobody, closer |-> Nobody]]
  /\ items = [p \in Periods |-> NoFigures]
  /\ log = [d \in Days |-> [copy |-> 0, status |-> "none", paid |-> Nobody]]
  /\ line = [r \in Rows |-> "none"]
  /\ payable = Employees
  /\ tasks = {}
  /\ crashes = 0

-----------------------------------------------------------------------------
(* The handlers of the router: when they act, and what becomes of the row. *)

SignedOff(row) == row.status \in {"approved", "finalized"}

(* A slip: the maker may finalize. *)
AllowedToFinalizeOwn(op, u, row) ==
  CASE op = "compute"  -> row.status \in {"draft", "computed", "compute_failed"}
    [] op = "approve"  -> row.status = "computed" /\ row.maker # u
    [] op = "finalize" -> row.status = "approved"

(* A slip: a run that was signed off is computed again. *)
AllowedToRecompute(op, u, row) ==
  CASE op = "compute"  -> row.status \in {"draft", "computed", "compute_failed", "finalized"}
    [] op = "approve"  -> row.status = "computed" /\ row.maker # u
    [] op = "finalize" -> row.status = "approved" /\ row.maker # u

Allowed(op, u, row) ==
  CASE op = "compute"  -> row.status \in {"draft", "computed", "compute_failed"}
    [] op = "approve"  -> row.status = "computed" /\ row.maker # u
    [] op = "finalize" -> row.status = "approved" /\ row.maker # u

After(op, u, row) ==
  CASE op = "compute"  -> [row EXCEPT !.status = "computing", !.maker = u, !.checker = Nobody]
    [] op = "approve"  -> [row EXCEPT !.status = "approved", !.checker = u]
    [] op = "finalize" -> [row EXCEPT !.status = "finalized", !.closer = u]

Move(op, u, p) ==
  /\ Allowed(op, u, period[p])
  /\ period' = [period EXCEPT ![p] = After(op, u, period[p])]

(* start_compute commits and leaves the work to a task.                    *)
StartCompute(u, p) ==
  /\ Move("compute", u, p)
  /\ tasks' = tasks \cup {[p |-> p, by |-> u, missing |-> {}, phase |-> "due"]}
  /\ UNCHANGED <<items, log, line, payable, crashes>>

Approve(u, p) ==
  /\ Move("approve", u, p)
  /\ UNCHANGED <<items, log, line, payable, tasks, crashes>>

PaidLine(p, r) ==
  IF r \in items[p].rows /\ line[r] = "scheduled" THEN "paid" ELSE line[r]

PaidLog(p, d) ==
  IF <<d, log[d].copy>> \in items[p].logs /\ log[d].status # "none"
  THEN [log[d] EXCEPT !.paid = p] ELSE log[d]

(* A slip: the overtime a run paid is left as it was. *)
FinalizeLeavingLogs(u, p) ==
  /\ Move("finalize", u, p)
  /\ line' = [r \in Rows |-> PaidLine(p, r)]
  /\ UNCHANGED <<items, log, payable, tasks, crashes>>

(* Finalizing marks what the items pay for: the lines that are still to be *)
(* paid, and the logs that still exist.                                    *)
Finalize(u, p) ==
  /\ Move("finalize", u, p)
  /\ line' = [r \in Rows |-> PaidLine(p, r)]
  /\ log' = [d \in Days |-> PaidLog(p, d)]
  /\ UNCHANGED <<items, payable, tasks, crashes>>

-----------------------------------------------------------------------------
(* The background computation.                                             *)

(* An occurrence is there when any row was made for it, a void one too.    *)
Made(o) == \E r \in Rows : r.what = o /\ line[r] # "none"

(* The task reads the period and the recurring allowances that are due and *)
(* not there yet.                                                          *)
TaskBegins(t) ==
  /\ t.phase = "due"
  /\ tasks' = (tasks \ {t}) \cup
       {[t EXCEPT !.phase = "running", !.missing = {o \in Horizon[t.p] : ~Made(o)}]}
  /\ UNCHANGED <<period, items, log, line, payable, crashes>>

(* What a run of p pays for: overtime approved and not yet paid, and the   *)
(* lines that are due and still to be paid, of everyone with a salary.     *)
Computed(p, lines) ==
  [employees |-> payable,
   logs |-> {<<d, log[d].copy>> : d \in {x \in Covers[p] :
               /\ EmployeeOf[x] \in payable
               /\ log[x].status = "approved"
               /\ log[x].paid = Nobody}},
   rows |-> {r \in Rows : /\ r.what \in Due[p]
                          /\ EmployeeOf[r.what] \in payable
                          /\ lines[r] = "scheduled"}]

Expanded(p, missing) ==
  [r \in Rows |-> IF r.by = p /\ r.what \in missing THEN "scheduled" ELSE line[r]]

TaskSucceeds(t) ==
  /\ t.phase = "running"
  /\ line' = Expanded(t.p, t.missing)
  /\ items' = [items EXCEPT ![t.p] = Computed(t.p, line')]
  /\ period' = [period EXCEPT ![t.p].status = "computed", ![t.p].maker = t.by]
  /\ tasks' = tasks \ {t}
  /\ UNCHANGED <<log, payable, crashes>>

(* A slip: a failed computation does not say so. *)
TaskFailsSilently(t) ==
  /\ t.phase = "running"
  /\ tasks' = tasks \ {t}
  /\ UNCHANGED <<period, items, log, line, payable, crashes>>

(* Everything the task did is rolled back, except that it failed.          *)
TaskFails(t) ==
  /\ t.phase = "running"
  /\ period' = [period EXCEPT ![t.p].status = "compute_failed"]
  /\ tasks' = tasks \ {t}
  /\ UNCHANGED <<items, log, line, payable, crashes>>

(* The process stops: its tasks are gone.                                  *)
Crash ==
  /\ crashes < MaxCrashes
  /\ crashes' = crashes + 1
  /\ tasks' = {}
  /\ UNCHANGED <<period, items, log, line, payable>>

-----------------------------------------------------------------------------
(* Attendance and overtime.                                                *)

(* A day is locked when a run that is signed off has paid its employee.    *)
Locked(d) ==
  \E p \in Periods :
    /\ SignedOff(period[p])
    /\ d \in Covers[p]
    /\ EmployeeOf[d] \in items[p].employees

(* Attendance of the day was recorded, corrected or punched, or its shift, *)
(* holidays or leave changed: the log is dropped and the policy rules make *)
(* a new one, or none; a rule may turn it into leave at once. A log that   *)
(* was paid is left alone.                                                 *)
Rederive(d, status) ==
  /\ ~Locked(d)
  /\ log[d].copy < MaxCopies
  /\ log[d].paid = Nobody
  /\ log' = [log EXCEPT ![d] = [copy |-> log[d].copy + 1, status |-> status, paid |-> Nobody]]
  /\ UNCHANGED <<period, items, line, payable, tasks, crashes>>

DecideOvertime(d, verdict) ==
  /\ log[d].status = "pending"
  /\ log' = [log EXCEPT ![d].status = verdict]
  /\ UNCHANGED <<period, items, line, payable, tasks, crashes>>

(* A slip: overtime is converted whether or not it was paid. *)
ConvertPaidToo(d) ==
  /\ log[d].status = "approved"
  /\ log' = [log EXCEPT ![d].status = "converted"]
  /\ UNCHANGED <<period, items, line, payable, tasks, crashes>>

(* Approved overtime becomes leave credits, unless it was paid.            *)
ConvertToLeave(d) ==
  /\ log[d].status = "approved"
  /\ log[d].paid = Nobody
  /\ log' = [log EXCEPT ![d].status = "converted"]
  /\ UNCHANGED <<period, items, line, payable, tasks, crashes>>

-----------------------------------------------------------------------------
(* The compensation ledger and the people it is about.                     *)

AddBonus(r) ==
  /\ r.what \in Bonuses
  /\ line[r] = "none"
  /\ line' = [line EXCEPT ![r] = "scheduled"]
  /\ UNCHANGED <<period, items, log, payable, tasks, crashes>>

Void(r) ==
  /\ line[r] \notin {"none", "void", "paid"}
  /\ line' = [line EXCEPT ![r] = "void"]
  /\ UNCHANGED <<period, items, log, payable, tasks, crashes>>

(* The allowances of a span of days are made ahead of any run.             *)
ExpandAhead(span) ==
  /\ line' = [r \in Rows |-> IF r.by = Nobody /\ r.what \in span /\ ~Made(r.what)
                             THEN "scheduled" ELSE line[r]]
  /\ UNCHANGED <<period, items, log, payable, tasks, crashes>>

(* Somebody gets a first salary, leaves the company or comes back.         *)
ChangePayable(e) ==
  /\ payable' = IF e \in payable THEN payable \ {e} ELSE payable \cup {e}
  /\ UNCHANGED <<period, items, log, line, tasks, crashes>>

Handlers ==
  \E u \in Makers, p \in Periods : StartCompute(u, p) \/ Approve(u, p) \/ Finalize(u, p)

Tasks == \E t \in tasks : TaskBegins(t) \/ TaskSucceeds(t) \/ TaskFails(t)

Attendance ==
  \E d \in Days :
    \/ \E status \in {"none", "pending", "converted"} : Rederive(d, status)
    \/ \E verdict \in {"approved", "rejected"} : DecideOvertime(d, verdict)
    \/ ConvertToLeave(d)

Ledger ==
  \/ \E r \in Rows : AddBonus(r) \/ Void(r)
  \/ \E span \in SUBSET Occurrences : ExpandAhead(span)

People == \E e \in Employees : ChangePayable(e)

Next == Handlers \/ Tasks \/ Crash \/ Attendance \/ Ledger \/ People

Spec == Init /\ [][Next]_vars

(* A task that was started goes on; nobody has to approve or finalize.     *)
TaskSteps(p) ==
  \E t \in tasks : t.p = p /\ (TaskBegins(t) \/ TaskSucceeds(t) \/ TaskFails(t))

-----------------------------------------------------------------------------
(* Maker and checker: whoever computed the figures of a run has neither    *)
(* approved nor finalized it, whatever recomputations, failures and        *)
(* restarts went before ("no one can both produce the figures and lock     *)
(* them").                                                                 *)
NobodySignsOffTheirOwnRun ==
  \A p \in Periods : SignedOff(period[p]) =>
    /\ period[p].checker \notin {period[p].maker, Nobody}
    /\ period[p].status = "finalized" => period[p].closer \notin {period[p].maker, Nobody}

(* The marks and the runs tell the same story: what is marked as paid is   *)
(* in the figures of a finalized run, and of what a finalized run shows    *)
(* nothing is left to be paid again.                                       *)
MarksMatchTheRuns ==
  /\ \A d \in Days : log[d].paid # Nobody =>
       /\ period[log[d].paid].status = "finalized"
       /\ <<d, log[d].copy>> \in items[log[d].paid].logs
  /\ \A r \in Rows : line[r] = "paid" =>
       \E p \in Periods : period[p].status = "finalized" /\ r \in items[p].rows
  /\ \A p \in Periods : period[p].status = "finalized" =>
       /\ \A r \in items[p].rows : line[r] # "scheduled"
       /\ \A d \in Days : <<d, log[d].copy>> \in items[p].logs => log[d].paid # Nobody

(* A run that was signed off keeps its figures, its maker and its checker, *)
(* and goes nowhere but from approved to finalized: no computation that    *)
(* was still on its way replaces them.                                     *)
SignedOffRunsAreFrozenStep ==
  \A p \in Periods : SignedOff(period[p]) =>
    /\ items'[p] = items[p]
    /\ period'[p].maker = period[p].maker
    /\ period'[p].checker = period[p].checker
    /\ period'[p].status \in {period[p].status, "finalized"}

SignedOffRunsAreFrozen == [][SignedOffRunsAreFrozenStep]_vars

(* A day that a signed-off run has paid its employee for keeps its record: *)
(* nothing derives its overtime anew from then on.                         *)
LockedDaysKeepTheirLogStep ==
  \A p \in Periods : SignedOff(period[p]) =>
    \A d \in Covers[p] : EmployeeOf[d] \in items[p].employees => log'[d].copy = log[d].copy

LockedDaysKeepTheirLog == [][LockedDaysKeepTheirLogStep]_vars

(* What was paid stays paid: the log is not dropped, decided again or      *)
(* turned into leave, and the line is not voided.                          *)
PaidIsFinalStep ==
  /\ \A d \in Days : log[d].paid # Nobody =>
       /\ log'[d].copy = log[d].copy
       /\ log'[d].status = log[d].status
       /\ log'[d].paid # Nobody
  /\ \A r \in Rows : line[r] = "paid" => line'[r] = "paid"

PaidIsFinal == [][PaidIsFinalStep]_vars

(* A computation ends, as computed or failed, unless a restart of the      *)
(* server took its task away.                                              *)
Lost(p) == crashes > 0 /\ \A t \in tasks : t.p # p

ComputingEnds ==
  \A p \in Periods : period[p].status = "computing" ~> (period[p].status # "computing" \/ Lost(p))

(* "Mark what each item paid, so none of it can be paid again": no        *)
(* overtime, bonus or allowance is in the figures of two finalized runs.   *)
NothingIsPaidTwice ==
  \A p, q \in Periods :
    p # q /\ period[p].status = "finalized" /\ period[q].status = "finalized" =>
      items[p].logs \cap items[q].logs = {} /\ items[p].rows \cap items[q].rows = {}

(* A run that was signed off is final, and so is all it has paid for.      *)
SignedOffStands ==
  SignedOffRunsAreFrozen /\ LockedDaysKeepTheirLog
=============================================================================
