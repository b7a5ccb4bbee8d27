---------------------------- MODULE MCServices ----------------------------
(***************************************************************************)
(* What goes on in the background: the leave reminders, the scheduled      *)
(* jobs, the plugins' events, the computation of payroll runs and the      *)
(* closing of forgotten clock-ins. They share no variable here, so a       *)
(* behaviour is about one of them, `subject`, and the others stay as they  *)
(* began. Here is what the scheduler and the tasks promise in the end; the *)
(* safety of the payroll runs and of the clock is checked by MCPay.        *)
(***************************************************************************)
EXTENDS ReminderLedger, BackgroundJobs, Plugins

Licence(issued, expires, seats, trial) ==
  [issued |-> issued, expires |-> expires, seats |-> seats, trial |-> trial]
MCKeys == {Licence(0, 1, 1, FALSE), Licence(1, 1, Unlimited, TRUE)}

VARIABLES
  period, items, log, line, payable, tasks, crashes,
  now, roster, stretches, record, excused, locked, typed, edits,
  subject

(* Two runs of an employee who has nothing but a salary.                   *)
PayRun == INSTANCE Payroll WITH
  Employees <- {"e"}, Makers <- {"ann", "ben"}, Periods <- {"p1", "p2"}, Days <- {},
  Bonuses <- {}, Occurrences <- {}, EmployeeOf <- <<>>, Covers <- [p \in {"p1", "p2"} |-> {}],
  Due <- [p \in {"p1", "p2"} |-> {}], Horizon <- [p \in {"p1", "p2"} |-> {}],
  MaxCopies <- 0, MaxCrashes <- 1, Nobody <- Nothing

(* A night shift, and a late shift on the day after it.                    *)
LateShift == [from |-> 1, to |-> 2]
NightShift == [from |-> 2, to |-> 1]
Punching == INSTANCE TimeClock WITH
  LastDay <- 1, DayLength <- 3, Slots <- {1, 2}, Shifts <- {LateShift, NightShift},
  FirstRosters <- {[d \in 0 .. 1 |-> <<IF d = 0 THEN NightShift ELSE LateShift, Nothing>>]},
  Typed <- {[from |-> 0, to |-> 2]}, Grace <- 1, Unscheduled <- 2,
  DayHours <- 1, AbsentAfter <- 1, Lookback <- 1, MaxEdits <- 1, MaxStretches <- 2

reminderVars == vars
payrollVars == <<period, items, log, line, payable, tasks, crashes>>
clockVars == <<now, roster, stretches, record, excused, locked, typed, edits>>

ServicesInit ==
  /\ subject \in {"reminders", "jobs", "plugins", "payroll", "clock"}
  /\ Init /\ JobInit /\ PluginInit /\ PayRun!Init /\ Punching!ClockInit

ServicesNext ==
  /\ UNCHANGED subject
  /\ \/ subject = "reminders" /\ Next
        /\ UNCHANGED <<jobVars, pluginVars, payrollVars, clockVars>>
     \/ subject = "jobs" /\ JobNext
        /\ UNCHANGED <<reminderVars, pluginVars, payrollVars, clockVars>>
     \/ subject = "plugins" /\ PluginNext
        /\ UNCHANGED <<reminderVars, jobVars, payrollVars, clockVars>>
     \/ subject = "payroll" /\ PayRun!Next
        /\ UNCHANGED <<reminderVars, jobVars, pluginVars, clockVars>>
     \/ subject = "clock" /\ Punching!ClockNext
        /\ UNCHANGED <<reminderVars, jobVars, pluginVars, payrollVars>>

servicesVars == <<reminderVars, jobVars, pluginVars, payrollVars, clockVars, subject>>

(* The fairness of each of the five, while it is the subject.              *)
RemindersGoOn ==
  /\ WF_reminderVars(subject = "reminders" /\ Tick)
  /\ \A w \in Workers : WF_reminderVars(subject = "reminders" /\ Progress(w))
JobsGoOn ==
  /\ \A w \in JobWorkers : WF_jobVars(subject = "jobs" /\ Work(w))
  /\ WF_jobVars(subject = "jobs" /\ \E w \in JobWorkers : TakeLead(w))
  /\ WF_jobVars(subject = "jobs" /\ TimePasses) /\ WF_jobVars(subject = "jobs" /\ Backoff)
PluginsGoOn ==
  /\ WF_pluginVars(subject = "plugins" /\ Delivering)
  /\ \A e \in Events : WF_pluginVars(subject = "plugins" /\ BackoffPasses(e))
TasksGoOn ==
  \A p \in {"p1", "p2"} : WF_payrollVars(subject = "payroll" /\ PayRun!TaskSteps(p))
ClockGoesOn ==
  /\ WF_clockVars(subject = "clock" /\ Punching!Tick)
  /\ WF_clockVars(subject = "clock" /\ Punching!CloseAndMark)

ServicesSpec ==
  /\ ServicesInit /\ [][ServicesNext]_servicesVars
  /\ RemindersGoOn /\ JobsGoOn /\ PluginsGoOn /\ TasksGoOn /\ ClockGoesOn

-----------------------------------------------------------------------------
(* The scheduler's work is done in the end: the request expires after its  *)
(* last day, and the email, the report and the year end are dealt with,    *)
(* and each event of a plugin.                                             *)
EverythingIsDone ==
  /\ subject = "reminders" => ExpiresInTheEnd
  /\ subject = "jobs" => WorkIsDone
  /\ subject = "plugins" => EventsAreSettled

(* What is under way comes to an end: a computation of a payroll run, and  *)
(* a stretch of work that nobody clocks out of.                            *)
NothingStaysUnderWay ==
  /\ subject = "payroll" => PayRun!ComputingEnds
  /\ subject = "clock" => Punching!ForgottenOnesAreClosed
=============================================================================
