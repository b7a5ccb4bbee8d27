# A formal model of ursked

ursked is a workforce-management server: a FastAPI backend on PostgreSQL (`src/backend`) with a Next.js
client. This directory models the backend's own logic: leave requests and what decides them, the roster and
its changes, the clock and the payroll, sessions and access, the background jobs, reports and plugins. TLC
checks the models on small instances. What is said of the safety of these models is proved with TLAPS besides,
for companies of any size: 36 of the 40 properties of the passing runs are theorems, and of the other four three
are liveness. The backend's paths below are relative to `src/backend/app/`.

## 1. Inventory

| Part | State it keeps | Operations | What is hard about it |
|---|---|---|---|
| Leave requests (`api/v1/leave.py`, `services/leave_approval_service.py`) | `leave_applications` with their steps and events | file, open, change, review, self-approve, override, reassign, cancel, revoke | long sequences of legal calls; handlers that overlap; steps, status, reviewer and roster must agree |
| Approval chains (same service) | none: policies, rules, org chart, roles and absences are read | `resolve_approval_chain`, `replacement_approver` | inactive, absent, duplicate, own or excluded people; rule priority and merging |
| Approver rules | rules, steps, scopes | write, switch, delete; unit deleted, approver leaves | a rule that loses its scope must not come to mean everybody |
| Balances and leave rules (`leave_service.py`, `leave_days_service.py`, `leave_rule_service.py`) | policies, entitlements, credits | days of a request, balance of a year, five rules | accrual, pools, years, a request that is in the balance it is judged by |
| Reminder job (`leave_reminder_service.py`) | ledger rows | remind, escalate, expire, late routing | idempotence, two workers, midnight |
| Scheduler (`scheduler.py`) | advisory lock, last run of each job | lead, tick, run a job | lost connection, crash, time-out, takeover |
| Separation (`employee_lifecycle.py`, `leave_events.py`) | `users.is_active`, heads, rules | separate, reinstate | reaches into requests of others |
| Roster (`schedule_service.py`) | shifts, overlays, publication | plan, copy, template, snapshot, publish, delete, overlay, revert | restoring what an overlay hid; days payroll has closed |
| Schedule changes (`schedule_change_service.py`) | requests and steps | ask, consent, review, carry out | the roster has changed since |
| Holidays (`holiday_sync_service.py`) | remarks, source, generated days off | edit, move, delete, sync | feed against people, idempotence, recurring dates |
| Attendance (`timeclock_service.py`, `attendance_*.py`) | punches, day records | clock in and out, auto clock-out, no-show, correct | the job against a late punch, midnight, locked days |
| Attendance policies (`policy_engine_service.py`) | rules, overtime logs, tardiness rows, credits | evaluate, simulate, derive again, decide, convert | credits given twice or left behind |
| Payroll (`payroll_service.py`, `payroll_compute.py`) | periods, items, marks, grades, salaries | compute in the background, approve, finalize, raise | stuck computation, maker and checker, paying twice |
| Sessions, credentials (`api/v1/auth.py`, `auth_service.py`, `token_store.py`, `password_reset_service.py`, `invite_service.py`) | sessions, tokens, links, second factor | sign in, refresh, sign out, reset, activate | answers that arrive late, cutoffs, links replaced |
| Salary enrollment (`salary_enrollment_service.py`) | grants and requests | ask, approve, revoke, deactivate | self-approval only where nobody else can |
| Organization, people, roles (`org_service.py`, `permission_service.py`, `employee_access.py`, `access_scope.py`) | units, levels, members, roles, matrix | move, delete, appoint, separate, tick | cycles, dangling members, powers asleep behind the wrong portal |
| Jobs (`job_service.py`, `email_service.py`, `scheduled_export_service.py`, `leave_yearend_service.py`) | `job_runs`, outbox, schedules | claim, run, finish, take over, retry | crash between effect and commit |
| Plugin host (`plugin_host.py`, `licence.py`) | settings, event queue, licence | publish, deliver, retry, install a key | the licence changes while a batch is delivered |
| Reports and formulas (`export_pipeline.py`, `formula_engine.py`) | report definitions | join, filter, group, sort; parse, evaluate | fan-out, blanks, precedence |
| Settings, notifications, audit, analytics, frontend, migrations | tables of data | queries | not modelled (section 8) |

How they interact. A handler runs in the transaction that `get_db` opens. Approving or revoking a leave calls
the schedule service in the same transaction, which lays the leave over the roster or takes it off; the roster
refuses to touch a day that a signed-off payroll run has closed, and the refusal vetoes the approval.
`employee_lifecycle.separate` publishes a domain event whose handler hands the leaver's open steps over. A
change of the roster or of a punch derives the attendance record again, which runs the attendance policies,
whose overtime logs are what a payroll run pays; finalizing marks them. The scheduler of whichever process
holds an advisory lock runs the jobs, one after the other; only the lock, a unique index and the claims in the
rows keep two processes apart. Overlapping handlers are kept apart by nothing: rows are read without a lock
and carry no version.

## 2. The modules

| Module | Models | Checked through |
|---|---|---|
| `Lists` | what a loop that filters a list or adds amounts up returns (`Kept`, sums), with its lemmas | `ApprovalChain`, `Roster`; the proofs |
| `LeaveAccess` | editors, reviewer roles, the fallback approver, and `ChainFor`: what a resolved chain promises | both leave runs |
| `ApprovalChain` | `resolve_approval_chain` and everything below it, as pure operators | `Company`; the resolver of `MCLeaveApproval` |
| `Company` | the people, units and absences that a chain is resolved from, as they change | `MCCompany` |
| `LeaveHandlers` | what each handler, the job and a handover make of one request: functions of a record | `LeaveApproval` |
| `LeaveApproval` | requests, people, roles, units, rules, days, the roster; one action per handler | `MCLeaveApproval` |
| `LeaveLifecycle` | abstract specification: the life of a request as its owner and the roster see it | implemented by `LeaveApproval` (`KeepsThePromises`) |
| `LeaveApprovalRace` | the same handlers with read and commit apart, in several sessions | `MCLeaveRace` |
| `ReminderLedger` | several processes, the leader lock and the ledger around one waiting request | `MCServices` |
| `LeaveBalances` | the days of a request, balances, policies, the five leave rules | `MCCompany`, `MCOverdrawn` |
| `ApproverRules`, `OrgTree`, `Visibility` | rules as they are edited; the org chart; who sees and changes whom | `MCCompany` |
| `Roster`, `ScheduleChange` | shifts and what is laid over them; changes and swaps on top (`ScheduleChange` extends `Roster`) | `MCDays` |
| `Planning` | bulk creation, templates, copies, snapshots, dry runs, limits on work | `MCDays` |
| `Holidays` | the calendar, its feed and the days off they make | `MCDays` |
| `TimeClock` | punches, the job of every minute, corrections, records | `MCPay`, `MCTimeClock`, `MCServices` |
| `Policies` | the policy engine on one record, and what becomes of its rows | `MCPay` |
| `Payroll` | runs, background computation, marks, overtime, bonuses and allowances | `MCPay`, `MCPayroll`, `MCServices` |
| `PayFigures`, `Salaries` | the arithmetic of a payslip; grades, salaries and the ledger of raises | `MCPay` |
| `Sessions`, `Credentials` | tokens of a browser with several tabs; invitations, resets, lockout, second factor | `MCOffice` |
| `SalaryEnrollment`, `Staff` | who may see salaries; accounts, roles, portals and the matrix | `MCPay`; `MCOffice` |
| `Exports`, `Formulas` | the report pipeline; the formulas of its columns | `MCOffice` |
| `BackgroundJobs` | scheduled reports, outbox and year end under two processes | `MCOffice` (safety), `MCServices` (liveness) |
| `Plugins` | settings, licence and event queue of a plugin | `MCServices` |
| `*_proofs`, `Lists` | the theorems and lemmas of section 6 | TLAPS |
| `MC*` | the instances the runs use | |

**State and code.** Variables are the rows and columns that the code's decisions read, named as in the code or
explained beside their declaration; `PROJECT.json` names the lines of every definition. A few variables are
history, marked so (`touched`, `ended`, `spared` of `Sessions`, `proven` and `spent` of `Credentials`, `typed` of
`TimeClock`, `unforced` of `Planning`, `cleared` of `Visibility`): they are read by properties and by no guard.
Counters that only bound the model (`MaxEdits`, `MostSteps`, `MaxChanges`, ...) say so where they are declared.

**Actions and code.** An action is a whole handler or one transaction of a job: guards are the early returns,
and what a handler calls (granting the reviewer role, laying a leave over the roster, deriving a record,
logging a raise) is part of it. A refused call changes nothing and has no action. What is read in one
transaction and used in a later one is two actions: a payroll computation and its writing, the fetch of a
holiday feed and its merge, a batch of plugin events and each delivery, a claim and the work it claims, an
SMTP conversation and its commit, an HTTP answer and its arrival in the browser, and in `LeaveApprovalRace`
every handler.

*Leave.* A request `app[r]` is the row with its steps in order; of the events only what the code reads back is
kept, as two fields of the step (`moved`, `escalations`). Every endpoint loads the request with `_load_app`,
which creates missing steps and commits them: actions take the request as `Ensured` returns it. `Separate` is
the transaction of `separate()`; the handover of several steps is stated as a relation (`HandedOver`). Who is
*away* follows from the approved requests, as in `_on_leave`, which couples requests to each other.

*Roster.* A cell is one employee's day and its shifts a sequence. `Write` is the only way cells change; every
planner's action is a choice of cells, filtered by `Unlocked` as the code's `assert_unlocked` and the keys of a
bulk operation are. An overlay hides shifts (`hidden`), reverting gives them back and lays the remaining leaves
over again. `ScheduleChange` adds requests and carries them out on whatever the roster is by then.

*Payroll.* Amounts are left out of `Payroll`: a figure is the set of things it pays for, which is what paying
twice is about; the amounts are `PayFigures` and `Salaries`. A task remembers who started it and which
occurrences of allowances it found missing, and writes in a later step, if the run is still computing. `Crash` is a restart, which forgets tasks.

*Clock.* An instant is a natural number and a stretch is a clock-in with its clock-out. `Punches` are the
employee's, `CloseAndMark` the job, `OtherPeople` the planners, the correctors, leave and payroll; all end in
`Synced`, the derivation of the day's record.

Operators introduced by a comment "A slip" are variants of a definition with a plausible mistake. Nothing uses
them: they are what each property has been seen to fail on, so no property holds vacuously.

## 3. The runs

Components that share no variable are checked in one run: a module such as `MCPay` extends them all and has a
variable `subject`, chosen at the start and never changed, that says whose behaviour this is; the variables of
the others keep one beginning. This is no composition, only several state spaces in one run; the theorems about
the component's own specification and its runs speak of the same definitions. A property written
`subject = "x" => P` is `P` of that component. Where components do interact they are composed: `LeaveApproval`
with `ApprovalChain` (the resolver of the instance), `ScheduleChange` with `Roster`, `Payroll` with the overtime
that attendance yields and the ledger of allowances, `Plugins` with its licence.

| Run | Components | Shows |
|---|---|---|
| `leave_requests` | `LeaveApproval` with `ApprovalChain` | every handler, the job, separations, reinstatements, role changes: steps, roster and approvals stay coherent |
| `leave_liveness` | the same | refinement of `LeaveLifecycle`; every pending request is settled |
| `company` | chains, chart, rules, sight, balances | the resolver on every reachable company in each mode; the chart; rules as they are edited; bulk operations; leave rules and balances |
| `pay` | payroll, clock, policies, figures, salaries, enrollment | maker and checker, marks, closed days, hours counted once, credits with their rows, sums and ledgers, access |
| `days` | roster with changes, plans, holidays | overlays and their reversal, swaps, closed days, dry runs, feed against people |
| `office` | sessions, credentials, staff, jobs, reports, formulas | ends of sessions, links and factors, powers, claims, reports, formulas |
| `services` | reminders, jobs, plugins, payroll tasks, the clock | what the background promises in the end; notices and licence |
| `approved_edited`, `corrected_day`, `paid_twice`, `overdrawn`, `conversion` | one each | counterexamples, section 5 |

What the properties say:

* **Leave.** `StepsAreCoherent`: a pending request is exactly one person's to decide, a closed one tells how it
  was decided, a step of the requester's own stands alone. `RosterFollowsApproval`. `NobodyApprovesTheirOwn`: not
  while anybody else could. `NewApproversCanAct`, `DecisionsKeepTheirAuthor`, `ChangedDatesAreApprovedAgain`,
  `NothingExpiresUnrouted`. `SettlesAsPromised`: with the clock and the job, no request waits for ever.
* **Company.** `ChainsWork`: a chain is usable and empty only when nobody can approve. `TheRightOnesDecide`:
  deputies stand in for absent heads (somebody away is asked only for a unit whose head and deputy are away,
  gone or the one who asks), rules come before the chart, the most urgent rule decides.
  `TheChartStaysWhole`: a tree by its levels, led by and made of people who work here, and deleting a unit loses
  nobody. `RulesStayMeant`: no rule grows to cover others when its unit or person goes. `OnlyOwnPeopleAreChanged`:
  whoever one may change one sees, and a stale page clears nobody else's shifts. `LeaveRulesHold`: no filing,
  ahead or for days gone by, overdraws a year or overlaps, and approving changes no count.
* **Pay.** `NobodySignsOffTheirOwnRun`, `MarksMatchTheRuns`, `SignedOffStands`, `PaidIsFinal`. `HoursAreTrue`: hours
  count once, on the record of the day they were worked, and paid days keep theirs. `PolicyCreditsAreDue`: a slot
  is filled once and every credit belongs to a row that stands. `WorkedOutRight`: every minute and amount falls
  in exactly one band, against definitions by counting. `SalariesAreExplained`: the ledger adds up to the
  salary of every day as long as raises are entered in order and none is to zero, and no grade in use is deleted.
  `AccessIsEarned`: every grant that stands was approved by somebody else or told to everybody else.
* **Days.** `LeavesTakeTheirDays`: an approved leave has its days, only an approved leave has any (a
  status of leave that a planner writes by hand belongs to none), nobody works on leave, no later leave takes a
  day from it, nothing hidden is lost. `AgreedInTurn`, `LockedDaysStand`. `PlannedAsPromised`: a dry run is what the
  write does, copies keep apart, unforced work keeps the limits. `CalendarIsThePeoples`: days off have their
  holiday, syncs are idempotent and leave people's work alone.
* **Office.** `SessionsEnd`: idle and age limits, ended is over, cutoffs sign out, for every order in which
  answers reach the browser. `CredentialsAreSound`: an unproven second factor locks nobody out; links are sole.
  `PowersStayApart`: no administrator of nothing else runs operations or finances; nobody makes themselves one;
  line managers form no circle.
  `WorkIsNotRepeated`: each run once, copies of an email only after trouble, carried over once. `ReportsAreWhole`:
  joins drop nothing, groups add up, whatever names totals have, sorting is by every key. `FormulasAreRead`: the parser against a
  definition of what a formula means that parses nothing; whatever parses has a value.
* **Services.** `NoticesAreSole`: one reminder and one escalation a step a day, by however many processes
  (an expiry may be told of twice: its row has no step). `PluginsKeepTheLicence`: nothing is received without
  a licence, and the queue tells the truth. `EverythingIsDone`: requests expire; the report, the email and the
  year end are dealt with; every event is delivered or given up. `NothingStaysUnderWay`: a computation ends unless
  a restart took its task, and a clock-in nobody ends is closed.

**Bounds.** Every bound is a constant and is named in its module. Leave: three people (owner, approver, somebody
to hand over to), two steps (one before and one after the current), days enough for expiry and escalation.
Chains: four people, two nested units, three rules of different scope and priority. Payroll: two overlapping
runs, two makers, one day of overtime, a bonus, an allowance, one new derivation, one restart: enough for a log
replaced between two computations. Clock: two days of three instants, so a stretch can cross midnight, end a day
late, and meet the next. Roster: two employees and two days, two leaves that overlap on one, a holiday, a
request of each kind; planners write `work` and `leave` by hand (`Statuses`); bulk operations choose among given
sets of cells. Balances: neither policy asks for notice, and the day passes, so requests are
filed ahead and for days gone by. Salaries: two grades, and rates and increases of -1, 0 and 1.
Reports: three sources, joined or not, with two totals of one name and with a total of a group's name. Licences: one for
nobody (0 seats), one for one person, one without a limit. Planning: four days in weeks of three,
months of one and two days. Holidays: three dates of which the third repeats the first a year on, two contents
of a feed and its failure. Policies: four rules that between them have every condition, action, band and a
stop. Sessions: one browser with several tabs and one answer on its way at a time, two sessions; the handlers of another browser
would be the same and touch other rows. Jobs: two processes and one trouble; a second failure repeats the first.
Formulas: every sequence of up to five tokens. In `MCServices` the instances of `Payroll` and `TimeClock` are
smaller than in `MCPay`, since liveness is dear; no day passes for `BackgroundJobs` there (`MaxDays = 0`), it does
in `MCOffice`.

Symmetry is used in runs of safety only, for names that nothing tells apart (leave types, requests, makers,
grades, workers). Ids that decide ("the first editor", rule ties) are integers and have none.
`CHECK_DEADLOCK FALSE` is said where a story ends because a bound is reached or the clock is over; the two leave
runs check deadlock.

**Fairness**, and why the code justifies it. `LeaveApproval`: the clock, and the daily job, which the scheduler's
loop runs again after any error; nobody is ever obliged to decide. `ReminderLedger` and `BackgroundJobs`: each
process's loop goes round, one of them takes the lock when it is free, time and backoffs pass; crashes, lost
connections and cancelled jobs are never fair and are bounded. `Plugins`: the scheduler delivers and backoffs
pass. `Payroll`: an asyncio task that was started goes on (a crash takes it away, and `ComputingEnds` says so).
`TimeClock`: the clock, and the job of every minute; the employee need never clock out.

## 4. Only model-checked

| Property | Why no theorem states it |
|---|---|
| `SettlesAsPromised`, `EverythingIsDone`, `NothingStaysUnderWay` | liveness: the installed provers know neither fairness nor `ENABLED` |
| `FormulasAreRead` | `Formulas` is a recursive-descent parser over trees, built from RECURSIVE operators, about which TLAPS cannot reason; trees have no set that a recursive function could be indexed by |
| the five counterexamples | they are refuted |

Induction itself is not the obstacle: library theorems that take a predicate cannot be instantiated here, so
`Lists` proves induction, definition by recursion and finite sums as statements about *sets* of naturals
(`Induction`, `Recursion`, `SumAny`), and the other proofs cite those. In the same way a fold of the community
modules takes an operator, so no lemma speaks of folds in general: each loop of the models (sums over minutes,
stretches, hours and columns) is unfolded once into a recursive function, of which the lemmas speak.

## 5. What the code does differently from what it says

Shown by runs:

1. `approved_edited`: an edit that loaded the request before its approval committed moves the dates of an
   approved request (`api/v1/leave.py:1482`), which its docstring rules out. The roster shows the old dates.
2. `corrected_day`: a day corrected by hand while a clock-in was open is derived from the punches again when the
   job closes that clock-in (`timeclock_service.py:442` against `attendance_service.py:271`).
3. `paid_twice`: two overlapping runs, both computed before either is finalized, both pay the same overtime and
   allowances; finalizing overwrites the mark without asking (`payroll_service.py:1206`).
4. `overdrawn`: `_own_days` gives a request that is edited its days back also when the edit moves it to another
   type or year, where they were never charged (`leave_rule_service.py:262`).
5. `conversion`: the rules for night and holiday work multiply the hours they convert to leave by
   `leave_credit_rate` (`policy_engine_service.py:854`, `:939`), the conversion by hand divides
   (`overtime_service.py:178`). A rule of overtime never converts, whatever it is set to (`:667`).

Noticed while modelling; the models follow the code:

* Leave: resetting a step that was pending when loaded writes nothing, so an approval given meanwhile survives new
  dates (`leave.py:1536`); after a revocation or an edit the wait of a step is counted from its first creation
  (`leave_reminder_service.py:87`); an expiry's ledger row has no step and does not collide (`:57`); two
  processes on either side of midnight can both escalate a step (`:116`). Edits that overlap each write the dates
  they changed, so that a request can end before it begins (`leave.py:1539`); a revocation that refuses what the
  same person approved, while somebody else sends it back, leaves a rejected request without a reviewer. Both
  show as soon as `MCLeaveRace` gets a third span; `SignedTheorem` says what overlaps do keep.
* Roster: taking a leave off lays the others over their whole span, rest days included
  (`schedule_service.py:2085`). The limits on work in a row read eight days around a placement
  (`schedule_service.py:756`) while `max_consecutive_work_days` may be 31. Publishing during a leave is forgotten
  when it is taken off. A preview in skip mode may name other days than the write.
* People: the walk that keeps line managers out of a circle ends after `MAX_DEPTH` managers
  (`hierarchy_service.py:12`), so a circle longer than that can be closed; `PowersTheorem` says what it is good
  for, lines that are shorter.
* Visibility: units under an inactive one are cut off from their leaders (`schedule_service.py:43`), though
  `access_scope.py:9` says "every unit below them". The grid's org filter goes by home unit only.
* Holidays: a feed holiday that was moved by hand comes back; two holidays on one date share one day off; a
  change of feed does not reset when it was last read; a sync by hand takes no lock.
* Pay: a raise given twice for one day compounds; a raise dated before a later salary row does not reach it
  (`RaisesApplyFromTheirDay` of `Salaries` states otherwise and fails); changing a grade changes past runs that are
  computed again; a raise to exactly zero writes an override of 0, which counts as none, so the grade's rate comes
  back while the ledger says that nothing is paid (`payroll_service.py:199`, `:351`); overtime approved after its run was signed off is never paid; a resolution of tardiness by hand
  is lost when the day is derived again; a rule with `stop` stops only if it had an effect; the simulator may
  show an effect that the run would not have.
* Reports: a join filters by selected columns only; blanks come first in descending order and pass "less than";
  nothing keeps names of totals apart, neither from each other nor from the groups' (`export_pipeline.py:316`, `:350`;
  the dialog numbers totals by how many there are, so removing one and adding another makes two alike): the last
  one is shown in every column of that name, though `apply_grouping` promises "one column per aggregate"; different texts compare equal in formulas
  (`formula_engine.py:301`).

## 6. The proofs

Each theorem is about the component's own specification, for any values of its constants that its named
assumption allows: any set of people, units, rules, requests, days, browsers or processes, and any bounds.

| Module | Theorems | What the specification implies |
|---|---|---|
| `LeaveApproval_proofs` | `TypeCorrect`, `StepsTheorem` (from `TurnTheorem`, `DecisionTheorem`, `OwnStepTheorem`), `ElseTheorem`, `RosterTheorem` | `TypeOK`, `StepsAreCoherent`, `SomebodyElseApproved`, `RosterFollowsApproval` |
| | `PromiseTheorem` | `KeepsThePromises`: the refinement of `LeaveLifecycle` |
| | `ApproversTheorem`, `AuthorTheorem`, `DatesTheorem`, `RoutedTheorem`, `AloneTheorem`, `OwnLeaveTheorem` | `NewApproversCanAct`, `DecisionsKeepTheirAuthor`, `ChangedDatesAreApprovedAgain`, `NothingExpiresUnrouted`, `SelfApprovalOnlyWhenAlone`, `NobodyApprovesTheirOwn` |
| `LeaveApprovalRace` | `SignedTheorem` | `DecisionsAreSigned`: handlers that overlap never leave an approval without its author, nor the requester as one |
| `Company_proofs` | `ResolverTheorem` | a chain of `ApprovalChain` keeps `ChainFor`, the contract the proofs about leave requests assume |
| | `ChainsTheorem`, `DecidersTheorem` | `ChainsWork`, `TheRightOnesDecide` |
| | `RulesTheorem`, `ChartTheorem`, `SightTheorem`, `BalancesTheorem` | `RulesStayMeant`, `TheChartStaysWhole`, `OnlyOwnPeopleAreChanged`, `LeaveRulesHold` |
| `Payroll_proofs` | `PayrollTypeTheorem`, `MakerCheckerTheorem`, `MarksTheorem` | `TypeOK`, `NobodySignsOffTheirOwnRun`, `MarksMatchTheRuns` |
| | `FrozenTheorem`, `LockedDaysTheorem`, `SignedOffTheorem`, `PaidTheorem` | `SignedOffStands` and its two parts, `PaidIsFinal` |
| | `SalariesTheorem`, `HoursTheorem` | `SalariesAreExplained`, `HoursAreTrue` |
| | `FiguresTheorem`, `PoliciesTheorem` | `WorkedOutRight`, `PolicyCreditsAreDue` |
| `ScheduleChange_proofs` | `LockedDaysStandTheorem`, `AgreementTheorem`, `LeavesTheorem` | `LockedDaysStand`, `AgreedInTurn`, `LeavesTakeTheirDays` |
| | `CalendarTheorem`, `PlansTheorem` | `CalendarIsThePeoples`, `PlannedAsPromised` |
| `Accounts_proofs` | `EarnedTheorem`, `CredentialsTheorem`, `SessionsTheorem` | `AccessIsEarned`, `CredentialsAreSound`, `SessionsEnd` |
| | `RolesTheorem`, `PowersTheorem` | the roles part of `PowersStayApart`; all of it, while lines of managers are short (`LinesAreShort`) |
| `Services_proofs` | `NoticesTheorem`, `OnceTheorem`, `LicenceTheorem` | `NoticesAreSole`, `WorkIsNotRepeated`, `PluginsKeepTheLicence` |
| | `ReportsTheorem` | `ReportsAreWhole` |
| `Lists` | lemmas only | a filtered list keeps its items in their order, and is the only one that does; induction, recursion, sums |

No safety property is inductive as it stands. What each proof adds, and why it is needed:

*Leave requests.* A handover keeps the turn only because the steps of a pending request are approved ones
followed by pending ones; revoking can mark a step only because an approved request has an approved step; the
roster follows only because decisions start from a pending request. The inductive invariant is

    Inv == TypeOK /\ (\A r \in Requests : Sound(r, app[r])) /\ RosterFollowsApproval

where `Sound(r, a)` is everything that is said of one request. Each function of `LeaveHandlers` takes a sound
request to a sound one (`FiledIsSound`, ... `ReleasedIsSound`), and every action writes rows that come from a
handler. *The refinement*: one lemma per abstract action says what a step must do to be that action; handlers,
job and separation are matched one by one (`HandleIsLife`, `JobIsLife`, `SeparateIsTurnover`). *The steps*:
`Proper(a, b, S)` is what one step may make of a row, `S` being who may be put on it; it needs `AllTidy`, that an
open step has no day of decision. `RoutedTheorem` rests on the last promise of `ChainFor`: a chain is empty only
when nobody may edit leave.

*Overlapping handlers.* `RaceInv`: what a session read was signed, and what it makes of that either keeps status
and reviewer or changes both (`MakesAreHonest`); so a commit that writes only the columns it changed, over
whatever the row holds by then, writes both or leaves both (`WrittenIsSigned`).

*Chains.* `ResolverTheorem` discharges `ChainContract`, which the proofs about leave requests take as the
assumption on the resolver: filtering keeps the order and leaves no one twice (`KeptFacts` of `Lists`), and an
exhausted chain falls back to somebody who may edit leave. `DecidersTheorem` needs that a filtered list is the
only one with its items in their order (`PlacesAreTheSame`), to compare the chain of a hybrid policy with those
of its two halves.

*Rules, chart, sight.* `RulesInv`: what a rule has kept of the scope and approvers that were chosen. `OrgInv`:
parents lie above (`Hangs`: no set of units is closed under going up, so a unit that is moved below itself would
contradict the check that walks up from the new parent), levels in use exist, members and heads are of a unit
that is there. `SightTheorem`: whom one manages is reached through units below one's own; the walk down
returns the least set closed under children (`BelowFacts`).

*Balances.* `BalanceInv`: a date that no leave covers shows none, so that an approval is the first to lay
itself there and its count before and after reads the same days. A filing adds exactly its days to what was
taken in each year (`FiledTaken`, a step of a sum), which is what the balance rule looked at.

*Payroll.* The marks are right only because figures are:

    Inv == TypeOK /\ TasksAreSole /\ FiguresAreReal /\ NobodySignsOffTheirOwnRun /\ MarksMatchTheRuns

`TasksAreSole`: a task belongs to a run that is computing, each run has one at most, and the occurrences it is to
make are not there yet; so no late figures arrive after a signature. `FiguresAreReal`: a log in the figures was
approved unless it has been derived anew since, and a line in them exists, so finalizing marks what it names.
One lemma per action (`StartComputeInv`, `ApproveInv`, `FinalizeInv`, ...), then the step properties from `Inv`.

*Salaries and clock.* `SalaryInv`: the grade of every row is there, whatever it pays (`SalariesStand`), and the
ledger is empty before the first assignment; entering a raise is then a step of the sum, one difference more
(`SumAny`). `ClockInv`: stretches do not overlap, so one at most is open (`WellLaid`, `OneIsOpen`); each record
follows from the stretches of its day unless it was typed in or is closed; the times of a record make sense; and a
day without punches has no start of work.

*Figures and policies.* The figures of a payslip need no more than their types, of which the accepted table of
bands is the one that matters: a table that was accepted and sorted runs upwards, so exactly one band matches a sum
(`TablesRunUpwards`, `OneBandMatches`). The nights of a stretch, worked out by arithmetic on days, are as many as the
minutes that count one by one (`OneNight`, `NightsHold`, `MinutesCountOnce`). `PolicyInv`: ids are used once and lie
below the number of steps (`RowsAreOwn`); a converted log and a deduction have a credit of their own hours, and no
other credit stands (`CreditsAreRows`). That the first rule in turn fills a slot is a recursion over the rules
(`RulesFill`, `TheFirstFills`), for any conditions: only whether a rule applies is used of them.

*Roster.* Every change of the roster is a `Write` of unlocked cells (`PlannersStand` and its companions for
the calendar, leaves, swaps and changes), so what a locked cell shows stands. `AgreementTheorem` rests on
`RequestsInv`: the type of a request, the numbering of its steps, and what `AgreedInTurn` says of it.
`OverlayInv`: the shifts of a cell suit the leaves that are approved (`Suits`), and a day a leave counts shows it
unless somebody cleared it. Reverting goes through the hidden shifts in their order, and gives back those that
were there (`PlacesAreTheSame` again).

*Holidays.* `CalendarInv`: the days off that a recurring holiday gave lie within a year from today, so an edit,
which looks at that year, takes back every one that is no longer its own; and a row of the feed that nobody
touched is a holiday, so freshening it changes nothing payroll has reckoned with. That a second sync does
nothing is a fact about any rows (`MergedTwice`).

*Plans.* `PlanInv`: the entries of a snapshot are told apart by day and place (`EntriesTell`), and unforced work
keeps the hours. What a write puts on a day is a finite set of shifts told apart by copy and place (`Tellable`), so
the hours of a day are a sum that a further shift adds to, and a refused shift never enters. A dry run shows what
the write puts because both filter the same targets; copies of a month keep apart because first days increase and a
copy ends where the next begins.

*Accounts.* `EnrollmentInv`: behind every grant there is a request and its decider, or the setup, and somebody
can be asked. `CredentialInv`: unused links are sole, a secret is asked for only after it was proven, and codes
are of the secret in use and not spent. `SessionInv`: a row tells when it was last used, give or take a slide
of the window; a token in a browser or on its way there is of an existing row, is no younger than its end, and
after a cutoff belongs to a sign-in that came later or was spared. `StaffInv` adds that nobody reports to
somebody who has no account. A circle of managers is a group each of whose members reports into it: the walk up
from a new manager either meets the employee, or is a line longer than the walk, or comes twice to the same
person (`NoneTwice`), which would be a circle that was there before.

*Reports.* Only types are invariant; everything else is a lemma about any rows. A join keeps every row it is given,
once for each match or alone (`NothingIsDropped`); groups partition the rows, so their counts and sums add up to those
of all rows (`SumsOfParts`, `EveryRowIsInOneGroup`); sorting stably by one key after another, the last first, gives
the order by all of them (`SortedTwice`, `EveryKeyCounts`).

*Services.* `LedgerInv`: two processes never hold the same notice of the same day, and whoever holds one has not
sent it yet (`ClaimsAreSole`), so that a process that lost the lead does not send a second. `JobInv`: claims are
sole. It needs `JOB_TIMEOUT < STALE_AFTER`, an assumption on the constants that `job_service.py` states and
justifies: a claim is taken over only after its worker was cut off.
Each copy of an email has a crash, a lost connection or a cancelled job to its account (`CopiesAreOwed`).
`PluginInv`: an expiry stands only by the day that was last seen (`ExpiryIsMarked`), a batch hands over only what
is queued and only while the plugin is on, and the queue tells what was received (`Honest`).

Assumptions are named where the constants are declared and TLC evaluates them on every instance. They type the
parameters (rosters of finitely many shifts, dates that are an interval, amounts within a bound) and say where
the code fixes an order between them. One says a little more of the inputs: the calendar of `Planning` goes on for a
month after the last day planned. `ChainContract` is evaluated on every
company of each instance of `LeaveApproval` with the resolver of `ApprovalChain`, and is what `ResolverTheorem`
proves of it.

## 7. Bounds on what the proofs and runs say

A handler is one step, except in `LeaveApprovalRace`: two handlers that overlap inside their transactions
(clock-ins, refreshes of one token, reviews of a swap's last step, moves of two units, removals of two
administrators, two readers that both create a request's steps) are seen only there, for leave requests.
`PROJECT.json` lists such places as hazards, or says of the hazard what the model leaves out. The same holds of an
approval of a payroll run and the check that it is not its maker's, and of an event's receipt by a plugin and the
check of its licence: a change inside either is not seen. In `MCOffice` one answer at a time is on its way to the
browser (`MaxAnswers`); that answers overtake each other is covered by `SessionsTheorem`. Of the functions of
formulas only `IF` is called, and no text such as `nan` is read as a number. What is proved of reports leaves a
total alone that has the name of a later one, since it is nowhere shown.

## 8. Not modelled, and what is left

Not modelled: the parsing and formatting of text (iCalendar, tokens, CSV and XLSX, templates of email), hashing
and HTTP, geolocation, the wording and delivery of notifications, audit, analytics and lists, personal records
and custom fields, settings and setup, the client, the schema's history. They keep no protocol, or are pure
data that a model would only repeat.

Partly modelled, and what is missing: overlapping handlers of the roster, the clock, payroll and the chart;
times of day of shifts (overlaps, rest between shifts); the columns that each data source yields; the amounts
carried over at the year's end; a leave that crosses a holiday which is moved afterwards. The next
proof worth doing is that of the parser of `Formulas`, once trees and tokens are given a measure to recurse over;
the next models, overlapping handlers outside of leave requests.
