------------------------------ MODULE Policies ------------------------------
(***************************************************************************)
(* The policy engine and one attendance record: rules with a tree of       *)
(* conditions, whose actions each fill a slot of the record once, the      *)
(* overtime logs, tardiness rows and leave credits that come of it, what   *)
(* reviewers make of those, and the dry run of the rules. A unit of time   *)
(* is the minute that is rounded to and the hour that is turned into       *)
(* leave; leave credits are counted in hours of leave.                     *)
(***************************************************************************)
EXTENDS Integers, SequencesExt

CONSTANTS
  Conditions, \* the conditions of the rules, groups and what they hold
  Rules,      \* the rules by priority: [when, with the scope and the days it is for, actions, stop]
  DayFigures, \* what a day may look like: its overtime, late, night and
              \* holiday hours, all hours, and whether it touches a holiday
  FullDay,    \* hours of a day of leave: 8
  Rate,       \* leave_credit_rate of the category: hours for a day of leave
  MostSteps   \* bound on what happens to the record

Slot == [apply_ot_category |-> "overtime", apply_night_diff |-> "night_differential",
         apply_holiday_pay |-> "holiday_shift", salary_deduction |-> "resolution",
         leave_deduction |-> "resolution", send_warning |-> "resolution", mark_excused |-> "resolution"]
ActionSlots == {Slot[t] : t \in DOMAIN Slot}
LogKinds == ActionSlots \ {"resolution"}
NoEffect == [type |-> "none", rule |-> 0, convert |-> FALSE]

\* A group names the conditions in it, `not` the one that it denies.
Groups == {"all", "any", "not"}
Actions == [type : DOMAIN Slot, convert : BOOLEAN]
Banded == [type : {"bands"}, field : STRING, bands : Seq([min : Int, max : Int, action : Actions])]
Metrics == [overtime : Nat, late : Nat, night : Nat, holiday : Nat, hours : Nat, onHoliday : BOOLEAN]

ASSUME PolicyAssumption ==
  /\ \A node \in Conditions : node.is \in Groups => node.of \subseteq Conditions
  /\ Rules \in Seq([when : Conditions, actions : Seq(Actions \cup Banded), stop : BOOLEAN])
  /\ FullDay \in Nat \ {0} /\ Rate \in Nat \ {0} /\ MostSteps \in Nat
  /\ DayFigures \subseteq Metrics
  /\ \A f \in DayFigures : f.holiday <= f.hours /\ f.night <= f.hours /\ (f.holiday > 0 => f.onHoliday)

VARIABLES
  figures,   \* the record's metrics
  active,    \* the rules that are switched on
  overtimeLogs, \* its overtime logs
  tardies,   \* its tardiness rows
  credits,   \* the leave credit adjustments that name one of them
  signedOff, \* a signed-off run has paid the day
  steps

policyVars == <<figures, active, overtimeLogs, tardies, credits, signedOff, steps>>

\* Every row of its kind has an id of its own: rows are never given one twice.
OvertimeLog == [id : Nat, kind : LogKinds, hours : Nat, earned : Nat, paid : BOOLEAN,
        status : {"pending", "approved", "rejected", "converted"}]
Tardy == [id : Nat, hours : Nat, deducted : Nat, outcome : DOMAIN Slot]
Adjustment == [of : ActionSlots, id : Nat, hours : Int, at : Nat]

PolicyTypeOK ==
  /\ figures \in DayFigures /\ active \subseteq DOMAIN Rules
  /\ overtimeLogs \subseteq OvertimeLog /\ tardies \subseteq Tardy
  /\ credits \subseteq Adjustment /\ signedOff \in BOOLEAN

-----------------------------------------------------------------------------
(* Conditions: a leaf is of a fact that is known, a group of no conditions *)
(* holds of nothing.                                                       *)

Holds(node, facts) ==
  LET holds[n \in Conditions] ==
        CASE n.is = "all" -> n.of # {} /\ \A m \in n.of : holds[m]
          [] n.is = "any" -> \E m \in n.of : holds[m]
          [] n.is = "not" -> \A m \in n.of : ~holds[m]
          [] n.is = "gt" -> n.field \in DOMAIN facts /\ facts[n.field] > n.value
          [] n.is = "lte" -> n.field \in DOMAIN facts /\ facts[n.field] <= n.value
          [] OTHER -> n.field \in DOMAIN facts /\ facts[n.field] = n.value
  IN holds[node]

\* _resolve_action: the first band that holds the value.
InBand(value, band) == band.min <= value /\ value <= band.max
Resolved(action, facts) ==
  IF action.type # "bands" THEN action
  ELSE IF \E i \in DOMAIN action.bands : InBand(facts[action.field], action.bands[i])
  THEN action.bands[Min({i \in DOMAIN action.bands : InBand(facts[action.field], action.bands[i])})].action
  ELSE NoEffect

\* Whether an action has an effect: the guards of the _apply_ methods.
Applies(type, f) ==
  CASE type = "apply_ot_category" -> f.overtime > 0
    [] type = "apply_night_diff" -> f.night > 0
    [] type = "apply_holiday_pay" -> (IF f.onHoliday THEN f.holiday ELSE f.hours) > 0
    [] type = "mark_excused" -> TRUE
    [] OTHER -> f.late > 0

\* _would_apply: those of the dry run.
WouldApply(type, f) ==
  CASE type = "apply_ot_category" -> f.overtime > 0
    [] type = "apply_night_diff" -> f.hours > 0
    [] type = "apply_holiday_pay" -> f.onHoliday
    [] type = "mark_excused" -> TRUE
    [] OTHER -> f.late > 0

-----------------------------------------------------------------------------
(* One evaluation: rule after rule, each action fills its slot if nothing  *)
(* has, and a rule that had an effect may be the last.                     *)

Asked(action, r) == [type |-> action.type, rule |-> r, convert |-> action.convert]

Fill(filled, action, r) ==
  [s \in ActionSlots |-> IF s = Slot[action.type] /\ filled[s] = NoEffect THEN Asked(action, r) ELSE filled[s]]

AfterActions(filled, r, f, able) ==
  LET actions == Rules[r].actions
      after[n \in 0..Len(actions)] ==
        IF n = 0 THEN filled
        ELSE LET a == Resolved(actions[n], f)
             IN IF a.type \notin able THEN after[n - 1] ELSE Fill(after[n - 1], a, r)
  IN after[Len(actions)]

\* `able` are the types of action that have an effect.
AfterRule(done, r, f, on, able) ==
  IF done.stopped \/ r \notin on \/ ~Holds(Rules[r].when, f) THEN done
  ELSE LET filled == AfterActions(done.filled, r, f, able)
       IN [filled |-> filled, stopped |-> Rules[r].stop /\ filled # done.filled]

Evaluated(f, on, able) ==
  LET after[n \in 0..Len(Rules)] ==
        IF n = 0 THEN [filled |-> [s \in ActionSlots |-> NoEffect], stopped |-> FALSE]
        ELSE AfterRule(after[n - 1], n, f, on, able)
  IN after[Len(Rules)].filled

\* A kind of log that was paid is there already.
Effects(f, on, there) ==
  Evaluated(f, on, {type \in DOMAIN Slot : Slot[type] \notin there /\ Applies(type, f)})

\* simulate_record.
Simulated(f, on) == Evaluated(f, on, {type \in DOMAIN Slot : WouldApply(type, f)})

-----------------------------------------------------------------------------
(* Rows and credits.                                                       *)

Key(of, id) == <<of, id>>
Credit(of, id, hours) == [of |-> of, id |-> id, hours |-> hours, at |-> steps]
Earnings(rows) == {Credit(l.kind, l.id, l.earned) : l \in {m \in rows : m.status = "converted"}}
LateDeductions(rows) == {Credit("resolution", t.id, -t.deducted) : t \in {u \in rows : u.deducted > 0}}

\* A slip: the credits of rows that go, or are settled anew, stay.
WithoutAny(keys) == credits

Without(keys) == {c \in credits : Key(c.of, c.id) \notin keys}

\* a / b as round() has it: what is in the middle goes to the even number.
Nearest(a, b) ==
  LET q == a \div b
      twice == 2 * (a % b)
  IN IF twice > b \/ (twice = b /\ q % 2 = 1) THEN q + 1 ELSE q

\* Overtime that touches a holiday is cut to the holiday's share, and to one unit
\* of time where none of the work fell on it.
HoursOf(kind, f) ==
  CASE kind = "overtime" -> (IF f.onHoliday /\ f.holiday < f.hours
                              THEN Max({1, Nearest(f.overtime * f.holiday, f.hours)}) ELSE f.overtime)
    [] kind = "night_differential" -> f.night
    [] OTHER -> IF f.onHoliday THEN f.holiday ELSE f.hours

\* What the rules turn into leave themselves, and what a reviewer does.
EarnedByRule(hours) == hours * Rate * FullDay
EarnedByReviewer(hours) == (hours * FullDay) \div Rate

\* A row is new each time: the next id of its table. An overtime rule is not asked
\* whether it converts.
NewLog(kind, effect, f) ==
  LET converted == effect.convert /\ kind # "overtime"
  IN [id |-> steps, kind |-> kind, hours |-> HoursOf(kind, f), paid |-> FALSE,
      earned |-> IF converted THEN EarnedByRule(HoursOf(kind, f)) ELSE 0,
      status |-> IF converted THEN "converted" ELSE "pending"]

Step == steps < MostSteps /\ steps' = steps + 1

\* _purge_engine_records and evaluate: what was paid is left alone.
Derive(f) ==
  LET kept == {l \in overtimeLogs : l.paid}
      effects == Effects(f, active, {l.kind : l \in kept})
      new == {NewLog(k, effects[k], f) : k \in {j \in LogKinds : effects[j] # NoEffect}}
      due == effects["resolution"]
      deducted == IF due.type = "leave_deduction" THEN f.late ELSE 0
      rows == IF due = NoEffect \/ f.late = 0 THEN {}
              ELSE {[id |-> steps, hours |-> f.late, deducted |-> deducted, outcome |-> due.type]}
  IN /\ overtimeLogs' = kept \cup new
     /\ tardies' = rows
     /\ credits' = Without({Key(l.kind, l.id) : l \in overtimeLogs \ kept} \cup {Key("resolution", t.id) : t \in tardies})
                     \cup Earnings(new) \cup LateDeductions(rows)

PolicyInit ==
  /\ figures \in DayFigures /\ active \in SUBSET DOMAIN Rules
  /\ overtimeLogs = {} /\ tardies = {} /\ credits = {}
  /\ signedOff = FALSE /\ steps = 0

-----------------------------------------------------------------------------
(* The record is written, corrected, punched, or its day has changed.      *)
RederiveDay(f) ==
  /\ Step /\ ~signedOff
  /\ figures' = f
  /\ Derive(f)
  /\ UNCHANGED <<active, signedOff>>

\* An administrator switches a rule; the records are not derived again.
ToggleRule(r) ==
  /\ Step
  /\ active' = IF r \in active THEN active \ {r} ELSE active \cup {r}
  /\ UNCHANGED <<figures, overtimeLogs, tardies, credits, signedOff>>

Become(l, new) == overtimeLogs' = (overtimeLogs \ {l}) \cup {new}

DecideLog(l, verdict) ==
  /\ Step
  /\ l.status = "pending"
  /\ Become(l, [l EXCEPT !.status = verdict])
  /\ UNCHANGED <<figures, active, tardies, credits, signedOff>>

ConvertLog(l) ==
  /\ Step
  /\ l.status = "approved" /\ ~l.paid
  /\ Become(l, [l EXCEPT !.status = "converted", !.earned = EarnedByReviewer(l.hours)])
  /\ credits' = credits \cup {Credit(l.kind, l.id, EarnedByReviewer(l.hours))}
  /\ UNCHANGED <<figures, active, tardies, signedOff>>

\* resolve_tardiness: the outcome before is taken back.
ResolveTardiness(t, outcome) ==
  LET settled == [t EXCEPT !.outcome = outcome,
                          !.deducted = IF outcome = "leave_deduction" THEN t.hours ELSE 0]
  IN /\ Step /\ ~signedOff
     /\ tardies' = (tardies \ {t}) \cup {settled}
     /\ credits' = Without({Key("resolution", t.id)}) \cup LateDeductions({settled})
     /\ UNCHANGED <<figures, active, overtimeLogs, signedOff>>

\* A payroll run over the day is signed off, and finalized.
SignOff ==
  /\ Step /\ ~signedOff
  /\ signedOff' = TRUE
  /\ \/ UNCHANGED overtimeLogs
     \/ overtimeLogs' = {[l EXCEPT !.paid = l.status = "approved"] : l \in overtimeLogs}
  /\ UNCHANGED <<figures, active, tardies, credits>>

PolicyNext ==
  \/ \E f \in DayFigures : RederiveDay(f)
  \/ \E r \in DOMAIN Rules : ToggleRule(r)
  \/ \E l \in overtimeLogs, verdict \in {"approved", "rejected"} : DecideLog(l, verdict)
  \/ \E l \in overtimeLogs : ConvertLog(l)
  \/ \E t \in tardies, o \in {"salary_deduction", "leave_deduction", "send_warning"} : ResolveTardiness(t, o)
  \/ SignOff

PolicySpec == PolicyInit /\ [][PolicyNext]_policyVars

-----------------------------------------------------------------------------
(* Leave credits are those of the rows that stand: whatever is derived     *)
(* again, converted or resolved anew, no credit is without its row, none   *)
(* is there twice, and no row that says it gave or took leave lacks it.    *)
CreditsHaveTheirRows ==
  /\ {[c EXCEPT !.at = steps] : c \in credits} = Earnings(overtimeLogs) \cup LateDeductions(tardies)
  /\ \A c, d \in credits : c.of = d.of /\ c.id = d.id => c = d

(* "A slot is filled at most once, by the first matching rule that         *)
(* requests it": as long as no rule is told to be the last, the slot has   *)
(* the effect it would have had with the rules before alone, and no rule   *)
(* shadows one that asks for another slot.                                 *)
TheFirstRuleFillsTheSlot ==
  LET asks(r, s) == \E i \in DOMAIN Rules[r].actions :
                      LET a == Resolved(Rules[r].actions[i], figures)
                      IN a.type # "none" /\ Slot[a.type] = s /\ Applies(a.type, figures)
      ready(s) == {r \in active : Holds(Rules[r].when, figures) /\ asks(r, s)}
  IN (\A r \in active : ~Rules[r].stop) =>
       \A s \in ActionSlots :
         IF ready(s) = {} THEN Effects(figures, active, {})[s] = NoEffect
         ELSE Effects(figures, active, {})[s].rule = Min(ready(s))

(* "so the simulator doesn't over-report": a dry run shows no effect that  *)
(* the rules would not have on the record. No run checks it: the dry run   *)
(* takes any hours at work for night work.                                 *)
DryRunsDoNotOverReport ==
  \A s \in ActionSlots : Simulated(figures, active)[s] # NoEffect =>
    Effects(figures, active, {})[s] # NoEffect

(* "Formula: leave_credits = overtime_minutes / 60 / leave_credit_rate":   *)
(* converted hours are worth the same whoever converts them.               *)
ConvertedAtTheRate ==
  \A l \in overtimeLogs : l.status = "converted" => l.earned * Rate = l.hours * FullDay

(* Policies act once: a slot is filled by one rule, and each credit        *)
(* belongs to the one row that stands for it.                              *)
PoliciesActOnce ==
    PolicyTypeOK /\ CreditsHaveTheirRows /\ TheFirstRuleFillsTheSlot

(* So it is before anything has happened to the record, and ever after,    *)
(* however often the day is derived again.                                 *)
PolicyCreditsAreDue == PoliciesActOnce /\ [](steps > 0 => PoliciesActOnce)
=============================================================================
