----------------------------- MODULE PayFigures -----------------------------
(***************************************************************************)
(* The arithmetic of a payslip: tables of bands for tiered deductions, the *)
(* minutes of a worked stretch that fall in the night or on a holiday, the *)
(* premiums they earn, and how the figures of one employee add up.         *)
(*                                                                         *)
(* Minutes lie on one axis: date d is from d * Day to (d + 1) * Day, and   *)
(* everybody starts on date 0. Money is in whole units, and no sum of it is *)
(* rounded.                                                                *)
(***************************************************************************)
EXTENDS Integers, Sequences, FiniteSets, Functions, Lists

CONSTANTS
  Day,        \* minutes of a day: 1440
  Windows,    \* night windows: pairs of minutes of the day
  Tables,     \* tables of bands that are entered
  NoUpperEnd, \* a band without an upper limit
  Deductions, \* the mandatory deductions that are in force
  Bases,      \* the sums a deduction is worked out on
  Break,      \* minutes of the unpaid break
  BreakAfter, \* it is taken from longer days only; 0: from all of them
  Multiple    \* what worked hours earn over base pay, by kind of premium

PremiumKinds == {"holiday", "night"}
Verdicts == {"none", "pending", "approved", "paid", "refused"}

Brackets ==
  [over : Int, upTo : Int \cup {NoUpperEnd}, base : Int, rate : Int, full : BOOLEAN]
DeductionTypes ==
  [code : Nat, type : {"percentage", "tiered", "fixed"}, of : {"base", "gross"}, rate : Int,
   amount : Int, employer : BOOLEAN]

\* The codes of a company's deductions differ; here their order is the one
\* in which the deductions are listed.
ASSUME FiguresAssumption ==
  /\ Day \in Nat \ {0}
  /\ NoUpperEnd \notin Int
  /\ Windows \subseteq (0..(Day - 1)) \X (0..(Day - 1))
  /\ Tables \subseteq Seq(Brackets)
  /\ Deductions \subseteq DeductionTypes /\ IsFiniteSet(Deductions)
  /\ \A a, b \in Deductions : a.code = b.code => a = b
  /\ Bases \subseteq Nat
  /\ Break \in Nat /\ BreakAfter \in Nat
  /\ Multiple \in [PremiumKinds -> Int]

VARIABLES
  bands,     \* the stored table of the tiered deduction
  window,    \* night_shift_start and night_shift_end
  pieces,    \* the worked stretches of one record, in order
  logs       \* what the policy engine has logged for it, by kind

figureVars == <<bands, window, pieces, logs>>

FigureInit ==
  /\ bands = <<>> /\ pieces = <<>>
  /\ window \in Windows
  /\ logs = [k \in PremiumKinds |-> "none"]

Least(a, b) == IF a <= b THEN a ELSE b
Most(a, b) == IF a >= b THEN a ELSE b

-----------------------------------------------------------------------------
(* Bands.                                                                  *)

Within(basis, band) == basis >= band.over /\ (band.upTo = NoUpperEnd \/ basis < band.upTo)

\* A slip: a row may start after the one before it ends.
JoinedLoosely(table, i) == table[i].over >= table[i - 1].upTo

Joined(table, i) == table[i].over = table[i - 1].upTo

\* validate_brackets: upwards, without gaps or overlaps, only the last open.
Accepted(table) ==
  \A i \in DOMAIN table :
    /\ table[i].over >= 0 /\ table[i].base >= 0 /\ table[i].rate >= 0
    /\ table[i].upTo = NoUpperEnd => i = Len(table)
    /\ table[i].upTo # NoUpperEnd => table[i].upTo > table[i].over
    /\ i > 1 => Joined(table, i)

\* By `over`; rows that are even stay in the order they came in.
Sorted(table) ==
  LET rows == DOMAIN table
      order == InOrder(rows, {ij \in rows \X rows :
                                \/ table[ij[1]].over < table[ij[2]].over
                                \/ table[ij[1]].over = table[ij[2]].over /\ ij[1] < ij[2]})
  IN [n \in DOMAIN table |-> table[order[n]]]

\* bracket_amount: the first band that matches, nothing when none does.
Matching(basis) == {i \in DOMAIN bands : Within(basis, bands[i])}
BracketAmount(basis) ==
  IF Matching(basis) = {} THEN 0
  ELSE LET band == bands[CHOOSE i \in Matching(basis) : \A j \in Matching(basis) : i <= j]
       IN band.base + band.rate * (IF band.full THEN basis ELSE Most(0, basis - band.over))

DeductionAmount(ded, gross, base) ==
  LET basis == IF ded.of = "base" THEN base ELSE gross
  IN CASE ded.type = "percentage" -> basis * ded.rate
       [] ded.type = "tiered" -> BracketAmount(basis)
       [] OTHER -> ded.amount

\* replace_deduction_brackets.
ReplaceBrackets(table) ==
  /\ Accepted(Sorted(table))
  /\ bands' = Sorted(table)
  /\ UNCHANGED <<window, pieces, logs>>

-----------------------------------------------------------------------------
(* Minutes.                                                                *)

Overlap(s, e, from, to) == Most(0, Least(e, to) - Most(s, from))

\* span: an end at or before the start is on the following day.
EndsAfter(from, to) == IF to <= from THEN to + Day ELSE to
NightOf(d) == <<(d * Day) + window[1], EndsAfter((d * Day) + window[1], (d * Day) + window[2])>>

\* From the night before to the one that begins when the stretch ends.
NightsAround(s, e) == ((s \div Day) - 1)..(e \div Day)

\* night_minutes_in: of each stretch, what each night holds.
NightMinutesOf(s, e) ==
  SumFunction([d \in NightsAround(s, e) |-> Overlap(s, e, NightOf(d)[1], NightOf(d)[2])])
NightMinutes(stretches) ==
  IF window[1] = window[2] THEN 0
  ELSE SumFunction([i \in DOMAIN stretches |-> NightMinutesOf(stretches[i][1], stretches[i][2])])

\* night_diff_minutes, of one shift that starts on date 0.
NightOfShift(s, e) ==
  IF window[1] = window[2] THEN 0
  ELSE SumFunction([d \in -1..1 |-> Overlap(s, EndsAfter(s, e), NightOf(d)[1], NightOf(d)[2])])

\* minutes_on_dates.
MinutesOn(d, stretches) ==
  SumFunction([i \in DOMAIN stretches |->
                 Overlap(stretches[i][1], stretches[i][2], d * Day, (d + 1) * Day)])

Worked(stretches) == SumFunction([i \in DOMAIN stretches |-> stretches[i][2] - stretches[i][1]])

\* paid_minutes: the break comes off a day worked in one long enough stretch.
PaidMinutes(stretches) ==
  LET total == Worked(stretches)
  IN IF Break = 0 \/ Len(stretches) # 1 \/ (BreakAfter > 0 /\ total <= BreakAfter) THEN total
     ELSE Most(0, total - Break)

\* The attendance record of the day.
InTurn(stretches) == \A i \in DOMAIN stretches : i > 1 => stretches[i - 1][2] <= stretches[i][1]
DayRecord(stretches) ==
  /\ InTurn(stretches)
  /\ pieces' = stretches
  /\ UNCHANGED <<bands, window, logs>>

\* The policy engine, or whoever decides on its log.
LogIs(kind, verdict) ==
  /\ logs[kind] # verdict
  /\ logs' = [logs EXCEPT ![kind] = verdict]
  /\ UNCHANGED <<bands, window, pieces>>

-----------------------------------------------------------------------------
(* The payslip.                                                            *)

\* The break shortens each kind of minutes by its share of the day.
Credited(minutes) ==
  LET worked == Worked(pieces)
  IN IF worked = 0 THEN 0 ELSE (2 * minutes * PaidMinutes(pieces) + worked) \div (2 * worked)

\* _premiums: a record without a stretch is passed over, its logs too. A log
\* decides; only without one are the minutes worked out.
Premium(kind, minutes, logged) ==
  LET earned == IF pieces = <<>> \/ logs[kind] \notin {"none", "approved"} THEN 0
                ELSE IF logs[kind] = "approved" THEN logged ELSE Credited(minutes)
  IN earned * Most(0, Multiple[kind] - 1)

Amounts(gross, base, employers) ==
  LET ours == InOrder({d \in Deductions : d.employer = employers},
                      {ab \in Deductions \X Deductions : ab[1].code < ab[2].code})
  IN [i \in DOMAIN ours |-> DeductionAmount(ours[i], gross, base)]

Taken(late, gross, base) == late + SumFunction(Amounts(gross, base, FALSE))

\* _compute_one: base pay, extras and premiums make the gross; lateness and
\* the deductions of the employee come off it.
ComputeOne(base, extras, late, holidays) ==
  LET premiums == Premium("night", NightMinutes(pieces), 1)
                  + Premium("holiday", SumFunction([d \in holidays |-> MinutesOn(d, pieces)]), 1)
      gross == base + extras + premiums
  IN [gross |-> gross, net |-> gross - Taken(late, gross, base),
      lines |-> (IF late > 0 THEN <<late>> ELSE <<>>) \o Amounts(gross, base, FALSE),
      employer |-> Amounts(gross, base, TRUE),
      held |-> {k \in PremiumKinds : pieces # <<>> /\ logs[k] = "pending"}]

Stretches ==
  LET one == {p \in (0..(Day - 1)) \X (1..(2 * Day)) : p[1] < p[2] /\ p[2] - p[1] <= Day}
  IN {<<p>> : p \in one} \cup {<<p, q>> : p, q \in {r \in one : r[2] - r[1] <= 2}}

FigureNext ==
  \/ \E t \in Tables : ReplaceBrackets(t)
  \/ \E s \in Stretches : DayRecord(s)
  \/ \E k \in PremiumKinds, v \in Verdicts : LogIs(k, v)

FigureSpec == FigureInit /\ [][FigureNext]_figureVars

-----------------------------------------------------------------------------
FigureTypeOK ==
  /\ window \in Windows
  /\ logs \in [PremiumKinds -> Verdicts]
  /\ pieces \in Stretches \cup {<<>>} /\ InTurn(pieces)
  /\ bands \in Seq(Brackets) /\ Accepted(bands)

\* The reference: the minutes themselves.
MinutesOf(stretches) == UNION {stretches[i][1]..(stretches[i][2] - 1) : i \in DOMAIN stretches}
AtNight(t) ==
  LET m == t % Day
  IN IF window[1] <= window[2] THEN window[1] <= m /\ m < window[2] ELSE m >= window[1] \/ m < window[2]

(* Night pay and holiday pay count every worked minute once, and where it  *)
(* falls, in stretches that pass midnight and windows that do, whichever   *)
(* of the two functions counts; what a night window and a date do not hold *)
(* is in the rest of the day.                                              *)
EveryMinuteCountsOnce ==
  /\ NightMinutes(pieces) = Cardinality({t \in MinutesOf(pieces) : AtNight(t)})
  /\ \A d \in 0..2 : MinutesOn(d, pieces) = Cardinality({t \in MinutesOf(pieces) : t \div Day = d})
  /\ Len(pieces) = 1 =>
       NightOfShift(pieces[1][1], pieces[1][2] % Day) = NightMinutes(pieces)

(* A table that was accepted has one band for every sum from the lowest    *)
(* one on: nobody's deduction falls into a gap, and none depends on the    *)
(* order in which two bands are tried.                                     *)
NoSumFallsThrough ==
  bands # <<>> =>
    \A basis \in Bases :
      (basis >= bands[1].over /\ (bands[Len(bands)].upTo = NoUpperEnd \/ basis < bands[Len(bands)].upTo))
        => Cardinality(Matching(basis)) = 1

(* The lines that an employee reads add up to what was taken off the       *)
(* gross, and the employer's share is no part of it.                       *)
PayslipsAddUp ==
  \A base \in Bases, late \in 0..1, holidays \in SUBSET {0, 1} :
    LET slip == ComputeOne(base, 0, late, holidays)
    IN slip.net = slip.gross - SumFunction(slip.lines)

(* Pay counts every minute, every sum and every line once.                 *)
FiguresAddUp ==
    FigureTypeOK /\ EveryMinuteCountsOnce /\ NoSumFallsThrough /\ PayslipsAddUp

(* Every minute and every amount is in exactly one band, and a payslip is  *)
(* the sum of its parts, at first and whatever has been entered since.     *)
NothingEntered == bands = <<>> /\ pieces = <<>> /\ \A k \in PremiumKinds : logs[k] = "none"

WorkedOutRight == FiguresAddUp /\ [](~NothingEntered => FiguresAddUp)
=============================================================================
