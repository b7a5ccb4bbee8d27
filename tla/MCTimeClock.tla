---------------------------- MODULE MCTimeClock ----------------------------
(***************************************************************************)
(* Two days of three parts, with day shifts, night shifts and a split day.*)
(***************************************************************************)
EXTENDS TimeClock

CONSTANTS none

LateShift == [from |-> 1, to |-> 2]
NightShift == [from |-> 2, to |-> 1]
MCShifts == {LateShift, NightShift}

MCSlots == {1, 2}
OneShift(s) == [i \in MCSlots |-> IF i = 1 THEN s ELSE none]
SplitDay == [i \in MCSlots |-> IF i = 1 THEN LateShift ELSE NightShift]
MCRosters ==
  {[d \in 0 .. 1 |-> IF d = 0 THEN first ELSE OneShift(LateShift)] :
     first \in {OneShift(none), SplitDay}}

MCTyped == {[from |-> 0, to |-> 2]}
=============================================================================
