SPECIFICATION ClockSpec
CONSTANTS
  none = none
  Nothing = none
  LastDay = 1
  DayLength = 3
  Slots <- MCSlots
  Shifts <- MCShifts
  FirstRosters <- MCRosters
  Typed <- MCTyped
  Grace = 1
  Unscheduled = 2
  DayHours = 1
  AbsentAfter = 1
  Lookback = 1
  MaxEdits = 1
  MaxStretches = 2
PROPERTY
  CorrectionsStand
CHECK_DEADLOCK FALSE
