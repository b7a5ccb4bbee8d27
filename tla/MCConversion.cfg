SPECIFICATION ConversionSpec
CONSTANTS
  Employees = {e1}
  Makers = {ann, ben}
  Nobody = nobody
  Periods = {"p1", "p2"}
  Days = {d1}
  Bonuses = {b1}
  Occurrences = {o1}
  EmployeeOf <- MCEmployeeOf
  Covers <- MCCovers
  Due <- MCDue
  Horizon <- MCHorizon
  MaxCopies = 1
  MaxCrashes = 1
  none = none
  Nothing = none
  LastDay = 1
  DayLength = 3
  Slots <- MCSlots
  Shifts <- MCShifts
  FirstRosters <- MCRosters
  Typed <- MCTyped
  Grace = 1
  Unscheduled = 2
  DayHours = 1
  AbsentAfter = 1
  Lookback = 1
  MaxEdits = 2
  MaxStretches = 2
  Rules <- ConversionPolicies
  Conditions <- MCConditions
  DayFigures <- ConversionFigures
  FullDay = 8
  Rate = 8
  MostSteps = 5
  Day = 4
  Windows <- MCWindows
  Tables <- MCTables
  NoUpperEnd = NoUpperEnd
  Deductions <- MCDeductions
  Bases = {0, 1, 3}
  Break = 1
  BreakAfter = 2
  Multiple <- MCMultiple
  PayDays = {1, 2, 3}
  Grades = {g1, g2}
  NoGrade = NoGrade
  PayAmounts <- MCPayAmounts
  MostPay = 6
  MostEntries = 5
  Holders = {f, a, b}
  Admins = {f, a}
  FirstAdmin = f
  Setup = Setup
  MaxRequests = 3
INVARIANT ConvertedAtTheRate
CHECK_DEADLOCK FALSE
