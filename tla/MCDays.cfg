SPECIFICATION DaysSpec
CONSTANTS
  Employees = {1, 2}
  Days = {1, 2}
  l1 = l1
  l2 = l2
  Leaves = {l1, l2}
  Remarks = {h}
  None = None
  LeaveOf <- MCLeaveOf
  Span <- MCSpan
  Counted <- MCCounted
  Selections <- MCSelections
  Runs <- MCRuns
  Statuses = {"work", "leave"}
  Patterns <- MCPatterns
  Requests = {q}
  Approvers = {1, 2, 3}
  Wanted <- MCWanted
  ChainOf <- MCChainOf
  MaxShifts = 2
  MaxWrites = 2
  PlanDays = {1, 2, 3, 4}
  Firsts <- MCFirsts
  MostInARow = 0
  RestDays = 1
  WeekLength = 3
  Pad = 4
  MostPerDay = 2
  MostPerWeek = 3
  Templates <- MCTemplates
  MostShifts = 2
  MostPlans = 3
  Dates = {1, 2, 3}
  Year = 2
  Regions = {"north"}
  National = National
  Feeds <- MCFeeds
  Down = Down
  NoFetch = NoFetch
  MaxEdits = 2
INVARIANTS
  AgreedInTurn
PROPERTIES
  PlannedAsPromised
  LeavesTakeTheirDays
  LockedDaysStand
  CalendarIsThePeoples
CHECK_DEADLOCK FALSE
