SPECIFICATION Spec
CONSTANTS
  Employees = {e1}
  Makers = {ann, ben}
  Nobody = nobody
  Periods = {"p1", "p2"}
  Days = {d1}
  Bonuses = {b1}
  Occurrences = {o1}
  EmployeeOf <- MCEmployeeOf
  Covers <- MCCovers
  Due <- MCDue
  Horizon <- MCHorizon
  MaxCopies = 1
  MaxCrashes = 1
INVARIANT
  NothingIsPaidTwice
