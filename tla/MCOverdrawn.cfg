SPECIFICATION BalanceSpec
CONSTANTS
  Requests = {r1, r2}
  Types = {A, B}
  Dates = {1, 2, 3}
  Parts = 2
  Holidays = {}
  WorkWeek = {1, 3}
  Hired = 1
  DefaultDays = 2
  Policies = {1, 2}
  Terms <- MCTerms
  Credits = {2}
  General = General
  NoRequest = NoRequest
  Unwritten = Unwritten
  Spells <- MCSpells
  MaxChanges = 2
PROPERTY EditingKeepsWithinTheBalance
CHECK_DEADLOCK FALSE
