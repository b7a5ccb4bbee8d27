SPECIFICATION Spec
CONSTANTS
  People <- MCPeople
  NoOne <- MCNothing
  RoleCodes <- MCRoleCodes
  EditRoles = {"hr", "editor"}
  Units <- MCUnits
  ReportsTo <- MCReportsTo
  NoUnit <- MCNothing
  UnitOf <- MCUnitOf
  Parent <- MCParent
  OpenUnits <- MCUnits
  RuleBook <- MCRules
  Requesters = {1}
  LeftOut <- MCLeftOut
  Ways <- MCWays
  AtFirst <- MCAtFirst
  Changes <- MCChanges
  Levels = {l1, l2, l3}
  OrgNodes = {u1, u2}
  Persons = {p}
  Posts = {"head"}
  Rules = {rule}
  NoLevel = NoLevel
  NoOrgNode = NoOrgNode
  NoPerson = NoPerson
  RuleIds = {rule1, rule2}
  Staff = {a}
  OrgUnits = {u}
  RulePositions = {head}
  Everybody = Everybody
  LongestChain = 1
  LastPlace = 2
  Teams = {t1, t2}
  Members = {m, n}
  NoTeam = NoTeam
  Nobody = Nobody
  MostChanges = 2
  Requests = {r1, r2}
  Types = {A, B}
  Dates = {1, 2, 3}
  Parts = 2
  Holidays = {}
  WorkWeek = {1, 3}
  Hired = 1
  DefaultDays = 2
  Policies = {1, 2}
  Terms <- MCTerms
  Credits = {2}
  General = General
  NoRequest = NoRequest
  Unwritten = Unwritten
  Spells <- MCSpells
  MaxChanges = 2
SYMMETRY Alike
INVARIANTS
  ChainsWork
  TheRightOnesDecide
PROPERTIES
  TheChartStaysWhole
  RulesStayMeant
  OnlyOwnPeopleAreChanged
  LeaveRulesHold
CHECK_DEADLOCK FALSE
