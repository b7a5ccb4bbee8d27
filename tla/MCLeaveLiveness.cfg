SPECIFICATION Spec
CONSTANTS
  People <- MCPeople
  NoOne <- MCNothing
  RoleCodes <- MCRoleCodes
  EditRoles = {"hr"}
  Units <- MCUnits
  ReportsTo <- MCReportsTo
  NoUnit <- MCNothing
  UnitOf <- MCUnitOf
  Parent <- MCParent
  OpenUnits <- MCUnits
  RuleBook <- MCRules
  Requests = {"r1"}
  Owner <- MCOwnerHR
  Spans <- MCOneDay
  EscalateAfter = 1
  RolesFor <- MCRolesForOfHR
  Heads = {2}
  Deputies = {3}
  RuleIds = {1}
  MaxLevels = 1
  ResolveChain <- MCShortChain
  InScope <- Manages
  RulesNaming <- MCRulesNaming
  FirstDays <- MCFirstDaysOfHR
  MaxDay = 2
PROPERTIES
  SettlesAsPromised
  KeepsThePromises
