SPECIFICATION Spec
CONSTANTS
  People <- MCPeople
  NoOne <- MCNothing
  RoleCodes <- MCRoleCodes
  EditRoles = {"hr"}
  Units <- MCUnits
  ReportsTo <- MCReportsTo
  NoUnit <- MCNothing
  UnitOf <- MCUnitOf
  Parent <- MCParent
  OpenUnits <- MCUnits
  RuleBook <- MCRules
  Requests = {"r1"}
  Owner <- MCOwnerHR
  Spans <- MCTwoDays
  EscalateAfter = 1
  RolesFor <- MCRolesForOfHR
  Heads = {2}
  Deputies = {3}
  RuleIds = {1}
  MaxLevels = 2
  ResolveChain <- MCChain
  InScope <- Manages
  RulesNaming <- MCRulesNaming
  FirstDays <- MCFirstDays
  MaxDay = 1
INVARIANTS
  TypeOK
  StepsAreCoherent
  RosterFollowsApproval
PROPERTIES
  NobodyApprovesTheirOwn
  NewApproversCanAct
  DecisionsKeepTheirAuthor
  ChangedDatesAreApprovedAgain
  NothingExpiresUnrouted
