SPECIFICATION RaceSpec
CONSTANTS
  People <- MCPeople
  NoOne <- MCNothing
  RoleCodes = {"hr", "leave_approver"}
  EditRoles = {"hr"}
  Units = {}
  ReportsTo <- MCReportsTo
  Requests = {"r1"}
  Owner <- MCOwner
  Spans <- MCSpans
  EscalateAfter = 0
  RolesFor <- MCRolesFor
  Heads = {}
  Deputies = {}
  RuleIds = {}
  MaxLevels = 2
  ResolveChain <- MCChain
  InScope <- MCInScope
  Sessions = {s1, s2}
  Request = "r1"
  TheCompany <- MCCompany
PROPERTY
  ApprovedIsNotEdited
CHECK_DEADLOCK FALSE
