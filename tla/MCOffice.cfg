SPECIFICATION OfficeSpec
CONSTANTS
  Browsers = {b1}
  Doors = {"admin"}
  AccessLife = 1
  RefreshLife = 3
  IdleLimit = 2
  MaxAge = 3
  SlideEvery = 1
  NoToken = NoToken
  MaxTime = 3
  MaxSessions = 2
  MaxTurns = 1
  MaxAnswers = 1
  MaxUpheavals = 1
  InviteLife = 2
  ResetLife = 1
  ChallengeLife = 1
  LockFor = 1
  Attempts = 2
  CodeCount = 1
  LatestInstant = 2
  MaxLinks = 2
  MaxSecrets = 2
  Staff = {p, q}
  Founder = p
  Nobody = Nobody
  Roles = {"tenant_admin", "hr", "finance"}
  Boxes <- MCBoxes
  Team <- MCTeam
  MaxDepth = 2
  Sources = {"employees", "shifts", "overtime"}
  Names <- MCNames
  Dated = {"shifts", "overtime"}
  Rows <- MCRows
  Blank = Blank
  Reports <- MCReports
  MostRows = 3
  MostData = 4
  Atoms = {"x", "late"}
  Calls = {"IF"}
  Operators = {"==", "+", "*", "/"}
  LongestFormula = 5
  Worth <- MCWorth
  JobWorkers = {w1, w2}
  Nothing = Nothing
  JobTimeout = 1
  StaleAfter = 2
  MostTries = 2
  MaxDays = 1
  MaxTroubles = 1
  MaxChanges = 1
SYMMETRY Alike
INVARIANTS
  SessionsEnd
  CredentialsAreSound
  WorkIsNotRepeated
  FormulasAreRead
PROPERTIES
  ReportsAreWhole
  PowersStayApart
CHECK_DEADLOCK FALSE
