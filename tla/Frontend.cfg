SPECIFICATION FrontendSpec
CONSTANTS
  a = a
  b = b
  Users = {a, b}
  IsAdmin <- MCAdmin
  CanGrant <- MCAdmin
  Catalogs = {c1, c2}
  FirstCatalog = c1
  NoOne = NoOne
  MaxTokens = 2
  MaxLogins = 2
  MaxInFlight = 1
  fe = fe
  be = be
  FEs = {fe}
  BEs = {be}
  Responses <- MCResponses
  Nothing = Nothing
  SparkMax = 2
  MaxAsks = 4
  MaxTimers = 2
  Queries = {q1}
  Absent = Absent
  MaxReads = 3
  MaxKills = 1
  cat = cat
  db = db
  tables = tables
  t1 = t1
  t2 = t2
  t3 = t3
  t4 = t4
  root = root
  lone = lone
  ra = ra
  rb = rb
  rc = rc
  member = member
  GraphNodes <- MCNodes
  NodeType <- MCType
  GroupNodes = {tables}
  Above <- MCAbove
  Builtin = {root}
  ServedGraphs <- MCGraphs
  HidableTypes = {"table"}
  HidableNames = {t1}
  Unset = Unset
  MaxContainer = 10
  StartBoxes <- MCBoxes
  MaxPicks = 4
  AuditFilters = {a1, a2}
  FirstFilter = a1
  Unasked = Unasked
  MaxTicks = 2
INVARIANTS
  FrontendTypeOK GraphOfThisLogin SpinnerHasALoad 
   KilledStaysGone  DrawnOnce 
PROPERTIES
  ExpiryIsNoticed StatusNeverGoesBack JumpIsServed FetchersImplementLatest
CHECK_DEADLOCK FALSE
