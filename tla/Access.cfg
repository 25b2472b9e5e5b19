\* Four sign-ins under two keys, two requests in flight, a table of two rows; two
\* attempts that race from three addresses, with a table of two and two guesses each;
\* three visitors with a table of one.
SPECIFICATION AccessSpec
CONSTANTS
  Parts = {"sessions", "login", "keys"}
  Tokens = {1, 2, 3, 4}
  Scopes = {s1, s2}
  Requests = {r1, r2}
  TTL = 2
  MaxRows = 2
  Addresses = {a1, a2, a3}
  Attempts = {p1, p2}
  Limit = 2
  Window = 2
  MaxEntries = 2
  Visitors = {a1, a2, a3}
  Views = {v1, v2}
  MaxFailures = 2
  FailWindow = 1
  BlockPeriod = 3
  MaxKeys = 1
  Horizon = 6
  NoEntry = NoEntry
  NoRow = NoRow
  Idle = Idle
INVARIANTS
  TypesOK
  TablesAreBounded
  GuessesAreBounded
  ForgettingCosts
  RecentSessionsSurvive
PROPERTIES
  OnlyOwnSessionsLetIn
  LockoutEnds
  BlockHolds
  BlockEnds
CHECK_DEADLOCK FALSE
