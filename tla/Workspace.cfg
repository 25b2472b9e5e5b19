\* Two leads that may share an identity, in the file of any release, and two
\* crashes; a reader of three jobs, one to a page; two jobs of any stage and profile.
SPECIFICATION MCSpec
CONSTANTS
  Leads = {1, 2}
  Identities = {k1, k2}
  MaxCrashes = 2
  Parts = {"start", "pages"}
  MaxId = 3
  PageSize = 1
  Stages = {"saved", "applied", "talking", "interview", "offer", "hired", "rejected", "archived"}
  Profiles = {"sergey", "polina", "siarhei"}
  Filters <- Boards
  Readers = {r1}
  Timeline = Timeline
  NoRow = NoRow
  Idle = Idle
INVARIANTS
  NothingIsLost
  ReadyIsComplete
  WalksAreExact
  StatisticsAddUp
PROPERTIES
  StartOpens
CHECK_DEADLOCK FALSE
