\* Every writer of the timeline of one job, native or imported.
SPECIFICATION Spec
CONSTANTS
  Jobs = {1}
  Keys = {k1}
  Clients = {c1}
  Handlers = {h1}
  saved = saved
  applied = applied
  talking = talking
  k1 = k1
  e1 = e1
  Stages = {saved, applied, talking}
  Saved = saved
  Blank = Blank
  Null = Null
  Absent = Absent
  Spaces = Spaces
  Imported = Imported
  NoRow = NoRow
  NoView = NoView
  Idle = Idle
  NotRead = NotRead
  Salaries = {1, 2}
  Times = {1, 2}
  ClientKeys = {e1, e2}
  MaxVersion = 4
  Bodies <- TimelineBodies
  Patches <- TimelinePatches
  Posts <- TimelinePosts
  LegacyJobs <- TimelineLegacy
INVARIANTS
  StatusEventAlwaysFits
  TimelineAgreesWithRow
  CheckedIsLatestCheck
  EventRetryReplays
