\* The retry of a create that was answered, on an imported job.
SPECIFICATION Spec
CONSTANTS
  Jobs = {1}
  Keys = {k1}
  Clients = {c1}
  Handlers = {h1}
  saved = saved
  applied = applied
  talking = talking
  k1 = k1
  e1 = e1
  Stages = {saved, applied, talking}
  Saved = saved
  Blank = Blank
  Null = Null
  Absent = Absent
  Spaces = Spaces
  Imported = Imported
  NoRow = NoRow
  NoView = NoView
  Idle = Idle
  NotRead = NotRead
  Salaries = {1, 2}
  Times = {1}
  ClientKeys = {e1}
  MaxVersion = 3
  Bodies <- CreateBodies
  Patches <- CreatePatches
  Posts <- CreatePosts
  LegacyJobs <- CreateLegacy
INVARIANTS
  EveryCreateRetryReplays
