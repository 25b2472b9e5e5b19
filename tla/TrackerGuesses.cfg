\* Clients that name versions they were never sent.
SPECIFICATION GuessSpec
CONSTANTS
  Jobs = {1}
  Keys = {k1}
  Clients = {c1, c2}
  Handlers = {h1, h2}
  saved = saved
  applied = applied
  talking = talking
  k1 = k1
  e1 = e1
  Stages = {saved, applied, talking}
  Saved = saved
  Blank = Blank
  Null = Null
  Absent = Absent
  Spaces = Spaces
  Imported = Imported
  NoRow = NoRow
  NoView = NoView
  Idle = Idle
  NotRead = NotRead
  Salaries = {1, 2}
  Times = {1}
  ClientKeys = {e1}
  LegacyJobs = {}
  MaxVersion = 3
  Bodies <- EditBodies
  Patches <- EditPatches
  Posts <- EditPosts
PROPERTIES
  RefusesChangedRows
