\* Two boards and batches of two pushes, two requests that cross on the ladder of a
\* lead and on its links to profiles, and one link request among four leads.
SPECIFICATION MCSpec
CONSTANTS
  Boards = {sergey, polina}
  Default = sergey
  Keys = {k1, k2}
  Urls = {u1}
  MaxId = 3
  MaxBatch = 2
  MaxTime = 3
  MaxGone = 1
  Parts = {"identity", "ladder", "links", "owners"}
  Requests = {r1, r2}
  Climbers = {l1}
  Inputs <- AnyInput
  Remarks = {x}
  Linkers = {r1}
  MaxLinked = 4
  Deletable = {1}
  Fields = {summary, skills}
  Ops = {"share", "unshare", "describe", "seed"}
  MaxOwned = 2
  x = x
  r1 = r1
  Blank = Blank
  Absent = Absent
  NoLead = NoLead
  NoRow = NoRow
  Idle = Idle
INVARIANTS
  TypesOK
  KeysAreUnique
  AddedIsWhatIsThere
  ReadersAgree
  RejectionHasReason
  TimelineTellsStatus
  OneHop
  OneOwner
PROPERTIES
  PushesStayHome
  StampsAreSticky
  HumanTextStays
