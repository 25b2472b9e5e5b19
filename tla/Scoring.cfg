\* Three leads, one of a profile without a scorecard, a queue of one, two
\* workers, a restart, and an id that is given out twice.
SPECIFICATION ScoringSpec
CONSTANTS
  MaxId = 3
  Deletable = {1}
  Leads = {l1, l2, l3}
  Seekers = {l1, l2}
  QueueSize = 1
  Workers = {w1, w2}
  MaxStarts = 1
  NoRow = NoRow
  Idle = Idle
INVARIANTS
  TypeOK
  YesIsResolved
  FitReadsAsTen
PROPERTIES
  AddedIsScored
  YesIsEarned
CHECK_DEADLOCK FALSE
