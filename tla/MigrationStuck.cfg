\* A file whose leads share an identity once it is trimmed.
SPECIFICATION FairSpec
CONSTANTS
  Leads = {1, 2}
  Identities = {k1, k2}
  MaxCrashes = 0
PROPERTIES
  EveryFileOpens
CHECK_DEADLOCK FALSE
