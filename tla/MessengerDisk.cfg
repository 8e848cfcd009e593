\* a disk on which opening and writing files may fail
SPECIFICATION FairSpec
CONSTANTS
  User = {alice, bob}
  Pass = {p, q}
  Text = {hello}
  Absent = Absent
  Torn = Torn
  NoUser = NoUser
  MaxTime = 0
  MaxSends = 1
  MaxStarts = 0
  DiskMayFail = TRUE
PROPERTIES RequestAnswered LossIsAccounted
CHECK_DEADLOCK FALSE
