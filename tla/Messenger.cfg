\* a healthy disk: two clock seconds, two letters, one death and restart
SPECIFICATION Spec
CONSTANTS
  User = {alice, bob}
  Pass = {p, q}
  Text = {hello}
  Absent = Absent
  Torn = Torn
  NoUser = NoUser
  MaxTime = 1
  MaxSends = 2
  MaxStarts = 1
  DiskMayFail = FALSE
INVARIANTS TypeOK AccountsUsable SuccessIsStored TornOnlyByDeath
PROPERTIES StoreSpec LossIsAccounted
SYMMETRY Renamings
CHECK_DEADLOCK FALSE
