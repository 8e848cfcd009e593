\* two overlapping registrations
SPECIFICATION Spec
CONSTANTS
  Form = {f1, f2}
  Crack = {k1, k2}
  Name = {alpha}
  NoName = NoName
  LongName = LongName
  Captcha = {x, y}
  Absent = Absent
  Empty = Empty
  Mixed = Mixed
  MaxDeaths = 0
  DbMayFail = FALSE
INVARIANT OneTeamPerName
SYMMETRY Renamings
CHECK_DEADLOCK FALSE
