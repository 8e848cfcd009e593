\* overlapping requests, failing queries, one death and restart
SPECIFICATION Spec
CONSTANTS
  Form = {f1, f2}
  Crack = {k1, k2}
  Name = {alpha}
  NoName = NoName
  LongName = LongName
  Captcha = {x, y}
  Absent = Absent
  Empty = Empty
  Mixed = Mixed
  MaxDeaths = 1
  DbMayFail = TRUE
INVARIANTS TypeOK NothingTakenTwice FiledIsPaid RightAnswerIsAccepted RegistrationIsKept
PROPERTY SpentStaysSpent
SYMMETRY Renamings
CHECK_DEADLOCK FALSE
