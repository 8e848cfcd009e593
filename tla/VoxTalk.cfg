\* one client, any line at any time
SPECIFICATION FairSpec
CONSTANTS
  Conn = {c1}
  Script <- AnyLine
  Patient = FALSE
  Silent <- MCSilent
  Absent = Absent
  Empty = Empty
  Partial = Partial
  Mixed = Mixed
  Garbage = Garbage
  Account <- Spelled
  DirOf <- Spell
  Old = Old
  Left <- Spelled
  Failing <- Spelled
  PipeSize = 1
  MaxLines = 4
INVARIANTS TypeOK NoMutualWait
PROPERTY ConnectionCloses
CHECK_DEADLOCK FALSE
