\* clients that answer the prompts, two accounts
SPECIFICATION Spec
CONSTANTS
  Conn = {c1, c2, c3}
  Script <- OneWord
  Patient = TRUE
  Silent <- MCSilent
  Absent = Absent
  Empty = Empty
  Partial = Partial
  Mixed = Mixed
  Garbage = Garbage
  Account <- Spelled
  DirOf <- Spell
  Old = Old
  Left <- Before
  Failing <- Broken
  PipeSize = 1
  MaxLines = 4
INVARIANTS SuccessLeavesArchive DownloadIsOwn
PROPERTY ArchiveSpec
SYMMETRY Renamings
CHECK_DEADLOCK FALSE
