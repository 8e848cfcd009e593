\* three connections, overlapping insertions
SPECIFICATION Spec
CONSTANTS
  static = static
  bob = bob
  empty = empty
  short = static
  hello = hello
  Conn = {c1, c2, c3}
  Name = {static, bob, empty}
  NoName = empty
  Static = static
  Pass = {static}
  Text = {hello}
  Key = {1, 2}
  Hash <- MCHash
  Prefix <- MCPrefix
  Nil = Nil
  Wild = Wild
  MaxPolls = 1
  Segmented = TRUE
  Racing = TRUE
INVARIANTS TypeOK TreeSound PastesStay OneAnswer
SYMMETRY Renamings
CHECK_DEADLOCK FALSE
