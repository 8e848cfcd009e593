\* two connections, one insertion at a time, requests in one piece
SPECIFICATION FairSpec
CONSTANTS
  static = static
  bob = bob
  empty = empty
  short = short
  hello = hello
  Conn = {c1, c2}
  Name = {static, bob, empty}
  NoName = empty
  Static = static
  Pass = {static, short}
  Text = {hello}
  Key = {1, 2}
  Hash <- MCHash
  Prefix <- MCPrefix
  Nil = Nil
  Wild = Wild
  MaxPolls = 1
  Segmented = FALSE
  Racing = FALSE
INVARIANT RegisteredCanLogin
PROPERTIES EveryConnectionEnds BoardSpec
CHECK_DEADLOCK FALSE
