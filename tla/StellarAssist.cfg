\* two connections, of one client or of two
SPECIFICATION FairSpec
CONSTANTS
  Conn = {c1, c2}
  k1 = k1
  k2 = k2
  k3 = k3
  f1 = f1
  f2 = f2
  W = W
  own = own
  PublicKey = {k1, k2, k3, W}
  Folder = {f1, f2, own}
  Home = {own}
  FolderOf <- MCFolderOf
  Commands <- MCCommands
  PoolSize = 2
  Absent = Absent
  Empty = Empty
  None = None
  MaxCommands = 2
  MaxDeaths = 1
  MaxFaults = 1
INVARIANTS TypeOK KeylessByFailure LastWriteIsRead
PROPERTIES CommandEnds ClientSpec
CHECK_DEADLOCK FALSE
