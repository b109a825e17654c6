CONSTANTS
  u1 = u1
  u2 = u2
  u3 = u3
  plain = plain
  staged = staged
  empty = empty
  None = None
  User = {u1, u2}
  ConUser = {}
  Name = {staged, empty}
  NoName = empty
  Staged <- MCStaged
  Asked <- OnePublic
  Seats = 2
  MaxCount = 3
  MaxGames = 1
  Reports <- MCReports
SPECIFICATION FairSpec
INVARIANT TypeOK
INVARIANT ListedNotStarted
PROPERTY HostPacketOpensGame
CHECK_DEADLOCK FALSE
