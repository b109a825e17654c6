CONSTANTS
  u1 = u1
  u2 = u2
  u3 = u3
  plain = plain
  staged = staged
  empty = empty
  None = None
  User = {u1, u2}
  ConUser = {u1, u2}
  Name = {staged, empty}
  NoName = empty
  Staged <- MCStaged
  Asked <- BothKinds
  Seats = 2
  MaxCount = 3
  MaxGames = 2
  Reports = {}
SPECIFICATION Spec
PROPERTY CancelRemovesEmptyGame
SYMMETRY Twins
CHECK_DEADLOCK FALSE
