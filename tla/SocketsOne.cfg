CONSTANTS
  s1 = s1
  s2 = s2
  None = None
  Socket = {s1}
  Chunk = 2
  Kinds = {"request", "save", "append", "logout", "match", "empty", "bad"}
  MaxFrames = 2
  MaxNotices = 1
SPECIFICATION FairSpec
INVARIANT TypeOK
INVARIANT StreamIntact
INVARIANT FramesAligned
INVARIANT UsersHaveSockets
INVARIANT GoneUsersClose
PROPERTY LastWordsSent
PROPERTY WaitingCloses
