CONSTANTS
  c1 = c1
  c2 = c2
  c3 = c3
  None = None
  Client = {c1, c2, c3}
SPECIFICATION FairSpec
INVARIANT TypeOK
INVARIANT NoThreadOutlivesMain
INVARIANT OpenedOnce
PROPERTY ToldUnlessMoved
PROPERTY EndsWithPackets
