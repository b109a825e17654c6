CONSTANTS
  u1 = u1
  u2 = u2
  a1 = a1
  a2 = a2
  None = None
  User = {u1, u2}
  Account = {a1, a2}
  Full = 2
  MaxSessions = 3
  MaxSaves = 3
  MaxCharacters = 2
SPECIFICATION Spec
INVARIANT TypeOK
INVARIANT OneUserPerAccount
INVARIANT PiecesOfOneSave
INVARIANT NewCharacterOnce
PROPERTY ImplementsStore
PROPERTY CommitsStayInAccount
SYMMETRY Others
CHECK_DEADLOCK FALSE
