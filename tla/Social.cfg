CONSTANTS
  u1 = u1
  u2 = u2
  u3 = u3
  ann = ann
  bob = bob
  nobody = nobody
  User = {u1, u2, u3}
  Handle = {ann, bob}
  NoHandle = nobody
  MaxAccounts = 2
SPECIFICATION Spec
INVARIANT TypeOK
INVARIANT ListsAreRows
INVARIANT RowsNameAccounts
PROPERTY IgnoredAreSilent
PROPERTY RowsFollowRequests
SYMMETRY Alike
