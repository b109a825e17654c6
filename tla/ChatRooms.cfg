CONSTANTS
  u1 = u1
  u2 = u2
  u3 = u3
  reborn = reborn
  epic = epic
  party = party
  empty = empty
  User = {u1, u2, u3}
  ArmsUser = {u1, u2, u3}
  Name = {reborn, epic, party, empty}
  NoName = empty
  Publics = 2
  PublicName <- MCPublicName
  MaxRooms = 5
SPECIFICATION Spec
INVARIANT TypeOK
INVARIANT FieldsAreMemberships
INVARIANT PrivateRoomsHaveMembers
INVARIANT RemovedHaveNoRoom
PROPERTY ImplementsDirectory
PROPERTY GoneRoomsReleaseMembers
SYMMETRY Others
CHECK_DEADLOCK FALSE
