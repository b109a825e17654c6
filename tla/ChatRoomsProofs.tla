--------------------------- MODULE ChatRoomsProofs ---------------------------
(***************************************************************************)
(* The chat rooms are as ChatRooms states, for any number of users, names  *)
(* and rooms.                                                              *)
(***************************************************************************)
EXTENDS ChatRooms, TLAPS

\* Public rooms stay listed, under the ids they were made with, and ids are
\* drawn in order: without it, a new room could take the place of another.
IdsAreFresh ==
  /\ 0 .. Publics - 1 \subseteq DOMAIN rooms
  /\ \A r \in DOMAIN rooms : r < roomIndex

\* A user who has not connected yet is in no room.
NewHaveNoRoom ==
  \A u \in User :
    connection[u] = "new" => publicRoom[u] = NoRoom /\ privateRoom[u] = NoRoom

IInv ==
  /\ TypeOK /\ IdsAreFresh
  /\ FieldsAreMemberships /\ RoomNamesUnique
  /\ PrivateRoomsHaveMembers /\ RemovedHaveNoRoom /\ NewHaveNoRoom

-----------------------------------------------------------------------------

\* A request that leaves rooms keeps what relates users to rooms.
LEMMA LeaveKeeps ==
  ASSUME IInv, NEW u \in User, NEW S, \A r \in S : InRoom(u, r), LeaveRooms(u, S),
         connection' \in [User -> {"new", "online", "removed", "freed"}],
         \A v \in User : Alive(v)' => Alive(v)
  PROVE  TypeOK' /\ IdsAreFresh' /\ FieldsAreMemberships' /\ RoomNamesUnique'
         /\ PrivateRoomsHaveMembers'
<1> DEFINE Gone == {q \in S : Deserted(u, q)}
<1> USE ChatAssumption
<1>1. /\ DOMAIN rooms' = DOMAIN rooms \ Gone
      /\ \A r \in DOMAIN rooms' :
           rooms'[r] = IF r \in S THEN Without(rooms[r], u) ELSE rooms[r]
  BY DEF LeaveRooms
<1>2. \A r \in DOMAIN rooms' :
        /\ r \in DOMAIN rooms /\ rooms[r] \in Room /\ rooms'[r] \in Room
        /\ rooms'[r].name = rooms[r].name
        /\ r \in S => rooms'[r].members = rooms[r].members \ {u}
        /\ r \notin S => rooms'[r].members = rooms[r].members
  BY <1>1 DEF IInv, TypeOK, Room, Without
<1>3. \A r \in Gone : ~IsPublic(r) /\ rooms[r].members \subseteq {u}
  BY DEF Deserted
<1>4. rooms' = [r \in DOMAIN rooms' |-> rooms'[r]]
  BY <1>1 DEF LeaveRooms
<1>5. TypeOK'
  <2>1. rooms' \in [DOMAIN rooms' -> Room]
    BY <1>2, <1>4, Zenon
  <2>2. publicRoom' \in [User -> RoomId \cup {NoRoom}]
    BY DEF LeaveRooms, IInv, TypeOK
  <2>3. privateRoom' \in [User -> RoomId \cup {NoRoom}]
    BY DEF LeaveRooms, IInv, TypeOK
  <2> QED  BY <1>1, <2>1, <2>2, <2>3 DEF LeaveRooms, IInv, TypeOK
<1>6. IdsAreFresh'
  BY <1>1, <1>3 DEF LeaveRooms, IInv, TypeOK, IdsAreFresh, IsPublic
<1>7. ASSUME NEW v \in User, Alive(v)', NEW r \in DOMAIN rooms, v \in rooms[r].members,
             v # u \/ r \notin S
      PROVE  InRoom(v, r)'
  <2>1. r \notin Gone
    BY <1>3, <1>7
  <2> QED  BY <1>1, <1>2, <1>7, <2>1 DEF InRoom
<1>8. FieldsAreMemberships'
  <2> SUFFICES ASSUME NEW v \in User, Alive(v)'
               PROVE  /\ publicRoom'[v] # NoRoom
                           => IsPublic(publicRoom'[v]) /\ InRoom(v, publicRoom[v])'
                      /\ privateRoom'[v] # NoRoom
                           => ~IsPublic(privateRoom'[v]) /\ InRoom(v, privateRoom[v])'
    BY DEF FieldsAreMemberships, IsPublic
  <2>1. /\ publicRoom[v] # NoRoom => IsPublic(publicRoom[v]) /\ InRoom(v, publicRoom[v])
        /\ privateRoom[v] # NoRoom => ~IsPublic(privateRoom[v]) /\ InRoom(v, privateRoom[v])
    BY DEF IInv, FieldsAreMemberships
  <2>2. ASSUME publicRoom'[v] # NoRoom
        PROVE  /\ publicRoom'[v] = publicRoom[v]
               /\ v # u \/ publicRoom[v] \notin S
    BY <2>1, <2>2 DEF LeaveRooms, IInv, TypeOK
  <2>3. ASSUME privateRoom'[v] # NoRoom
        PROVE  /\ privateRoom'[v] = privateRoom[v]
               /\ v # u \/ privateRoom[v] \notin S
    BY <2>1, <2>3 DEF LeaveRooms, IInv, TypeOK
  <2>4. publicRoom'[v] # NoRoom => InRoom(v, publicRoom[v])'
    BY <1>1, <1>2, <1>3, <2>1, <2>2 DEF InRoom
  <2>5. privateRoom'[v] # NoRoom => InRoom(v, privateRoom[v])'
    BY <1>1, <1>2, <1>3, <2>1, <2>3 DEF InRoom
  <2> QED  BY <2>1, <2>2, <2>3, <2>4, <2>5
<1>9. RoomNamesUnique'
  BY <1>2 DEF IInv, RoomNamesUnique
<1>10. PrivateRoomsHaveMembers'
  <2> SUFFICES ASSUME NEW r \in DOMAIN rooms', ~IsPublic(r)
               PROVE  rooms'[r].members # {}
    BY DEF PrivateRoomsHaveMembers, IsPublic
  <2>1. r \notin S => rooms[r].members # {}
    BY <1>2 DEF IInv, PrivateRoomsHaveMembers
  <2>2. r \in S => ~(rooms[r].members \subseteq {u})
    BY <1>1 DEF Deserted
  <2> QED  BY <1>2, <2>1, <2>2
<1> QED  BY <1>5, <1>6, <1>8, <1>9, <1>10

-----------------------------------------------------------------------------

LEMMA InitHolds == Init => IInv
<1> SUFFICES ASSUME Init PROVE IInv
  OBVIOUS
<1> USE ChatAssumption
<1>1. /\ DOMAIN rooms = 0 .. Publics - 1
      /\ \A r \in DOMAIN rooms : rooms[r] = [name |-> PublicName[r], members |-> {}]
  BY DEF Init
<1>2. rooms \in [DOMAIN rooms -> Room]
  BY <1>1 DEF Init, Room
<1>3. TypeOK
  BY <1>1, <1>2 DEF Init, TypeOK, RoomId, FirstPrivate
<1>4. IdsAreFresh /\ RoomNamesUnique /\ PrivateRoomsHaveMembers
  BY <1>1 DEF Init, FirstPrivate, IdsAreFresh, RoomNamesUnique, PrivateRoomsHaveMembers, IsPublic
<1>5. FieldsAreMemberships /\ RemovedHaveNoRoom /\ NewHaveNoRoom
  BY DEF Init, FieldsAreMemberships, RemovedHaveNoRoom, NewHaveNoRoom
<1> QED  BY <1>3, <1>4, <1>5 DEF IInv

LEMMA CreateKeeps ==
  ASSUME IInv, NEW u \in User, NEW n \in Name, CreatePrivateRoom(u, n)
  PROVE  IInv'
<1> USE ChatAssumption
<1>1. /\ DOMAIN rooms' = DOMAIN rooms \cup {roomIndex}
      /\ rooms'[roomIndex] = [name |-> n, members |-> {u}]
      /\ \A r \in DOMAIN rooms : r # roomIndex /\ rooms'[r] = rooms[r]
  BY DEF CreatePrivateRoom, IInv, TypeOK, IdsAreFresh
<1>2. /\ roomIndex \in RoomId /\ roomIndex \in Nat /\ ~IsPublic(roomIndex)
      /\ roomIndex' = roomIndex + 1
  BY DEF CreatePrivateRoom, IInv, TypeOK, IsPublic, RoomId
<1>3. TypeOK'
  <2>1. [name |-> n, members |-> {u}] \in Room
    BY DEF Room
  <2>2. \A r \in DOMAIN rooms : rooms[r] \in Room
    BY DEF IInv, TypeOK
  <2>3. rooms' \in [DOMAIN rooms' -> Room]
    BY <1>1, <2>1, <2>2 DEF CreatePrivateRoom
  <2>4. DOMAIN rooms' \subseteq RoomId
    BY <1>1, <1>2 DEF IInv, TypeOK
  <2>5. roomIndex' \in Publics .. MaxRooms
    BY <1>2 DEF IInv, TypeOK, RoomId
  <2>6. privateRoom' \in [User -> RoomId \cup {NoRoom}]
    BY <1>2 DEF CreatePrivateRoom, IInv, TypeOK
  <2>7. UNCHANGED <<connection, publicRoom>>
    BY DEF CreatePrivateRoom
  <2> QED  BY <2>3, <2>4, <2>5, <2>6, <2>7 DEF IInv, TypeOK
<1>4. IdsAreFresh'
  BY <1>1, <1>2 DEF IInv, TypeOK, IdsAreFresh, RoomId
<1>5. FieldsAreMemberships'
  <2> SUFFICES ASSUME NEW v \in User, Alive(v)'
               PROVE  /\ publicRoom'[v] # NoRoom
                           => IsPublic(publicRoom'[v]) /\ InRoom(v, publicRoom[v])'
                      /\ privateRoom'[v] # NoRoom
                           => ~IsPublic(privateRoom'[v]) /\ InRoom(v, privateRoom[v])'
    BY DEF FieldsAreMemberships, IsPublic
  <2>1. /\ publicRoom[v] # NoRoom => IsPublic(publicRoom[v]) /\ InRoom(v, publicRoom[v])
        /\ privateRoom[v] # NoRoom => ~IsPublic(privateRoom[v]) /\ InRoom(v, privateRoom[v])
    BY DEF IInv, FieldsAreMemberships, CreatePrivateRoom, Alive
  <2>2. publicRoom' = publicRoom
    BY DEF CreatePrivateRoom
  <2>3. CASE v = u
    <3>1. privateRoom'[v] = roomIndex
      BY <2>3 DEF CreatePrivateRoom, IInv, TypeOK
    <3> QED  BY <1>1, <1>2, <2>1, <2>2, <2>3, <3>1 DEF InRoom
  <2>4. CASE v # u
    <3>1. privateRoom'[v] = privateRoom[v]
      BY <2>4 DEF CreatePrivateRoom, IInv, TypeOK
    <3> QED  BY <1>1, <2>1, <2>2, <3>1 DEF InRoom
  <2> QED  BY <2>3, <2>4
<1>6. RoomNamesUnique'
  BY <1>1 DEF CreatePrivateRoom, NameTaken, IInv, RoomNamesUnique
<1>7. PrivateRoomsHaveMembers'
  BY <1>1 DEF IInv, PrivateRoomsHaveMembers
<1>8. RemovedHaveNoRoom' /\ NewHaveNoRoom'
  BY DEF CreatePrivateRoom, Online, IInv, TypeOK, RemovedHaveNoRoom, NewHaveNoRoom
<1> QED  BY <1>3, <1>4, <1>5, <1>6, <1>7, <1>8 DEF IInv

LEMMA EnterKeeps ==
  ASSUME IInv, NEW u \in User, NEW n \in Name, EnterRoom(u, n)
  PROVE  IInv'
<1> USE ChatAssumption
<1>1. PICK r \in DOMAIN rooms :
        /\ rooms' = [rooms EXCEPT ![r] = With(@, u)]
        /\ IF IsPublic(r)
           THEN publicRoom' = [publicRoom EXCEPT ![u] = r] /\ UNCHANGED privateRoom
           ELSE privateRoom' = [privateRoom EXCEPT ![u] = r] /\ UNCHANGED publicRoom
  BY DEF EnterRoom
<1>2. Online(u) /\ UNCHANGED <<connection, roomIndex>>
  BY DEF EnterRoom
<1>3. /\ DOMAIN rooms' = DOMAIN rooms
      /\ \A q \in DOMAIN rooms :
           /\ rooms[q] \in Room /\ rooms'[q] \in Room
           /\ rooms'[q].name = rooms[q].name
           /\ rooms'[q].members = rooms[q].members \cup (IF q = r THEN {u} ELSE {})
  <2>1. \A q \in DOMAIN rooms : rooms[q] \in Room
    BY DEF IInv, TypeOK
  <2>2. DOMAIN rooms' = DOMAIN rooms
    BY <1>1 DEF IInv, TypeOK
  <2>3. \A q \in DOMAIN rooms \ {r} : rooms'[q] = rooms[q]
    BY <1>1 DEF IInv, TypeOK
  <2>4. rooms'[r] = With(rooms[r], u)
    BY <1>1 DEF IInv, TypeOK
  <2>5. /\ rooms'[r] \in Room /\ rooms'[r].name = rooms[r].name
        /\ rooms'[r].members = rooms[r].members \cup {u}
    BY <2>1, <2>4 DEF Room, With
  <2> QED  BY <2>1, <2>2, <2>3, <2>5
<1>4. TypeOK'
  <2>1. rooms' \in [DOMAIN rooms' -> Room]
    BY <1>1, <1>3
  <2>2. r \in RoomId
    BY DEF IInv, TypeOK
  <2>3. /\ publicRoom' \in [User -> RoomId \cup {NoRoom}]
        /\ privateRoom' \in [User -> RoomId \cup {NoRoom}]
    BY <1>1, <2>2 DEF IInv, TypeOK
  <2> QED  BY <1>2, <1>3, <2>1, <2>3 DEF IInv, TypeOK
<1>5. IdsAreFresh' /\ RoomNamesUnique' /\ PrivateRoomsHaveMembers'
  BY <1>2, <1>3 DEF IInv, IdsAreFresh, RoomNamesUnique, PrivateRoomsHaveMembers
<1>6. FieldsAreMemberships'
  <2> SUFFICES ASSUME NEW v \in User, Alive(v)'
               PROVE  /\ publicRoom'[v] # NoRoom
                           => IsPublic(publicRoom'[v]) /\ InRoom(v, publicRoom[v])'
                      /\ privateRoom'[v] # NoRoom
                           => ~IsPublic(privateRoom'[v]) /\ InRoom(v, privateRoom[v])'
    BY DEF FieldsAreMemberships, IsPublic
  <2>1. /\ publicRoom[v] # NoRoom => IsPublic(publicRoom[v]) /\ InRoom(v, publicRoom[v])
        /\ privateRoom[v] # NoRoom => ~IsPublic(privateRoom[v]) /\ InRoom(v, privateRoom[v])
    BY <1>2 DEF IInv, FieldsAreMemberships, Alive
  <2>2. \A q \in DOMAIN rooms : v \in rooms[q].members => InRoom(v, q)'
    BY <1>3 DEF InRoom
  <2>3. InRoom(u, r)'
    BY <1>3 DEF InRoom
  <2>4. /\ publicRoom'[v] = publicRoom[v] \/ (v = u /\ publicRoom'[v] = r /\ IsPublic(r))
        /\ privateRoom'[v] = privateRoom[v] \/ (v = u /\ privateRoom'[v] = r /\ ~IsPublic(r))
    BY <1>1 DEF IInv, TypeOK
  <2> QED  BY <2>1, <2>2, <2>3, <2>4 DEF InRoom
<1>7. RemovedHaveNoRoom' /\ NewHaveNoRoom'
  BY <1>1, <1>2 DEF Online, IInv, TypeOK, RemovedHaveNoRoom, NewHaveNoRoom
<1> QED  BY <1>4, <1>5, <1>6, <1>7 DEF IInv

LEMMA StartKeeps ==
  ASSUME IInv, NEW u \in User, NEW n \in Name, StartGame(u, n)
  PROVE  IInv'
<1> USE ChatAssumption
<1>1. PICK r \in DOMAIN rooms :
        /\ ~IsPublic(r)
        /\ privateRoom' = [v \in User |-> IF v \in Released(r) THEN NoRoom
                                                              ELSE privateRoom[v]]
        /\ rooms' = [q \in DOMAIN rooms \ {r} |-> rooms[q]]
  BY DEF StartGame
<1>2. UNCHANGED <<connection, publicRoom, roomIndex>>
  BY DEF StartGame
<1>3. /\ DOMAIN rooms' = DOMAIN rooms \ {r}
      /\ \A q \in DOMAIN rooms' : q \in DOMAIN rooms /\ rooms'[q] = rooms[q]
  BY <1>1
<1>4. TypeOK'
  <2>1. \A q \in DOMAIN rooms : rooms[q] \in Room
    BY DEF IInv, TypeOK
  <2>2. rooms' \in [DOMAIN rooms' -> Room]
    BY <1>1, <1>3, <2>1
  <2> QED  BY <1>1, <1>2, <1>3, <2>2 DEF IInv, TypeOK
<1>5. IdsAreFresh'
  BY <1>1, <1>2, <1>3 DEF IInv, IdsAreFresh, IsPublic, TypeOK
<1>6. RoomNamesUnique' /\ PrivateRoomsHaveMembers'
  BY <1>3 DEF IInv, RoomNamesUnique, PrivateRoomsHaveMembers
<1>7. FieldsAreMemberships'
  <2> SUFFICES ASSUME NEW v \in User, Alive(v)'
               PROVE  /\ publicRoom'[v] # NoRoom
                           => IsPublic(publicRoom'[v]) /\ InRoom(v, publicRoom[v])'
                      /\ privateRoom'[v] # NoRoom
                           => ~IsPublic(privateRoom'[v]) /\ InRoom(v, privateRoom[v])'
    BY DEF FieldsAreMemberships, IsPublic
  <2>1. /\ publicRoom[v] # NoRoom => IsPublic(publicRoom[v]) /\ InRoom(v, publicRoom[v])
        /\ privateRoom[v] # NoRoom => ~IsPublic(privateRoom[v]) /\ InRoom(v, privateRoom[v])
        /\ Alive(v)
    BY <1>2 DEF IInv, FieldsAreMemberships, Alive
  <2>2. privateRoom'[v] # NoRoom => privateRoom'[v] = privateRoom[v] /\ v \notin Released(r)
    BY <1>1
  <2>3. privateRoom'[v] # NoRoom => privateRoom[v] # r
    BY <2>1, <2>2 DEF Released, InRoom
  <2>4. publicRoom'[v] = publicRoom[v] /\ (publicRoom[v] # NoRoom => publicRoom[v] # r)
    BY <1>1, <1>2, <2>1
  <2> QED  BY <1>3, <2>1, <2>2, <2>3, <2>4 DEF InRoom
<1>8. RemovedHaveNoRoom' /\ NewHaveNoRoom'
  BY <1>1, <1>2 DEF IInv, RemovedHaveNoRoom, NewHaveNoRoom
<1> QED  BY <1>4, <1>5, <1>6, <1>7, <1>8 DEF IInv

\* Nobody's rooms change when a connection begins or an object is freed.
LEMMA ConnectionKeeps ==
  ASSUME IInv, NEW u \in User, Connect(u) \/ Free(u)
  PROVE  IInv'
<1>1. /\ UNCHANGED <<publicRoom, privateRoom, roomIndex, rooms>>
      /\ connection' \in [User -> {"new", "online", "removed", "freed"}]
      /\ \A v \in User \ {u} : connection'[v] = connection[v]
      /\ \/ connection[u] = "new" /\ connection'[u] = "online"
         \/ connection[u] = "removed" /\ connection'[u] = "freed"
  BY DEF Connect, Free, IInv, TypeOK
<1>2. TypeOK' /\ IdsAreFresh' /\ RoomNamesUnique' /\ PrivateRoomsHaveMembers'
  BY <1>1 DEF IInv, TypeOK, IdsAreFresh, RoomNamesUnique, PrivateRoomsHaveMembers
<1>3. RemovedHaveNoRoom' /\ NewHaveNoRoom'
  BY <1>1 DEF IInv, RemovedHaveNoRoom, NewHaveNoRoom
<1>4. FieldsAreMemberships'
  BY <1>1 DEF IInv, NewHaveNoRoom, FieldsAreMemberships, InRoom, Alive
<1> QED  BY <1>2, <1>3, <1>4 DEF IInv

\* RequestLeaveRoom and RequestCancelGame_RTA: nobody is removed.
LEMMA LeavingKeeps ==
  ASSUME IInv, NEW u \in User, NEW S, \A r \in S : InRoom(u, r), LeaveRooms(u, S),
         Online(u), UNCHANGED connection
  PROVE  IInv'
<1>1. \A v \in User : Alive(v)' => Alive(v)
  BY DEF Alive
<1>2. TypeOK' /\ IdsAreFresh' /\ FieldsAreMemberships' /\ RoomNamesUnique'
      /\ PrivateRoomsHaveMembers'
  BY <1>1, LeaveKeeps DEF IInv, TypeOK
<1>3. RemovedHaveNoRoom' /\ NewHaveNoRoom'
  BY DEF LeaveRooms, Online, IInv, TypeOK, RemovedHaveNoRoom, NewHaveNoRoom
<1> QED  BY <1>2, <1>3 DEF IInv

\* The two calls of LeaveRoom in OnDisconnectUser succeed when a field is set.
LEMMA DisconnectKeeps ==
  ASSUME IInv, NEW u \in User, Disconnect(u)
  PROVE  IInv'
<1> DEFINE S == {r \in Current(u) : InRoom(u, r)}
<1>1. \A r \in S : InRoom(u, r)
  OBVIOUS
<1>2. /\ LeaveRooms(u, S) /\ Online(u)
      /\ connection' = [connection EXCEPT ![u] = "removed"]
  BY DEF Disconnect
<1>3. connection' \in [User -> {"new", "online", "removed", "freed"}]
  BY <1>2 DEF IInv, TypeOK
<1>4. \A v \in User : Alive(v)' => Alive(v)
  BY <1>2 DEF Alive, Online, IInv, TypeOK
<1>5. TypeOK' /\ IdsAreFresh' /\ FieldsAreMemberships' /\ RoomNamesUnique'
      /\ PrivateRoomsHaveMembers'
  <2> HIDE DEF S
  <2> QED  BY <1>1, <1>2, <1>3, <1>4, LeaveKeeps
<1>6. publicRoom'[u] = NoRoom /\ privateRoom'[u] = NoRoom
  <2>1. /\ publicRoom[u] # NoRoom => IsPublic(publicRoom[u]) /\ publicRoom[u] \in S
        /\ privateRoom[u] # NoRoom => ~IsPublic(privateRoom[u]) /\ privateRoom[u] \in S
    BY <1>2 DEF IInv, FieldsAreMemberships, Online, Alive, Current
  <2> HIDE DEF S
  <2> QED  BY <1>2, <2>1 DEF LeaveRooms, IInv, TypeOK
<1>7. \A v \in User \ {u} : /\ connection'[v] = connection[v]
                            /\ publicRoom'[v] = publicRoom[v]
                            /\ privateRoom'[v] = privateRoom[v]
  <2> HIDE DEF S
  <2> QED  BY <1>2 DEF LeaveRooms, IInv, TypeOK
<1>8. connection'[u] = "removed"
  BY <1>2 DEF IInv, TypeOK
<1>9. RemovedHaveNoRoom' /\ NewHaveNoRoom'
  BY <1>6, <1>7, <1>8 DEF IInv, RemovedHaveNoRoom, NewHaveNoRoom
<1> QED  BY <1>5, <1>9 DEF IInv

LEMMA NextKeeps == IInv /\ [Next]_vars => IInv'
<1> SUFFICES ASSUME IInv, [Next]_vars PROVE IInv'
  OBVIOUS
<1>1. CASE UNCHANGED vars
  BY <1>1 DEF vars, IInv, TypeOK, IdsAreFresh, FieldsAreMemberships, RoomNamesUnique,
              PrivateRoomsHaveMembers, RemovedHaveNoRoom, NewHaveNoRoom, InRoom, Alive
<1>2. ASSUME NEW u \in User, Connect(u) \/ Free(u) PROVE IInv'
  BY <1>2, ConnectionKeeps
<1>3. ASSUME NEW u \in User, Disconnect(u) PROVE IInv'
  BY <1>3, DisconnectKeeps
<1>4. ASSUME NEW u \in User, CancelGame_RTA(u) PROVE IInv'
  <2>1. \A r \in {privateRoom[u]} : InRoom(u, r)
    BY <1>4 DEF CancelGame_RTA
  <2> QED  BY <1>4, <2>1, LeavingKeeps DEF CancelGame_RTA
<1>5. ASSUME NEW u \in User, NEW n \in Name, LeaveRoom(u, n) PROVE IInv'
  <2>1. PICK r \in DOMAIN rooms : InRoom(u, r) /\ LeaveRooms(u, {r})
    BY <1>5 DEF LeaveRoom
  <2>2. \A q \in {r} : InRoom(u, q)
    BY <2>1
  <2> QED  BY <1>5, <2>1, <2>2, LeavingKeeps DEF LeaveRoom
<1>6. ASSUME NEW u \in User, NEW n \in Name, CreatePrivateRoom(u, n) PROVE IInv'
  BY <1>6, CreateKeeps
<1>7. ASSUME NEW u \in User, NEW n \in Name, EnterRoom(u, n) PROVE IInv'
  BY <1>7, EnterKeeps
<1>8. ASSUME NEW u \in User, NEW n \in Name, StartGame(u, n) PROVE IInv'
  BY <1>8, StartKeeps
<1> QED  BY <1>1, <1>2, <1>3, <1>4, <1>5, <1>6, <1>7, <1>8 DEF Next

(* What IInv gathers holds in every state the lobby thread leaves the rooms *)
(* in.                                                                      *)
THEOREM ChatInvariant == Spec => []IInv
<1> QED  BY InitHolds, NextKeeps, PTL DEF Spec

-----------------------------------------------------------------------------

(* Rooms and fields keep their types.                                      *)
THEOREM ChatTyped == Spec => []TypeOK
  <1>1. IInv => TypeOK
    BY DEF IInv
  <1> QED
    BY ChatInvariant, <1>1, PTL

(* The room fields of a live user name rooms the user is in.                *)
THEOREM FieldsCorrect == Spec => []FieldsAreMemberships
<1>1. IInv => FieldsAreMemberships
  BY DEF IInv
<1> QED  BY <1>1, ChatInvariant, PTL

(* No two listed rooms have the same name, whoever made or closed them.     *)
THEOREM NamesStayUnique == Spec => []RoomNamesUnique
<1>1. IInv => RoomNamesUnique
  BY DEF IInv
<1> QED  BY <1>1, ChatInvariant, PTL

(* A disconnect leaves every room the fields of the user name.              *)
THEOREM DisconnectLeavesAll == Spec => []RemovedHaveNoRoom
<1>1. IInv => RemovedHaveNoRoom
  BY DEF IInv
<1> QED  BY <1>1, ChatInvariant, PTL

(* A private room goes with its last member, and never before.              *)
THEOREM PrivateRoomsKept == Spec => []PrivateRoomsHaveMembers
<1>1. IInv => PrivateRoomsHaveMembers
  BY DEF IInv
<1> QED  BY <1>1, ChatInvariant, PTL

\* The rooms that leave the list with LeaveRooms have u in them, and only u.
LEMMA LeavingReleases ==
  ASSUME IInv, NEW u \in User, NEW S, LeaveRooms(u, S),
         NEW r \in DOMAIN rooms \ DOMAIN rooms', NEW v \in rooms[r].members
  PROVE  privateRoom'[v] = NoRoom
<1>1. r \in S /\ Deserted(u, r)
  BY DEF LeaveRooms
<1>2. v = u
  BY <1>1 DEF Deserted
<1> QED  BY <1>1, <1>2 DEF Deserted, LeaveRooms, IInv, TypeOK

(* A room that goes, by a leave, a disconnect or the start of a game,       *)
(* leaves no live member behind who believes to be in it.                   *)
THEOREM GoneRoomsRelease == Spec => GoneRoomsReleaseMembers
<1> DEFINE Releases ==
      \A r \in DOMAIN rooms \ DOMAIN rooms' : \A u \in rooms[r].members :
        Alive(u) => privateRoom'[u] = NoRoom
<1>1. IInv /\ [Next]_vars => [Releases]_vars
  <2> SUFFICES ASSUME IInv, Next PROVE Releases
    OBVIOUS
  <2>1. \A r \in DOMAIN rooms : rooms[r].members \subseteq User
    BY DEF IInv, TypeOK, Room
  <2>2. ASSUME NEW w \in User, NEW S, LeaveRooms(w, S) PROVE Releases
    BY <2>2, LeavingReleases
  <2>3. ASSUME NEW w \in User, NEW n \in Name, StartGame(w, n) PROVE Releases
    <3>1. PICK r \in DOMAIN rooms :
            /\ privateRoom' = [v \in User |-> IF v \in Released(r) THEN NoRoom
                                                                  ELSE privateRoom[v]]
            /\ rooms' = [q \in DOMAIN rooms \ {r} |-> rooms[q]]
      BY <2>3 DEF StartGame
    <3> QED  BY <2>1, <3>1 DEF Released
  <2>4. ASSUME UNCHANGED rooms PROVE Releases
    BY <2>4
  <2>5. ASSUME NEW w \in User, NEW n \in Name, CreatePrivateRoom(w, n) \/ EnterRoom(w, n)
        PROVE  Releases
    <3>1. DOMAIN rooms \subseteq DOMAIN rooms'
      BY <2>5 DEF CreatePrivateRoom, EnterRoom
    <3> QED  BY <3>1
  <2> QED
    BY <2>2, <2>3, <2>4, <2>5
    DEF Next, Connect, Free, Disconnect, CancelGame_RTA, LeaveRoom
<1> QED  BY <1>1, ChatInvariant, PTL DEF Spec, GoneRoomsReleaseMembers

-----------------------------------------------------------------------------
(* The list that others see.                                               *)

LEMMA DirectoryBegins == Init => Directory!Init
<1> SUFFICES ASSUME Init PROVE Directory!Init
  OBVIOUS
<1>1. /\ DOMAIN rooms = 0 .. Publics - 1 /\ roomIndex = Publics
      /\ \A r \in DOMAIN rooms : rooms[r].name = PublicName[r]
  BY DEF Init, FirstPrivate
<1>2. \A r \in RoomId : r \in DOMAIN rooms <=> r < Publics
  BY <1>1, ChatAssumption DEF RoomId
<1>3. \A r \in RoomId : Phase(r) = IF r < Publics THEN "listed" ELSE "new"
  BY <1>1, <1>2 DEF Phase
<1> QED  BY <1>1, <1>2, <1>3 DEF Directory!Init

\* Rooms keep their names, and the list its rooms.
LEMMA ListKept ==
  ASSUME DOMAIN rooms' = DOMAIN rooms, roomIndex' = roomIndex,
         \A r \in DOMAIN rooms : rooms'[r].name = rooms[r].name
  PROVE  UNCHANGED Directory!vars
<1>1. \A r : Phase(r)' = Phase(r)
  BY DEF Phase
<1> QED  BY <1>1 DEF Directory!vars

\* A private room goes, and the others are as they were.
LEMMA RoomCloses ==
  ASSUME IInv, NEW r \in DOMAIN rooms, ~IsPublic(r),
         DOMAIN rooms' = DOMAIN rooms \ {r}, roomIndex' = roomIndex,
         \A q \in DOMAIN rooms' : rooms'[q].name = rooms[q].name
  PROVE  Directory!Next
<1>1. r \in RoomId /\ r < roomIndex /\ r >= Publics
  BY ChatAssumption DEF IInv, TypeOK, IdsAreFresh, IsPublic, RoomId
<1>2. Phase(r) = "listed" /\ Phase(r)' = "gone"
  BY <1>1 DEF Phase
<1>3. \A q \in RoomId \ {r} : Phase(q)' = Phase(q)
  BY DEF Phase
<1> DEFINE phase == [q \in RoomId |-> Phase(q)]
           title == [q \in RoomId |-> IF q \in DOMAIN rooms THEN rooms[q].name ELSE NoName]
<1>4. phase' = [phase EXCEPT ![r] = "gone"]
  BY <1>1, <1>2, <1>3
<1>5. title' = [title EXCEPT ![r] = NoName]
  BY <1>1
<1>6. Directory!Close(r)
  BY <1>1, <1>2, <1>4, <1>5 DEF Directory!Close, Directory!Listed
<1> QED  BY <1>1, <1>6 DEF Directory!Next

\* A new room gets the next id, and a name that no other has.
LEMMA RoomListed ==
  ASSUME IInv, NEW u \in User, NEW n \in Name, CreatePrivateRoom(u, n)
  PROVE  Directory!Next
<1>1. roomIndex \in RoomId /\ roomIndex \in Nat /\ roomIndex \notin DOMAIN rooms
  BY ChatAssumption DEF CreatePrivateRoom, IInv, TypeOK, IdsAreFresh, RoomId
<1>2. PICK r \in RoomId : r = roomIndex
  BY <1>1
<1> DEFINE phase == [q \in RoomId |-> Phase(q)]
           title == [q \in RoomId |-> IF q \in DOMAIN rooms THEN rooms[q].name ELSE NoName]
<1>3. /\ ~NameTaken(n) /\ roomIndex' = r + 1
      /\ rooms' = [q \in DOMAIN rooms \cup {r} |->
                    IF q = r THEN [name |-> n, members |-> {u}] ELSE rooms[q]]
  BY <1>2 DEF CreatePrivateRoom
<1>4. r \in RoomId /\ r \in Nat /\ r \notin DOMAIN rooms
  BY <1>1, <1>2
<1>5. Phase(r) = "new" /\ Phase(r)' = "listed"
  BY <1>2, <1>3, <1>4 DEF Phase
<1>6. \A q \in RoomId \ {r} : Phase(q)' = Phase(q)
  BY <1>2, <1>3, <1>4 DEF Phase, RoomId
<1>7. \A q \in RoomId : q < r => Phase(q) # "new"
  BY <1>2 DEF Phase
<1>8. \A q \in RoomId : Phase(q) = "listed" => q \in DOMAIN rooms /\ rooms[q].name # n
  BY <1>3 DEF Phase, NameTaken
<1>9. phase' = [phase EXCEPT ![r] = "listed"]
  BY <1>4, <1>5, <1>6
<1>10. title' = [title EXCEPT ![r] = n]
  BY <1>3, <1>4
<1>11. Directory!List(r, n)
  BY <1>4, <1>5, <1>7, <1>8, <1>9, <1>10 DEF Directory!List, Directory!Listed
<1> QED  BY <1>4, <1>11 DEF Directory!Next

\* One of the rooms that u leaves may go: it is the one private room of them.
LEMMA LeavingCloses ==
  ASSUME IInv, NEW u \in User, NEW S, LeaveRooms(u, S), \A r \in S : InRoom(u, r),
         \A r, q \in S : ~IsPublic(r) /\ ~IsPublic(q) => r = q
  PROVE  Directory!Next \/ UNCHANGED Directory!vars
<1> DEFINE Gone == {q \in S : Deserted(u, q)}
<1>1. /\ DOMAIN rooms' = DOMAIN rooms \ Gone /\ roomIndex' = roomIndex
      /\ \A r \in DOMAIN rooms' :
           rooms'[r] = IF r \in S THEN Without(rooms[r], u) ELSE rooms[r]
  BY DEF LeaveRooms
<1>2. \A r \in DOMAIN rooms' : r \in DOMAIN rooms /\ rooms'[r].name = rooms[r].name
  BY <1>1 DEF IInv, TypeOK, Room, Without
<1>3. \A r \in Gone : r \in S /\ ~IsPublic(r) /\ r \in DOMAIN rooms
  BY DEF Deserted, InRoom
<1> HIDE DEF Gone
<1>4. CASE Gone = {}
  BY <1>1, <1>2, <1>4, ListKept
<1>5. CASE Gone # {}
  <2>1. PICK r \in Gone : TRUE
    BY <1>5
  <2>2. r \in DOMAIN rooms /\ ~IsPublic(r) /\ Gone = {r}
    BY <1>3, <2>1
  <2> QED  BY <1>1, <1>2, <2>2, RoomCloses
<1> QED  BY <1>4, <1>5

LEMMA DirectoryStep == IInv /\ [Next]_vars => [Directory!Next]_Directory!vars
<1> SUFFICES ASSUME IInv, [Next]_vars PROVE Directory!Next \/ UNCHANGED Directory!vars
  OBVIOUS
<1>1. ASSUME UNCHANGED <<roomIndex, rooms>> PROVE UNCHANGED Directory!vars
  BY <1>1, ListKept
<1>2. CASE UNCHANGED vars
  BY <1>1, <1>2 DEF vars
<1>3. ASSUME NEW u \in User, Connect(u) \/ Free(u) PROVE UNCHANGED Directory!vars
  BY <1>1, <1>3 DEF Connect, Free
<1>4. ASSUME NEW u \in User, Disconnect(u)
      PROVE  Directory!Next \/ UNCHANGED Directory!vars
  <2> DEFINE S == {r \in Current(u) : InRoom(u, r)}
  <2>1. LeaveRooms(u, S) /\ \A r \in S : InRoom(u, r)
    BY <1>4 DEF Disconnect
  <2>2. \A r \in S : ~IsPublic(r) => r = privateRoom[u]
    <3> SUFFICES ASSUME InRoom(u, publicRoom[u]), ~IsPublic(publicRoom[u])
                 PROVE  publicRoom[u] = privateRoom[u]
      BY DEF Current
    <3>1. publicRoom[u] # NoRoom
      BY DEF InRoom, IInv, TypeOK, RoomId, NoRoom
    <3>2. Alive(u)
      BY <1>4 DEF Disconnect, Online, Alive
    <3> QED  BY <3>1, <3>2 DEF IInv, FieldsAreMemberships
  <2> HIDE DEF S
  <2> QED  BY <2>1, <2>2, LeavingCloses
<1>5. ASSUME NEW u \in User, CancelGame_RTA(u)
      PROVE  Directory!Next \/ UNCHANGED Directory!vars
  <2>1. LeaveRooms(u, {privateRoom[u]}) /\ InRoom(u, privateRoom[u])
    BY <1>5 DEF CancelGame_RTA
  <2> QED  BY <2>1, LeavingCloses
<1>6. ASSUME NEW u \in User, NEW n \in Name, LeaveRoom(u, n)
      PROVE  Directory!Next \/ UNCHANGED Directory!vars
  <2>1. PICK r \in DOMAIN rooms : InRoom(u, r) /\ LeaveRooms(u, {r})
    BY <1>6 DEF LeaveRoom
  <2> QED  BY <2>1, LeavingCloses
<1>7. ASSUME NEW u \in User, NEW n \in Name, EnterRoom(u, n) PROVE UNCHANGED Directory!vars
  <2>1. PICK r \in DOMAIN rooms : rooms' = [rooms EXCEPT ![r] = With(@, u)]
    BY <1>7 DEF EnterRoom
  <2>2. \A q \in DOMAIN rooms : rooms[q] \in Room
    BY DEF IInv, TypeOK
  <2>3. With(rooms[r], u).name = rooms[r].name
    BY <2>2 DEF With, Room
  <2>4. DOMAIN rooms' = DOMAIN rooms /\ \A q \in DOMAIN rooms : rooms'[q].name = rooms[q].name
    BY <2>1, <2>3 DEF IInv, TypeOK
  <2>5. roomIndex' = roomIndex
    BY <1>7 DEF EnterRoom
  <2> QED  BY <2>4, <2>5, ListKept
<1>8. ASSUME NEW u \in User, NEW n \in Name, StartGame(u, n) PROVE Directory!Next
  <2>1. PICK r \in DOMAIN rooms :
          ~IsPublic(r) /\ rooms' = [q \in DOMAIN rooms \ {r} |-> rooms[q]]
    BY <1>8 DEF StartGame
  <2>2. roomIndex' = roomIndex
    BY <1>8 DEF StartGame
  <2> QED  BY <2>1, <2>2, RoomCloses
<1> QED  BY <1>2, <1>3, <1>4, <1>5, <1>6, <1>7, <1>8, RoomListed DEF Next

(* Every request of the rooms lists one room, ends one, or changes nothing  *)
(* that those who look rooms up by id or by name can see.                   *)
THEOREM RoomDirectoryImplemented == Spec => ImplementsDirectory
<1> QED
  BY DirectoryBegins, DirectoryStep, ChatInvariant, PTL
  DEF Spec, ImplementsDirectory, Directory!Spec

=============================================================================
