------------------------------ MODULE ChatRooms ------------------------------
(***************************************************************************)
(* The chat rooms: ChatRoomManager, the ChatRoomSession objects it lists,  *)
(* and the two room fields of RealmUser.                                   *)
(*                                                                         *)
(* Only the lobby thread touches them, one request at a time, so every     *)
(* handler is one action.  What is hard is the sequence: entering a room   *)
(* does not leave the former one, so a user can be in several while the    *)
(* fields name only the last, and members are weak pointers, so a room can *)
(* keep entries of users who are gone.                                     *)
(*                                                                         *)
(* The notices that rooms send to their members are writes to sockets, and *)
(* change nothing here.  A RealmUser object is used for one connection.    *)
(***************************************************************************)
EXTENDS Integers, FiniteSets

CONSTANTS
  User,         (* the RealmUser objects                                    *)
  ArmsUser,     (* those of Return to Arms                                  *)
  Name,         (* room names, and names of games                           *)
  NoName,       (* the empty name                                           *)
  Publics,      (* how many public rooms there are (6 in the code)          *)
  PublicName,   (* their names, by index                                    *)
  MaxRooms      (* bound on the number of rooms ever made                   *)

ASSUME ChatAssumption ==
  /\ ArmsUser \subseteq User
  /\ NoName \in Name
  /\ Publics \in Nat /\ MaxRooms \in Nat /\ Publics <= MaxRooms
  /\ PublicName \in [0 .. Publics - 1 -> Name \ {NoName}]
  /\ \A r, q \in 0 .. Publics - 1 : PublicName[r] = PublicName[q] => r = q

RoomId == 0 .. MaxRooms - 1
NoRoom == -1

VARIABLES
  connection,    \* of a user: new, online (in m_users), removed, freed
  publicRoom,    \* RealmUser::m_publicRoomId
  privateRoom,   \* RealmUser::m_privateRoomId
  roomIndex,     \* ChatRoomManager::m_roomIndex
  rooms          \* ChatRoomManager::m_chatSessionList, a map from ids

vars == <<connection, publicRoom, privateRoom, roomIndex, rooms>>

\* A room keeps the entry of a member who is freed, until it goes itself.
Room == [name : Name, members : SUBSET User]

TypeOK ==
  /\ connection \in [User -> {"new", "online", "removed", "freed"}]
  /\ publicRoom \in [User -> RoomId \cup {NoRoom}]
  /\ privateRoom \in [User -> RoomId \cup {NoRoom}]
  /\ roomIndex \in Publics .. MaxRooms
  /\ DOMAIN rooms \subseteq RoomId
  /\ rooms \in [DOMAIN rooms -> Room]

-----------------------------------------------------------------------------

Online(u) == connection[u] = "online"

Alive(u) == connection[u] \in {"online", "removed"}

\* Public rooms are made first, and by nobody else.
IsPublic(r) == r < Publics

\* Mutant: only private rooms hold their names.
NameTaken_ByPrivate(n) == \E r \in DOMAIN rooms : rooms[r].name = n /\ ~IsPublic(r)

\* CreateGameChatSession looks at every room, and the empty name is a name.
NameTaken(n) == \E r \in DOMAIN rooms : rooms[r].name = n

\* FindRoom by name: the first in the order of the map.
Finds(r, n) ==
  /\ n # NoName
  /\ r \in DOMAIN rooms /\ rooms[r].name = n
  /\ \A q \in DOMAIN rooms : rooms[q].name = n => r <= q

\* AddMember and RemoveMember of a ChatRoomSession.
With(room, u) == [room EXCEPT !.members = @ \cup {u}]
Without(room, u) == [room EXCEPT !.members = @ \ {u}]

InRoom(u, r) == r \in DOMAIN rooms /\ u \in rooms[r].members

\* Mutant: the index starts over after the public rooms.
FirstPrivate_Zero == 0

\* m_roomIndex once the public rooms are made.
FirstPrivate == Publics

Init ==
  /\ connection = [u \in User |-> "new"]
  /\ publicRoom = [u \in User |-> NoRoom]
  /\ privateRoom = [u \in User |-> NoRoom]
  /\ roomIndex = FirstPrivate
  /\ rooms = [r \in 0 .. Publics - 1 |-> [name |-> PublicName[r], members |-> {}]]

-----------------------------------------------------------------------------

Connect(u) ==
  /\ connection[u] = "new"
  /\ connection' = [connection EXCEPT ![u] = "online"]
  /\ UNCHANGED <<publicRoom, privateRoom, roomIndex, rooms>>

\* RequestCreatePrivateRoom: the owner is the first member, whatever other
\* private room they are in.
CreatePrivateRoom(u, n) ==
  /\ Online(u)
  /\ ~NameTaken(n)
  /\ roomIndex < MaxRooms
  /\ rooms' = [r \in DOMAIN rooms \cup {roomIndex} |->
                 IF r = roomIndex THEN [name |-> n, members |-> {u}] ELSE rooms[r]]
  /\ privateRoom' = [privateRoom EXCEPT ![u] = roomIndex]
  /\ roomIndex' = roomIndex + 1
  /\ UNCHANGED <<connection, publicRoom>>

\* RequestEnterRoom.
EnterRoom(u, n) ==
  /\ Online(u)
  /\ \E r \in DOMAIN rooms :
       /\ Finds(r, n)
       /\ u \notin rooms[r].members
       /\ rooms' = [rooms EXCEPT ![r] = With(@, u)]
       /\ IF IsPublic(r)
          THEN publicRoom' = [publicRoom EXCEPT ![u] = r] /\ UNCHANGED privateRoom
          ELSE privateRoom' = [privateRoom EXCEPT ![u] = r] /\ UNCHANGED publicRoom
  /\ UNCHANGED <<connection, roomIndex>>

\* Mutant: a private room is deleted while somebody else is in it.
Deserted_Owner(u, r) == ~IsPublic(r) /\ u \in rooms[r].members

\* Mutant: rooms are never deleted.
Deserted_Never(u, r) == FALSE

\* m_members is empty once u is out; m_moderators always is.
Deserted(u, r) == ~IsPublic(r) /\ rooms[r].members \subseteq {u}

\* LeaveRoom, by name or by id, for each room of S; u is a member of them all.
\* The field of that kind is reset, though it may name another room.
LeaveRooms(u, S) ==
  /\ rooms' = [r \in DOMAIN rooms \ {q \in S : Deserted(u, q)} |->
                 IF r \in S THEN Without(rooms[r], u) ELSE rooms[r]]
  /\ publicRoom' = IF \E r \in S : IsPublic(r)
                   THEN [publicRoom EXCEPT ![u] = NoRoom] ELSE publicRoom
  /\ privateRoom' = IF \E r \in S : ~IsPublic(r)
                    THEN [privateRoom EXCEPT ![u] = NoRoom] ELSE privateRoom
  /\ UNCHANGED roomIndex

\* RequestLeaveRoom.
LeaveRoom(u, n) ==
  /\ Online(u)
  /\ \E r \in DOMAIN rooms :
       /\ Finds(r, n) /\ InRoom(u, r)
       /\ LeaveRooms(u, {r})
  /\ UNCHANGED connection

\* The part of RequestCancelGame_RTA that is about rooms.
CancelGame_RTA(u) ==
  /\ Online(u) /\ u \in ArmsUser
  /\ InRoom(u, privateRoom[u])
  /\ LeaveRooms(u, {privateRoom[u]})
  /\ UNCHANGED connection

\* Mutant: a starting game leaves its members' fields as they are.
Released_Nobody(r) == {}

\* The members whose m_privateRoomId CloseGameChatSession resets.
Released(r) == {v \in rooms[r].members : Alive(v)}

\* RequestStartGame of a game called n: a private room of that name goes.
StartGame(u, n) ==
  /\ Online(u) /\ u \in ArmsUser
  /\ \E r \in DOMAIN rooms :
       /\ Finds(r, n) /\ ~IsPublic(r)
       /\ privateRoom' = [v \in User |-> IF v \in Released(r) THEN NoRoom
                                                             ELSE privateRoom[v]]
       /\ rooms' = [q \in DOMAIN rooms \ {r} |-> rooms[q]]
  /\ UNCHANGED <<connection, publicRoom, roomIndex>>

\* Mutant: only the public room is left.
Current_Public(u) == {publicRoom[u]}

Current(u) == {publicRoom[u], privateRoom[u]}

\* UserManager::RemoveUser: OnDisconnectUser leaves both current rooms.
Disconnect(u) ==
  /\ Online(u)
  /\ LeaveRooms(u, {r \in Current(u) : InRoom(u, r)})
  /\ connection' = [connection EXCEPT ![u] = "removed"]

\* The last shared_ptr of a removed user goes.
Free(u) ==
  /\ connection[u] = "removed"
  /\ connection' = [connection EXCEPT ![u] = "freed"]
  /\ UNCHANGED <<publicRoom, privateRoom, roomIndex, rooms>>

Next ==
  \E u \in User :
    \/ Connect(u) \/ Disconnect(u) \/ Free(u)
    \/ CancelGame_RTA(u)
    \/ \E n \in Name :
         \/ CreatePrivateRoom(u, n) \/ EnterRoom(u, n) \/ LeaveRoom(u, n)
         \/ StartGame(u, n)

Spec == Init /\ [][Next]_vars

-----------------------------------------------------------------------------
(* Properties.                                                             *)

Phase(r) ==
  IF r \in DOMAIN rooms THEN "listed" ELSE IF r < roomIndex THEN "gone" ELSE "new"

Directory == INSTANCE RoomDirectory WITH
  phase <- [r \in RoomId |-> Phase(r)],
  title <- [r \in RoomId |-> IF r \in DOMAIN rooms THEN rooms[r].name ELSE NoName],
  NoTitle <- NoName

(* Rooms are found by id (the fields of users) and by name (a message, a    *)
(* game that starts): an id never comes to mean a later room, a name means  *)
(* one room, and a request ends one at most, whatever users do meanwhile.   *)
ImplementsDirectory == Directory!Spec

(* RequestGetRoom and OnDisconnectUser trust the room fields: a live user   *)
(* whose field names a room is a member of it, and it is listed and of that *)
(* kind, though rooms are deleted and closed by others meanwhile.           *)
FieldsAreMemberships ==
  \A u \in User : Alive(u) =>
    /\ publicRoom[u] # NoRoom => IsPublic(publicRoom[u]) /\ InRoom(u, publicRoom[u])
    /\ privateRoom[u] # NoRoom => ~IsPublic(privateRoom[u]) /\ InRoom(u, privateRoom[u])

(* Rooms are found by name: no two listed rooms share one, so the first     *)
(* match is the only one, for a chat message and for a game that starts.    *)
RoomNamesUnique ==
  \A r, q \in DOMAIN rooms : rooms[r].name = rooms[q].name => r = q

(* LeaveRoom deletes a private room with its last member, and no other      *)
(* request leaves one behind with no entry at all.                          *)
PrivateRoomsHaveMembers ==
  \A r \in DOMAIN rooms : ~IsPublic(r) => rooms[r].members # {}

(* OnDisconnectUser: a user who is removed has no current room left, so     *)
(* each of its two calls of LeaveRoom succeeds or has nothing to leave.     *)
RemovedHaveNoRoom ==
  \A u \in User :
    connection[u] \in {"removed", "freed"} =>
      publicRoom[u] = NoRoom /\ privateRoom[u] = NoRoom

(* LeaveRoom deletes a room with its last member, CloseGameChatSession one   *)
(* with any: whenever a request takes a room off the list, everybody alive  *)
(* in it is left without a private room.                                    *)
GoneRoomsReleaseMembers ==
  [][\A r \in DOMAIN rooms \ DOMAIN rooms' : \A u \in rooms[r].members :
       Alive(u) => privateRoom'[u] = NoRoom]_vars

(* "Chat Room name is already in use!" (ChatRoomManager.cpp:182): a name    *)
(* that is refused to a new room is that of a room with somebody in it.     *)
TakenNamesAreInUse ==
  \A r \in DOMAIN rooms : ~IsPublic(r) => \E u \in rooms[r].members : Alive(u)

=============================================================================
