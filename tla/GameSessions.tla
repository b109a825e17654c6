---------------------------- MODULE GameSessions ----------------------------
(***************************************************************************)
(* The game directory of the lobby server: GameSessionManager, the         *)
(* GameSession objects it lists, the game fields of RealmUser, and the two *)
(* threads that work on them.                                              *)
(*                                                                         *)
(*   - The LOBBY thread (LobbyServer::Run) handles one TCP request at a    *)
(*     time.  `lobby' is its place in the handler it is running.           *)
(*   - The DISCOVERY thread (DiscoveryServer::Run) handles one UDP packet  *)
(*     at a time.  `discovery' is its place in ProcessPacket.              *)
(*                                                                         *)
(* m_dataMutex guards one call of the manager at a time, never a handler;  *)
(* the fields of users and sessions are read and written with no lock.  So *)
(* an action below is one critical section, or the accesses from one       *)
(* shared field to the next, and the threads interleave between actions.   *)
(*                                                                         *)
(* A RealmUser object is a member of User, made once by a connection and   *)
(* never used again: a client that reconnects is another member.  Clients  *)
(* send the requests of their own game.  The calls that the same handlers  *)
(* make on chat rooms and friends are in the modules of those parts.       *)
(***************************************************************************)
EXTENDS Integers, FiniteSets

CONSTANTS
  User,         (* the RealmUser objects, one per accepted connection       *)
  ConUser,      (* those of Champions of Norrath; the rest: Return to Arms  *)
  None,         (* the null pointer                                         *)
  Name,         (* game names                                               *)
  NoName,       (* the empty name                                           *)
  Staged,       (* name [stage], as a public Norrath game is stored         *)
  Seats,        (* size of m_members and of a new game (4 in the code)      *)
  MaxCount,     (* the largest int8_t (127 in the code)                     *)
  MaxGames,     (* bound on the number of games ever created                *)
  Asked,        (* the games clients ask for: <<name, is it public>>        *)
  Reports       (* player counts <<current, maximum>> that clients report   *)

\* The range of int8_t.
Int8 == -(MaxCount + 1) .. MaxCount

ASSUME ConstantsAssumption ==
  /\ IsFiniteSet(User)
  /\ ConUser \subseteq User
  /\ None \notin User
  /\ NoName \in Name
  /\ Staged \in [Name -> Name \ {NoName}]
  /\ Asked \subseteq Name \X BOOLEAN
  /\ MaxCount \in Nat
  /\ Seats \in 1 .. MaxCount
  /\ MaxGames \in Nat
  /\ Reports \subseteq Int8 \X Int8

GameId == 0 .. MaxGames - 1
NoGame == -1
Seat   == 0 .. Seats - 1
Kind   == {"CON", "RTA"}

KindOf(u) == IF u \in ConUser THEN "CON" ELSE "RTA"

VARIABLES
  connection,     \* of a user: new, online (in m_users), removed, freed
  named,          \* RealmUser::m_sessionId is not empty
  isHost,         \* RealmUser::m_isHost
  gameId,         \* RealmUser::m_gameId
  hasAddr,        \* RealmUser::m_discoveryAddr is not empty
  told,           \* the client has had a reply that names the discovery server
  nextGame,       \* GameSessionManager::m_uniqueGameIndex
  listed,         \* ids in m_gameSessionList, both lists
  session,        \* the GameSession objects, by id
  lobby,          \* the lobby thread
  discovery       \* the discovery thread

userVars == <<connection, named, isHost, gameId, hasAddr, told>>
vars == <<userVars, nextGame, listed, session, lobby, discovery>>

LobbyPC ==
  {"idle", "hostFlag", "hostGame", "hostAddr", "push", "hostAgain",
   "seekFlag", "seekGame", "guestFlag", "guestGame", "norrathGame", "norrathFlag",
   "start", "terminate", "erase"}

DiscoveryPC ==
  {"idle", "address", "role", "openId", "openFind", "openState", "openAddr",
   "openSet", "openTell", "joinId", "joinFind", "joinState", "joinOwner",
   "joinAddr", "joinTell", "terminate"}

Session ==
  [kind : Kind, public : BOOLEAN, name : Name,
   state : {"NotReady", "Open", "Started"},
   members : [Seat -> User \cup {None}],
   currentPlayers : Int8, maximumPlayers : Int8,
   hostAddr : User \cup {None}]

TypeOK ==
  /\ connection \in [User -> {"new", "online", "removed", "freed"}]
  /\ named \in [User -> BOOLEAN]
  /\ isHost \in [User -> BOOLEAN]
  /\ gameId \in [User -> GameId \cup {NoGame}]
  /\ hasAddr \in [User -> BOOLEAN]
  /\ told \in [User -> BOOLEAN]
  /\ nextGame \in 0 .. MaxGames
  /\ listed \in SUBSET GameId
  /\ session \in [GameId -> Session]
  /\ lobby \in [pc : LobbyPC, user : User \cup {None}, game : GameId \cup {NoGame}]
  /\ discovery \in [pc : DiscoveryPC, user : User \cup {None},
                    game : GameId \cup {NoGame}, host : User \cup {None}]

-----------------------------------------------------------------------------
(* What the methods of GameSession and the lookups return.                 *)

Alive(u) == u # None /\ connection[u] \in {"online", "removed"}

\* weak_ptr::lock on a seat: the object, if somebody still holds it.
Locked(g, i) == IF Alive(session[g].members[i]) THEN session[g].members[i] ELSE None

GetOwner(g) == Locked(g, 0)

Members(g) == {Locked(g, i) : i \in Seat} \ {None}

\* m_sessionId of one is that of the other.  A login draws 16 hexadecimal digits
\* at random, taken to be new; before it the id is empty, and all of these agree.
SameId(u, v) == u = v \/ ~(named[u] \/ named[v])

\* Mutant: one player more than the maximum.
HasRoom_Inclusive(g) ==
  /\ session[g].state = "Open"
  /\ session[g].currentPlayers <= session[g].maximumPlayers

\* IsJoinable(), of any player.
HasRoom(g) ==
  /\ session[g].state = "Open"
  /\ session[g].currentPlayers < session[g].maximumPlayers

\* Mutant: the seat is taken without a look at who sits there.
FreeSeats_Unlooked(g) == Seat

FreeSeats(g) == {i \in Seat : Locked(g, i) = None}

IsFirst(x, S) == x \in S /\ \A y \in S : x <= y

\* Mutant: only open games hold their names.
Matching_OpenOnly(n, k) ==
  {g \in listed : /\ n # NoName /\ session[g].name = n /\ session[g].kind = k
                  /\ session[g].state = "Open"}

\* The lists are searched from the front.  Only the lobby thread appends, in
\* the order it draws ids, so the first match is the smallest id.
Matching(n, k) ==
  {g \in listed : n # NoName /\ session[g].name = n /\ session[g].kind = k}

\* Mutant: the game is looked up, and stays.
Without_Keeps(g) == listed

\* The list after the erase of ForceTerminateGame, RequestStart, RequestCancel.
Without(g) == listed \ {g}

IsListed(g, k) == g \in listed /\ session[g].kind = k

-----------------------------------------------------------------------------
(* The session a constructor leaves, and the idle threads.                 *)

NewSession(k, p, n) ==
  [kind |-> k, public |-> p, name |-> n, state |-> "NotReady",
   members |-> [i \in Seat |-> None],
   currentPlayers |-> 0, maximumPlayers |-> Seats, hostAddr |-> None]

\* AddMember puts the user in seat i of a new game or of one that has room, so
\* the count has a next value: `TypeOK' says so.
Seated(s, i, u) ==
  [s EXCEPT !.members = [@ EXCEPT ![i] = u], !.currentPlayers = @ + 1]

\* A decrement wraps: a client may have reported the least count.
Decremented(n) == IF n = -(MaxCount + 1) THEN MaxCount ELSE n - 1

\* RemoveMember takes the user out of their seat, and lowers the count whether
\* or not they had one.
Unseated(s, u) ==
  [s EXCEPT !.members = [i \in Seat |-> IF @[i] = u THEN None ELSE @[i]],
            !.currentPlayers = Decremented(@)]

Rest == [pc |-> "idle", user |-> None, game |-> NoGame]
NoPacket == [pc |-> "idle", user |-> None, game |-> NoGame, host |-> None]

Init ==
  /\ connection = [u \in User |-> "new"]
  /\ named = [u \in User |-> FALSE]
  /\ isHost = [u \in User |-> FALSE]
  /\ gameId = [u \in User |-> NoGame]
  /\ hasAddr = [u \in User |-> FALSE]
  /\ told = [u \in User |-> FALSE]
  /\ nextGame = 0
  /\ listed = {}
  /\ session = [g \in GameId |-> NewSession("CON", TRUE, NoName)]
  /\ lobby = Rest
  /\ discovery = NoPacket

-----------------------------------------------------------------------------
(* Lobby thread.                                                           *)

Handles(u) == lobby = Rest /\ connection[u] = "online"

LobbyAt(pc) == lobby.pc = pc

LobbyTo(pc) == lobby' = [lobby EXCEPT !.pc = pc]

\* The handler returns the address of the discovery server to its client.
Replied == lobby' = Rest /\ told' = [told EXCEPT ![lobby.user] = TRUE]

\* AcceptConnection on a game port: the user appears in m_users.
Connect(u) ==
  /\ lobby = Rest
  /\ connection[u] = "new"
  /\ connection' = [connection EXCEPT ![u] = "online"]
  /\ UNCHANGED <<named, isHost, gameId, hasAddr, told, nextGame, listed, session, lobby, discovery>>

\* RequestLogin and RequestCreateAccount draw an id for the user.
Login(u) ==
  /\ Handles(u)
  /\ named' = [named EXCEPT ![u] = TRUE]
  /\ UNCHANGED <<connection, isHost, gameId, hasAddr, told, nextGame, listed, session, lobby, discovery>>

\* make_shared< GameSession >( m_uniqueGameIndex++ ) and the fields set before
\* the object is listed; nobody else can see it yet.
MakeSession(u, k, p, n) ==
  /\ nextGame < MaxGames
  /\ nextGame' = nextGame + 1
  /\ session' = [session EXCEPT ![nextGame] = NewSession(k, p, n)]
  /\ lobby' = [pc |-> "hostFlag", user |-> u, game |-> nextGame]
  /\ UNCHANGED <<userVars, listed, discovery>>

\* RequestCreatePublicGame: the name asked for is looked up as it is, the
\* name stored carries the stage.
CreatePublicGame(u, n) ==
  /\ Handles(u) /\ u \in ConUser
  /\ <<n, TRUE>> \in Asked
  /\ n # NoName
  /\ Matching(n, "CON") = {}
  /\ MakeSession(u, "CON", TRUE, Staged[n])

CreatePrivateGame(u, n) ==
  /\ Handles(u) /\ u \in ConUser
  /\ <<n, FALSE>> \in Asked
  /\ n # NoName
  /\ Matching(n, "CON") = {}
  /\ MakeSession(u, "CON", FALSE, n)

\* Both RTA requests; an unparsable game info leaves the name empty, and the
\* game is created all the same.
CreateGame_RTA(u, n, p) ==
  /\ Handles(u) /\ u \notin ConUser
  /\ Matching(n, "RTA") = {}
  /\ MakeSession(u, "RTA", p, n)

CreateSetsHost ==
  /\ LobbyAt("hostFlag")
  /\ isHost' = [isHost EXCEPT ![lobby.user] = TRUE]
  /\ LobbyTo("hostGame")
  /\ UNCHANGED <<connection, named, gameId, hasAddr, told, nextGame, listed, session, discovery>>

CreateSetsGame ==
  /\ LobbyAt("hostGame")
  /\ gameId' = [gameId EXCEPT ![lobby.user] = lobby.game]
  /\ LobbyTo("hostAddr")
  /\ UNCHANGED <<connection, named, isHost, hasAddr, told, nextGame, listed, session, discovery>>

CreateResetsAddr ==
  /\ LobbyAt("hostAddr")
  /\ hasAddr' = [hasAddr EXCEPT ![lobby.user] = FALSE]
  /\ LobbyTo("push")
  /\ UNCHANGED <<connection, named, isHost, gameId, told, nextGame, listed, session, discovery>>

\* AddMember on the new session, then push_back under the lock.
CreateLists ==
  /\ LobbyAt("push")
  /\ session' = [session EXCEPT ![lobby.game] = Seated(@, 0, lobby.user)]
  /\ listed' = listed \cup {lobby.game}
  /\ IF session[lobby.game].kind = "CON" /\ session[lobby.game].public
     THEN LobbyTo("hostAgain") /\ UNCHANGED told
     ELSE Replied
  /\ UNCHANGED <<connection, named, isHost, gameId, hasAddr, nextGame, discovery>>

\* RequestCreatePublicGame resets the host once more, after the game is listed.
CreateResetsHostAgain ==
  /\ LobbyAt("hostAgain")
  /\ isHost' = [isHost EXCEPT ![lobby.user] = TRUE]
  /\ hasAddr' = [hasAddr EXCEPT ![lobby.user] = FALSE]
  /\ Replied
  /\ UNCHANGED <<connection, named, gameId, nextGame, listed, session, discovery>>

\* RequestGetGame and RequestGetGame_RTA, by name, up to the first write.
GetGame(u, n) ==
  /\ Handles(u)
  /\ \E g \in GameId :
       /\ IsFirst(g, Matching(n, KindOf(u)))
       /\ session[g].currentPlayers < session[g].maximumPlayers
       /\ GetOwner(g) # None
       /\ lobby' = [pc |-> "seekFlag", user |-> u, game |-> g]
  /\ UNCHANGED <<userVars, nextGame, listed, session, discovery>>

\* RequestDoClientDiscovery (Norrath) checks that the game can be joined and
\* writes the game before the flag.
DoClientDiscovery(u, g) ==
  /\ Handles(u) /\ u \in ConUser
  /\ IsListed(g, "CON")
  /\ u \notin Members(g)
  /\ HasRoom(g)
  /\ lobby' = [pc |-> "norrathGame", user |-> u, game |-> g]
  /\ UNCHANGED <<userVars, nextGame, listed, session, discovery>>

\* RequestDoClientDiscovery_RTA checks only that the game is there.
DoClientDiscovery_RTA(u, g) ==
  /\ Handles(u) /\ u \notin ConUser
  /\ IsListed(g, "RTA")
  /\ lobby' = [pc |-> "guestFlag", user |-> u, game |-> g]
  /\ UNCHANGED <<userVars, nextGame, listed, session, discovery>>

GuestClearsFlag ==
  /\ lobby.pc \in {"seekFlag", "guestFlag", "norrathFlag"}
  /\ isHost' = [isHost EXCEPT ![lobby.user] = FALSE]
  /\ CASE LobbyAt("seekFlag")    -> LobbyTo("seekGame") /\ UNCHANGED told
       [] LobbyAt("guestFlag")   -> LobbyTo("guestGame") /\ UNCHANGED told
       [] LobbyAt("norrathFlag") -> Replied
  /\ UNCHANGED <<connection, named, gameId, hasAddr, nextGame, listed, session, discovery>>

GuestSetsGame ==
  /\ lobby.pc \in {"seekGame", "guestGame", "norrathGame"}
  /\ gameId' = [gameId EXCEPT ![lobby.user] = lobby.game]
  /\ CASE LobbyAt("seekGame")    -> lobby' = Rest /\ UNCHANGED told
       [] LobbyAt("guestGame")   -> Replied
       [] LobbyAt("norrathGame") -> LobbyTo("norrathFlag") /\ UNCHANGED told
  /\ UNCHANGED <<connection, named, isHost, hasAddr, nextGame, listed, session, discovery>>

\* Mutant: AddMember does not look for the user in the seats.
CanSeat_Again(u, g) == HasRoom(g)

\* IsJoinable() without a user, and AddMember's search for the user's id.
CanSeat(u, g) == HasRoom(g) /\ \A v \in Members(g) : ~SameId(v, u)

\* GameSession::AddMember, from RequestUserJoinSuccess.
UserJoinSuccess(u) ==
  LET g == gameId[u] IN
  /\ Handles(u)
  /\ g # NoGame /\ IsListed(g, KindOf(u))
  /\ CanSeat(u, g)
  /\ \E i \in Seat :
       /\ IsFirst(i, FreeSeats(g))
       /\ session' = [session EXCEPT ![g] = Seated(@, i, u)]
  /\ UNCHANGED <<userVars, nextGame, listed, lobby, discovery>>

\* Mutant: RemoveMember forgets m_gameId = -1.
LeavesGame_Stays(u, g) == gameId

\* RemoveMember: only a user who had a seat is left without a game.
LeavesGame(u, g) ==
  IF u \in Members(g) THEN [gameId EXCEPT ![u] = NoGame] ELSE gameId

IsEmptied(count) == count <= 0

\* RequestCancel, all of it under the lock.
CancelGame(u) ==
  LET g == gameId[u]
      left == Unseated(session[g], u)
  IN
  /\ Handles(u)
  /\ g # NoGame /\ IsListed(g, KindOf(u))
  /\ session' = [session EXCEPT ![g] = left]
  /\ gameId' = LeavesGame(u, g)
  /\ listed' = IF IsEmptied(left.currentPlayers) THEN Without(g) ELSE listed
  /\ UNCHANGED <<connection, named, isHost, hasAddr, told, nextGame, lobby, discovery>>

\* RequestStartGame: the lookups, then the critical section of RequestStart.
StartGame(u) ==
  /\ Handles(u) /\ u \notin ConUser
  /\ gameId[u] # NoGame /\ IsListed(gameId[u], KindOf(u))
  /\ lobby' = [pc |-> "start", user |-> u, game |-> gameId[u]]
  /\ UNCHANGED <<userVars, nextGame, listed, session, discovery>>

StartCloses ==
  /\ LobbyAt("start")
  /\ session' = [session EXCEPT ![lobby.game] = [@ EXCEPT !.state = "Started"]]
  /\ listed' = Without(lobby.game)
  /\ lobby' = Rest
  /\ UNCHANGED <<userVars, nextGame, discovery>>

\* RequestUpdateGameData: the counts are those the client sent, negative ones
\* included.
UpdateGameData(u, counts) ==
  LET g == gameId[u] IN
  /\ Handles(u)
  /\ g # NoGame /\ IsListed(g, KindOf(u))
  /\ session' = [session EXCEPT ![g] = [@ EXCEPT !.currentPlayers = counts[1],
                                                 !.maximumPlayers = counts[2]]]
  /\ UNCHANGED <<userVars, nextGame, listed, lobby, discovery>>

\* Mutant: only a game without an owner is ended.
EndsGame_Ownerless(u) ==
  /\ gameId[u] # NoGame
  /\ IsListed(gameId[u], KindOf(u))
  /\ GetOwner(gameId[u]) = None

\* OnDisconnectUser ends a game that nobody owns, or whose owner has the id of
\* the user who goes.
EndsGame(u) ==
  LET owner == GetOwner(gameId[u]) IN
  /\ gameId[u] # NoGame
  /\ IsListed(gameId[u], KindOf(u))
  /\ owner = None \/ SameId(owner, u)

\* UserManager::RemoveUser, for a logout, a forced one, or a dead socket.
Disconnect(u) ==
  /\ Handles(u)
  /\ lobby' = [pc |-> IF EndsGame(u) THEN "terminate" ELSE "erase",
               user |-> u, game |-> gameId[u]]
  /\ UNCHANGED <<userVars, nextGame, listed, session, discovery>>

DisconnectTerminates ==
  /\ LobbyAt("terminate")
  /\ listed' = Without(lobby.game)
  /\ LobbyTo("erase")
  /\ UNCHANGED <<userVars, nextGame, session, discovery>>

DisconnectErases ==
  /\ LobbyAt("erase")
  /\ connection' = [connection EXCEPT ![lobby.user] = "removed"]
  /\ lobby' = Rest
  /\ UNCHANGED <<named, isHost, gameId, hasAddr, told, nextGame, listed, session, discovery>>

\* The last shared_ptr of a removed user goes: the discovery thread's, that of
\* the save task that CharacterSaveManager keeps for its session, or, when
\* there is neither, the handler's own.
Free(u) ==
  /\ connection[u] = "removed"
  /\ u \notin {discovery.user, discovery.host}
  /\ connection' = [connection EXCEPT ![u] = "freed"]
  /\ UNCHANGED <<named, isHost, gameId, hasAddr, told, nextGame, listed, session, lobby, discovery>>

-----------------------------------------------------------------------------
(* Discovery thread.                                                       *)

DiscoveryAt(pc) == discovery.pc = pc

DiscoveryTo(pc) == discovery' = [discovery EXCEPT !.pc = pc]

\* A packet with the session id and the address of u.  The client sends them
\* once it knows the server; one may be late or a duplicate, of an earlier game.
\* An empty id is not looked for.
Receive(u) ==
  /\ discovery = NoPacket
  /\ connection[u] = "online" /\ named[u]
  /\ told[u]
  /\ discovery' = [NoPacket EXCEPT !.pc = "address", !.user = u]
  /\ UNCHANGED <<userVars, nextGame, listed, session, lobby>>

\* Mutant: the address is not kept.
RecordAddress_Lost ==
  DiscoveryAt("address") /\ DiscoveryTo("role")
  /\ UNCHANGED <<userVars, nextGame, listed, session, lobby>>

RecordAddress ==
  /\ DiscoveryAt("address")
  /\ hasAddr' = [hasAddr EXCEPT ![discovery.user] = TRUE]
  /\ DiscoveryTo("role")
  /\ UNCHANGED <<connection, named, isHost, gameId, told, nextGame, listed, session, lobby>>

ReadRole ==
  /\ DiscoveryAt("role")
  /\ DiscoveryTo(IF isHost[discovery.user] THEN "openId" ELSE "joinId")
  /\ UNCHANGED <<userVars, nextGame, listed, session, lobby>>

\* RequestOpen and RequestJoin begin alike: read the id, then look it up.
ReadGameId(at, next) ==
  /\ DiscoveryAt(at)
  /\ discovery' = IF gameId[discovery.user] = NoGame THEN NoPacket
                  ELSE [discovery EXCEPT !.pc = next, !.game = gameId[discovery.user]]
  /\ UNCHANGED <<userVars, nextGame, listed, session, lobby>>

FindGame(at, next) ==
  /\ DiscoveryAt(at)
  /\ discovery' = IF IsListed(discovery.game, KindOf(discovery.user))
                  THEN [discovery EXCEPT !.pc = next] ELSE NoPacket
  /\ UNCHANGED <<userVars, nextGame, listed, session, lobby>>

OpenReadsState ==
  /\ DiscoveryAt("openState")
  /\ discovery' = IF session[discovery.game].state = "Open" THEN NoPacket
                  ELSE [discovery EXCEPT !.pc = "openAddr"]
  /\ UNCHANGED <<userVars, nextGame, listed, session, lobby>>

OpenReadsAddr ==
  /\ DiscoveryAt("openAddr")
  /\ discovery' = IF hasAddr[discovery.user] THEN [discovery EXCEPT !.pc = "openSet"]
                  ELSE NoPacket
  /\ UNCHANGED <<userVars, nextGame, listed, session, lobby>>

\* The address is read again here, after the check.
OpenSets ==
  /\ DiscoveryAt("openSet")
  /\ LET addr == IF hasAddr[discovery.user] THEN discovery.user ELSE None IN
     session' = [session EXCEPT
                   ![discovery.game] = [@ EXCEPT !.hostAddr = addr, !.state = "Open"]]
  /\ DiscoveryTo("openTell")
  /\ UNCHANGED <<userVars, nextGame, listed, lobby>>

JoinReadsState ==
  /\ DiscoveryAt("joinState")
  /\ discovery' = IF session[discovery.game].state = "Open"
                  THEN [discovery EXCEPT !.pc = "joinOwner"] ELSE NoPacket
  /\ UNCHANGED <<userVars, nextGame, listed, session, lobby>>

JoinReadsOwner ==
  /\ DiscoveryAt("joinOwner")
  /\ discovery' =
       IF GetOwner(discovery.game) = None
       THEN [discovery EXCEPT !.pc = "terminate"]
       ELSE [discovery EXCEPT !.pc = "joinAddr", !.host = GetOwner(discovery.game)]
  /\ UNCHANGED <<userVars, nextGame, listed, session, lobby>>

JoinReadsAddr ==
  /\ DiscoveryAt("joinAddr")
  /\ DiscoveryTo(IF hasAddr[discovery.host] THEN "joinTell" ELSE "terminate")
  /\ UNCHANGED <<userVars, nextGame, listed, session, lobby>>

JoinTerminates ==
  /\ DiscoveryAt("terminate")
  /\ listed' = Without(discovery.game)
  /\ discovery' = NoPacket
  /\ UNCHANGED <<userVars, nextGame, session, lobby>>

\* The notifications: to the host for "openTell", to both for "joinTell".
Tell ==
  /\ DiscoveryAt("openTell") \/ DiscoveryAt("joinTell")
  /\ discovery' = NoPacket
  /\ UNCHANGED <<userVars, nextGame, listed, session, lobby>>

-----------------------------------------------------------------------------

LobbyStep ==
  \/ CreateSetsHost \/ CreateSetsGame \/ CreateResetsAddr
  \/ CreateLists \/ CreateResetsHostAgain
  \/ GuestClearsFlag \/ GuestSetsGame
  \/ StartCloses
  \/ DisconnectTerminates \/ DisconnectErases

DiscoveryStep ==
  \/ RecordAddress \/ ReadRole
  \/ ReadGameId("openId", "openFind") \/ FindGame("openFind", "openState")
  \/ OpenReadsState \/ OpenReadsAddr \/ OpenSets
  \/ ReadGameId("joinId", "joinFind") \/ FindGame("joinFind", "joinState")
  \/ JoinReadsState \/ JoinReadsOwner \/ JoinReadsAddr \/ JoinTerminates
  \/ Tell

Request(u) ==
  \/ Login(u)
  \/ \E n \in Name : CreatePublicGame(u, n) \/ CreatePrivateGame(u, n) \/ GetGame(u, n)
  \/ \E a \in Asked : CreateGame_RTA(u, a[1], a[2])
  \/ \E g \in GameId : DoClientDiscovery(u, g) \/ DoClientDiscovery_RTA(u, g)
  \/ UserJoinSuccess(u) \/ CancelGame(u) \/ StartGame(u)
  \/ \E c \in Reports : UpdateGameData(u, c)
  \/ Disconnect(u)

Next ==
  \/ \E u \in User : Connect(u) \/ Request(u) \/ Receive(u) \/ Free(u)
  \/ LobbyStep
  \/ DiscoveryStep

Spec == Init /\ [][Next]_vars

\* Both threads are loops that never block for good: m_dataMutex is held for
\* one bounded search and nothing waits while holding it.
Fairness == WF_vars(LobbyStep) /\ WF_vars(DiscoveryStep)

FairSpec == Spec /\ Fairness


-----------------------------------------------------------------------------
(* Properties.                                                             *)

\* The lobby thread is not in the middle of a handler for u.
Settled(u) == lobby.user # u

(* The discovery thread trusts m_isHost and m_gameId to decide whether to   *)
(* open a game or to join one: outside a handler of theirs, an online user  *)
(* flagged as host whose game is listed sits in the owner's seat of it.     *)
HostFlagMeansOwner ==
  \A u \in User :
    /\ Settled(u) /\ connection[u] = "online"
    /\ isHost[u] /\ gameId[u] \in listed
    => session[gameId[u]].members[0] = u

(* OnDisconnectUser: a user who leaves takes along the game they own and    *)
(* are in.  Only the game of an owner who had moved to another can stay.    *)
NoGameOutlivesItsHost ==
  \A g \in listed :
    LET owner == session[g].members[0] IN
    owner # None /\ connection[owner] \in {"removed", "freed"} => gameId[owner] # g

(* AddMember: nobody holds two seats of a game, however often a client      *)
(* reports a join, cancels, and joins again.                                *)
NoDoubleSeat ==
  \A g \in GameId, i, j \in Seat :
    i # j /\ session[g].members[i] = session[g].members[j]
      => session[g].members[i] = None

(* A game that started has left the list, whatever the discovery thread     *)
(* does to its session afterwards.                                          *)
ListedNotStarted == \A g \in listed : session[g].state # "Started"

(* AddMember and RemoveMember: a live member keeps the seat until their own *)
(* cancel, which leaves them without a game; no join ever takes it.         *)
SeatKeptUntilCancel ==
  [][\A g \in GameId, i \in Seat :
       LET u == Locked(g, i) IN
       u # None /\ session'[g].members[i] # u
         => gameId[u] = g /\ gameId'[u] = NoGame]_vars

(* RequestOpen: a packet from the host of a listed game opens the game,     *)
(* unless the game ends or the host turns to another while it is handled.   *)
HostPacketOpensGame ==
  \A u \in User, g \in GameId :
    (/\ DiscoveryAt("address") /\ discovery.user = u
     /\ lobby = Rest
     /\ isHost[u] /\ gameId[u] = g /\ g \in listed)
    ~> (\/ g \notin listed \/ session[g].state = "Open"
        \/ gameId[u] # g \/ ~isHost[u])

(* The directory as others see it.  An id that was drawn is new until the   *)
(* push_back; one that is not listed any more is over.                      *)
Creating == lobby.pc \in {"hostFlag", "hostGame", "hostAddr", "push"}

Phase(g) ==
  IF g \in listed THEN IF session[g].state = "Open" THEN "open" ELSE "closed"
  ELSE IF g >= nextGame \/ (Creating /\ lobby.game = g) THEN "new"
  ELSE "over"

Untitled == [kind |-> "CON", public |-> TRUE, name |-> NoName]

TitleOf(g) ==
  IF Phase(g) = "new" THEN Untitled
  ELSE [kind |-> session[g].kind, public |-> session[g].public, name |-> session[g].name]

Directory == INSTANCE GameDirectory WITH
  phase <- [g \in GameId |-> Phase(g)],
  title <- [g \in GameId |-> TitleOf(g)],
  NoTitle <- Untitled

(* The two threads implement the directory: ids in order, titles fixed,     *)
(* names unique, and no game reopened, relisted or renamed by a late packet.*)
ImplementsDirectory == Directory!Spec

-----------------------------------------------------------------------------
(* What comments and messages of the code say, and the code does not do.    *)

(* "Tell the host its own address" (GameSessionManager.cpp:222): the user   *)
(* whose address opens a game, and who is told so, is the one in the        *)
(* owner's seat, if anybody is.                                             *)
HostToldOwnAddress ==
  DiscoveryAt("openTell") =>
    session[discovery.game].members[0] \in {None, discovery.user}

(* "Game session is empty, removing it" (GameSessionManager.cpp:259): a     *)
(* cancel that removes a game leaves no live member in it.                  *)
CancelRemovesEmptyGame ==
  [][\A u \in User : CancelGame(u) =>
       \A g \in listed \ listed' : Members(g) \subseteq {u}]_vars

=============================================================================
