------------------------- MODULE GameSessionsProofs -------------------------
(***************************************************************************)
(* Proofs about GameSessions, for every value of its constants.            *)
(***************************************************************************)
EXTENDS GameSessionsInv, TLAPS

-----------------------------------------------------------------------------
(* What the operators on sessions return.                                  *)

LEMMA NewSessionFacts ==
  ASSUME NEW k \in Kind, NEW p \in BOOLEAN, NEW n \in Name
  PROVE  /\ NewSession(k, p, n) \in Session
         /\ NewSession(k, p, n).kind = k
         /\ NewSession(k, p, n).public = p
         /\ NewSession(k, p, n).name = n
         /\ NewSession(k, p, n).state = "NotReady"
         /\ NewSession(k, p, n).members = [i \in Seat |-> None]
         /\ NewSession(k, p, n).currentPlayers = 0
         /\ NewSession(k, p, n).maximumPlayers = Seats
  BY ConstantsAssumption DEF NewSession, Session, Kind, Seat, Int8

LEMMA SeatedFacts ==
  ASSUME NEW s \in Session, NEW i \in Seat, NEW u \in User,
         s.currentPlayers \in -(MaxCount + 1) .. MaxCount - 1
  PROVE  /\ Seated(s, i, u) \in Session
         /\ Seated(s, i, u).members = [s.members EXCEPT ![i] = u]
         /\ Seated(s, i, u).currentPlayers = s.currentPlayers + 1
         /\ Seated(s, i, u).maximumPlayers = s.maximumPlayers
         /\ Seated(s, i, u).kind = s.kind
         /\ Seated(s, i, u).public = s.public
         /\ Seated(s, i, u).name = s.name
         /\ Seated(s, i, u).state = s.state
  <1>1. s.currentPlayers + 1 \in Int8
    BY ConstantsAssumption DEF Int8
  <1>2. [s.members EXCEPT ![i] = u] \in [Seat -> User \cup {None}]
    BY DEF Session
  <1>3. Seated(s, i, u) \in Session
    BY <1>1, <1>2 DEF Seated, Session
  <1> QED
    BY <1>3 DEF Seated, Session


LEMMA UnseatedFacts ==
  ASSUME NEW s \in Session, NEW u \in User
  PROVE  /\ Unseated(s, u) \in Session
         /\ Unseated(s, u).members = [i \in Seat |-> IF s.members[i] = u THEN None ELSE s.members[i]]
         /\ Unseated(s, u).maximumPlayers = s.maximumPlayers
         /\ Unseated(s, u).kind = s.kind
         /\ Unseated(s, u).public = s.public
         /\ Unseated(s, u).name = s.name
         /\ Unseated(s, u).state = s.state
  <1>1. Decremented(s.currentPlayers) \in Int8
    BY ConstantsAssumption DEF Session, Int8, Decremented
  <1>2. [i \in Seat |-> IF s.members[i] = u THEN None ELSE s.members[i]] \in [Seat -> User \cup {None}]
    BY DEF Session
  <1>3. Unseated(s, u) \in Session
    BY <1>1, <1>2 DEF Unseated, Session
  <1> QED
    BY <1>3 DEF Unseated, Session

LEMMA OwnerType ==
  ASSUME TypeOK, NEW g \in GameId
  PROVE  GetOwner(g) \in User \cup {None}
  <1>1. session[g] \in Session
    BY DEF TypeOK
  <1>2. 0 \in Seat
    BY ConstantsAssumption DEF Seat
  <1>3. session[g].members[0] \in User \cup {None}
    BY <1>1, <1>2 DEF Session
  <1> QED
    BY <1>3 DEF GetOwner, Locked

LEMMA FirstSeat ==
  ASSUME TypeOK
  PROVE  \A g \in GameId : session[g].members[0] \in User \cup {None}
  <1>1. 0 \in Seat
    BY ConstantsAssumption DEF Seat
  <1> QED
    BY <1>1 DEF TypeOK, Session

LEMMA GameIdsAreNumbers == GameId \subseteq Nat /\ NoGame \notin GameId /\ \A g \in GameId : g < MaxGames
  BY ConstantsAssumption DEF GameId, NoGame

-----------------------------------------------------------------------------

LEMMA ListedIsBorn ==
  ASSUME IInv, NEW g \in listed
  PROVE  g \in GameId /\ g < nextGame /\ ~Unborn(g)
  <1>1. g \in GameId /\ g \in Int /\ nextGame \in Int
    BY GameIdsAreNumbers, ConstantsAssumption DEF IInv, TypeOK
  <1>2. ~Unborn(g)
    BY <1>1 DEF IInv, CreationInv
  <1> QED
    BY <1>1, <1>2 DEF Unborn

LEMMA InitInv == Init => IInv
  <1> SUFFICES ASSUME Init PROVE IInv
    OBVIOUS
  <1>1. NewSession("CON", TRUE, NoName) \in Session
    BY NewSessionFacts, ConstantsAssumption DEF Kind
  <1>2. \A g \in GameId :
          /\ session[g].state = "NotReady"
          /\ session[g].members = [i \in Seat |-> None]
          /\ session[g].currentPlayers = 0
          /\ session[g].maximumPlayers = Seats
    BY DEF Init, NewSession
  <1>3. TypeOK
    <2>1. session \in [GameId -> Session]
      BY <1>1 DEF Init
    <2>2. nextGame \in 0 .. MaxGames
      BY ConstantsAssumption DEF Init
    <2>3. lobby \in [pc : LobbyPC, user : User \cup {None}, game : GameId \cup {NoGame}]
      BY DEF Init, Rest, LobbyPC
    <2>4. discovery \in [pc : DiscoveryPC, user : User \cup {None},
                         game : GameId \cup {NoGame}, host : User \cup {None}]
      BY DEF Init, NoPacket, DiscoveryPC
    <2> QED
      BY <2>1, <2>2, <2>3, <2>4 DEF Init, TypeOK
  <1>4. LobbyInv
    BY DEF Init, LobbyInv, Rest, WithGame, OwnGame
  <1>5. CreationInv
    <2>1. ~Creating
      BY DEF Init, Rest, Creating
    <2>2. \A u \in User : gameId[u] = NoGame
      BY DEF Init
    <2>3. \A u \in User : gameId[u] < nextGame /\ gameId[u] \notin GameId
      BY <2>2, ConstantsAssumption DEF Init, NoGame, GameId
    <2> QED
      BY <1>2, <2>1, <2>3 DEF Init, CreationInv
  <1>6. DiscoveryInv
    BY DEF Init, DiscoveryInv, NoPacket, Found
  <1>7. KindInv /\ FreshInv /\ LeavingInv /\ NameInv
    BY DEF Init, FreshInv, KindInv, LeavingInv, NameInv, Creating, Rest
  <1>8. HostFlagMeansOwner /\ NoGameOutlivesItsHost /\ NoDoubleSeat /\ ListedNotStarted
    BY <1>2 DEF Init, HostFlagMeansOwner, NoGameOutlivesItsHost, NoDoubleSeat, ListedNotStarted
  <1> QED
    BY <1>3, <1>4, <1>5, <1>6, <1>7, <1>8 DEF IInv

-----------------------------------------------------------------------------
(* A step that writes nothing but `discovery', addresses and replies.      *)

LEMMA DiscoveryFrame ==
  ASSUME IInv, TypeOK', DiscoveryInv',
         UNCHANGED <<connection, isHost, gameId, nextGame, listed, session, lobby>>
  PROVE  IInv'
  <1>1. LobbyInv' /\ CreationInv' /\ KindInv' /\ FreshInv' /\ LeavingInv' /\ NameInv'
    BY DEF IInv, FreshInv, LobbyInv, CreationInv, Creating, Unborn, KindInv, LeavingInv, NameInv
  <1>2. HostFlagMeansOwner' /\ NoGameOutlivesItsHost' /\ NoDoubleSeat' /\ ListedNotStarted'
    BY DEF IInv, HostFlagMeansOwner, Settled, NoGameOutlivesItsHost, NoDoubleSeat, ListedNotStarted
  <1> QED
    BY <1>1, <1>2 DEF IInv

LEMMA DiscoveryReads ==
  ASSUME IInv, NEW u \in User,
         \/ Receive(u) \/ RecordAddress \/ ReadRole
         \/ ReadGameId("openId", "openFind") \/ FindGame("openFind", "openState")
         \/ OpenReadsState \/ OpenReadsAddr
         \/ ReadGameId("joinId", "joinFind") \/ FindGame("joinFind", "joinState")
         \/ JoinReadsState \/ JoinReadsOwner \/ JoinReadsAddr \/ Tell
  PROVE  IInv'
  <1> USE DEF DiscoveryAt, DiscoveryTo, TypeOK, IInv, DiscoveryInv, Found, DiscoveryPC, NoPacket
  <1>1. UNCHANGED <<connection, named, isHost, gameId, nextGame, listed, session, lobby>>
    BY DEF Receive, RecordAddress, ReadRole, ReadGameId, FindGame, OpenReadsState,
           OpenReadsAddr, JoinReadsState, JoinReadsOwner, JoinReadsAddr, Tell, userVars
  <1>2. discovery \in [pc : DiscoveryPC, user : User \cup {None},
                       game : GameId \cup {NoGame}, host : User \cup {None}]
    OBVIOUS
  <1>3. TypeOK' /\ DiscoveryInv'
    <2>1. CASE Receive(u)
      BY <1>1, <2>1 DEF Receive, userVars
    <2>2. CASE RecordAddress
      BY <1>1, <2>2 DEF RecordAddress
    <2>3. CASE ReadRole
      BY <1>1, <2>3 DEF ReadRole, userVars
    <2>4. CASE ReadGameId("openId", "openFind")
      BY <1>1, <2>4 DEF ReadGameId, userVars
    <2>5. CASE ReadGameId("joinId", "joinFind")
      BY <1>1, <2>5 DEF ReadGameId, userVars
    <2>6. CASE FindGame("openFind", "openState")
      BY <1>1, <2>6 DEF FindGame, IsListed, CreationInv, Unborn, Creating, userVars
    <2>7. CASE FindGame("joinFind", "joinState")
      BY <1>1, <2>7 DEF FindGame, IsListed, CreationInv, Unborn, Creating, userVars
    <2>8. CASE OpenReadsState
      BY <1>1, <2>8 DEF OpenReadsState, Unborn, Creating, userVars
    <2>9. CASE OpenReadsAddr
      BY <1>1, <2>9 DEF OpenReadsAddr, Unborn, Creating, userVars
    <2>10. CASE JoinReadsState
      BY <1>1, <2>10 DEF JoinReadsState, Unborn, Creating, userVars
    <2>11. CASE JoinReadsOwner
      <3>1. GetOwner(discovery.game) \in User \cup {None}
        BY <2>11, OwnerType DEF JoinReadsOwner
      <3>2. CASE GetOwner(discovery.game) = None
        BY <1>1, <2>11, <3>2 DEF JoinReadsOwner, Unborn, Creating, userVars
      <3>3. CASE GetOwner(discovery.game) # None
        <4>1. discovery' = [discovery EXCEPT !.pc = "joinAddr", !.host = GetOwner(discovery.game)]
          BY <2>11, <3>3 DEF JoinReadsOwner
        <4>2. /\ discovery'.pc = "joinAddr"
              /\ discovery'.user = discovery.user
              /\ discovery'.game = discovery.game
              /\ discovery'.host = GetOwner(discovery.game)
          BY <1>2, <4>1
        <4>3. TypeOK'
          BY <1>1, <1>2, <2>11, <3>1, <4>1 DEF JoinReadsOwner, userVars
        <4> QED
          BY <1>1, <2>11, <3>1, <3>3, <4>2, <4>3 DEF JoinReadsOwner, Unborn, Creating
      <3> QED
        BY <3>2, <3>3
    <2>12. CASE JoinReadsAddr
      BY <1>1, <2>12 DEF JoinReadsAddr, Unborn, Creating, userVars
    <2>13. CASE Tell
      BY <1>1, <2>13 DEF Tell, userVars
    <2> QED
      BY <2>1, <2>2, <2>3, <2>4, <2>5, <2>6, <2>7, <2>8, <2>9, <2>10, <2>11, <2>12, <2>13
  <1> QED
    BY <1>1, <1>3, DiscoveryFrame

-----------------------------------------------------------------------------
(* The lobby thread begins a handler that has written nothing yet.         *)

LEMMA LobbyFrame ==
  ASSUME IInv, lobby = Rest, TypeOK', LobbyInv', LeavingInv', ~Creating',
         UNCHANGED <<connection, isHost, gameId, nextGame, listed, session, discovery>>
  PROVE  IInv'
  <1>1. ~Creating
    BY DEF Rest, Creating
  <1>2. CreationInv' /\ DiscoveryInv'
    BY <1>1 DEF IInv, CreationInv, DiscoveryInv, Unborn
  <1>3. KindInv' /\ FreshInv' /\ NameInv'
    BY <1>1 DEF IInv, FreshInv, KindInv, NameInv
  <1>4. HostFlagMeansOwner' /\ NoGameOutlivesItsHost' /\ NoDoubleSeat' /\ ListedNotStarted'
    BY ConstantsAssumption DEF IInv, HostFlagMeansOwner, Settled, Rest, NoGameOutlivesItsHost, NoDoubleSeat, ListedNotStarted
  <1> QED
    BY <1>2, <1>3, <1>4 DEF IInv

LEMMA LobbyLooksUp ==
  ASSUME IInv, NEW u \in User,
         \/ \E n \in Name : GetGame(u, n)
         \/ \E g \in GameId : DoClientDiscovery(u, g) \/ DoClientDiscovery_RTA(u, g)
         \/ StartGame(u) \/ Disconnect(u)
  PROVE  IInv'
  <1>1. /\ lobby = Rest
        /\ connection[u] = "online"
        /\ UNCHANGED <<userVars, nextGame, listed, session, discovery>>
    BY DEF GetGame, DoClientDiscovery, DoClientDiscovery_RTA, StartGame, Disconnect, Handles
  <1> DEFINE OnGame(pc, h) ==
               \/ /\ pc \in {"seekFlag", "norrathGame", "guestFlag"}
                  /\ h \in listed /\ session[h].kind = KindOf(u)
               \/ /\ pc \in {"start", "terminate"}
                  /\ h = gameId[u] /\ h \in listed /\ session[h].kind = KindOf(u)
               \/ pc = "erase" /\ h = gameId[u] /\ ~EndsGame(u)
             LookedUp == \E pc \in LobbyPC, h \in GameId \cup {NoGame} :
               lobby' = [pc |-> pc, user |-> u, game |-> h] /\ OnGame(pc, h)
  <1>2. LookedUp
    <2> USE DEF LobbyPC, IInv, TypeOK
    <2>1. ASSUME NEW n \in Name, GetGame(u, n) PROVE LookedUp
      BY <2>1 DEF GetGame, IsFirst, Matching
    <2>2. ASSUME NEW g \in GameId, DoClientDiscovery(u, g) PROVE LookedUp
      BY <2>2 DEF DoClientDiscovery, IsListed, KindOf
    <2>3. ASSUME NEW g \in GameId, DoClientDiscovery_RTA(u, g) PROVE LookedUp
      BY <2>3 DEF DoClientDiscovery_RTA, IsListed, KindOf
    <2>4. CASE StartGame(u)
      BY <2>4 DEF StartGame, IsListed
    <2>5. CASE Disconnect(u)
      BY <2>5 DEF Disconnect, EndsGame, IsListed
    <2> QED
      BY <2>1, <2>2, <2>3, <2>4, <2>5
  <1>3. PICK pc \in LobbyPC, h \in GameId \cup {NoGame} :
           lobby' = [pc |-> pc, user |-> u, game |-> h] /\ OnGame(pc, h)
    BY <1>2
  <1>4. h \in listed => h \in GameId /\ h < nextGame
    BY ListedIsBorn
  <1>5. TypeOK'
    BY <1>1, <1>3 DEF IInv, TypeOK, userVars
  <1>6. LobbyInv'
    <2>1. lobby'.pc = pc /\ lobby'.user = u /\ lobby'.game = h
      BY <1>3
    <2>2. pc \in WithGame => h \in GameId /\ h < nextGame /\ session[h].kind = KindOf(u)
      BY <1>3, <1>4 DEF WithGame
    <2>3. pc \in OwnGame => h = gameId[u]
      BY <1>3 DEF OwnGame
    <2>4. pc \notin {"idle", "hostAgain", "seekGame", "guestGame"}
      BY <1>3
    <2> QED
      BY <1>1, <2>1, <2>2, <2>3, <2>4 DEF LobbyInv, userVars
  <1>7. LeavingInv'
    <2> SUFFICES ASSUME pc = "erase", NEW k \in listed, session[k].members[0] = u, gameId[u] = k
                 PROVE  FALSE
      BY <1>1, <1>3 DEF LeavingInv, userVars
    <2>1. k \in GameId /\ session[k].kind = KindOf(u)
      BY GameIdsAreNumbers DEF IInv, TypeOK, KindInv
    <2>2. GetOwner(k) = u
      BY <1>1, <2>1, ConstantsAssumption DEF GetOwner, Locked, Alive
    <2> QED
      BY <1>3, <2>1, <2>2, GameIdsAreNumbers DEF EndsGame, IsListed, SameId
  <1>8. ~Creating'
    BY <1>3 DEF Creating
  <1> QED
    BY <1>1, <1>5, <1>6, <1>7, <1>8, LobbyFrame DEF userVars

-----------------------------------------------------------------------------
(* Users come and go.                                                      *)

LEMMA UsersComeAndGo ==
  ASSUME IInv, NEW u \in User, Connect(u) \/ Free(u)
  PROVE  IInv'
  <1> USE DEF Connect, Free
  <1>1. /\ UNCHANGED <<named, isHost, gameId, hasAddr, told, nextGame, listed, session, lobby, discovery>>
        /\ \/ connection[u] = "new" /\ connection' = [connection EXCEPT ![u] = "online"] /\ lobby = Rest
           \/ connection[u] = "removed" /\ connection' = [connection EXCEPT ![u] = "freed"]
    OBVIOUS
  <1>2. TypeOK'
    BY DEF IInv, TypeOK
  <1>3. \A w \in User : /\ w # u => connection'[w] = connection[w]
                        /\ connection'[w] \in {"removed", "freed"} => connection[w] \in {"removed", "freed"}
                        /\ connection'[w] = "new" => connection[w] = "new"
                        /\ connection'[w] = "online" => connection[w] \in {"new", "online"}
    BY <1>1 DEF IInv, TypeOK
  <1>4. LobbyInv'
    BY <1>1, <1>3 DEF IInv, TypeOK, LobbyInv, Rest
  <1>5. CreationInv' /\ DiscoveryInv' /\ KindInv' /\ FreshInv' /\ LeavingInv' /\ NameInv'
    BY <1>1, <1>3 DEF IInv, FreshInv, CreationInv, Creating, Unborn, DiscoveryInv, KindInv, LeavingInv, NameInv
  <1>6. HostFlagMeansOwner'
    <2> SUFFICES ASSUME NEW w \in User, Settled(w)', connection'[w] = "online",
                        isHost'[w], gameId'[w] \in listed'
                 PROVE  session'[gameId'[w]].members[0] = w
      BY DEF HostFlagMeansOwner
    <2>1. CASE connection[w] = "online"
      BY <1>1, <2>1 DEF IInv, HostFlagMeansOwner, Settled
    <2>2. CASE connection[w] # "online"
      BY <1>1, <1>3, <2>2 DEF IInv, FreshInv
    <2> QED
      BY <2>1, <2>2
  <1>7. NoGameOutlivesItsHost' /\ NoDoubleSeat' /\ ListedNotStarted'
    BY <1>1, <1>3, FirstSeat, ListedIsBorn, ConstantsAssumption DEF IInv, NoGameOutlivesItsHost, NoDoubleSeat, ListedNotStarted
  <1> QED
    BY <1>2, <1>4, <1>5, <1>6, <1>7 DEF IInv

LEMMA UserNamed ==
  ASSUME IInv, NEW u \in User, Login(u)
  PROVE  IInv'
  <1>1. /\ lobby = Rest
        /\ named' = [named EXCEPT ![u] = TRUE]
        /\ UNCHANGED <<connection, isHost, gameId, hasAddr, told, nextGame, listed, session, lobby, discovery>>
    BY DEF Login, Handles
  <1>2. TypeOK'
    BY <1>1 DEF IInv, TypeOK
  <1>3. LobbyInv' /\ LeavingInv' /\ ~Creating'
    BY <1>1 DEF LobbyInv, LeavingInv, Creating, Rest, WithGame, OwnGame
  <1> QED
    BY <1>1, <1>2, <1>3, LobbyFrame

LEMMA UserErased ==
  ASSUME IInv, DisconnectErases
  PROVE  IInv'
  <1> USE DEF DisconnectErases, LobbyAt
  <1>1. lobby.user \in User /\ connection[lobby.user] = "online"
    BY DEF IInv, LobbyInv
  <1>2. TypeOK'
    BY <1>1 DEF IInv, TypeOK, Rest, LobbyPC
  <1>3. \A w \in User : /\ w # lobby.user => connection'[w] = connection[w]
                        /\ connection'[lobby.user] = "removed"
    BY <1>1 DEF IInv, TypeOK
  <1>4. ~Creating /\ ~Creating'
    BY DEF Creating, Rest
  <1>5. CreationInv' /\ DiscoveryInv' /\ KindInv' /\ FreshInv' /\ NameInv'
    BY <1>3, <1>4 DEF IInv, FreshInv, CreationInv, Unborn, DiscoveryInv, KindInv, NameInv
  <1>6. LobbyInv' /\ LeavingInv'
    BY DEF LobbyInv, LeavingInv, Rest, WithGame, OwnGame
  <1>7. HostFlagMeansOwner'
    BY <1>3 DEF IInv, HostFlagMeansOwner, Settled
  <1>8. NoGameOutlivesItsHost'
    BY <1>1, <1>3 DEF IInv, NoGameOutlivesItsHost, LeavingInv
  <1>9. NoDoubleSeat' /\ ListedNotStarted'
    BY DEF IInv, NoDoubleSeat, ListedNotStarted
  <1> QED
    BY <1>2, <1>5, <1>6, <1>7, <1>8, <1>9 DEF IInv

-----------------------------------------------------------------------------
(* A game leaves the list.                                                 *)

LEMMA GameLeavesTheList ==
  ASSUME IInv, DisconnectTerminates \/ JoinTerminates
  PROVE  IInv'
  <1> USE DEF DisconnectTerminates, JoinTerminates, LobbyAt, LobbyTo, DiscoveryAt
  <1>1. /\ UNCHANGED <<userVars, nextGame, session>>
        /\ listed' \subseteq listed
        /\ \/ lobby' = lobby /\ discovery' = NoPacket
           \/ /\ lobby.pc = "terminate" /\ lobby' = [lobby EXCEPT !.pc = "erase"]
              /\ discovery' = discovery /\ listed' = listed \ {lobby.game}
    BY DEF Without
  <1>2. TypeOK'
    BY <1>1 DEF IInv, TypeOK, LobbyPC, DiscoveryPC, NoPacket, userVars
  <1>3. \/ lobby' = lobby
        \/ /\ lobby.pc = "terminate" /\ lobby'.pc = "erase"
           /\ lobby'.user = lobby.user /\ lobby'.game = lobby.game
           /\ listed' = listed \ {lobby.game}
    BY <1>1 DEF IInv, TypeOK
  <1>4. Creating' = Creating /\ (Creating => lobby' = lobby)
    BY <1>3 DEF Creating
  <1>5. LobbyInv'
    BY <1>1, <1>3 DEF IInv, LobbyInv, WithGame, OwnGame, userVars
  <1>6. CreationInv' /\ NameInv'
    BY <1>1, <1>4 DEF IInv, CreationInv, Unborn, NameInv, userVars
  <1>7. DiscoveryInv'
    BY <1>1, <1>4 DEF IInv, DiscoveryInv, Unborn, NoPacket, Found, DiscoveryPC
  <1>8. KindInv' /\ FreshInv' /\ NoDoubleSeat' /\ ListedNotStarted' /\ NoGameOutlivesItsHost'
    BY <1>1 DEF IInv, KindInv, FreshInv, NoDoubleSeat, ListedNotStarted, NoGameOutlivesItsHost, userVars
  <1>9. HostFlagMeansOwner'
    BY <1>1, <1>3 DEF IInv, HostFlagMeansOwner, Settled, userVars
  <1>10. LeavingInv'
    <2>1. CASE lobby' = lobby
      BY <1>1, <2>1 DEF IInv, LeavingInv, userVars
    <2>2. CASE lobby.pc = "terminate"
      BY <1>1, <1>3, <2>2 DEF IInv, LeavingInv, LobbyInv, OwnGame, userVars
    <2> QED
      BY <1>3, <2>1, <2>2
  <1> QED
    BY <1>2, <1>5, <1>6, <1>7, <1>8, <1>9, <1>10 DEF IInv

-----------------------------------------------------------------------------
(* The lobby thread writes the fields of the user it works for.            *)

LEMMA CreatorWrites ==
  ASSUME IInv, CreateSetsHost \/ CreateSetsGame \/ CreateResetsAddr
  PROVE  IInv'
  <1> USE DEF CreateSetsHost, CreateSetsGame, CreateResetsAddr, LobbyAt, LobbyTo
  <1>1. PICK pc \in {"hostGame", "hostAddr", "push"} :
          /\ UNCHANGED <<connection, named, told, nextGame, listed, session, discovery>>
          /\ lobby.pc \in {"hostFlag", "hostGame", "hostAddr"}
          /\ lobby' = [lobby EXCEPT !.pc = pc]
          /\ \/ pc = "hostGame" /\ isHost' = [isHost EXCEPT ![lobby.user] = TRUE] /\ gameId' = gameId
             \/ pc = "hostAddr" /\ isHost' = isHost /\ gameId' = [gameId EXCEPT ![lobby.user] = lobby.game]
             \/ pc = "push" /\ isHost' = isHost /\ gameId' = gameId /\ lobby.pc = "hostAddr"
    OBVIOUS
  <1>2. lobby'.pc = pc /\ lobby'.user = lobby.user /\ lobby'.game = lobby.game
    BY <1>1 DEF IInv, TypeOK
  <1>3. /\ lobby.user \in User /\ connection[lobby.user] = "online"
        /\ lobby.game \in GameId /\ lobby.game < nextGame
        /\ session[lobby.game].kind = KindOf(lobby.user)
    BY <1>1 DEF IInv, LobbyInv, WithGame, LobbyPC
  <1>4. /\ \A u \in User : u # lobby.user => isHost'[u] = isHost[u] /\ gameId'[u] = gameId[u]
        /\ gameId'[lobby.user] = gameId[lobby.user] \/ gameId'[lobby.user] = lobby.game
        /\ pc = "hostAddr" => gameId'[lobby.user] = lobby.game
        /\ pc = "push" => gameId' = gameId
    BY <1>1, <1>3 DEF IInv, TypeOK
  <1>5. Creating /\ Creating'
    BY <1>1, <1>2 DEF Creating
  <1>6. TypeOK'
    BY <1>1, <1>3 DEF IInv, TypeOK, LobbyPC
  <1>7. LobbyInv'
    BY <1>1, <1>2, <1>3, <1>4 DEF IInv, LobbyInv, WithGame, OwnGame
  <1>8. CreationInv'
    BY <1>1, <1>2, <1>3, <1>4, <1>5 DEF IInv, CreationInv, Unborn
  <1>9. DiscoveryInv' /\ NameInv' /\ NoDoubleSeat' /\ ListedNotStarted'
    BY <1>1, <1>2, <1>5 DEF IInv, DiscoveryInv, Unborn, NameInv, NoDoubleSeat, ListedNotStarted
  <1>10. KindInv' /\ FreshInv' /\ LeavingInv'
    BY <1>1, <1>2, <1>3, <1>4 DEF IInv, KindInv, FreshInv, LeavingInv
  <1>11. HostFlagMeansOwner'
    BY <1>1, <1>2, <1>4 DEF IInv, HostFlagMeansOwner, Settled
  <1>12. NoGameOutlivesItsHost'
    BY <1>1, <1>3, <1>4, FirstSeat, ListedIsBorn DEF IInv, NoGameOutlivesItsHost
  <1> QED
    BY <1>6, <1>7, <1>8, <1>9, <1>10, <1>11, <1>12 DEF IInv

LEMMA CreatorWritesAgain ==
  ASSUME IInv, CreateResetsHostAgain
  PROVE  IInv'
  <1> USE DEF CreateResetsHostAgain, LobbyAt, Replied
  <1>1. /\ UNCHANGED <<connection, named, gameId, nextGame, listed, session, discovery>>
        /\ lobby' = Rest
        /\ isHost' = [isHost EXCEPT ![lobby.user] = TRUE]
    OBVIOUS
  <1>2. /\ lobby.user \in User /\ connection[lobby.user] = "online"
        /\ gameId[lobby.user] = lobby.game /\ session[lobby.game].members[0] = lobby.user
    BY DEF IInv, LobbyInv, OwnGame
  <1>3. \A u \in User : u # lobby.user => isHost'[u] = isHost[u]
    BY <1>2 DEF IInv, TypeOK
  <1>4. ~Creating /\ ~Creating'
    BY DEF Creating, Rest
  <1>5. TypeOK'
    BY <1>2 DEF IInv, TypeOK, Rest, LobbyPC
  <1>6. LobbyInv' /\ LeavingInv'
    BY <1>1 DEF LobbyInv, LeavingInv, WithGame, OwnGame, Rest
  <1>7. CreationInv' /\ DiscoveryInv' /\ KindInv' /\ NameInv'
    BY <1>1, <1>4 DEF IInv, CreationInv, Unborn, DiscoveryInv, KindInv, NameInv
  <1>8. FreshInv' /\ NoGameOutlivesItsHost' /\ NoDoubleSeat' /\ ListedNotStarted'
    BY <1>1, <1>2, <1>3 DEF IInv, FreshInv, NoGameOutlivesItsHost, NoDoubleSeat, ListedNotStarted
  <1>9. HostFlagMeansOwner'
    BY <1>1, <1>2, <1>3 DEF IInv, HostFlagMeansOwner, Settled
  <1> QED
    BY <1>5, <1>6, <1>7, <1>8, <1>9 DEF IInv

LEMMA GuestWrites ==
  ASSUME IInv, GuestClearsFlag \/ GuestSetsGame
  PROVE  IInv'
  <1> USE DEF GuestClearsFlag, GuestSetsGame, LobbyAt, LobbyTo, Replied
  <1>1. /\ UNCHANGED <<connection, named, nextGame, listed, session, discovery>>
        /\ told' = told \/ told' = [told EXCEPT ![lobby.user] = TRUE]
        /\ hasAddr' = hasAddr
        /\ lobby.pc \in {"seekFlag", "guestFlag", "norrathFlag", "seekGame", "guestGame", "norrathGame"}
        /\ \/ isHost' = [isHost EXCEPT ![lobby.user] = FALSE] /\ gameId' = gameId
           \/ /\ isHost' = isHost /\ gameId' = [gameId EXCEPT ![lobby.user] = lobby.game]
              /\ lobby.pc \in {"seekGame", "guestGame", "norrathGame"}
    OBVIOUS
  <1>2. /\ lobby.user \in User /\ connection[lobby.user] = "online"
        /\ lobby.game \in GameId /\ lobby.game < nextGame
        /\ session[lobby.game].kind = KindOf(lobby.user)
    BY <1>1 DEF IInv, LobbyInv, WithGame, LobbyPC
  <1>3. /\ \A u \in User : u # lobby.user => isHost'[u] = isHost[u] /\ gameId'[u] = gameId[u]
        /\ gameId'[lobby.user] = gameId[lobby.user] \/ gameId'[lobby.user] = lobby.game
        /\ isHost'[lobby.user] => isHost[lobby.user]
    BY <1>1, <1>2 DEF IInv, TypeOK
  <1>4. \/ lobby' = Rest /\ ~isHost'[lobby.user]
        \/ /\ lobby'.pc = "norrathFlag" /\ lobby'.user = lobby.user /\ lobby'.game = lobby.game
        \/ /\ lobby'.pc \in {"seekGame", "guestGame"} /\ ~isHost'[lobby.user]
           /\ lobby'.user = lobby.user /\ lobby'.game = lobby.game
    <2>1. CASE GuestClearsFlag
      BY <1>2, <2>1 DEF IInv, TypeOK
    <2>2. CASE GuestSetsGame
      <3>1. lobby.pc \in {"seekGame", "guestGame"} => ~isHost[lobby.user]
        BY DEF IInv, LobbyInv
      <3> QED
        BY <1>2, <2>2, <3>1 DEF IInv, TypeOK
    <2> QED
      BY <2>1, <2>2
  <1>5. ~Creating /\ ~Creating'
    BY <1>1, <1>4 DEF Creating, Rest
  <1>6. TypeOK'
    <2>1. lobby' \in [pc : LobbyPC, user : User \cup {None}, game : GameId \cup {NoGame}]
      <3>1. CASE lobby' = Rest
        BY <3>1 DEF LobbyPC, Rest
      <3>2. CASE lobby' # Rest
        <4>1. PICK pc \in LobbyPC : lobby' = [lobby EXCEPT !.pc = pc]
          BY <3>2 DEF LobbyPC
        <4> QED
          BY <4>1 DEF IInv, TypeOK
      <3> QED
        BY <3>1, <3>2
    <2> QED
      BY <1>1, <1>2, <2>1 DEF IInv, TypeOK
  <1>7. LobbyInv'
    <2>1. CASE lobby' = Rest
      BY <2>1 DEF LobbyInv, WithGame, OwnGame, Rest
    <2>2. CASE lobby' # Rest
      BY <1>1, <1>2, <1>4, <2>2 DEF LobbyInv, WithGame, OwnGame
    <2> QED
      BY <2>1, <2>2
  <1>8. CreationInv'
    <2>1. \A g \in GameId : Unborn(g)' => Unborn(g) /\ g # lobby.game
      BY <1>1, <1>2, <1>5, GameIdsAreNumbers, ConstantsAssumption DEF Unborn, IInv, TypeOK
    <2>2. \A u \in User : gameId'[u] < nextGame'
      BY <1>1, <1>2, <1>3 DEF IInv, CreationInv
    <2> QED
      BY <1>1, <1>3, <1>5, <2>1, <2>2 DEF IInv, CreationInv
  <1>9. DiscoveryInv' /\ NameInv' /\ NoDoubleSeat' /\ ListedNotStarted'
    BY <1>1, <1>5 DEF IInv, DiscoveryInv, Unborn, NameInv, NoDoubleSeat, ListedNotStarted
  <1>10. KindInv' /\ FreshInv' /\ LeavingInv'
    BY <1>1, <1>2, <1>3, <1>4 DEF IInv, KindInv, FreshInv, LeavingInv, Rest
  <1>11. HostFlagMeansOwner'
    BY <1>1, <1>3, <1>4 DEF IInv, HostFlagMeansOwner, Settled, Rest
  <1>12. NoGameOutlivesItsHost'
    BY <1>1, <1>2, <1>3, FirstSeat, ListedIsBorn DEF IInv, NoGameOutlivesItsHost
  <1> QED
    BY <1>6, <1>7, <1>8, <1>9, <1>10, <1>11, <1>12 DEF IInv

-----------------------------------------------------------------------------
(* A session is made.                                                      *)

LEMMA SessionMade ==
  ASSUME IInv, lobby = Rest, NEW u \in User, connection[u] = "online",
         NEW p \in BOOLEAN, NEW n \in Name, MakeSession(u, KindOf(u), p, n),
         \/ n = NoName
         \/ KindOf(u) = "CON" /\ p
         \/ Matching(n, KindOf(u)) = {}
  PROVE  IInv'
  <1> DEFINE t == NewSession(KindOf(u), p, n)
  <1> USE DEF MakeSession
  <1>1. /\ UNCHANGED <<connection, named, isHost, gameId, hasAddr, told, listed, discovery>>
        /\ nextGame \in GameId /\ nextGame' = nextGame + 1
        /\ session' = [session EXCEPT ![nextGame] = t]
        /\ lobby' = [pc |-> "hostFlag", user |-> u, game |-> nextGame]
    BY ConstantsAssumption DEF IInv, TypeOK, GameId, userVars
  <1>2. /\ t \in Session /\ t.kind = KindOf(u) /\ t.public = p /\ t.name = n
        /\ t.state = "NotReady" /\ t.members = [i \in Seat |-> None]
        /\ t.currentPlayers = 0 /\ t.maximumPlayers = Seats
    <2>1. KindOf(u) \in Kind
      BY DEF KindOf, Kind
    <2> QED
      BY <2>1, NewSessionFacts
  <1> HIDE DEF t
  <1>3. session'[nextGame] = t /\ \A g \in GameId : g # nextGame => session'[g] = session[g]
    BY <1>1 DEF IInv, TypeOK
  <1>4. ~Creating /\ Creating'
    BY <1>1 DEF Creating, Rest
  <1>5. \A g \in GameId : Unborn(g)' <=> Unborn(g)
    BY <1>1, <1>4, GameIdsAreNumbers DEF Unborn, IInv, TypeOK
  <1>6. Unborn(nextGame)
    BY <1>1, GameIdsAreNumbers DEF Unborn
  <1>7. nextGame \notin listed /\ \A v \in User : gameId[v] # nextGame
    BY <1>1, <1>4, <1>6 DEF IInv, CreationInv
  <1>8. TypeOK'
    <2>1. nextGame' \in 0 .. MaxGames
      BY ConstantsAssumption DEF IInv, TypeOK
    <2>2. session' \in [GameId -> Session]
      BY <1>1, <1>2 DEF IInv, TypeOK
    <2> QED
      BY <1>1, <2>1, <2>2 DEF IInv, TypeOK, LobbyPC
  <1>9. LobbyInv'
    BY <1>1, <1>2, <1>3, GameIdsAreNumbers DEF LobbyInv, WithGame, OwnGame
  <1>10. CreationInv'
    <2>1. lobby'.game = nextGame' - 1
      BY <1>1, GameIdsAreNumbers
    <2>2. \A v \in User : gameId'[v] < nextGame'
      <3>1. \A v \in User : gameId[v] \in Int
        <4>1. \A v \in User : gameId[v] \in GameId \cup {NoGame}
          BY DEF IInv, TypeOK
        <4> QED
          BY <4>1, ConstantsAssumption DEF GameId, NoGame
      <3>2. \A v \in User : gameId[v] < nextGame
        BY DEF IInv, CreationInv
      <3> QED
        BY <1>1, <3>1, <3>2, GameIdsAreNumbers
    <2> QED
      BY <1>1, <1>2, <1>3, <1>4, <1>5, <2>1, <2>2 DEF IInv, CreationInv
  <1>11. DiscoveryInv'
    <2>1. discovery.pc \in Found => discovery.game \in GameId /\ ~Unborn(discovery.game)'
      BY <1>5 DEF IInv, DiscoveryInv
    <2>2. discovery.pc \in {"openAddr", "openSet"} =>
            session'[discovery.game].state = session[discovery.game].state
      BY <1>3, <1>6 DEF IInv, DiscoveryInv, Found, DiscoveryPC
    <2> QED
      BY <1>1, <2>1, <2>2 DEF IInv, DiscoveryInv, Found
  <1>12. KindInv' /\ FreshInv' /\ LeavingInv'
    BY <1>1, <1>3, <1>7 DEF IInv, TypeOK, KindInv, FreshInv, LeavingInv
  <1>13. NameInv'
    <2>1. n = NoName \/ (KindOf(u) = "CON" /\ p)
          \/ \A h \in listed : session[h].name # n \/ session[h].kind # KindOf(u)
      BY DEF Matching
    <2> QED
      BY <1>1, <1>2, <1>3, <1>7, <2>1, ListedIsBorn DEF NameInv
  <1>14. HostFlagMeansOwner'
    BY <1>1, <1>3, <1>7, ListedIsBorn, ConstantsAssumption DEF IInv, HostFlagMeansOwner, Settled, Rest
  <1>15. NoGameOutlivesItsHost' /\ ListedNotStarted'
    BY <1>1, <1>3, <1>7, ListedIsBorn DEF IInv, NoGameOutlivesItsHost, ListedNotStarted
  <1>16. NoDoubleSeat'
    BY <1>1, <1>2, <1>3 DEF IInv, NoDoubleSeat
  <1> QED
    BY <1>8, <1>9, <1>10, <1>11, <1>12, <1>13, <1>14, <1>15, <1>16 DEF IInv

LEMMA GameRequested ==
  ASSUME IInv, NEW u \in User, NEW n \in Name, NEW p \in BOOLEAN,
         CreatePublicGame(u, n) \/ CreatePrivateGame(u, n) \/ CreateGame_RTA(u, n, p)
  PROVE  IInv'
  <1> USE DEF Handles, KindOf
  <1>1. CASE CreatePublicGame(u, n)
    <2>1. Staged[n] \in Name
      BY ConstantsAssumption
    <2> QED
      BY <1>1, <2>1, SessionMade DEF CreatePublicGame
  <1>2. CASE CreatePrivateGame(u, n)
    BY <1>2, SessionMade DEF CreatePrivateGame
  <1>3. CASE CreateGame_RTA(u, n, p)
    BY <1>3, SessionMade DEF CreateGame_RTA
  <1> QED
    BY <1>1, <1>2, <1>3

LEMMA SessionListed ==
  ASSUME IInv, CreateLists
  PROVE  IInv'
  <1> DEFINE g == lobby.game
             t == Seated(session[g], 0, lobby.user)
  <1> USE DEF CreateLists, LobbyAt, LobbyTo, Replied
  <1>1. /\ lobby.user \in User /\ connection[lobby.user] = "online"
        /\ g \in GameId /\ g < nextGame /\ gameId[lobby.user] = g
        /\ session[g].kind = KindOf(lobby.user)
    BY DEF IInv, LobbyInv, WithGame, OwnGame, LobbyPC
  <1>2. Unborn(g) /\ Creating
    BY DEF Unborn, Creating
  <1>3. /\ g \notin listed
        /\ session[g].members = [i \in Seat |-> None]
        /\ session[g].state = "NotReady" /\ session[g].currentPlayers = 0
        /\ \A u \in User : gameId[u] = g => u = lobby.user
    BY <1>1, <1>2 DEF IInv, CreationInv
  <1>4. /\ t \in Session /\ t.kind = session[g].kind /\ t.name = session[g].name
        /\ t.state = "NotReady" /\ t.members = [session[g].members EXCEPT ![0] = lobby.user]
        /\ t.currentPlayers = 1 /\ t.maximumPlayers = session[g].maximumPlayers
    <2>1. 0 \in Seat /\ session[g] \in Session
      BY <1>1, ConstantsAssumption DEF Seat, IInv, TypeOK
    <2> QED
      BY ConstantsAssumption, <1>1, <1>3, <2>1, SeatedFacts
  <1>5. /\ t.members[0] = lobby.user
        /\ \A i \in Seat : i # 0 => t.members[i] = None
    <2>1. t.members = [[i \in Seat |-> None] EXCEPT ![0] = lobby.user]
      BY <1>3, <1>4
    <2>2. 0 \in Seat
      BY ConstantsAssumption DEF Seat
    <2> QED
      BY <2>1, <2>2
  <1>6. /\ UNCHANGED <<connection, named, isHost, gameId, nextGame, discovery>>
        /\ session' = [session EXCEPT ![g] = t]
        /\ listed' = listed \cup {g}
        /\ \/ lobby' = Rest
           \/ lobby' = [lobby EXCEPT !.pc = "hostAgain"]
    OBVIOUS
  <1> HIDE DEF t
  <1>7. session'[g] = t /\ \A h \in GameId : h # g => session'[h] = session[h]
    BY <1>1, <1>6 DEF IInv, TypeOK
  <1>8. ~Creating' /\ lobby'.pc # "erase"
    BY <1>6 DEF Creating, Rest, IInv, TypeOK
  <1>9. \A h \in GameId : Unborn(h)' => Unborn(h) /\ h # g
    BY <1>1, <1>6, <1>8, GameIdsAreNumbers, ConstantsAssumption DEF Unborn, IInv, TypeOK
  <1>10. TypeOK'
    <2>1. session' \in [GameId -> Session] /\ listed' \subseteq GameId
      BY <1>1, <1>4, <1>6 DEF IInv, TypeOK
    <2>2. lobby' \in [pc : LobbyPC, user : User \cup {None}, game : GameId \cup {NoGame}]
      BY <1>6 DEF IInv, TypeOK, Rest, LobbyPC
    <2>3. told' \in [User -> BOOLEAN]
      BY <1>1 DEF IInv, TypeOK
    <2> QED
      BY <1>6, <2>1, <2>2, <2>3 DEF IInv, TypeOK
  <1>11. LobbyInv'
    <2>1. CASE lobby' = Rest
      BY <2>1 DEF LobbyInv, WithGame, OwnGame, Rest
    <2>2. CASE lobby' = [lobby EXCEPT !.pc = "hostAgain"]
      <3>1. lobby'.pc = "hostAgain" /\ lobby'.user = lobby.user /\ lobby'.game = g
        BY <2>2 DEF IInv, TypeOK
      <3> QED
        BY <1>1, <1>4, <1>5, <1>6, <1>7, <3>1 DEF LobbyInv
    <2> QED
      BY <1>6, <2>1, <2>2
  <1>12. CreationInv'
    <2>1. \A h \in GameId : Unborn(h)' => \A u \in User : gameId'[u] # h
      BY <1>1, <1>6, <1>9 DEF IInv, CreationInv
    <2>2. \A u \in User : gameId'[u] < nextGame'
      BY <1>6 DEF IInv, CreationInv
    <2> QED
      BY <1>6, <1>7, <1>8, <1>9, <2>1, <2>2 DEF IInv, CreationInv
  <1>13. DiscoveryInv'
    BY <1>4, <1>6, <1>7, <1>9 DEF IInv, DiscoveryInv, Found
  <1>14. KindInv' /\ FreshInv' /\ LeavingInv' /\ NameInv'
    BY <1>4, <1>6, <1>7, <1>8 DEF IInv, TypeOK, KindInv, FreshInv, LeavingInv, NameInv
  <1>15. HostFlagMeansOwner'
    <2> SUFFICES ASSUME NEW u \in User, isHost[u], gameId[u] \in listed', connection[u] = "online",
                        Settled(u)'
                 PROVE  session'[gameId[u]].members[0] = u
      BY <1>6 DEF HostFlagMeansOwner
    <2>1. CASE u = lobby.user
      BY <1>1, <1>5, <1>7, <2>1
    <2>2. CASE u # lobby.user
      BY <1>3, <1>6, <1>7, <2>2, ListedIsBorn DEF IInv, HostFlagMeansOwner, Settled
    <2> QED
      BY <2>1, <2>2
  <1>16. NoGameOutlivesItsHost' /\ ListedNotStarted'
    <2>1. \A h \in listed : h # g /\ session'[h] = session[h]
      BY <1>3, <1>7, ListedIsBorn
    <2>2. session'[g].members[0] = lobby.user /\ session'[g].state = "NotReady"
      BY <1>4, <1>5, <1>7
    <2> QED
      BY <1>1, <1>6, <2>1, <2>2 DEF IInv, NoGameOutlivesItsHost, ListedNotStarted
  <1>17. NoDoubleSeat'
    BY <1>5, <1>6, <1>7 DEF IInv, NoDoubleSeat
  <1> QED
    BY <1>10, <1>11, <1>12, <1>13, <1>14, <1>15, <1>16, <1>17 DEF IInv

-----------------------------------------------------------------------------
(* A listed session changes.                                               *)

LEMMA MemberSeated ==
  ASSUME IInv, NEW u \in User, UserJoinSuccess(u)
  PROVE  IInv'
  <1> DEFINE g == gameId[u]
  <1>1. /\ lobby = Rest /\ connection[u] = "online"
        /\ g \in listed /\ g \in GameId /\ ~Unborn(g) /\ session[g].kind = KindOf(u)
        /\ u \notin Members(g)
        /\ session[g].currentPlayers < session[g].maximumPlayers
        /\ UNCHANGED <<userVars, nextGame, listed, lobby, discovery>>
    BY ListedIsBorn DEF UserJoinSuccess, Handles, IsListed, CanSeat, HasRoom, SameId
  <1>2. PICK i \in Seat : /\ i \in FreeSeats(g)
                          /\ session' = [session EXCEPT ![g] = Seated(@, i, u)]
    BY DEF UserJoinSuccess, IsFirst, FreeSeats
  <1> DEFINE t == Seated(session[g], i, u)
  <1>3. session[g] \in Session /\ u # None
    BY <1>1, ConstantsAssumption DEF IInv, TypeOK
  <1>4. session[g].currentPlayers \in -(MaxCount + 1) .. MaxCount - 1
    <2>1. session[g].currentPlayers \in Int8 /\ session[g].maximumPlayers \in Int8
      BY <1>3 DEF Session
    <2> QED
      BY <1>1, <2>1, ConstantsAssumption DEF Int8
  <1>5. /\ t \in Session /\ t.kind = session[g].kind /\ t.name = session[g].name
        /\ t.state = session[g].state /\ t.members = [session[g].members EXCEPT ![i] = u]
        /\ t.currentPlayers = session[g].currentPlayers + 1
        /\ t.maximumPlayers = session[g].maximumPlayers
    BY ConstantsAssumption, <1>3, <1>4, SeatedFacts
  <1>6. session[g].members \in [Seat -> User \cup {None}]
    BY <1>3 DEF Session
  <1>7. \A j \in Seat : t.members[j] = IF j = i THEN u ELSE session[g].members[j]
    BY <1>5, <1>6
  <1>8. \A j \in Seat : session[g].members[j] # u
    BY <1>1, <1>3 DEF Members, Locked, Alive
  <1>9. session[g].members[i] = None \/ connection[session[g].members[i]] # "online"
    BY <1>2 DEF FreeSeats, Locked, Alive
  <1>10. session' = [session EXCEPT ![g] = t]
    BY <1>2
  <1> HIDE DEF t
  <1>11. session'[g] = t /\ \A h \in GameId : h # g => session'[h] = session[h]
    BY <1>1, <1>10 DEF IInv, TypeOK
  <1>12. ~Creating /\ ~Creating'
    BY <1>1 DEF Creating, Rest
  <1>13. TypeOK'
    <2>1. session' \in [GameId -> Session]
      BY <1>1, <1>5, <1>10 DEF IInv, TypeOK
    <2> QED
      BY <1>1, <2>1 DEF IInv, TypeOK, userVars
  <1>14. LobbyInv' /\ LeavingInv' /\ NameInv'
    BY <1>1, <1>12 DEF LobbyInv, LeavingInv, NameInv, WithGame, OwnGame, Rest
  <1>15. CreationInv'
    BY <1>1, <1>11, <1>12 DEF IInv, CreationInv, Unborn, userVars
  <1>16. DiscoveryInv'
    <2>1. \A h \in GameId : session'[h].state = session[h].state
      BY <1>5, <1>11
    <2> QED
      BY <1>1, <1>12, <2>1 DEF IInv, DiscoveryInv, Unborn, Found, DiscoveryPC
  <1>17. KindInv' /\ FreshInv'
    BY <1>1, <1>5, <1>11 DEF IInv, TypeOK, KindInv, FreshInv, userVars
  <1>18. HostFlagMeansOwner'
    <2> SUFFICES ASSUME NEW w \in User, Settled(w), isHost[w], gameId[w] \in listed, connection[w] = "online"
                 PROVE  session'[gameId[w]].members[0] = w
      BY <1>1 DEF HostFlagMeansOwner, Settled, userVars
    <2>1. session[gameId[w]].members[0] = w
      BY DEF IInv, HostFlagMeansOwner
    <2>2. w # None /\ gameId[w] \in GameId /\ 0 \in Seat
      BY ConstantsAssumption DEF IInv, TypeOK, Seat
    <2>3. CASE gameId[w] = g
      BY <1>7, <1>9, <1>11, <2>1, <2>2, <2>3
    <2>4. CASE gameId[w] # g
      BY <1>11, <2>1, <2>2, <2>4
    <2> QED
      BY <2>3, <2>4
  <1>19. NoGameOutlivesItsHost'
    <2>1. 0 \in Seat
      BY ConstantsAssumption DEF Seat
    <2>2. session'[g].members[0] \in {u, session[g].members[0]}
      BY <1>7, <1>11, <2>1
    <2> QED
      BY <1>1, <1>11, <2>2, ListedIsBorn DEF IInv, NoGameOutlivesItsHost, userVars
  <1>20. NoDoubleSeat'
    BY <1>7, <1>8, <1>11 DEF IInv, NoDoubleSeat
  <1>21. ListedNotStarted'
    BY <1>1, <1>5, <1>11, ListedIsBorn DEF IInv, ListedNotStarted
  <1> QED
    BY <1>13, <1>14, <1>15, <1>16, <1>17, <1>18, <1>19, <1>20, <1>21 DEF IInv

LEMMA MemberCancels ==
  ASSUME IInv, NEW u \in User, CancelGame(u)
  PROVE  IInv'
  <1> DEFINE g == gameId[u]
             t == Unseated(session[g], u)
  <1>1. /\ lobby = Rest /\ connection[u] = "online"
        /\ g \in listed /\ g \in GameId /\ ~Unborn(g) /\ session[g].kind = KindOf(u)
        /\ session' = [session EXCEPT ![g] = t]
        /\ gameId' = LeavesGame(u, g)
        /\ listed' = IF IsEmptied(t.currentPlayers) THEN Without(g) ELSE listed
        /\ UNCHANGED <<connection, named, isHost, hasAddr, told, nextGame, lobby, discovery>>
    BY ListedIsBorn DEF CancelGame, Handles, IsListed
  <1>2. session[g] \in Session /\ u # None
    BY <1>1, ConstantsAssumption DEF IInv, TypeOK
  <1>3. /\ t \in Session /\ t.kind = session[g].kind /\ t.name = session[g].name
        /\ t.state = session[g].state
        /\ t.members = [i \in Seat |-> IF session[g].members[i] = u THEN None ELSE session[g].members[i]]
        /\ t.maximumPlayers = session[g].maximumPlayers
    BY <1>2, UnseatedFacts
  <1>4. \A i \in Seat : t.members[i] = IF session[g].members[i] = u THEN None ELSE session[g].members[i]
    BY <1>3
  <1> HIDE DEF t
  <1>5. session'[g] = t /\ \A h \in GameId : h # g => session'[h] = session[h]
    BY <1>1 DEF IInv, TypeOK
  <1>6. listed' \subseteq listed
    BY <1>1 DEF Without
  <1>7. /\ \A w \in User : w # u => gameId'[w] = gameId[w]
        /\ gameId'[u] \in {g, NoGame}
        /\ u \in Members(g) => gameId'[u] = NoGame
        /\ gameId' \in [User -> GameId \cup {NoGame}]
    BY <1>1 DEF LeavesGame, IInv, TypeOK
  <1>8. ~Creating /\ ~Creating'
    BY <1>1 DEF Creating, Rest
  <1>9. TypeOK'
    <2>1. session' \in [GameId -> Session]
      BY <1>1, <1>3 DEF IInv, TypeOK
    <2> QED
      BY <1>1, <1>6, <1>7, <2>1 DEF IInv, TypeOK
  <1>10. LobbyInv' /\ LeavingInv' /\ NameInv'
    BY <1>1, <1>8 DEF LobbyInv, LeavingInv, NameInv, WithGame, OwnGame, Rest
  <1>11. CreationInv'
    <2>1. \A h \in GameId : Unborn(h)' => Unborn(h) /\ h # g
      BY <1>1, <1>8 DEF Unborn
    <2>2. \A w \in User : gameId'[w] < nextGame'
      <3>1. NoGame < nextGame
        BY ConstantsAssumption DEF NoGame, IInv, TypeOK
      <3> QED
        BY <1>1, <1>7, <3>1 DEF IInv, CreationInv
    <2>3. \A h \in GameId : Unborn(h)' => \A w \in User : gameId'[w] # h
      BY <1>7, <1>8, <2>1, GameIdsAreNumbers DEF IInv, CreationInv
    <2> QED
      BY <1>5, <1>6, <1>8, <2>1, <2>2, <2>3 DEF IInv, CreationInv
  <1>12. DiscoveryInv'
    <2>1. \A h \in GameId : session'[h].state = session[h].state
      BY <1>3, <1>5
    <2> QED
      BY <1>1, <1>8, <2>1 DEF IInv, DiscoveryInv, Unborn, Found, DiscoveryPC
  <1>13. KindInv' /\ FreshInv'
    BY <1>1, <1>3, <1>5, <1>7 DEF IInv, TypeOK, KindInv, FreshInv
  <1>14. HostFlagMeansOwner'
    <2> SUFFICES ASSUME NEW w \in User, Settled(w), isHost[w], gameId'[w] \in listed', connection[w] = "online"
                 PROVE  session'[gameId'[w]].members[0] = w
      BY <1>1 DEF HostFlagMeansOwner, Settled
    <2>1. gameId'[w] = gameId[w] /\ gameId[w] \in listed /\ gameId[w] \in GameId
      BY <1>6, <1>7, GameIdsAreNumbers DEF IInv, TypeOK
    <2>2. session[gameId[w]].members[0] = w
      BY <2>1 DEF IInv, HostFlagMeansOwner
    <2>3. w # u \/ gameId[w] # g
      <3> SUFFICES ASSUME w = u PROVE FALSE
        BY <2>1
      <3>1. u \in Members(g)
        BY <1>1, <1>2, <2>2, ConstantsAssumption DEF Members, Locked, Alive, Seat
      <3> QED
        BY <1>7, <2>1, <3>1, GameIdsAreNumbers
    <2>4. 0 \in Seat
      BY ConstantsAssumption DEF Seat
    <2> QED
      BY <1>4, <1>5, <2>1, <2>2, <2>3, <2>4
  <1>15. NoGameOutlivesItsHost'
    <2>1. 0 \in Seat
      BY ConstantsAssumption DEF Seat
    <2>2. session'[g].members[0] \in {None, session[g].members[0]}
      BY <1>4, <1>5, <2>1
    <2> QED
      BY <1>1, <1>5, <1>6, <1>7, <2>2, FirstSeat, ListedIsBorn DEF IInv, NoGameOutlivesItsHost
  <1>16. NoDoubleSeat'
    BY <1>4, <1>5 DEF IInv, NoDoubleSeat
  <1>17. ListedNotStarted'
    BY <1>3, <1>5, <1>6, ListedIsBorn DEF IInv, ListedNotStarted
  <1> QED
    BY <1>9, <1>10, <1>11, <1>12, <1>13, <1>14, <1>15, <1>16, <1>17 DEF IInv

LEMMA CountsReported ==
  ASSUME IInv, NEW u \in User, NEW c \in Reports, UpdateGameData(u, c)
  PROVE  IInv'
  <1> DEFINE g == gameId[u]
             t == [session[g] EXCEPT !.currentPlayers = c[1], !.maximumPlayers = c[2]]
  <1>1. /\ lobby = Rest /\ g \in listed /\ g \in GameId /\ ~Unborn(g)
        /\ session' = [session EXCEPT ![g] = t]
        /\ UNCHANGED <<userVars, nextGame, listed, lobby, discovery>>
    BY ListedIsBorn DEF UpdateGameData, Handles, IsListed
  <1>2. c[1] \in Int8 /\ c[2] \in Int8
    BY ConstantsAssumption
  <1>3. session[g] \in Session
    BY <1>1 DEF IInv, TypeOK
  <1>4. /\ t \in Session /\ t.kind = session[g].kind /\ t.members = session[g].members
        /\ t.state = session[g].state /\ t.name = session[g].name
    BY <1>2, <1>3 DEF Session
  <1> HIDE DEF t
  <1>5. session'[g] = t /\ \A h \in GameId : h # g => session'[h] = session[h]
    BY <1>1 DEF IInv, TypeOK
  <1>6. \A h \in GameId : /\ session'[h].kind = session[h].kind
                          /\ session'[h].members = session[h].members
                          /\ session'[h].state = session[h].state
    BY <1>4, <1>5
  <1>7. ~Creating /\ ~Creating'
    BY <1>1 DEF Creating, Rest
  <1>8. TypeOK'
    <2>1. session' \in [GameId -> Session]
      BY <1>1, <1>4 DEF IInv, TypeOK
    <2> QED
      BY <1>1, <2>1 DEF IInv, TypeOK, userVars
  <1>9. LobbyInv' /\ LeavingInv' /\ NameInv' /\ FreshInv'
    BY <1>1, <1>7 DEF IInv, LobbyInv, LeavingInv, NameInv, FreshInv, WithGame, OwnGame, Rest, userVars
  <1>10. CreationInv'
    BY <1>1, <1>5, <1>7 DEF IInv, CreationInv, Unborn, userVars
  <1>11. DiscoveryInv'
    BY <1>1, <1>6, <1>7 DEF IInv, DiscoveryInv, Unborn, Found, DiscoveryPC
  <1>12. KindInv'
    BY <1>1, <1>6 DEF IInv, TypeOK, KindInv, userVars
  <1>13. HostFlagMeansOwner' /\ NoGameOutlivesItsHost' /\ NoDoubleSeat' /\ ListedNotStarted'
    BY <1>1, <1>6, ListedIsBorn
    DEF IInv, HostFlagMeansOwner, Settled, NoGameOutlivesItsHost, NoDoubleSeat, ListedNotStarted, userVars
  <1> QED
    BY <1>8, <1>9, <1>10, <1>11, <1>12, <1>13 DEF IInv

LEMMA GameStarted ==
  ASSUME IInv, StartCloses
  PROVE  IInv'
  <1> DEFINE g == lobby.game
             t == [session[g] EXCEPT !.state = "Started"]
  <1>1. /\ lobby.pc = "start" /\ lobby' = Rest
        /\ session' = [session EXCEPT ![g] = t]
        /\ listed' = listed \ {g}
        /\ UNCHANGED <<userVars, nextGame, discovery>>
    BY DEF StartCloses, LobbyAt, Without
  <1>2. g \in GameId /\ g < nextGame /\ session[g] \in Session
    BY <1>1 DEF IInv, TypeOK, LobbyInv, WithGame, LobbyPC
  <1>3. ~Creating /\ ~Creating'
    BY <1>1 DEF Creating, Rest
  <1>4. \A h \in GameId : Unborn(h)' => Unborn(h) /\ h # g
    BY <1>1, <1>2, <1>3, GameIdsAreNumbers, ConstantsAssumption DEF Unborn, IInv, TypeOK
  <1>5. /\ t \in Session /\ t.kind = session[g].kind /\ t.members = session[g].members
        /\ t.state = "Started"
        /\ t.currentPlayers = session[g].currentPlayers
        /\ t.maximumPlayers = session[g].maximumPlayers
    BY <1>2 DEF Session
  <1> HIDE DEF t
  <1>6. session'[g] = t /\ \A h \in GameId : h # g => session'[h] = session[h]
    BY <1>1, <1>2 DEF IInv, TypeOK
  <1>7. \A h \in GameId : /\ session'[h].kind = session[h].kind
                          /\ session'[h].members = session[h].members
                          /\ session'[h].currentPlayers = session[h].currentPlayers
                          /\ session'[h].maximumPlayers = session[h].maximumPlayers
                          /\ session'[h].state \in {session[h].state, "Started"}
    BY <1>5, <1>6
  <1>8. TypeOK'
    <2>1. session' \in [GameId -> Session]
      BY <1>1, <1>2, <1>5 DEF IInv, TypeOK
    <2>2. lobby' \in [pc : LobbyPC, user : User \cup {None}, game : GameId \cup {NoGame}]
      BY <1>1 DEF Rest, LobbyPC
    <2> QED
      BY <1>1, <2>1, <2>2 DEF IInv, TypeOK, userVars
  <1>9. LobbyInv' /\ LeavingInv' /\ NameInv' /\ FreshInv'
    BY <1>1, <1>3 DEF IInv, LobbyInv, LeavingInv, NameInv, FreshInv, WithGame, OwnGame, Rest, userVars
  <1>10. CreationInv'
    BY <1>1, <1>3, <1>4, <1>6 DEF IInv, CreationInv, userVars
  <1>11. DiscoveryInv'
    BY <1>1, <1>4, <1>7 DEF IInv, DiscoveryInv, Found, DiscoveryPC
  <1>12. KindInv'
    BY <1>1, <1>7 DEF IInv, TypeOK, KindInv, userVars
  <1>13. HostFlagMeansOwner'
    <2> SUFFICES ASSUME NEW w \in User, isHost[w], gameId[w] \in listed', connection[w] = "online"
                 PROVE  session'[gameId[w]].members[0] = w
      BY <1>1 DEF HostFlagMeansOwner, userVars
    <2>1. gameId[w] \in listed /\ gameId[w] # g /\ gameId[w] \in GameId
      BY <1>1 DEF IInv, TypeOK
    <2>2. w # lobby.user
      BY <1>1, <2>1 DEF IInv, LobbyInv, OwnGame
    <2> QED
      BY <1>7, <2>1, <2>2 DEF IInv, HostFlagMeansOwner, Settled
  <1>14. NoGameOutlivesItsHost' /\ NoDoubleSeat'
    BY <1>1, <1>7, ListedIsBorn DEF IInv, NoGameOutlivesItsHost, NoDoubleSeat, userVars
  <1>15. ListedNotStarted'
    BY <1>1, <1>6, ListedIsBorn DEF IInv, ListedNotStarted
  <1> QED
    BY <1>8, <1>9, <1>10, <1>11, <1>12, <1>13, <1>14, <1>15 DEF IInv

LEMMA GameOpened ==
  ASSUME IInv, OpenSets
  PROVE  IInv'
  <1> DEFINE g == discovery.game
             addr == IF hasAddr[discovery.user] THEN discovery.user ELSE None
             t == [session[g] EXCEPT !.hostAddr = addr, !.state = "Open"]
  <1>1. /\ discovery.pc = "openSet" /\ discovery' = [discovery EXCEPT !.pc = "openTell"]
        /\ session' = [session EXCEPT ![g] = t]
        /\ UNCHANGED <<userVars, nextGame, listed, lobby>>
    BY DEF OpenSets, DiscoveryAt, DiscoveryTo
  <1>2. /\ g \in GameId /\ ~Unborn(g) /\ session[g] \in Session
        /\ discovery.user \in User
    BY <1>1 DEF IInv, TypeOK, DiscoveryInv, Found, DiscoveryPC
  <1>3. /\ t \in Session /\ t.kind = session[g].kind /\ t.members = session[g].members
        /\ t.public = session[g].public /\ t.name = session[g].name
        /\ t.state = "Open"
        /\ t.currentPlayers = session[g].currentPlayers
        /\ t.maximumPlayers = session[g].maximumPlayers
    BY <1>2 DEF Session
  <1> HIDE DEF t
  <1>4. session'[g] = t /\ \A h \in GameId : h # g => session'[h] = session[h]
    BY <1>1, <1>2 DEF IInv, TypeOK
  <1>5. \A h \in GameId : /\ session'[h].kind = session[h].kind
                          /\ session'[h].members = session[h].members
                          /\ session'[h].currentPlayers = session[h].currentPlayers
                          /\ session'[h].maximumPlayers = session[h].maximumPlayers
                          /\ session'[h].public = session[h].public
                          /\ session'[h].name = session[h].name
                          /\ session'[h].state \in {session[h].state, "Open"}
    BY <1>3, <1>4
  <1>6. /\ discovery'.pc = "openTell" /\ discovery'.user = discovery.user
        /\ discovery'.game = g /\ discovery'.host = discovery.host
    BY <1>1 DEF IInv, TypeOK
  <1>7. TypeOK'
    <2>1. session' \in [GameId -> Session]
      BY <1>1, <1>2, <1>3 DEF IInv, TypeOK
    <2>2. discovery' \in [pc : DiscoveryPC, user : User \cup {None},
                          game : GameId \cup {NoGame}, host : User \cup {None}]
      BY <1>1 DEF IInv, TypeOK, DiscoveryPC
    <2> QED
      BY <1>1, <2>1, <2>2 DEF IInv, TypeOK, userVars
  <1>8. LobbyInv'
    BY <1>1, <1>5 DEF IInv, LobbyInv, WithGame, OwnGame, LobbyPC, userVars
  <1>9. Creating' = Creating /\ \A h \in GameId : Unborn(h)' <=> Unborn(h)
    BY <1>1 DEF Creating, Unborn
  <1>10. CreationInv'
    BY <1>1, <1>2, <1>4, <1>9 DEF IInv, CreationInv, userVars
  <1>11. DiscoveryInv'
    BY <1>2, <1>6, <1>9 DEF DiscoveryInv
  <1>12. KindInv' /\ FreshInv' /\ LeavingInv'
    BY <1>1, <1>5, ListedIsBorn DEF IInv, TypeOK, KindInv, FreshInv, LeavingInv, userVars
  <1>13. NameInv'
    <2>1. Creating => lobby.game \in GameId
      BY DEF IInv, LobbyInv, Creating, WithGame, LobbyPC
    <2> QED
      BY <1>1, <1>5, <1>9, <2>1, ListedIsBorn DEF IInv, NameInv
  <1>14. HostFlagMeansOwner' /\ NoGameOutlivesItsHost' /\ NoDoubleSeat'
    BY <1>1, <1>5, ListedIsBorn
    DEF IInv, HostFlagMeansOwner, Settled, NoGameOutlivesItsHost, NoDoubleSeat, userVars
  <1>15. ListedNotStarted'
    BY <1>1, <1>5, ListedIsBorn DEF IInv, ListedNotStarted
  <1> QED
    BY <1>7, <1>8, <1>10, <1>11, <1>12, <1>13, <1>14, <1>15 DEF IInv

-----------------------------------------------------------------------------
(* The invariant is inductive.                                             *)

LEMMA InvNext ==
  ASSUME IInv, [Next]_vars
  PROVE  IInv'
  <1>1. CASE UNCHANGED vars
    <2> USE <1>1 DEF vars, userVars
    <2>1. TypeOK' /\ DiscoveryInv'
      BY DEF IInv, TypeOK, DiscoveryInv, Unborn, Creating
    <2> QED
      BY <2>1, DiscoveryFrame
  <1>2. ASSUME NEW u \in User, Connect(u) \/ Receive(u) \/ Free(u) PROVE IInv'
    BY <1>2, UsersComeAndGo, DiscoveryReads
  <1>3. ASSUME NEW u \in User, Request(u) PROVE IInv'
    <2>1. ASSUME NEW n \in Name, CreatePublicGame(u, n) \/ CreatePrivateGame(u, n) PROVE IInv'
      BY <2>1, GameRequested
    <2>2. CASE (\E n \in Name : GetGame(u, n)) \/ StartGame(u) \/ Disconnect(u)
      BY <2>2, LobbyLooksUp
    <2>3. ASSUME NEW a \in Asked, CreateGame_RTA(u, a[1], a[2]) PROVE IInv'
      <3>1. a[1] \in Name /\ a[2] \in BOOLEAN
        BY ConstantsAssumption
      <3> QED
        BY <2>3, <3>1, GameRequested
    <2>4. ASSUME NEW g \in GameId, DoClientDiscovery(u, g) \/ DoClientDiscovery_RTA(u, g) PROVE IInv'
      BY <2>4, LobbyLooksUp
    <2>5. CASE UserJoinSuccess(u)
      BY <2>5, MemberSeated
    <2>6. CASE CancelGame(u)
      BY <2>6, MemberCancels
    <2>7. CASE Login(u)
      BY <2>7, UserNamed
    <2>8. ASSUME NEW c \in Reports, UpdateGameData(u, c) PROVE IInv'
      BY <2>8, CountsReported
    <2> QED
      BY <1>3, <2>1, <2>2, <2>3, <2>4, <2>5, <2>6, <2>7, <2>8 DEF Request
  <1>4. CASE LobbyStep
    BY <1>4, CreatorWrites, CreatorWritesAgain, SessionListed, GuestWrites, GameStarted,
       GameLeavesTheList, UserErased DEF LobbyStep
  <1>5. CASE DiscoveryStep
    <2>1. CASE OpenSets \/ JoinTerminates
      BY <2>1, GameOpened, GameLeavesTheList
    <2>2. CASE ~(OpenSets \/ JoinTerminates)
      <3>1. discovery.pc # "idle"
        BY <1>5 DEF DiscoveryStep, DiscoveryAt, RecordAddress, ReadRole, ReadGameId, FindGame,
             OpenReadsState, OpenReadsAddr, OpenSets, JoinReadsState, JoinReadsOwner,
             JoinReadsAddr, JoinTerminates, Tell
      <3>2. discovery.user \in User
        BY <3>1 DEF IInv, DiscoveryInv
      <3> QED
        BY <1>5, <2>2, <3>2, DiscoveryReads DEF DiscoveryStep
    <2> QED
      BY <2>1, <2>2
  <1> QED
    BY <1>1, <1>2, <1>3, <1>4, <1>5 DEF Next

(* Every reachable state of the two threads satisfies the inductive         *)
(* invariant.                                                               *)
THEOREM InvariantHolds == Spec => []IInv
  <1> QED
    BY InitInv, InvNext, PTL DEF Spec

(* The fields of users, sessions and threads keep their types, whatever     *)
(* counts clients report: a join never increments past the end of int8_t.   *)
THEOREM TypeCorrect == Spec => []TypeOK
  <1>1. IInv => TypeOK
    BY DEF IInv
  <1> QED
    BY <1>1, InvariantHolds, PTL

(* A user whom the discovery thread may take for the host of a listed game  *)
(* owns it.                                                                 *)
THEOREM HostFlagIsRight == Spec => []HostFlagMeansOwner
  <1>1. IInv => HostFlagMeansOwner
    BY DEF IInv
  <1> QED
    BY <1>1, InvariantHolds, PTL

(* OnDisconnectUser leaves no game of the user who goes.                    *)
THEOREM GamesEndWithHosts == Spec => []NoGameOutlivesItsHost
  <1>1. IInv => NoGameOutlivesItsHost
    BY DEF IInv
  <1> QED
    BY <1>1, InvariantHolds, PTL

(* AddMember never gives a user a second seat.                              *)
THEOREM SeatsAreSingle == Spec => []NoDoubleSeat
  <1>1. IInv => NoDoubleSeat
    BY DEF IInv
  <1> QED
    BY <1>1, InvariantHolds, PTL

(* RequestStart, the late packets and the list: no started game is listed.  *)
THEOREM StartedGamesLeave == Spec => []ListedNotStarted
  <1>1. IInv => ListedNotStarted
    BY DEF IInv
  <1> QED
    BY <1>1, InvariantHolds, PTL

-----------------------------------------------------------------------------

LEMMA SeatStep ==
  ASSUME IInv, [Next]_vars, NEW g \in GameId, NEW i \in Seat,
         Locked(g, i) # None, session'[g].members[i] # Locked(g, i)
  PROVE  gameId[Locked(g, i)] = g /\ gameId'[Locked(g, i)] = NoGame
  <1> DEFINE u == Locked(g, i)
  <1>1. u = session[g].members[i] /\ Alive(u)
    BY DEF Locked
  <1>2. session[g] \in Session
    BY DEF IInv, TypeOK
  <1>3. u \in User
    BY <1>1, <1>2 DEF Session
  <1>4. ~Unborn(g)
    BY <1>1, ConstantsAssumption DEF IInv, CreationInv
  <1>5. session'[g].members # session[g].members
    BY <1>1
  <1>6. ASSUME NEW v \in User, NEW k, NEW p, NEW n, MakeSession(v, k, p, n) PROVE FALSE
    BY <1>4, <1>5, <1>6, GameIdsAreNumbers, ConstantsAssumption DEF MakeSession, Unborn, IInv, TypeOK
  <1>7. ~CreateLists
    <2> SUFFICES ASSUME CreateLists PROVE FALSE
      OBVIOUS
    <2>1. Unborn(lobby.game)
      BY DEF CreateLists, LobbyAt, Unborn, Creating
    <2> QED
      BY <1>4, <1>5, <2>1 DEF CreateLists, IInv, TypeOK
  <1>8. ~StartCloses /\ ~OpenSets
    <2>1. ~StartCloses
      BY <1>2, <1>5 DEF StartCloses, IInv, TypeOK, Session
    <2>2. ASSUME OpenSets PROVE FALSE
      <3>1. PICK addr : session' = [session EXCEPT ![discovery.game] = [@ EXCEPT !.hostAddr = addr, !.state = "Open"]]
        BY <2>2 DEF OpenSets
      <3> QED
        BY <1>2, <1>5, <3>1 DEF IInv, TypeOK, Session
    <2> QED
      BY <2>1, <2>2
  <1>9. ASSUME NEW v \in User, NEW c \in Reports, UpdateGameData(v, c) PROVE FALSE
    BY <1>2, <1>5, <1>9 DEF UpdateGameData, IInv, TypeOK, Session
  <1>10. ASSUME NEW v \in User, UserJoinSuccess(v) PROVE FALSE
    <2>1. PICK j \in Seat : /\ j \in FreeSeats(gameId[v])
                            /\ session' = [session EXCEPT ![gameId[v]] = Seated(@, j, v)]
      BY <1>10 DEF UserJoinSuccess, IsFirst, FreeSeats
    <2>2. gameId[v] = g
      BY <1>5, <2>1 DEF IInv, TypeOK
    <2>3. j # i
      BY <2>1, <2>2 DEF FreeSeats
    <2>4. session'[g] = Seated(session[g], j, v)
      BY <2>1, <2>2 DEF IInv, TypeOK
    <2>5. session'[g].members = [session[g].members EXCEPT ![j] = v]
      BY <1>2, <2>4 DEF Seated, Session
    <2> QED
      BY <1>1, <1>2, <2>3, <2>5 DEF Session
  <1>11. ASSUME NEW v \in User, CancelGame(v) PROVE gameId[u] = g /\ gameId'[u] = NoGame
    <2>1. /\ session' = [session EXCEPT ![gameId[v]] = Unseated(@, v)]
          /\ gameId' = LeavesGame(v, gameId[v])
      BY <1>11 DEF CancelGame
    <2>2. gameId[v] = g
      BY <1>5, <2>1 DEF IInv, TypeOK
    <2>3. session'[g] = Unseated(session[g], v)
      BY <2>1, <2>2 DEF IInv, TypeOK
    <2>4. session'[g].members = [k \in Seat |-> IF session[g].members[k] = v THEN None ELSE session[g].members[k]]
      BY <1>2, <2>3 DEF Unseated, Session
    <2>5. u = v
      BY <1>1, <2>4
    <2>6. u \in Members(g)
      BY <1>3, ConstantsAssumption DEF Members
    <2> QED
      BY <2>1, <2>2, <2>5, <2>6 DEF LeavesGame, IInv, TypeOK
  <1>12. \E v \in User : CancelGame(v)
    <2>1. CASE UNCHANGED vars
      BY <1>5, <2>1 DEF vars
    <2>2. ASSUME NEW v \in User, Connect(v) \/ Receive(v) \/ Free(v) PROVE FALSE
      BY <1>5, <2>2 DEF Connect, Receive, Free
    <2>3. ASSUME NEW v \in User, Request(v) PROVE CancelGame(v)
      BY <1>5, <1>6, <1>9, <1>10, <2>3
      DEF Request, Login, CreatePublicGame, CreatePrivateGame, CreateGame_RTA, GetGame, DoClientDiscovery,
          DoClientDiscovery_RTA, StartGame, Disconnect
    <2>4. CASE LobbyStep
      BY <1>5, <1>7, <1>8, <2>4 DEF LobbyStep, CreateSetsHost, CreateSetsGame, CreateResetsAddr,
         CreateResetsHostAgain, GuestClearsFlag, GuestSetsGame, DisconnectTerminates, DisconnectErases
    <2>5. CASE DiscoveryStep
      BY <1>5, <1>8, <2>5 DEF DiscoveryStep, RecordAddress, ReadRole, ReadGameId, FindGame, OpenReadsState,
         OpenReadsAddr, JoinReadsState, JoinReadsOwner, JoinReadsAddr, JoinTerminates, Tell
    <2> QED
      BY <2>1, <2>2, <2>3, <2>4, <2>5 DEF Next
  <1> QED
    BY <1>11, <1>12

(* A live member leaves a seat by their own cancel only, and is left        *)
(* without a game.                                                          *)
THEOREM SeatsAreKept == Spec => SeatKeptUntilCancel
  <1> DEFINE Kept == \A g \in GameId, i \in Seat :
               LET u == Locked(g, i) IN
               u # None /\ session'[g].members[i] # u
                 => gameId[u] = g /\ gameId'[u] = NoGame
  <1>1. IInv /\ [Next]_vars => [Kept]_vars
    BY SeatStep
  <1> QED
    BY <1>1, InvariantHolds, PTL DEF Spec, SeatKeptUntilCancel
=============================================================================
