------------------------ MODULE GameSessionsRefines ------------------------
(***************************************************************************)
(* The two threads of GameSessions implement GameDirectory, for every      *)
(* value of the constants: each of their steps is a step of the directory  *)
(* or changes nothing of what it shows.                                    *)
(***************************************************************************)
EXTENDS GameSessionsProofs

LEMMA UnbornIsNew ==
  ASSUME IInv, NEW g \in GameId
  PROVE  /\ Phase(g) = "new" <=> Unborn(g)
         /\ Phase(g) \in {"open", "closed"} <=> g \in listed
  BY ListedIsBorn DEF Phase, Unborn

\* What the directory shows of a game follows from these.
LEMMA SameShown ==
  ASSUME IInv, NEW g \in GameId,
         Unborn(g)' <=> Unborn(g),
         g \in listed' <=> g \in listed,
         g \in listed => (session'[g].state = "Open" <=> session[g].state = "Open")
  PROVE  Phase(g)' = Phase(g)
  BY DEF Phase, Unborn

LEMMA SameTitle ==
  ASSUME IInv, IInv', NEW g \in GameId,
         Unborn(g)' <=> Unborn(g),
         ~Unborn(g) => /\ session'[g].kind = session[g].kind
                       /\ session'[g].public = session[g].public
                       /\ session'[g].name = session[g].name
  PROVE  TitleOf(g)' = TitleOf(g)
  <1>1. (Phase(g) = "new" <=> Unborn(g)) /\ (Phase(g)' = "new" <=> Unborn(g)')
    BY ListedIsBorn DEF Phase, Unborn, IInv, CreationInv
  <1> QED
    BY <1>1 DEF TitleOf, Untitled

LEMMA RefinesInit == Init => Directory!Init
  <1> SUFFICES ASSUME Init PROVE Directory!Init
    OBVIOUS
  <1>1. \A g \in GameId : Phase(g) = "new"
    BY DEF Init, Phase, GameId
  <1>2. \A g \in GameId : TitleOf(g) = Untitled
    BY <1>1 DEF TitleOf
  <1> QED
    BY <1>1, <1>2 DEF Directory!Init

\* A step that draws or lists no id, and ends no game.
LEMMA Stutter ==
  ASSUME IInv, IInv',
         \A g \in GameId : Unborn(g)' <=> Unborn(g),
         listed' = listed,
         \A g \in GameId : ~Unborn(g) =>
            /\ session'[g].kind = session[g].kind
            /\ session'[g].public = session[g].public
            /\ session'[g].name = session[g].name,
         \A g \in listed : session'[g].state = "Open" <=> session[g].state = "Open"
  PROVE  UNCHANGED Directory!vars
  <1>1. \A g \in GameId : Phase(g)' = Phase(g)
    BY SameShown
  <1>2. \A g \in GameId : TitleOf(g)' = TitleOf(g)
    BY SameTitle
  <1>3. [g \in GameId |-> Phase(g)]' = [g \in GameId |-> Phase(g)]
    BY <1>1
  <1>4. [g \in GameId |-> TitleOf(g)]' = [g \in GameId |-> TitleOf(g)]
    BY <1>2
  <1> QED
    BY <1>3, <1>4 DEF Directory!vars

\* A game leaves the list, if it was there.
LEMMA Removal ==
  ASSUME IInv, IInv', NEW g \in GameId,
         \A h \in GameId : Unborn(h)' <=> Unborn(h),
         listed' = listed \ {g},
         \A h \in GameId : ~Unborn(h) =>
            /\ session'[h].kind = session[h].kind
            /\ session'[h].public = session[h].public
            /\ session'[h].name = session[h].name
            /\ h # g => session'[h].state = session[h].state
  PROVE  [Directory!Next]_Directory!vars
  <1>1. CASE g \notin listed
    <2>1. listed' = listed
      BY <1>1
    <2>2. \A h \in listed : h \in GameId /\ h # g /\ ~Unborn(h)
      BY <1>1, ListedIsBorn
    <2>3. UNCHANGED Directory!vars
      BY <2>1, <2>2, Stutter
    <2> QED
      BY <2>3
  <1>2. CASE g \in listed
    <2>1. \A h \in GameId : h # g => Phase(h)' = Phase(h)
      BY SameShown, ListedIsBorn
    <2>2. \A h \in GameId : TitleOf(h)' = TitleOf(h)
      BY SameTitle
    <2>3. Phase(g) \in {"open", "closed"} /\ Phase(g)' = "over"
      BY <1>2, ListedIsBorn DEF Phase, Unborn
    <2>4. Directory!Shown(g)
      BY <2>3 DEF Directory!Shown
    <2>5. [h \in GameId |-> Phase(h)]' = [[h \in GameId |-> Phase(h)] EXCEPT ![g] = "over"]
      BY <2>1, <2>3
    <2>6. [h \in GameId |-> TitleOf(h)]' = [h \in GameId |-> TitleOf(h)]
      BY <2>2
    <2>7. Directory!End(g)
      BY <2>4, <2>5, <2>6 DEF Directory!End
    <2> QED
      BY <2>7 DEF Directory!Next
  <1> QED
    BY <1>1, <1>2

\* Steps that write neither the list nor a session.
LEMMA Invisible ==
  ASSUME IInv, IInv', UNCHANGED <<nextGame, listed, session>>,
         \A g \in GameId : (Creating /\ lobby.game = g)' <=> (Creating /\ lobby.game = g)
  PROVE  UNCHANGED Directory!vars
  <1>1. \A g \in GameId : Unborn(g)' <=> Unborn(g)
    BY DEF Unborn
  <1> QED
    BY <1>1, Stutter

LEMMA RefinesMakeSession ==
  ASSUME IInv, IInv', lobby = Rest, NEW u \in User, NEW k, NEW p, NEW n, MakeSession(u, k, p, n)
  PROVE  UNCHANGED Directory!vars
  <1>1. /\ nextGame \in GameId /\ nextGame' = nextGame + 1
        /\ session' = [session EXCEPT ![nextGame] = NewSession(k, p, n)]
        /\ lobby'.pc = "hostFlag" /\ lobby'.game = nextGame
        /\ listed' = listed
    BY ConstantsAssumption DEF MakeSession, IInv, TypeOK, GameId
  <1>2. \A g \in GameId : Unborn(g)' <=> Unborn(g)
    BY <1>1, GameIdsAreNumbers DEF Unborn, Creating, Rest
  <1>3. Unborn(nextGame)
    BY <1>1, GameIdsAreNumbers DEF Unborn
  <1>4. \A g \in GameId : ~Unborn(g) => session'[g] = session[g]
    BY <1>1, <1>3 DEF IInv, TypeOK
  <1>5. \A g \in listed : g \in GameId /\ session'[g] = session[g]
    BY <1>4, ListedIsBorn
  <1> QED
    BY <1>1, <1>2, <1>4, <1>5, Stutter

LEMMA RefinesCreateLists ==
  ASSUME IInv, IInv', CreateLists
  PROVE  Directory!Next
  <1>0. PICK g \in GameId : g = lobby.game
    BY DEF CreateLists, LobbyAt, IInv, LobbyInv, WithGame, LobbyPC
  <1> DEFINE t == TitleOf(g)'
  <1>1. /\ lobby.user \in User /\ g = nextGame - 1 /\ Creating
        /\ session[g] \in Session /\ g \notin listed /\ Unborn(g)
        /\ session[g].state = "NotReady" /\ session[g].currentPlayers = 0
    BY <1>0 DEF CreateLists, LobbyAt, IInv, LobbyInv, CreationInv, Creating, Unborn, TypeOK
  <1>2. /\ listed' = listed \cup {g} /\ nextGame' = nextGame
        /\ session' = [session EXCEPT ![g] = Seated(@, 0, lobby.user)]
        /\ ~Creating'
    BY <1>0 DEF CreateLists, LobbyAt, LobbyTo, Replied, Creating, Rest, IInv, TypeOK
  <1>3. \A h \in GameId : h # g => session'[h] = session[h]
    BY <1>2 DEF IInv, TypeOK
  <1>4. /\ session'[g].kind = session[g].kind /\ session'[g].public = session[g].public
        /\ session'[g].name = session[g].name /\ session'[g].state = "NotReady"
    <2>1. 0 \in Seat
      BY ConstantsAssumption DEF Seat
    <2>2. session'[g] = Seated(session[g], 0, lobby.user)
      BY <1>2 DEF IInv, TypeOK
    <2>3. session[g].currentPlayers \in -(MaxCount + 1) .. MaxCount - 1
      BY ConstantsAssumption, <1>1
    <2> DEFINE s == Seated(session[g], 0, lobby.user)
    <2>4. /\ s.kind = session[g].kind /\ s.public = session[g].public
          /\ s.name = session[g].name /\ s.state = session[g].state
      BY <1>1, <2>1, <2>3, SeatedFacts
    <2> QED
      BY <1>1, <2>2, <2>4
  <1>5. \A h \in GameId : h # g => (Unborn(h)' <=> Unborn(h))
    BY <1>0, <1>1, <1>2 DEF Unborn
  <1>6. \A h \in GameId : h # g => Phase(h)' = Phase(h) /\ TitleOf(h)' = TitleOf(h)
    BY <1>2, <1>3, <1>5, SameShown, SameTitle
  <1>7. Phase(g) = "new" /\ Phase(g)' = "closed"
    <2>1. Phase(g) = "new"
      BY <1>1, UnbornIsNew
    <2>2. g \in listed' /\ session'[g].state # "Open"
      BY <1>2, <1>4
    <2> QED
      BY <2>1, <2>2 DEF Phase
  <1>8. t = [kind |-> session[g].kind, public |-> session[g].public, name |-> session[g].name]
    BY <1>4, <1>7 DEF TitleOf
  <1>9. t \in Directory!Title
    BY <1>1, <1>8 DEF Directory!Title, Session, Kind
  <1>10. \A h \in GameId : h < g => Phase(h) # "new"
    <2> SUFFICES ASSUME NEW h \in GameId, h < g PROVE ~Unborn(h)
      BY UnbornIsNew
    <2> QED
      BY <1>0, <1>1, GameIdsAreNumbers, ConstantsAssumption DEF Unborn, IInv, TypeOK
  <1>11. Directory!MayTake(t)
    <2>1. t.kind = session[g].kind /\ t.public = session[g].public /\ t.name = session[g].name
      BY <1>8
    <2>2. CASE t.name = NoName \/ (t.kind = "CON" /\ t.public)
      BY <2>2 DEF Directory!MayTake
    <2>3. CASE \A h \in listed : session[h].name # t.name \/ session[h].kind # t.kind
      <3>1. ASSUME NEW h \in GameId, Directory!Shown(h)
            PROVE  h \in listed /\ TitleOf(h).name = session[h].name /\ TitleOf(h).kind = session[h].kind
        <4>1. Phase(h) \in {"open", "closed"}
          BY <3>1 DEF Directory!Shown
        <4> QED
          BY <4>1, UnbornIsNew DEF TitleOf
      <3>2. \A h \in GameId : Directory!Shown(h) =>
              [k \in GameId |-> TitleOf(k)][h].name # t.name \/ [k \in GameId |-> TitleOf(k)][h].kind # t.kind
        BY <2>3, <3>1
      <3> QED
        BY <3>2 DEF Directory!MayTake
    <2> QED
      BY <1>0, <1>1, <2>1, <2>2, <2>3 DEF IInv, NameInv
  <1>12. [h \in GameId |-> Phase(h)]' = [[h \in GameId |-> Phase(h)] EXCEPT ![g] = "closed"]
    BY <1>6, <1>7
  <1>13. [h \in GameId |-> TitleOf(h)]' = [[h \in GameId |-> TitleOf(h)] EXCEPT ![g] = t]
    BY <1>6
  <1>14. Directory!Announce(g, t)
    <2> HIDE DEF t
    <2> QED
      BY <1>1, <1>7, <1>10, <1>11, <1>12, <1>13 DEF Directory!Announce
  <1> QED
    BY <1>1, <1>9, <1>14 DEF Directory!Next

LEMMA RefinesOpenSets ==
  ASSUME IInv, IInv', OpenSets
  PROVE  [Directory!Next]_Directory!vars
  <1>0. PICK g \in GameId : g = discovery.game
    BY DEF OpenSets, DiscoveryAt, IInv, DiscoveryInv, Found, DiscoveryPC
  <1>1. /\ session[g] \in Session /\ session[g].state # "Open"
        /\ UNCHANGED <<nextGame, listed, lobby>>
    BY <1>0 DEF OpenSets, DiscoveryAt, IInv, TypeOK, DiscoveryInv
  <1>2. PICK addr : session' = [session EXCEPT ![g] = [@ EXCEPT !.hostAddr = addr, !.state = "Open"]]
    BY <1>0 DEF OpenSets
  <1>3. /\ \A h \in GameId : h # g => session'[h] = session[h]
        /\ session'[g].kind = session[g].kind /\ session'[g].public = session[g].public
        /\ session'[g].name = session[g].name /\ session'[g].state = "Open"
    BY <1>1, <1>2 DEF IInv, TypeOK, Session
  <1>4. \A h \in GameId : Unborn(h)' <=> Unborn(h)
    BY <1>1 DEF Unborn, Creating
  <1>5. CASE g \notin listed
    <2>1. \A h \in listed : h \in GameId /\ h # g
      BY <1>5, ListedIsBorn
    <2>2. UNCHANGED Directory!vars
      BY <1>1, <1>3, <1>4, <2>1, Stutter
    <2> QED
      BY <2>2
  <1>6. CASE g \in listed
    <2>1. \A h \in GameId : h # g => Phase(h)' = Phase(h)
      BY <1>1, <1>3, <1>4, SameShown
    <2>2. \A h \in GameId : TitleOf(h)' = TitleOf(h)
      BY <1>3, <1>4, SameTitle
    <2>3. Phase(g) = "closed" /\ Phase(g)' = "open"
      BY <1>1, <1>3, <1>6 DEF Phase
    <2>4. [h \in GameId |-> Phase(h)]' = [[h \in GameId |-> Phase(h)] EXCEPT ![g] = "open"]
      BY <2>1, <2>3
    <2>5. [h \in GameId |-> TitleOf(h)]' = [h \in GameId |-> TitleOf(h)]
      BY <2>2
    <2>6. Directory!Open(g)
      BY <2>3, <2>4, <2>5 DEF Directory!Open
    <2> QED
      BY <2>6 DEF Directory!Next
  <1> QED
    BY <1>5, <1>6

LEMMA RefinesListedChanges ==
  ASSUME IInv, IInv', NEW u \in User,
         \/ UserJoinSuccess(u) \/ CancelGame(u)
         \/ \E c \in Reports : UpdateGameData(u, c)
  PROVE  [Directory!Next]_Directory!vars
  <1>0. PICK g \in GameId : g = gameId[u]
    BY DEF UserJoinSuccess, CancelGame, UpdateGameData, IInv, TypeOK
  <1>1. /\ UNCHANGED <<nextGame, lobby>>
        /\ session[g] \in Session
        /\ g \in listed
    <2>1. UNCHANGED <<nextGame, lobby>> /\ g \in listed
      BY <1>0 DEF UserJoinSuccess, CancelGame, UpdateGameData, IsListed
    <2> QED
      BY <2>1 DEF IInv, TypeOK
  <1>2. \A h \in GameId : Unborn(h)' <=> Unborn(h)
    BY <1>1 DEF Unborn, Creating
  <1> DEFINE Kept(h) == /\ session'[h].kind = session[h].kind
                        /\ session'[h].public = session[h].public
                        /\ session'[h].name = session[h].name
                        /\ session'[h].state = session[h].state
  <1>3. ASSUME NEW t \in Session, session' = [session EXCEPT ![g] = t],
               t.kind = session[g].kind, t.public = session[g].public,
               t.name = session[g].name, t.state = session[g].state
        PROVE  \A h \in GameId : Kept(h)
    BY <1>3 DEF IInv, TypeOK
  <1>4. CASE UserJoinSuccess(u)
    <2>1. PICK i \in Seat : session' = [session EXCEPT ![g] = Seated(@, i, u)]
      BY <1>0, <1>4 DEF UserJoinSuccess
    <2>2. /\ session[g].currentPlayers < session[g].maximumPlayers
          /\ session[g].currentPlayers \in Int8 /\ session[g].maximumPlayers \in Int8
      BY <1>0, <1>1, <1>4 DEF UserJoinSuccess, CanSeat, HasRoom, Session
    <2>3. session[g].currentPlayers \in -(MaxCount + 1) .. MaxCount - 1
      BY ConstantsAssumption, <2>2 DEF Int8
    <2>4. \A h \in GameId : Kept(h)
      <3> DEFINE t == Seated(session[g], i, u)
      <3>1. /\ t \in Session /\ t.kind = session[g].kind /\ t.public = session[g].public
            /\ t.name = session[g].name /\ t.state = session[g].state
        BY <1>1, <2>3, SeatedFacts
      <3>2. session' = [session EXCEPT ![g] = t]
        BY <2>1
      <3> HIDE DEF t
      <3> QED
        BY <1>3, <3>1, <3>2
    <2>5. listed' = listed
      BY <1>4 DEF UserJoinSuccess
    <2>6. UNCHANGED Directory!vars
      BY <1>2, <2>4, <2>5, Stutter, ListedIsBorn
    <2> QED
      BY <2>6
  <1>5. CASE CancelGame(u)
    <2>1. /\ session' = [session EXCEPT ![g] = Unseated(@, u)]
          /\ listed' = listed \/ listed' = listed \ {g}
      BY <1>0, <1>5 DEF CancelGame, Without
    <2>2. \A h \in GameId : Kept(h)
      BY <1>1, <1>3, <2>1, UnseatedFacts
    <2>3. CASE listed' = listed
      <3>1. UNCHANGED Directory!vars
        BY <1>2, <2>2, <2>3, Stutter, ListedIsBorn
      <3> QED
        BY <3>1
    <2>4. CASE listed' = listed \ {g}
      BY <1>2, <2>2, <2>4, Removal
    <2> QED
      BY <2>1, <2>3, <2>4
  <1>6. ASSUME NEW c \in Reports, UpdateGameData(u, c) PROVE UNCHANGED Directory!vars
    <2>1. /\ session' = [session EXCEPT ![g] = [@ EXCEPT !.currentPlayers = c[1], !.maximumPlayers = c[2]]]
          /\ listed' = listed
      BY <1>0, <1>6 DEF UpdateGameData
    <2>2. \A h \in GameId : Kept(h)
      BY <1>1, <2>1 DEF IInv, TypeOK, Session
    <2> QED
      BY <1>2, <2>1, <2>2, Stutter, ListedIsBorn
  <1> QED
    BY <1>4, <1>5, <1>6

LEMMA RefinesRemovals ==
  ASSUME IInv, IInv', StartCloses \/ DisconnectTerminates \/ JoinTerminates
  PROVE  [Directory!Next]_Directory!vars
  <1> USE DEF StartCloses, DisconnectTerminates, JoinTerminates, LobbyAt, LobbyTo, DiscoveryAt, Without
  <1>1. PICK g \in GameId : /\ listed' = listed \ {g}
                            /\ session' = session \/ session' = [session EXCEPT ![g] = [@ EXCEPT !.state = "Started"]]
    BY DEF IInv, LobbyInv, WithGame, LobbyPC, DiscoveryInv, Found, DiscoveryPC
  <1>2. \A h \in GameId : Unborn(h)' <=> Unborn(h)
    BY DEF Unborn, Creating, Rest, IInv, TypeOK
  <1>3. \A h \in GameId : /\ session'[h].kind = session[h].kind
                          /\ session'[h].public = session[h].public
                          /\ session'[h].name = session[h].name
                          /\ h # g => session'[h].state = session[h].state
    BY <1>1 DEF IInv, TypeOK, Session
  <1> QED
    BY <1>1, <1>2, <1>3, Removal

LEMMA RefinesNext ==
  ASSUME IInv, IInv', [Next]_vars
  PROVE  [Directory!Next]_Directory!vars
  <1> DEFINE Still == UNCHANGED Directory!vars
  <1>1. CASE UNCHANGED vars
    <2>1. Still
      BY <1>1, Invisible DEF vars, Creating
    <2> QED
      BY <2>1
  <1>2. ASSUME NEW u \in User, Connect(u) \/ Receive(u) \/ Free(u) PROVE Still
    BY <1>2, Invisible DEF Connect, Receive, Free, Creating
  <1>3. ASSUME NEW u \in User, Request(u) PROVE [Directory!Next]_Directory!vars
    <2>1. CASE \E n \in Name : CreatePublicGame(u, n) \/ CreatePrivateGame(u, n)
      <3>1. Still
        BY <2>1, RefinesMakeSession DEF CreatePublicGame, CreatePrivateGame, Handles
      <3> QED
        BY <3>1
    <2>2. CASE \E a \in Asked : CreateGame_RTA(u, a[1], a[2])
      <3>1. Still
        BY <2>2, RefinesMakeSession DEF CreateGame_RTA, Handles
      <3> QED
        BY <3>1
    <2>3. CASE \/ \E n \in Name : GetGame(u, n)
               \/ \E g \in GameId : DoClientDiscovery(u, g) \/ DoClientDiscovery_RTA(u, g)
               \/ StartGame(u) \/ Disconnect(u) \/ Login(u)
      <3>1. UNCHANGED <<nextGame, listed, session>> /\ ~Creating /\ ~Creating'
        BY <2>3 DEF GetGame, DoClientDiscovery, DoClientDiscovery_RTA, StartGame, Disconnect, Login,
           Handles, Creating, Rest
      <3>2. Still
        BY <3>1, Invisible
      <3> QED
        BY <3>2
    <2> QED
      BY <1>3, <2>1, <2>2, <2>3, RefinesListedChanges DEF Request
  <1>4. CASE LobbyStep
    <2>1. CASE CreateSetsHost \/ CreateSetsGame \/ CreateResetsAddr
      <3>1. /\ UNCHANGED <<nextGame, listed, session>>
            /\ Creating /\ Creating' /\ lobby'.game = lobby.game
        BY <2>1 DEF CreateSetsHost, CreateSetsGame, CreateResetsAddr, LobbyAt, LobbyTo, Creating, IInv, TypeOK
      <3>2. Still
        BY <3>1, Invisible
      <3> QED
        BY <3>2
    <2>2. CASE CreateLists
      BY <2>2, RefinesCreateLists
    <2>3. CASE CreateResetsHostAgain \/ GuestClearsFlag \/ GuestSetsGame \/ DisconnectErases
      <3> USE DEF CreateResetsHostAgain, GuestClearsFlag, GuestSetsGame, DisconnectErases,
                  LobbyAt, LobbyTo, Replied
      <3>1. UNCHANGED <<nextGame, listed, session>> /\ ~Creating
        BY <2>3 DEF Creating
      <3>2. lobby' = Rest \/ \E pc \in {"seekGame", "guestGame", "norrathFlag"} : lobby' = [lobby EXCEPT !.pc = pc]
        BY <2>3
      <3>3. ~Creating'
        BY <3>2 DEF Creating, Rest, IInv, TypeOK
      <3>4. Still
        BY <3>1, <3>3, Invisible
      <3> QED
        BY <3>4
    <2> QED
      BY <1>4, <2>1, <2>2, <2>3, RefinesRemovals DEF LobbyStep
  <1>5. CASE DiscoveryStep
    <2>1. CASE OpenSets \/ JoinTerminates
      BY <2>1, RefinesOpenSets, RefinesRemovals
    <2>2. CASE ~(OpenSets \/ JoinTerminates)
      <3>1. UNCHANGED <<nextGame, listed, session, lobby>>
        BY <1>5, <2>2 DEF DiscoveryStep, RecordAddress, ReadRole, ReadGameId, FindGame, OpenReadsState,
           OpenReadsAddr, JoinReadsState, JoinReadsOwner, JoinReadsAddr, Tell
      <3>2. Still
        BY <3>1, Invisible DEF Creating
      <3> QED
        BY <3>2
    <2> QED
      BY <2>1, <2>2
  <1> QED
    BY <1>1, <1>2, <1>3, <1>4, <1>5 DEF Next

(* GameSessionManager and its two threads implement the game directory:     *)
(* ids in order, titles fixed, names of all but public Norrath games taken  *)
(* once, no game reopened or relisted by a packet that comes late.          *)
THEOREM DirectoryImplemented == Spec => ImplementsDirectory
  <1> QED
    BY RefinesInit, RefinesNext, InvariantHolds, PTL
    DEF Spec, ImplementsDirectory, Directory!Spec
=============================================================================
