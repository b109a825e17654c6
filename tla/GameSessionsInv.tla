-------------------------- MODULE GameSessionsInv --------------------------
(***************************************************************************)
(* The inductive invariant of GameSessions: why its properties hold.       *)
(***************************************************************************)
EXTENDS GameSessions

\* The places of a handler where lobby.game is a game, and those where it is
\* the game the user has had since before, or has been given by now.
WithGame == LobbyPC \ {"idle", "erase"}
OwnGame  == {"hostAddr", "push", "hostAgain", "start", "terminate"}

\* The handler works for an online user, on a game of the user's kind.
LobbyInv ==
  /\ lobby.pc = "idle" => lobby = Rest
  /\ lobby.pc # "idle" => lobby.user \in User /\ connection[lobby.user] = "online"
  /\ lobby.pc \in WithGame =>
       /\ lobby.game \in GameId /\ lobby.game < nextGame
       /\ session[lobby.game].kind = KindOf(lobby.user)
  /\ lobby.pc \in OwnGame => gameId[lobby.user] = lobby.game
  /\ lobby.pc \in {"seekGame", "guestGame"} => ~isHost[lobby.user]
  /\ lobby.pc = "hostAgain" => session[lobby.game].members[0] = lobby.user

\* What was not listed yet: nobody sits in it, nobody opened it, and only its
\* creator points to it.
Unborn(g) == g >= nextGame \/ (Creating /\ lobby.game = g)

CreationInv ==
  /\ Creating => lobby.game = nextGame - 1
  /\ \A g \in GameId :
       Unborn(g) =>
         /\ g \notin listed
         /\ session[g].members = [i \in Seat |-> None]
         /\ session[g].state = "NotReady"
         /\ session[g].currentPlayers = 0
         /\ \A u \in User : gameId[u] = g => Creating /\ u = lobby.user
  /\ \A u \in User : gameId[u] < nextGame

\* The packet is for a user; past the lookup its game was once listed.
Found == DiscoveryPC \ {"idle", "address", "role", "openId", "joinId", "openFind", "joinFind"}

DiscoveryInv ==
  /\ discovery.pc = "idle" => discovery = NoPacket
  /\ discovery.pc # "idle" => discovery.user \in User
  /\ discovery.pc \in {"openFind", "joinFind"} => discovery.game \in GameId
  /\ discovery.pc \in Found => discovery.game \in GameId /\ ~Unborn(discovery.game)
  /\ discovery.pc = "joinAddr" => discovery.host \in User
  /\ discovery.pc \in {"openAddr", "openSet"} =>
       session[discovery.game].state # "Open"

\* Users only ever point to games of their kind.
KindInv ==
  \A u \in User : gameId[u] # NoGame => session[gameId[u]].kind = KindOf(u)

\* A user who has not connected is no host.
FreshInv == \A u \in User : connection[u] = "new" => ~isHost[u]

\* The game of a user about to be erased is not one they own.
LeavingInv ==
  lobby.pc = "erase" =>
    \A g \in listed : session[g].members[0] = lobby.user => gameId[lobby.user] # g

\* A name that was free when the handler looked is still free at the push_back:
\* meanwhile games only leave the list.
NameInv ==
  Creating =>
    LET s == session[lobby.game] IN
    \/ s.name = NoName
    \/ s.kind = "CON" /\ s.public
    \/ \A h \in listed : session[h].name # s.name \/ session[h].kind # s.kind

IInv ==
  /\ TypeOK
  /\ LobbyInv
  /\ CreationInv
  /\ DiscoveryInv
  /\ KindInv
  /\ FreshInv
  /\ LeavingInv
  /\ NameInv
  /\ HostFlagMeansOwner
  /\ NoGameOutlivesItsHost
  /\ NoDoubleSeat
  /\ ListedNotStarted

=============================================================================
