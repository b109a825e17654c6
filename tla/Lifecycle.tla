------------------------------- MODULE Lifecycle -------------------------------
(***************************************************************************)
(* The life of the process: main starts the two servers and opens the      *)
(* database, looks from time to time whether both run, and stops them when *)
(* one does not or a signal comes.                                         *)
(*                                                                         *)
(*   - MAIN also walks m_clientSockets, which is the lobby thread's, when  *)
(*     it stops the lobby, and waits for each thread to end.               *)
(*   - The LOBBY thread passes through its loop: closes and accepts        *)
(*     connections, and serves requests, the first of which may find the   *)
(*     database not open yet.                                              *)
(*   - The DISCOVERY thread waits in recvfrom, which has no timeout.       *)
(*                                                                         *)
(* What the requests and packets do is in other modules.                   *)
(***************************************************************************)
EXTENDS Integers, Sequences, SequencesExt

CONSTANTS
  Client,       (* the connections that may come                            *)
  None          (* no thread                                                *)

ASSUME LifecycleAssumption == None \notin {"main", "lobby"}

VARIABLES
  process,          \* up, ended, or aborted (an exception nobody catches)
  main,             \* the place of the main thread
  g_isRunning,      \* cleared by the signal handler
  m_running,        \* of each server
  thread,           \* the places of the two threads
  ports,            \* both lobby ports were opened (m_conSocket, m_rtaSocket)
  m_clientSockets,  \* the vector of connections
  came,             \* the connections so far
  walk,             \* the loop of Stop: the next index, its end, and whether
                    \* the vector moved under it
  told,             \* connections with a forced logout queued
  database,         \* who holds Database::m_mutex, and how often it was opened
  packet            \* a packet waits at the discovery port

servers == <<m_running, thread, ports>>
clients == <<m_clientSockets, came>>
vars == <<process, main, g_isRunning, servers, clients, walk, told, database, packet>>

Servers == {"lobby", "discovery"}

MainPC == {"lobby", "discovery", "database", "opening", "poll", "walk",
           "join lobby", "join discovery", "returned"}
ThreadPC == {"none", "test", "check", "accept", "serve", "opening",
             "receive", "process", "ended"}

Listed == {m_clientSockets[i] : i \in DOMAIN m_clientSockets}

TypeOK ==
  /\ process \in {"up", "ended", "aborted"}
  /\ main \in MainPC
  /\ g_isRunning \in BOOLEAN
  /\ m_running \in [Servers -> BOOLEAN]
  /\ thread \in [Servers -> ThreadPC]
  /\ ports \in BOOLEAN
  /\ m_clientSockets \in Seq(Client) /\ came \in SUBSET Client
  /\ walk \in [next : Nat \ {0}, last : Nat, moved : BOOLEAN]
  /\ told \in SUBSET Client
  /\ database \in [lock : {None, "main", "lobby"}, opened : Nat]
  /\ database.lock = "main" <=> main = "opening"
  /\ database.lock = "lobby" <=> thread["lobby"] = "opening"
  /\ packet \in BOOLEAN

Init ==
  /\ process = "up"
  /\ main = "lobby"
  /\ g_isRunning = TRUE
  /\ m_running = [s \in Servers |-> FALSE]
  /\ thread = [s \in Servers |-> "none"]
  /\ ports = TRUE
  /\ m_clientSockets = <<>> /\ came = {}
  /\ walk = [next |-> 1, last |-> 0, moved |-> FALSE]
  /\ told = {}
  /\ database = [lock |-> None, opened |-> 0]
  /\ packet = FALSE

-----------------------------------------------------------------------------
(* Database::Get: under m_mutex, the first caller opens the database.      *)

\* Mutant: the mutex is not taken.
Unlocked_Always == TRUE

Unlocked == database.lock = None

FindsOpen == Unlocked /\ database.opened > 0 /\ UNCHANGED database

BeginsToOpen(who) ==
  /\ Unlocked /\ database.opened = 0
  /\ database' = [database EXCEPT !.lock = who]

\* Mutant: the mutex is kept.
Opens_Keeps == database' = [database EXCEPT !.opened = @ + 1]

Opens == database' = [lock |-> None, opened |-> database.opened + 1]

-----------------------------------------------------------------------------
(* The main thread.                                                        *)

Goes(from, to) == main = from /\ main' = to

Started(s) ==
  /\ m_running' = [m_running EXCEPT ![s] = TRUE]
  /\ thread' = [thread EXCEPT ![s] = "test"]

\* A gateway port that cannot be opened is the end of Start; a lobby port that
\* cannot is not noticed.
StartLobby ==
  /\ Goes("lobby", "discovery")
  /\ \/ UNCHANGED servers
     \/ Started("lobby") /\ ports' \in BOOLEAN
  /\ UNCHANGED <<process, g_isRunning, clients, walk, told, database, packet>>

StartDiscovery ==
  /\ Goes("discovery", "database")
  /\ \/ UNCHANGED <<m_running, thread>>
     \/ Started("discovery")
  /\ UNCHANGED <<process, g_isRunning, ports, clients, walk, told, database, packet>>

MainGetsDatabase ==
  /\ \/ Goes("database", "opening") /\ BeginsToOpen("main")
     \/ Goes("database", "poll") /\ FindsOpen
     \/ Goes("opening", "poll") /\ Opens
  /\ UNCHANGED <<process, g_isRunning, servers, clients, walk, told, packet>>

\* The loop of main ends.
MustStop == ~g_isRunning \/ \E s \in Servers : ~m_running[s]

BeginStop ==
  /\ Goes("poll", "walk")
  /\ MustStop
  /\ walk' = [next |-> 1, last |-> Len(m_clientSockets), moved |-> FALSE]
  /\ UNCHANGED <<process, g_isRunning, servers, clients, told, database, packet>>

\* Mutant: the connection that came last is left out.
WalkGoesOn_Short == walk.next < walk.last

WalkGoesOn == walk.next <= walk.last

\* No lock is held: once the lobby thread has moved the vector, a step may reach
\* any connection that was ever there, or none.
TellNext ==
  /\ main = "walk" /\ WalkGoesOn
  /\ walk' = [walk EXCEPT !.next = @ + 1]
  /\ \E reached \in IF walk.moved THEN {{}} \cup {{c} : c \in came}
                                  ELSE {{m_clientSockets[walk.next]}} :
       told' = told \cup reached
  /\ UNCHANGED <<process, main, g_isRunning, servers, clients, database, packet>>

StopLobby ==
  /\ Goes("walk", "join lobby")
  /\ ~WalkGoesOn
  /\ m_running' = [m_running EXCEPT !["lobby"] = FALSE]
  /\ UNCHANGED <<process, g_isRunning, thread, ports, clients, walk, told, database, packet>>

\* Mutant: a thread is not waited for.
Joined_AtOnce(s) == TRUE

\* join, or a thread that was never started.
Joined(s) == thread[s] \in {"none", "ended"}

\* Mutant: the flag is cleared when the thread has ended.
Clears_Late(s) == UNCHANGED m_running

\* DiscoveryServer::Stop clears the flag, and then waits.
Clears(s) == m_running' = [m_running EXCEPT ![s] = FALSE]

StopDiscovery ==
  /\ Goes("join lobby", "join discovery")
  /\ Joined("lobby")
  /\ Clears("discovery")
  /\ UNCHANGED <<process, g_isRunning, thread, ports, clients, walk, told, database, packet>>

Return ==
  /\ Goes("join discovery", "returned")
  /\ Joined("discovery")
  /\ process' = "ended"
  /\ UNCHANGED <<g_isRunning, servers, clients, walk, told, database, packet>>

MainStep ==
  StartLobby \/ StartDiscovery \/ MainGetsDatabase \/ BeginStop \/ TellNext
  \/ StopLobby \/ StopDiscovery \/ Return

-----------------------------------------------------------------------------
(* The lobby thread.                                                       *)

Moves(s, from, to) == thread[s] = from /\ thread' = [thread EXCEPT ![s] = to]

LobbyTests ==
  /\ IF m_running["lobby"] THEN ports /\ Moves("lobby", "test", "check")
                           ELSE Moves("lobby", "test", "ended")
  /\ UNCHANGED <<process, main, g_isRunning, m_running, ports, clients, walk, told,
                 database, packet>>

\* CheckSocketProblem: an element is erased, and those behind it move.
CloseClient(i) ==
  /\ thread["lobby"] = "check"
  /\ m_clientSockets' = RemoveAt(m_clientSockets, i)
  /\ walk' = [walk EXCEPT !.moved = @ \/ main = "walk"]
  /\ UNCHANGED <<process, main, g_isRunning, servers, came, told, database, packet>>

Select ==
  /\ Moves("lobby", "check", "accept")
  /\ UNCHANGED <<process, main, g_isRunning, m_running, ports, clients, walk, told,
                 database, packet>>

\* push_back, which may move the vector.
AcceptConnection(c) ==
  /\ thread["lobby"] = "accept"
  /\ c \notin came
  /\ m_clientSockets' = Append(m_clientSockets, c) /\ came' = came \cup {c}
  /\ \E grows \in BOOLEAN : walk' = [walk EXCEPT !.moved = @ \/ (grows /\ main = "walk")]
  /\ UNCHANGED <<process, main, g_isRunning, servers, told, database, packet>>

\* The sockets are served; requests may ask for the database.
Serve ==
  /\ \/ Moves("lobby", "accept", "serve") /\ UNCHANGED database
     \/ Moves("lobby", "serve", "test") /\ UNCHANGED database
     \/ Listed # {} /\ Moves("lobby", "serve", "opening") /\ BeginsToOpen("lobby")
     \/ Moves("lobby", "opening", "serve") /\ Opens
  /\ UNCHANGED <<process, main, g_isRunning, m_running, ports, clients, walk, told, packet>>

LobbyStep ==
  \/ LobbyTests \/ Select \/ Serve
  \/ \E i \in DOMAIN m_clientSockets : CloseClient(i)
  \/ \E c \in Client : AcceptConnection(c)

-----------------------------------------------------------------------------
(* The discovery thread.                                                   *)

DiscoveryTests ==
  /\ Moves("discovery", "test", IF m_running["discovery"] THEN "receive" ELSE "ended")
  /\ UNCHANGED <<process, main, g_isRunning, m_running, ports, clients, walk, told,
                 database, packet>>

\* recvfrom returns when there is a packet, and not before.
Receive ==
  /\ packet
  /\ Moves("discovery", "receive", "process")
  /\ packet' = FALSE
  /\ UNCHANGED <<process, main, g_isRunning, m_running, ports, clients, walk, told, database>>

\* Whatever ProcessPacket does with it.
ProcessPacket ==
  /\ Moves("discovery", "process", "test")
  /\ UNCHANGED <<process, main, g_isRunning, m_running, ports, clients, walk, told,
                 database, packet>>

DiscoveryStep == DiscoveryTests \/ Receive \/ ProcessPacket

-----------------------------------------------------------------------------
(* The world, and the ways to fail.                                        *)

SignalHandler ==
  /\ g_isRunning' = FALSE
  /\ UNCHANGED <<process, main, servers, clients, walk, told, database, packet>>

\* A packet comes whether or not there is a thread for it; where the port was
\* not bound nothing keeps it.
PacketArrives ==
  /\ packet' = (packet \/ thread["discovery"] # "none")
  /\ UNCHANGED <<process, main, g_isRunning, servers, clients, walk, told, database>>

\* The constructor of Database throws, in main or in a thread, and nobody
\* catches it; a request is shorter than the fields its handler reads, or the
\* handler was never written, and it throws; Run uses a lobby socket that is
\* not there; the walk of Stop uses a connection that is not there any more.
Abort ==
  /\ \/ database.lock # None
     \/ thread["lobby"] = "serve" /\ Listed # {}
     \/ thread["lobby"] = "test" /\ m_running["lobby"] /\ ~ports
     \/ main = "walk" /\ WalkGoesOn /\ walk.moved
  /\ process' = "aborted"
  /\ UNCHANGED <<main, g_isRunning, servers, clients, walk, told, database, packet>>

Step == MainStep \/ LobbyStep \/ DiscoveryStep \/ SignalHandler \/ PacketArrives \/ Abort

\* Nothing more happens when the process is gone.
Next ==
  \/ process = "up" /\ Step
  \/ process # "up" /\ UNCHANGED vars

Spec == Init /\ [][Next]_vars

\* The threads run.  The lobby thread without its ports can only fail.
Fairness ==
  /\ WF_vars(process = "up" /\ MainStep)
  /\ WF_vars(process = "up" /\ (LobbyStep \/ Abort))
  /\ WF_vars(process = "up" /\ DiscoveryStep)

FairSpec == Spec /\ Fairness

-----------------------------------------------------------------------------
(* Properties.                                                             *)

(* main: the servers, the managers and the database are destroyed when main *)
(* returns; no thread is left then that could use them, also when a server  *)
(* did not start.                                                           *)
NoThreadOutlivesMain ==
  process = "ended" => \A s \in Servers : thread[s] \in {"none", "ended"}

(* Database::Get: main and a request that comes while main still starts may *)
(* both be the first; the database is opened once, and is open when main    *)
(* begins to look after the servers.                                        *)
OpenedOnce ==
  /\ database.opened <= 1
  /\ main \notin {"lobby", "discovery", "database", "opening"} => database.opened = 1

(* LobbyServer::Stop: each connection that was there when the walk began    *)
(* has its forced logout queued when the lobby is stopped, except when the  *)
(* lobby thread moved the vector meanwhile; this is all that can be said,   *)
(* as the walk takes no lock.                                               *)
ToldUnlessMoved ==
  [][main = "walk" /\ main' = "join lobby" /\ ~walk.moved =>
       \A i \in 1 .. walk.last : m_clientSockets[i] \in told]_vars

(* After a signal, or when a server did not start ("... is not running.     *)
(* Exiting."), the process ends.  Where the discovery thread exists this    *)
(* takes packets that keep coming: without them it stays in recvfrom, and   *)
(* main in join.  Where it never started nothing is asked of the network.   *)
EndsWithPackets ==
  []<>(packet \/ thread["discovery"] = "none") =>
    ((main \notin {"lobby", "discovery"} /\ MustStop) ~> process # "up")

=============================================================================
