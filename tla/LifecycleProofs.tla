--------------------------- MODULE LifecycleProofs ---------------------------
(***************************************************************************)
(* The end of the process, for any number of connections.                  *)
(***************************************************************************)
EXTENDS Lifecycle, SequenceTheorems, TLAPS

Gone(s) == thread[s] \in {"none", "ended"}

\* The order in which main starts the threads and waits for them.
Waits ==
  /\ main = "lobby" => thread["lobby"] = "none"
  /\ main \in {"join discovery", "returned"} => Gone("lobby")
  /\ main = "returned" => Gone("discovery")
  /\ process = "ended" => main = "returned"

\* Whoever has the mutex finds the database not open.
LockedUnopened == database.lock # None => database.opened = 0

\* What the walk has passed is told, while the vector stays.
WalkTells ==
  main = "walk" /\ ~walk.moved =>
    /\ walk.last <= Len(m_clientSockets)
    /\ \A i \in 1 .. walk.last : i < walk.next => m_clientSockets[i] \in told

IInv == TypeOK /\ Waits /\ LockedUnopened /\ OpenedOnce /\ WalkTells

LEMMA InitHolds == Init => IInv
<1> SUFFICES ASSUME Init PROVE IInv
  OBVIOUS
<1>1. /\ m_running \in [Servers -> BOOLEAN] /\ thread \in [Servers -> ThreadPC]
      /\ thread["lobby"] = "none" /\ main = "lobby"
  BY DEF Init, Servers, ThreadPC
<1>2. /\ database \in [lock : {None, "main", "lobby"}, opened : Nat]
      /\ database.lock \notin {"main", "lobby"} /\ database.opened = 0
  BY LifecycleAssumption DEF Init
<1>3. m_clientSockets \in Seq(Client) /\ walk \in [next : Nat \ {0}, last : Nat, moved : BOOLEAN]
  BY DEF Init
<1>4. TypeOK
  BY <1>1, <1>2, <1>3 DEF Init, TypeOK, MainPC
<1> QED  BY <1>1, <1>2, <1>4 DEF Init, IInv, Waits, LockedUnopened, OpenedOnce, WalkTells

-----------------------------------------------------------------------------
(* The main thread.                                                        *)

LEMMA StartKeeps ==
  ASSUME IInv, process = "up", StartLobby \/ StartDiscovery
  PROVE  IInv'
<1>1. /\ main \in {"lobby", "discovery"} /\ main' \in {"discovery", "database"}
      /\ UNCHANGED <<process, g_isRunning, m_clientSockets, came, walk, told, database, packet>>
  BY DEF StartLobby, StartDiscovery, Goes, clients
<1>2. /\ m_running' \in [Servers -> BOOLEAN] /\ thread' \in [Servers -> ThreadPC]
      /\ ports' \in BOOLEAN
      /\ thread["lobby"] = "opening" <=> thread'["lobby"] = "opening"
  <2>1. CASE StartLobby
    <3>1. UNCHANGED servers \/ (Started("lobby") /\ ports' \in BOOLEAN)
      BY <2>1 DEF StartLobby
    <3>2. thread["lobby"] = "none"
      BY <2>1 DEF StartLobby, Goes, IInv, Waits
    <3>3. CASE UNCHANGED servers
      BY <3>3 DEF servers, IInv, TypeOK
    <3>4. CASE Started("lobby") /\ ports' \in BOOLEAN
      <4>1. /\ m_running' = [m_running EXCEPT !["lobby"] = TRUE]
            /\ thread' = [thread EXCEPT !["lobby"] = "test"]
        BY <3>4 DEF Started
      <4>2. m_running \in [Servers -> BOOLEAN] /\ thread \in [Servers -> ThreadPC]
        BY DEF IInv, TypeOK
      <4>3. m_running' \in [Servers -> BOOLEAN]
        BY <4>1, <4>2
      <4>4. thread' \in [Servers -> ThreadPC] /\ thread'["lobby"] = "test"
        BY <4>1, <4>2 DEF Servers, ThreadPC
      <4> QED  BY <3>2, <3>4, <4>3, <4>4
    <3> QED  BY <3>1, <3>3, <3>4
  <2>2. CASE StartDiscovery
    BY <2>2 DEF StartDiscovery, Started, IInv, TypeOK, Servers, ThreadPC
  <2> QED  BY <2>1, <2>2
<1>3. TypeOK'
  BY <1>1, <1>2 DEF IInv, TypeOK, MainPC
<1> QED  BY <1>1, <1>3 DEF IInv, Waits, LockedUnopened, OpenedOnce, WalkTells

LEMMA MainGetsKeeps ==
  ASSUME IInv, process = "up", MainGetsDatabase
  PROVE  IInv'
<1>1. /\ main \in {"database", "opening"} /\ main' \in {"opening", "poll"}
      /\ UNCHANGED <<process, g_isRunning, m_running, thread, ports, m_clientSockets, came, walk, told, packet>>
  BY DEF MainGetsDatabase, Goes, clients, servers
<1>2. /\ database' \in [lock : {None, "main", "lobby"}, opened : Nat]
      /\ database'.lock = "main" <=> main' = "opening"
      /\ database'.lock = "lobby" <=> thread["lobby"] = "opening"
      /\ database'.lock # None => database'.opened = 0
      /\ database'.opened <= 1
      /\ main' = "poll" => database'.opened = 1
  BY LifecycleAssumption
  DEF MainGetsDatabase, Goes, BeginsToOpen, FindsOpen, Opens, Unlocked, IInv, TypeOK,
      LockedUnopened, OpenedOnce
<1>3. TypeOK'
  BY <1>1, <1>2 DEF IInv, TypeOK, MainPC
<1> QED  BY <1>1, <1>2, <1>3 DEF IInv, Waits, LockedUnopened, OpenedOnce, WalkTells

LEMMA WalkKeeps ==
  ASSUME IInv, process = "up", BeginStop \/ TellNext
  PROVE  IInv'
<1>1. /\ main \in {"poll", "walk"} /\ main' = "walk"
      /\ UNCHANGED <<process, g_isRunning, m_running, thread, ports, m_clientSockets, came, database, packet>>
  BY DEF BeginStop, TellNext, Goes, clients, servers
<1>2. m_clientSockets \in Seq(Client) /\ Len(m_clientSockets) \in Nat
      /\ \A i \in 1 .. Len(m_clientSockets) : m_clientSockets[i] \in Client
  BY LenProperties DEF IInv, TypeOK
<1>3. /\ walk' \in [next : Nat \ {0}, last : Nat, moved : BOOLEAN]
      /\ told' \in SUBSET Client
      /\ ~walk'.moved => /\ walk'.last <= Len(m_clientSockets)
                         /\ \A i \in 1 .. walk'.last : i < walk'.next => m_clientSockets[i] \in told'
  <2>1. CASE BeginStop
    BY <1>2, <2>1 DEF BeginStop, IInv, TypeOK
  <2>2. CASE TellNext
    <3>1. /\ walk' = [walk EXCEPT !.next = @ + 1] /\ walk.next <= walk.last
          /\ main = "walk" /\ told \subseteq told'
      BY <2>2 DEF TellNext, WalkGoesOn
    <3>2. walk \in [next : Nat \ {0}, last : Nat, moved : BOOLEAN]
      BY DEF IInv, TypeOK
    <3>3. /\ walk' \in [next : Nat \ {0}, last : Nat, moved : BOOLEAN]
          /\ walk'.next = walk.next + 1 /\ walk'.last = walk.last /\ walk'.moved = walk.moved
      BY <3>1, <3>2
    <3>4. CASE walk.moved
      <4>1. told' \in SUBSET Client
        BY <2>2, <3>4 DEF TellNext, IInv, TypeOK
      <4> QED  BY <3>3, <3>4, <4>1
    <3>5. CASE ~walk.moved
      <4>1. /\ told' = told \cup {m_clientSockets[walk.next]}
            /\ walk.last <= Len(m_clientSockets)
            /\ \A i \in 1 .. walk.last : i < walk.next => m_clientSockets[i] \in told
        BY <2>2, <3>1, <3>5 DEF TellNext, IInv, WalkTells
      <4>2. \A i \in 1 .. walk.last : i < walk.next + 1 => i < walk.next \/ i = walk.next
        BY <3>2
      <4>3. told' \in SUBSET Client
        <5>1. walk.next \in 1 .. Len(m_clientSockets)
          BY <1>2, <3>1, <3>2, <4>1
        <5> QED  BY <1>2, <4>1, <5>1 DEF IInv, TypeOK
      <4> QED  BY <3>1, <3>3, <4>1, <4>2, <4>3
    <3> QED  BY <3>4, <3>5
  <2> QED  BY <2>1, <2>2
<1>4. TypeOK'
  BY <1>1, <1>3 DEF IInv, TypeOK, MainPC
<1>5. OpenedOnce'
  BY <1>1 DEF IInv, OpenedOnce
<1> QED  BY <1>1, <1>3, <1>4, <1>5 DEF IInv, Waits, LockedUnopened, WalkTells

LEMMA StopKeeps ==
  ASSUME IInv, process = "up", StopLobby \/ StopDiscovery \/ Return
  PROVE  IInv'
<1>1. /\ main \in {"walk", "join lobby", "join discovery"}
      /\ main' \in {"join lobby", "join discovery", "returned"}
      /\ UNCHANGED <<g_isRunning, thread, ports, m_clientSockets, came, walk, told, database, packet>>
      /\ process' \in {"up", "ended"}
      /\ m_running' \in [Servers -> BOOLEAN]
  BY DEF StopLobby, StopDiscovery, Return, Clears, Goes, clients, servers, IInv, TypeOK
<1>2. TypeOK'
  BY <1>1 DEF IInv, TypeOK, MainPC
<1>3. Waits'
  <2>1. main' \in {"join discovery", "returned"} => Gone("lobby")
    BY DEF StopLobby, StopDiscovery, Return, Joined, Goes, IInv, Waits, Gone
  <2>2. /\ main' = "returned" => Gone("discovery")
        /\ process' = "ended" => main' = "returned"
    BY DEF StopLobby, StopDiscovery, Return, Joined, Goes, IInv, Waits, Gone
  <2> QED  BY <1>1, <2>1, <2>2 DEF Waits, Gone
<1> QED  BY <1>1, <1>2, <1>3 DEF IInv, LockedUnopened, OpenedOnce, WalkTells

-----------------------------------------------------------------------------
(* The two threads, and the world.                                         *)

\* A thread that is not gone moves on.
LEMMA ThreadKeeps ==
  ASSUME IInv, process = "up", NEW s \in Servers, thread[s] \notin {"none", "ended", "opening"},
         NEW to \in ThreadPC \ {"none", "opening"}, thread' = [thread EXCEPT ![s] = to],
         packet' \in BOOLEAN,
         UNCHANGED <<process, main, g_isRunning, m_running, ports, m_clientSockets, came,
                     walk, told, database>>
  PROVE  IInv'
<1>1. /\ thread' \in [Servers -> ThreadPC]
      /\ thread["lobby"] = "opening" <=> thread'["lobby"] = "opening"
      /\ thread["lobby"] = "none" => thread'["lobby"] = "none"
      /\ Gone("lobby") => Gone("lobby")' /\ thread'["lobby"] = thread["lobby"]
      /\ Gone("discovery") => Gone("discovery")'
  BY DEF IInv, TypeOK, Servers, Gone
<1>2. TypeOK'
  BY <1>1 DEF IInv, TypeOK
<1>3. Waits'
  BY <1>1 DEF IInv, Waits
<1> QED  BY <1>2, <1>3 DEF IInv, LockedUnopened, OpenedOnce, WalkTells

LEMMA LobbyGetsKeeps ==
  ASSUME IInv, process = "up",
         \/ Moves("lobby", "serve", "opening") /\ BeginsToOpen("lobby")
         \/ Moves("lobby", "opening", "serve") /\ Opens,
         UNCHANGED <<process, main, g_isRunning, m_running, ports, m_clientSockets, came,
                     walk, told, packet>>
  PROVE  IInv'
<1>1. /\ thread["lobby"] \in {"serve", "opening"} /\ ~Gone("lobby")
      /\ thread' \in [Servers -> ThreadPC] /\ thread'["discovery"] = thread["discovery"]
  BY DEF Moves, Gone, IInv, TypeOK, Servers, ThreadPC
<1>2. /\ database' \in [lock : {None, "main", "lobby"}, opened : Nat]
      /\ database'.lock = "main" <=> main = "opening"
      /\ database'.lock = "lobby" <=> thread'["lobby"] = "opening"
      /\ database'.lock # None => database'.opened = 0
      /\ database'.opened <= 1
      /\ main \notin {"lobby", "discovery", "database", "opening"} => database'.opened = 1
  <2>1. CASE Moves("lobby", "serve", "opening") /\ BeginsToOpen("lobby")
    BY <2>1, LifecycleAssumption
    DEF Moves, BeginsToOpen, Unlocked, IInv, TypeOK, Servers, LockedUnopened, OpenedOnce
  <2>2. CASE Moves("lobby", "opening", "serve") /\ Opens
    BY <2>2, LifecycleAssumption
    DEF Moves, Opens, IInv, TypeOK, Servers, LockedUnopened, OpenedOnce
  <2> QED  BY <2>1, <2>2
<1>3. TypeOK'
  BY <1>1, <1>2 DEF IInv, TypeOK
<1>4. Waits'
  BY <1>1 DEF IInv, Waits, Gone
<1> QED  BY <1>2, <1>3, <1>4 DEF IInv, LockedUnopened, OpenedOnce, WalkTells

\* The vector changes under the walk, or grows in place.
LEMMA VectorKeeps ==
  ASSUME IInv, process = "up", m_clientSockets' \in Seq(Client), came' \in SUBSET Client,
         NEW b \in BOOLEAN, walk' = [walk EXCEPT !.moved = @ \/ (b /\ main = "walk")],
         ~b => \E c : m_clientSockets' = Append(m_clientSockets, c),
         UNCHANGED <<process, main, g_isRunning, m_running, thread, ports, told, database, packet>>
  PROVE  IInv'
<1>1. /\ walk' \in [next : Nat \ {0}, last : Nat, moved : BOOLEAN]
      /\ walk'.next = walk.next /\ walk'.last = walk.last
      /\ walk'.moved <=> walk.moved \/ (b /\ main = "walk")
      /\ walk \in [next : Nat \ {0}, last : Nat, moved : BOOLEAN]
  BY DEF IInv, TypeOK
<1>2. TypeOK'
  BY <1>1 DEF IInv, TypeOK
<1>3. WalkTells'
  <2> SUFFICES ASSUME main = "walk", ~walk'.moved
               PROVE  /\ walk.last <= Len(m_clientSockets')
                      /\ \A i \in 1 .. walk.last : i < walk.next => m_clientSockets'[i] \in told
    BY <1>1 DEF WalkTells
  <2>1. ~walk.moved /\ ~b
    BY <1>1
  <2>2. PICK c : m_clientSockets' = Append(m_clientSockets, c)
    BY <2>1
  <2>3. m_clientSockets \in Seq(Client) /\ Len(m_clientSockets) \in Nat
    BY LenProperties DEF IInv, TypeOK
  <2>4. /\ Len(m_clientSockets') = Len(m_clientSockets) + 1
        /\ \A i \in 1 .. Len(m_clientSockets) : m_clientSockets'[i] = m_clientSockets[i]
    BY <2>2, <2>3
  <2>5. /\ walk.last <= Len(m_clientSockets)
        /\ \A i \in 1 .. walk.last : i < walk.next => m_clientSockets[i] \in told
    BY <2>1 DEF IInv, WalkTells
  <2> QED  BY <1>1, <2>3, <2>4, <2>5
<1> QED  BY <1>2, <1>3 DEF IInv, Waits, Gone, LockedUnopened, OpenedOnce

LEMMA LobbyKeeps ==
  ASSUME IInv, process = "up", LobbyStep
  PROVE  IInv'
<1>1. CASE LobbyTests \/ Select
  <2>1. PICK to \in {"check", "accept", "ended"} :
          /\ thread["lobby"] \in {"test", "check"}
          /\ thread' = [thread EXCEPT !["lobby"] = to]
    BY <1>1 DEF LobbyTests, Select, Moves
  <2>2. /\ packet' \in BOOLEAN
        /\ UNCHANGED <<process, main, g_isRunning, m_running, ports, m_clientSockets, came,
                       walk, told, database>>
    BY <1>1 DEF LobbyTests, Select, clients, IInv, TypeOK
  <2> QED  BY <2>1, <2>2, ThreadKeeps DEF Servers, ThreadPC
<1>2. CASE Serve
  <2>1. UNCHANGED <<process, main, g_isRunning, m_running, ports, m_clientSockets, came,
                    walk, told, packet>>
    BY <1>2 DEF Serve, clients
  <2>2. ASSUME NEW from \in {"accept", "serve"}, NEW to \in {"serve", "test"},
               Moves("lobby", from, to), UNCHANGED database
        PROVE  IInv'
    <3>1. packet' \in BOOLEAN
      BY <2>1 DEF IInv, TypeOK
    <3> QED  BY <2>1, <2>2, <3>1, ThreadKeeps DEF Servers, ThreadPC, Moves
  <2>3. CASE \/ Moves("lobby", "serve", "opening") /\ BeginsToOpen("lobby")
             \/ Moves("lobby", "opening", "serve") /\ Opens
    BY <2>1, <2>3, LobbyGetsKeeps
  <2> QED  BY <1>2, <2>2, <2>3 DEF Serve
<1>3. ASSUME NEW i \in DOMAIN m_clientSockets, CloseClient(i) PROVE IInv'
  <2>1. /\ m_clientSockets' = RemoveAt(m_clientSockets, i)
        /\ walk' = [walk EXCEPT !.moved = @ \/ (TRUE /\ main = "walk")]
        /\ UNCHANGED <<process, main, g_isRunning, m_running, thread, ports, came, told,
                       database, packet>>
    BY <1>3 DEF CloseClient, servers
  <2>2. m_clientSockets' \in Seq(Client)
    <3>1. /\ m_clientSockets \in Seq(Client) /\ i \in 1 .. Len(m_clientSockets)
          /\ Len(m_clientSockets) \in Nat
          /\ \A k \in 1 .. Len(m_clientSockets) : m_clientSockets[k] \in Client
      BY LenProperties DEF IInv, TypeOK
    <3>2. SubSeq(m_clientSockets, 1, i - 1) \in Seq(Client)
      <4>1. \A k \in 1 .. i - 1 : m_clientSockets[k] \in Client
        BY <3>1
      <4> QED  BY <3>1, <4>1, SubSeqProperties
    <3>3. SubSeq(m_clientSockets, i + 1, Len(m_clientSockets)) \in Seq(Client)
      <4>1. \A k \in i + 1 .. Len(m_clientSockets) : m_clientSockets[k] \in Client
        BY <3>1
      <4> QED  BY <3>1, <4>1, SubSeqProperties
    <3> QED  BY <2>1, <3>2, <3>3, ConcatProperties DEF RemoveAt
  <2>3. came' \in SUBSET Client
    BY <2>1 DEF IInv, TypeOK
  <2> QED  BY <2>1, <2>2, <2>3, VectorKeeps
<1>4. ASSUME NEW c \in Client, AcceptConnection(c) PROVE IInv'
  <2>1. PICK b \in BOOLEAN : walk' = [walk EXCEPT !.moved = @ \/ (b /\ main = "walk")]
    BY <1>4 DEF AcceptConnection
  <2>2. /\ m_clientSockets' = Append(m_clientSockets, c) /\ came' = came \cup {c}
        /\ UNCHANGED <<process, main, g_isRunning, m_running, thread, ports, told,
                       database, packet>>
    BY <1>4 DEF AcceptConnection, servers
  <2>3. m_clientSockets' \in Seq(Client) /\ came' \in SUBSET Client
    BY <2>2 DEF IInv, TypeOK
  <2> QED  BY <2>1, <2>2, <2>3, VectorKeeps
<1> QED  BY <1>1, <1>2, <1>3, <1>4 DEF LobbyStep

LEMMA DiscoveryKeeps ==
  ASSUME IInv, process = "up", DiscoveryStep
  PROVE  IInv'
<1>1. PICK from \in {"test", "receive", "process"}, to \in {"receive", "process", "test", "ended"} :
        Moves("discovery", from, to)
  BY DEF DiscoveryStep, DiscoveryTests, Receive, ProcessPacket, Moves
<1>2. /\ packet' \in BOOLEAN
      /\ UNCHANGED <<process, main, g_isRunning, m_running, ports, m_clientSockets, came,
                     walk, told, database>>
  BY DEF DiscoveryStep, DiscoveryTests, Receive, ProcessPacket, clients, IInv, TypeOK
<1> QED  BY <1>1, <1>2, ThreadKeeps DEF Servers, ThreadPC, Moves

LEMMA WorldKeeps ==
  ASSUME IInv, process = "up", SignalHandler \/ PacketArrives \/ Abort
  PROVE  IInv'
<1>1. /\ process' \in {"up", "aborted"} /\ g_isRunning' \in BOOLEAN /\ packet' \in BOOLEAN
      /\ UNCHANGED <<main, m_running, thread, ports, m_clientSockets, came, walk, told, database>>
  BY DEF SignalHandler, PacketArrives, Abort, servers, clients, IInv, TypeOK
<1> QED  BY <1>1 DEF IInv, TypeOK, Waits, Gone, LockedUnopened, OpenedOnce, WalkTells

LEMMA StepKeeps == IInv /\ [Next]_vars => IInv'
<1> SUFFICES ASSUME IInv, [Next]_vars PROVE IInv'
  OBVIOUS
<1>1. CASE UNCHANGED vars
  BY <1>1 DEF vars, servers, clients, IInv, TypeOK, Waits, Gone, LockedUnopened,
     OpenedOnce, WalkTells
<1>2. CASE process = "up" /\ MainStep
  BY <1>2, StartKeeps, MainGetsKeeps, WalkKeeps, StopKeeps DEF MainStep
<1>3. CASE process = "up" /\ Step
  BY <1>2, <1>3, LobbyKeeps, DiscoveryKeeps, WorldKeeps DEF Step
<1> QED  BY <1>1, <1>3 DEF Next

(* IInv holds whenever the signal, the packets, the connections and the     *)
(* failures come.                                                           *)
THEOREM LifecycleInvariant == Spec => []IInv
<1> QED  BY InitHolds, StepKeeps, PTL DEF Spec

-----------------------------------------------------------------------------

(* The places, the flags and the vector keep their types.                   *)
THEOREM LifecycleTyped == Spec => []TypeOK
<1>1. IInv => TypeOK
  BY DEF IInv
<1> QED  BY <1>1, LifecycleInvariant, PTL

(* When main has returned, no thread is left.                               *)
THEOREM ThreadsEndFirst == Spec => []NoThreadOutlivesMain
<1>1. IInv => NoThreadOutlivesMain
  BY DEF IInv, Waits, Gone, NoThreadOutlivesMain, Servers
<1> QED  BY <1>1, LifecycleInvariant, PTL

(* The database is opened once, whoever comes first.                        *)
THEOREM DatabaseOpensOnce == Spec => []OpenedOnce
<1>1. IInv => OpenedOnce
  BY DEF IInv
<1> QED  BY <1>1, LifecycleInvariant, PTL

\* At its end, the walk has passed all.
LEMMA WalkEnds ==
  ASSUME IInv, walk.next \in Nat, walk.last \in Nat, main = "walk", ~walk.moved, ~WalkGoesOn
  PROVE  \A i \in 1 .. walk.last : m_clientSockets[i] \in told
<1>1. \A i \in 1 .. walk.last : i < walk.next
  BY DEF WalkGoesOn
<1> QED  BY <1>1 DEF IInv, WalkTells

(* A walk that the lobby thread leaves alone tells every connection.        *)
THEOREM WalkTellsAll == Spec => ToldUnlessMoved
<1> DEFINE Tells ==
      main = "walk" /\ main' = "join lobby" /\ ~walk.moved =>
        \A i \in 1 .. walk.last : m_clientSockets[i] \in told
<1>1. IInv /\ [Next]_vars => [Tells]_vars
  <2> SUFFICES ASSUME IInv, Next, main = "walk", main' = "join lobby", ~walk.moved
               PROVE  \A i \in 1 .. walk.last : m_clientSockets[i] \in told
    OBVIOUS
  <2>1. ~WalkGoesOn
    <3>1. main' # main
      OBVIOUS
    <3>2. ~(LobbyStep \/ DiscoveryStep \/ SignalHandler \/ PacketArrives \/ Abort)
      BY <3>1 DEF LobbyStep, LobbyTests, Select, Serve, CloseClient, AcceptConnection,
         DiscoveryStep, DiscoveryTests, Receive, ProcessPacket, SignalHandler,
         PacketArrives, Abort
    <3>3. MainStep
      BY <3>1, <3>2 DEF Next, Step, vars
    <3> QED
      BY <3>3 DEF MainStep, StartLobby, StartDiscovery, MainGetsDatabase, BeginStop,
         TellNext, StopLobby, StopDiscovery, Return, Goes
  <2>2. walk.next \in Nat /\ walk.last \in Nat
    BY DEF IInv, TypeOK
  <2> QED  BY <2>1, <2>2, WalkEnds
<1> QED  BY <1>1, LifecycleInvariant, PTL DEF Spec, ToldUnlessMoved

=============================================================================
