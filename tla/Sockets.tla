------------------------------- MODULE Sockets -------------------------------
(***************************************************************************)
(* The TCP connections of the lobby server: the loop of LobbyServer::Run,  *)
(* the buffers and flags of RealmSocket, and the life of the RealmUser of  *)
(* a connection, whose destructor asks for the socket to be closed.        *)
(*                                                                         *)
(*   - The LOBBY thread runs the loop: check every socket, select, accept, *)
(*     then read and write each socket that was listed.                    *)
(*   - The DISCOVERY thread holds a user while it handles a packet, and    *)
(*     sends notices: RealmSocket::send from a second thread.              *)
(*   - The client sends frames, goes quiet, or closes.                     *)
(*                                                                         *)
(* The output is a stream of units (bytes in the code), numbered as they   *)
(* are queued.  A frame is its length, and then its body if it has one, so *)
(* that a read may end within a frame.  What the requests say and do is in *)
(* other modules: here they differ by what they do to the connection.      *)
(***************************************************************************)
EXTENDS Integers, Sequences, FiniteSets

CONSTANTS
  Socket,       (* the connections                                          *)
  None,         (* no socket                                                *)
  Chunk,        (* units per call of send (1024 bytes in the code)          *)
  Kinds,        (* the kinds of frames that clients send                    *)
  MaxFrames,    (* bound on the frames clients send                         *)
  MaxNotices    (* bound on the notices of the discovery thread             *)

ASSUME SocketsAssumption ==
  /\ None \notin Socket
  /\ Chunk \in Nat \ {0}
  /\ Kinds \subseteq {"request", "save", "append", "logout", "match", "empty", "bad"}
  /\ MaxFrames \in Nat /\ MaxNotices \in Nat

VARIABLES
  status,      \* of a socket: new, listed (in m_clientSockets), gone
  wait,        \* flag.disconnected_wait
  forced,      \* flag.disconnected_forced
  user,        \* of its RealmUser: none, online (in m_users), removed, freed
  tasks,       \* m_tasks: by owner, the users that a save task holds
  wire,        \* what the client has sent and recv has not returned yet
  read,        \* m_pendingReadBuffer
  write,       \* m_pendingWriteBuffer
  queued,      \* how many units were ever queued
  sent,        \* what send has taken, in order
  lost,        \* the client has closed, or the connection broke
  quiet,       \* more than 30 seconds since last_recv_time
  frames,      \* how many frames the clients have sent
  notices,     \* how many notices were sent
  lobby,       \* the lobby thread
  discovery    \* the socket whose user the discovery thread holds

client == <<wire, lost, quiet, frames>>
flags  == <<status, wait, forced>>
users  == <<user, tasks>>
output == <<write, queued, sent>>
vars   == <<client, flags, users, output, read, notices, lobby, discovery>>

\* The key of a task is the session of its owner, which is empty (None) for all
\* who are not logged in.
Keys == Socket \cup {None}

\* What a read from memory that was given back may hold.
Torn == 0

Pieces == Kinds \cup {"body"}

LobbyPC == {"check", "remove", "drop", "accept", "serve", "parse", "write", "sending",
            "erase"}

TypeOK ==
  /\ status \in [Socket -> {"new", "listed", "gone"}]
  /\ wait \in [Socket -> BOOLEAN] /\ forced \in [Socket -> BOOLEAN]
  /\ user \in [Socket -> {"none", "online", "removed", "freed"}]
  /\ tasks \in [Keys -> SUBSET Socket]
  /\ wire \in [Socket -> Seq(Pieces)] /\ read \in [Socket -> Seq(Pieces)]
  /\ queued \in [Socket -> Nat]
  /\ write \in [Socket -> Seq(Nat)] /\ sent \in [Socket -> Seq(Nat)]
  /\ lost \in [Socket -> BOOLEAN] /\ quiet \in [Socket -> BOOLEAN]
  /\ frames \in 0 .. MaxFrames
  /\ notices \in 0 .. MaxNotices
  /\ lobby \in [pc : LobbyPC, todo : SUBSET Socket, ready : SUBSET Socket,
                sock : Socket \cup {None}, size : Nat, total : Nat, moved : BOOLEAN]
  /\ lobby.total <= lobby.size
  /\ lobby.pc \in {"sending", "erase"} => lobby.size <= Len(write[lobby.sock])
  /\ discovery \in Socket \cup {None}

-----------------------------------------------------------------------------

FrameOf(k) == IF k \in {"empty", "bad"} THEN <<k>> ELSE <<k, "body">>

\* The test of ReadSocket: the length is there, and all it announces.
HasFrame(buffer) ==
  buffer # <<>> /\ buffer[1] # "bad" /\ Len(buffer) >= Len(FrameOf(buffer[1]))

Init ==
  /\ status = [s \in Socket |-> "new"]
  /\ wait = [s \in Socket |-> FALSE] /\ forced = [s \in Socket |-> FALSE]
  /\ user = [s \in Socket |-> "none"]
  /\ tasks = [k \in Keys |-> {}]
  /\ wire = [s \in Socket |-> <<>>] /\ read = [s \in Socket |-> <<>>]
  /\ write = [s \in Socket |-> <<>>] /\ sent = [s \in Socket |-> <<>>]
  /\ queued = [s \in Socket |-> 0]
  /\ lost = [s \in Socket |-> FALSE] /\ quiet = [s \in Socket |-> FALSE]
  /\ frames = 0
  /\ notices = 0
  /\ lobby = [pc |-> "check", todo |-> {}, ready |-> {}, sock |-> None,
              size |-> 0, total |-> 0, moved |-> FALSE]
  /\ discovery = None

-----------------------------------------------------------------------------
(* RealmSocket::send, and the end of a RealmUser.                          *)

Units(s, n) == [i \in 1 .. n |-> queued[s] + i]

\* Mutant: the units replace what is in the buffer.
Queue_Assigns(amount) ==
  /\ write' = [s \in Socket |-> Units(s, amount[s])]
  /\ queued' = [s \in Socket |-> queued[s] + amount[s]]
  /\ UNCHANGED sent

\* So many units for each socket, appended under its write_mutex.
Queue(amount) ==
  /\ write' = [s \in Socket |-> write[s] \o Units(s, amount[s])]
  /\ queued' = [s \in Socket |-> queued[s] + amount[s]]
  /\ UNCHANGED sent

Only(s, n) == [t \in Socket |-> IF t = s THEN n ELSE 0]

\* Who else points to the user of s: a save task, or the discovery thread.
Held(s, ts, thread) == thread = s \/ \E k \in Keys : s \in ts[k]

\* RemoveUser takes the user out of m_users; the object goes with its last
\* shared_ptr, and ~RealmUser asks for the socket to be closed.
Removed(s) ==
  IF user[s] # "online" THEN user[s]
  ELSE IF Held(s, tasks, discovery) THEN "removed" ELSE "freed"

\* NotifyFriendsOnlineStatus: some of those in m_users are friends, and users
\* may have made themselves their own friend.
Friends(s) == IF user[s] = "online" THEN {t \in Socket : user[t] = "online"} ELSE {}

\* The friends have a notice queued, and s what else it is told in this step.
RemoveUser(s, told) ==
  /\ user' = [user EXCEPT ![s] = Removed(s)]
  /\ \E friends \in SUBSET Friends(s) :
       Queue([t \in Socket |-> (IF t = s THEN told ELSE 0)
                               + (IF t \in friends THEN 1 ELSE 0)])
  /\ UNCHANGED tasks

WaitsAfterRemoval(s) == wait[s] \/ (user[s] = "online" /\ Removed(s) = "freed")

\* Mutant: a user whose last pointer was in a task or a thread is forgotten.
Frees_None(ts, thread) == {}

\* Those who go when the pointers change.
Frees(ts, thread) == {s \in Socket : user[s] = "removed" /\ ~Held(s, ts, thread)}

LetGo(ts, thread) ==
  /\ tasks' = ts /\ discovery' = thread
  /\ user' = [s \in Socket |-> IF s \in Frees(ts, thread) THEN "freed" ELSE user[s]]
  /\ wait' = [s \in Socket |-> wait[s] \/ s \in Frees(ts, thread)]

-----------------------------------------------------------------------------
(* The lobby thread.                                                       *)

At(pc) == lobby.pc = pc

\* Mutant: the user of a closed socket stays in m_users.
Closes_KeepsUser(s) == UNCHANGED <<users, output>>

\* CheckSocketProblem closes a socket, and its user goes first.
Closes(s) == RemoveUser(s, 0)

\* Mutant: a socket that waits to be closed is closed at once.
MustClose_AtOnce(s) == forced[s] \/ quiet[s] \/ wait[s]

\* Mutant: the flag of a socket that waits is not looked at.
MustClose_NotWaiting(s) == forced[s] \/ quiet[s]

\* Timed out, dead, or waiting with nothing left to write.
MustClose(s) == forced[s] \/ quiet[s] \/ (wait[s] /\ write[s] = <<>>)

\* The flags and the buffer are read without a lock; from here on the other
\* thread may queue what nobody will send.
CheckSocket(s) ==
  /\ At("check") /\ s \in lobby.todo
  /\ forced' = [forced EXCEPT ![s] = MustClose(s)]
  /\ lobby' = [lobby EXCEPT !.todo = @ \ {s},
                 !.pc = IF MustClose(s) THEN "remove" ELSE "check",
                 !.sock = IF MustClose(s) THEN s ELSE None]
  /\ UNCHANGED <<client, status, wait, users, output, read, notices, discovery>>

RemoveClosing ==
  /\ At("remove")
  /\ wait' = [wait EXCEPT ![lobby.sock] = WaitsAfterRemoval(lobby.sock)]
  /\ Closes(lobby.sock)
  /\ lobby' = [lobby EXCEPT !.pc = "drop"]
  /\ UNCHANGED <<client, status, forced, read, notices, discovery>>

\* Erased from m_clientSockets, with what is still in its buffer.
DropSocket ==
  /\ At("drop")
  /\ status' = [status EXCEPT ![lobby.sock] = "gone"]
  /\ lobby' = [lobby EXCEPT !.pc = "check", !.sock = None]
  /\ UNCHANGED <<client, wait, forced, users, output, read, notices, discovery>>

\* select: the sockets with something to read, or whose client is gone.
Select ==
  /\ At("check") /\ lobby.todo = {}
  /\ lobby' = [lobby EXCEPT !.pc = "accept",
                 !.ready = {s \in Socket : status[s] = "listed"
                                           /\ (wire[s] # <<>> \/ lost[s])}]
  /\ UNCHANGED <<client, flags, users, output, read, notices, discovery>>

\* The connections of a gateway port get no user.
AcceptConnection(s) ==
  /\ At("accept")
  /\ status[s] = "new"
  /\ status' = [status EXCEPT ![s] = "listed"]
  /\ \E is_gateway \in BOOLEAN :
       user' = [user EXCEPT ![s] = IF is_gateway THEN "none" ELSE "online"]
  /\ UNCHANGED <<client, wait, forced, tasks, output, read, notices, lobby, discovery>>

Serve ==
  /\ At("accept")
  /\ lobby' = [lobby EXCEPT !.pc = "serve",
                 !.todo = {s \in Socket : status[s] = "listed"}]
  /\ UNCHANGED <<client, flags, users, output, read, notices, discovery>>

NextPass ==
  /\ At("serve") /\ lobby.todo = {}
  /\ lobby' = [lobby EXCEPT !.pc = "check", !.sock = None, !.ready = {},
                 !.todo = {s \in Socket : status[s] = "listed"}]
  /\ UNCHANGED <<client, flags, users, output, read, notices, discovery>>

SkipRead(s) ==
  /\ At("serve") /\ s \in lobby.todo \ lobby.ready
  /\ lobby' = [lobby EXCEPT !.pc = "write", !.todo = @ \ {s}, !.sock = s]
  /\ UNCHANGED <<client, flags, users, output, read, notices, discovery>>

\* ReadSocket: some of what has arrived is appended.
ReadSocket(s) ==
  /\ At("serve") /\ s \in lobby.todo \cap lobby.ready
  /\ lobby' = [lobby EXCEPT !.pc = "parse", !.todo = @ \ {s}, !.sock = s]
  /\ \E n \in 1 .. Len(wire[s]) :
       /\ read' = [read EXCEPT ![s] = @ \o SubSeq(wire[s], 1, n)]
       /\ wire' = [wire EXCEPT ![s] = SubSeq(@, n + 1, Len(@))]
  /\ quiet' = [quiet EXCEPT ![s] = FALSE]
  /\ UNCHANGED <<lost, frames, flags, users, output, notices, discovery>>

\* recv returns zero, or an error.
ReadFails(s) ==
  /\ At("serve") /\ s \in lobby.todo \cap lobby.ready
  /\ lost[s]
  /\ forced' = [forced EXCEPT ![s] = TRUE]
  /\ lobby' = [lobby EXCEPT !.pc = "write", !.todo = @ \ {s}, !.sock = s]
  /\ UNCHANGED <<client, status, wait, users, output, read, notices, discovery>>

StopParsing == lobby' = [lobby EXCEPT !.pc = "write"]

\* No length, not all of the frame, or a length that cannot be.
ParseEnds ==
  /\ At("parse") /\ ~HasFrame(read[lobby.sock])
  /\ wait' = IF read[lobby.sock] # <<>> /\ read[lobby.sock][1] = "bad"
             THEN [wait EXCEPT ![lobby.sock] = TRUE] ELSE wait
  /\ StopParsing
  /\ UNCHANGED <<client, status, forced, users, output, read, notices, discovery>>

\* Mutant: the length is not counted.
Rest_Misplaced(buffer) == SubSeq(buffer, Len(FrameOf(buffer[1])), Len(buffer))

\* What follows the frame at the head of the buffer.
Rest(buffer) == SubSeq(buffer, Len(FrameOf(buffer[1])) + 1, Len(buffer))

Pop(s) == read' = [read EXCEPT ![s] = Rest(@)]

\* A frame without a body is taken, and the loop ends.
ParseEmpty ==
  /\ At("parse") /\ HasFrame(read[lobby.sock])
  /\ read[lobby.sock][1] = "empty"
  /\ Pop(lobby.sock)
  /\ StopParsing
  /\ UNCHANGED <<client, flags, users, output, notices, discovery>>

\* HandleRequest, up to the response.
Handle(kind) ==
  /\ At("parse") /\ lobby.sock \in Socket /\ HasFrame(read[lobby.sock])
  /\ read[lobby.sock][1] = kind
  /\ Pop(lobby.sock)
  /\ UNCHANGED <<client, status, forced, notices, lobby>>

\* Any other request, or a save that is refused or not at its end.
Request ==
  /\ \E kind \in {"request", "save", "append"} : Handle(kind)
  /\ Queue(Only(lobby.sock, 1))
  /\ UNCHANGED <<wait, users, discovery>>

\* BeginSaveTask: the task of the owner is replaced by one that holds the owner
\* and the user whose character is saved.  Either key: logged in, or not.
BeginSave(target) ==
  /\ Handle("save")
  /\ user[lobby.sock] = "online" /\ user[target] = "online"
  /\ Queue(Only(lobby.sock, 1))
  /\ \E key \in {lobby.sock, None} :
       LetGo([tasks EXCEPT ![key] = {lobby.sock, target}], discovery)

\* CommitSaveTask takes the task out, whatever the database answers.
CommitSave ==
  /\ Handle("append")
  /\ user[lobby.sock] = "online"
  /\ Queue(Only(lobby.sock, 1))
  /\ \E key \in {lobby.sock, None} : LetGo([tasks EXCEPT ![key] = {}], discovery)

\* The user goes before the response is queued.
Logout ==
  /\ Handle("logout")
  /\ wait' = [wait EXCEPT ![lobby.sock] = WaitsAfterRemoval(lobby.sock)]
  /\ RemoveUser(lobby.sock, 1)
  /\ UNCHANGED discovery

\* RequestMatchGame_RTA of a user who is gone or not logged in: Disconnect
\* queues the forced logout, then the handler's response follows.
MatchUnknown ==
  /\ Handle("match")
  /\ wait' = [wait EXCEPT ![lobby.sock] = TRUE]
  /\ RemoveUser(lobby.sock, 2)
  /\ UNCHANGED discovery

\* The socket cannot be written, or has nothing to write.
SkipWrite ==
  /\ At("write")
  /\ lobby' = [lobby EXCEPT !.pc = "serve"]
  /\ UNCHANGED <<client, flags, users, output, read, notices, discovery>>

WriteSocket ==
  /\ At("write")
  /\ lobby.sock \in Socket
  /\ ~forced[lobby.sock] /\ write[lobby.sock] # <<>>
  /\ lobby' = [lobby EXCEPT !.pc = "sending", !.total = 0,
                 !.size = Len(write[lobby.sock]), !.moved = FALSE]
  /\ UNCHANGED <<client, flags, users, output, read, notices, discovery>>

Least(a, b) == IF a < b THEN a ELSE b

\* One call of ::send.  It reads the buffer without write_mutex: when the other
\* thread moved the buffer since the last call, the units may be anything.
SendChunk ==
  /\ At("sending") /\ lobby.total < lobby.size
  /\ LET s == lobby.sock
         most == Least(lobby.size - lobby.total, Chunk)
     IN \E n \in 1 .. most :
          /\ \E units \in {SubSeq(write[s], lobby.total + 1, lobby.total + n)} \cup
                          (IF lobby.moved THEN {[i \in 1 .. n |-> Torn]} ELSE {}) :
               sent' = [sent EXCEPT ![s] = @ \o units]
          /\ lobby' = [lobby EXCEPT !.total = @ + n, !.moved = FALSE,
                         !.pc = IF n < most THEN "erase" ELSE "sending"]
  /\ UNCHANGED <<client, flags, users, write, queued, read, notices, discovery>>

\* All is sent, or the client takes no more.
SendStops ==
  /\ At("sending")
  /\ lobby' = [lobby EXCEPT !.pc = "erase"]
  /\ UNCHANGED <<client, flags, users, output, read, notices, discovery>>

\* Any other error: what was sent is not erased.
SendFails ==
  /\ At("sending") /\ lobby.total < lobby.size /\ lost[lobby.sock]
  /\ wait' = [wait EXCEPT ![lobby.sock] = TRUE]
  /\ lobby' = [lobby EXCEPT !.pc = "serve"]
  /\ UNCHANGED <<client, status, forced, users, output, read, notices, discovery>>

\* Mutant: the buffer is cleared, with what was queued since its size was read.
Kept_Nothing(s) == <<>>

\* What was not sent, and what was queued meanwhile.
Kept(s) == SubSeq(write[s], lobby.total + 1, Len(write[s]))

\* Under write_mutex.
EraseSent ==
  /\ At("erase")
  /\ write' = [write EXCEPT ![lobby.sock] = Kept(lobby.sock)]
  /\ lobby' = [lobby EXCEPT !.pc = "serve"]
  /\ UNCHANGED <<client, flags, users, queued, sent, read, notices, discovery>>

LobbyStep ==
  \/ \E s \in Socket : CheckSocket(s) \/ SkipRead(s) \/ ReadSocket(s) \/ ReadFails(s)
  \/ RemoveClosing \/ DropSocket \/ Select \/ Serve \/ NextPass
  \/ ParseEnds \/ ParseEmpty
  \/ \E target \in Socket : BeginSave(target)
  \/ Request \/ CommitSave \/ Logout \/ MatchUnknown
  \/ SkipWrite \/ WriteSocket \/ SendChunk \/ SendStops \/ SendFails \/ EraseSent

-----------------------------------------------------------------------------
(* The discovery thread: a packet of the user of s.                        *)

FindUser(s) ==
  /\ discovery = None
  /\ notices < MaxNotices
  /\ user[s] = "online"
  /\ discovery' = s
  /\ UNCHANGED <<client, flags, users, output, read, notices, lobby>>

\* RealmSocket::send to that user, or to the host of the game.  The vector may
\* grow, and give back the memory that ::send is reading.
Notify(s) ==
  /\ discovery # None
  /\ notices < MaxNotices
  /\ s = discovery \/ user[s] = "online"
  /\ Queue(Only(s, 1))
  /\ notices' = notices + 1
  /\ \E grows \in BOOLEAN :
       lobby' = [lobby EXCEPT
                   !.moved = @ \/ (grows /\ At("sending") /\ lobby.sock = s)]
  /\ UNCHANGED <<client, flags, users, read, discovery>>

\* The shared_ptr of ProcessPacket goes; it may be the last.
DropUser ==
  /\ discovery # None
  /\ LetGo(tasks, None)
  /\ UNCHANGED <<client, status, forced, output, read, notices, lobby>>

-----------------------------------------------------------------------------
(* The client and the network.                                             *)

ClientSends(s, k) ==
  /\ status[s] = "listed" /\ ~lost[s]
  /\ frames < MaxFrames
  /\ wire' = [wire EXCEPT ![s] = @ \o FrameOf(k)]
  /\ frames' = frames + 1
  /\ UNCHANGED <<lost, quiet, flags, users, output, read, notices, lobby, discovery>>

ClientCloses(s) ==
  /\ status[s] = "listed" /\ ~lost[s]
  /\ lost' = [lost EXCEPT ![s] = TRUE]
  /\ UNCHANGED <<wire, quiet, frames, flags, users, output, read, notices, lobby, discovery>>

\* 30 seconds without a byte; the loop passes in milliseconds.
ClientQuiet(s) ==
  /\ status[s] = "listed" /\ wire[s] = <<>> /\ ~lost[s] /\ ~quiet[s]
  /\ quiet' = [quiet EXCEPT ![s] = TRUE]
  /\ UNCHANGED <<wire, lost, frames, flags, users, output, read, notices, lobby, discovery>>

Next ==
  \/ LobbyStep
  \/ DropUser
  \/ \E s \in Socket :
       \/ AcceptConnection(s)
       \/ FindUser(s) \/ Notify(s)
       \/ ClientCloses(s) \/ ClientQuiet(s)
       \/ \E k \in Kinds : ClientSends(s, k)

Spec == Init /\ [][Next]_vars

\* The threads run, and a client that stays reads: a socket with something to
\* write is written from time to time.
Fairness ==
  /\ WF_vars(LobbyStep) /\ WF_vars(DropUser)
  /\ SF_vars(WriteSocket) /\ SF_vars(SendChunk)
  /\ \A s \in Socket : SF_vars(ReadFails(s))

FairSpec == Spec /\ Fairness

-----------------------------------------------------------------------------
(* Properties.                                                             *)

\* What send took and erase has not taken off yet.
InFlight == IF lobby.pc \in {"sending", "erase"} THEN lobby.total ELSE 0

Unsent(s) ==
  IF lobby.sock = s THEN SubSeq(write[s], InFlight + 1, Len(write[s])) ELSE write[s]

Stream(s) == sent[s] \o Unsent(s)

(* WriteSocket and the two threads that call send: while the client is      *)
(* there, every unit queued is sent once and in its place, though the       *)
(* buffer grows between the reads of its size and the erase; only a unit    *)
(* read while the buffer moved can be torn.                                 *)
StreamIntact ==
  \A s \in Socket : ~lost[s] =>
    /\ Len(Stream(s)) = queued[s]
    /\ \A i \in 1 .. queued[s] : Stream(s)[i] \in {i, Torn}

(* CheckSocketProblem: a user is found by socket only while the server      *)
(* serves that socket; nobody is in m_users without a connection.           *)
UsersHaveSockets == \A s \in Socket : user[s] = "online" => status[s] = "listed"

(* ~RealmUser: the connection of a user who is gone waits to be closed,      *)
(* whichever thread dropped the last pointer; until then somebody holds it. *)
GoneUsersClose ==
  \A s \in Socket :
    user[s] \in {"removed", "freed"} =>
      wait[s] \/ (user[s] = "removed" /\ Held(s, tasks, discovery))

(* ReadSocket: frames are taken from the buffer one by one and whole: what  *)
(* follows a frame is never taken for the start of another.                 *)
FramesAligned ==
  \A s \in Socket : read[s] # <<>> => read[s][1] # "body"

(* "Check if we're waiting to disconnect after sending buffered data": when *)
(* the server decides to close the socket of a client that is there and not *)
(* quiet, all that was queued for it until then is sent, the answer to its  *)
(* logout and the forced logout included, though the flag is set before     *)
(* they are queued; and no socket closes without that decision.  What the   *)
(* other thread, or the removal of the user, queues after it may be lost.   *)
LastWordsSent ==
  [][\A s \in Socket :
       /\ ~forced[s] /\ forced'[s] => lost[s] \/ quiet[s] \/ Len(sent[s]) = queued[s]
       /\ status[s] = "listed" /\ status'[s] = "gone" => forced[s]]_vars

(* A socket that waits to be closed is closed in the end, when its client   *)
(* reads what is left.                                                      *)
WaitingCloses == \A s \in Socket : wait[s] ~> status[s] = "gone"

=============================================================================
