# Champions Reborn Server: verification models

TLA+ models of the game lobby server of *Champions of Norrath* and *Champions:
Return to Arms*, the TLC runs that check them on small instances, and theorems
that TLAPS proves for every value of the constants. Paths below are under
`src/`; `Event/X` stands for `Source/Network/Event/X.cpp`.

## 1. The system

One process, three threads.

* The **main thread** (`Source/main.cpp`) starts the two servers, looks every
  250 ms whether they run, and stops them.
* The **lobby thread** (`LobbyServer::Run`) serves all TCP connections in one
  `select` loop: it checks each socket, accepts, reads, takes the frames out of
  the read buffer, runs the handler of each to its end, and writes.
* The **discovery thread** (`DiscoveryServer::Run`) receives UDP packets. A
  packet has the session id of a user. The thread records the address it came
  from, and then opens the user's game (a host) or tells the host and the user
  each other's address (a guest).

They share the users, the games, and the output buffers of the sockets.
`GameSessionManager::m_dataMutex` and `UserManager::m_mutex` protect the *lists*
during one call. Nothing protects the fields of a `RealmUser` or of a
`GameSession`, nor a handler as a whole.

### Components

| component | state | operations | what makes it correct |
|---|---|---|---|
| Game sessions (`GameSessionManager.cpp`, `GameSession.cpp`) | the two lists of games, the next id; per game its name, state, seats (weak pointers), `int8_t` counts, address | create, open, join, cancel, start, update, terminate, disconnect | an id is listed once and never returns; a seat is one live member's; the game goes with its host; the host flag means the owner's seat |
| Game requests (13 handlers) | `m_isHost`, `m_gameId`, `m_discoveryAddr` of users | the sequence of writes and manager calls of each handler | the other thread acts sensibly between any two of them |
| Discovery server | the packet being handled | record, read the role, open or join, notify | a late or duplicate packet does no harm, and the packet of a host opens the game |
| Chat rooms (`ChatRoomManager.cpp`, `ChatRoom.cpp`) | rooms by id, members as weak pointers, `m_publicRoomId`, `m_privateRoomId` of users | create, enter, leave, close with a game, disconnect | fields and memberships agree; names are unique; a room goes with its last member |
| Lobby connections (`LobbyServer.cpp`, `RealmSocket.cpp`, `~RealmUser`) | sockets, read and write buffers, flags, the pointers to a user | accept, read, parse, handle, write, close, time out, notify | the byte stream is whole; the connection of a user who is gone closes, after the last answer |
| Character saves (`CharacterSaveManager.cpp`, `RealmCharacterSaveTask.cpp`) | one task per session | begin, append, commit | a stored character is complete, of one save, in one account |
| Database (`Database.cpp`) | users, characters, friend and ignore rows | one transaction per call | a row comes and goes only for its own account, and the file is opened once |
| Accounts (`Event/RequestLogin`, `Event/RequestCreateAccount`) | `m_accountId`, `m_sessionId`, names, lists of a user | log in, create | an account is used by one user at a time |
| Friends, ignore lists, messages (8 handlers) | two lists per user and their rows | add, remove, message, notices | lists and rows agree; who is ignored is silent |
| Users (`RealmUserManager.cpp`) | `m_users` | create, remove, find | a user is in `m_users` while the connection is served |
| Start and stop (`main.cpp`) | `g_isRunning`, `m_running` of each server, the singleton of the database | start, signal, stop, join | every client is told, and the threads end before main does |
| Streams and character data (`ByteStream.cpp`, `RealmCharacterMetaKV.cpp`) | a buffer and a position; the chunks of a character on their way | write and read each kind of field, frame, send in chunks | what one end writes the other reads |
| Requests that only read, notices, dispatch, cryptography, configuration, log | none to speak of | | formatting |

How they interact: a handler finds its user by socket in `UserManager`, calls
`GameSessionManager`, `ChatRoomManager`, `CharacterSaveManager` or `Database`,
and queues its answer on the socket. `UserManager::RemoveUser` calls the game
manager, then the chat manager, then notifies friends, then erases the user. The
object itself goes with its last `shared_ptr`, which a save task or the
discovery thread may hold; its destructor asks for the socket to be closed, and
the loop closes it when its buffer is empty. Games and rooms meet twice: a
starting game closes the room that has its name, and `RequestCancelGame_RTA`
leaves the private room.

### What is hard

1. The two threads share fields without a lock, and the discovery thread makes
   each decision in several reads (role, game id, state, owner, address).
2. UDP packets are late, lost or repeated, for a user who has moved on.
3. Members are weak pointers: seats and room entries outlive their users, and
   counts do not follow.
4. A user can be in several rooms, visit several games, and log in again,
   while single fields name only the last of each.
5. A save spreads over many requests; what it is stored into is read at the end.
6. The output buffer is read by `::send` while another thread may append to it.
7. A connection closes by flags that are set in one place, by a destructor that
   runs in either thread, and are honoured in another, once all is written.
8. Lists are kept in memory and in rows, and a user changes accounts under them; a
   load that the database cuts short looks like a short list.
9. The main thread walks the connections of the lobby thread and waits for threads,
   one of which waits for a packet; the database is opened by whoever comes first.
10. Lengths count bytes, words or characters, with or without themselves, and a read
   past one length is a read of the next field.

`PROJECT.json` lists these hazards one by one, each at its line, with the
properties that cover it, or a note on what they leave open.

## 2. Modules

| module | what it is |
|---|---|
| `GameSessions` | games, game requests, discovery thread: one action per critical section or access to a shared field, both threads interleaved |
| `GameDirectory` | abstract specification: what others see of the games |
| `GameSessionsInv` | the inductive invariant of `GameSessions` |
| `GameSessionsProofs`, `GameSessionsRefines` | its invariance; the refinement of `GameDirectory` |
| `RoomDirectory` | abstract specification: the list of rooms, for who looks one up by id or by name |
| `ChatRooms`, `ChatRoomsProofs` | rooms; one action per request, as only the lobby thread is involved; the refinement of `RoomDirectory` |
| `CharacterStore` | abstract specification: the characters, for the accounts that own them |
| `CharacterSaves`, `CharacterSavesProofs` | save tasks, characters, accounts in use, restarts of the server; the refinement of `CharacterStore` |
| `SocialLists`, `SocialListsProofs` | friend and ignore lists, their rows, chat handles, instant messages, accounts, restarts |
| `Lifecycle`, `LifecycleProofs` | start and stop of the three threads, the walk over the connections, the opening of the database |
| `Streams`, `StreamsProofs` | fields, frames and the chunks of a character, from one end to the other |
| `Sockets` | the loop of the lobby thread, buffers, the end of a user, the notices of the other thread |
| `SocketsProofs` | users and flags; types, the two streams of a connection, the last words |
| `MC...` | constants and symmetries for TLC |

The components share no variable but the life of a user, which each of the first
four has as far as it needs it: `connection[u]` is *new*, *online* (in `m_users`),
*removed* (erased, but somebody holds the object) and *freed*. A `RealmUser` is
made for one connection, so a client that reconnects is another member of
`User` (in `SocialLists`, where no user acts after it left, a place is used again). Requests of one component leave the variables of the others alone,
with the exceptions named above: the chat part of a cancel and of a start are in
`ChatRooms`, the games part in `GameSessions`.

### GameSessions

`lobby` and `discovery` are the places of the threads: the pc, and the locals a
handler keeps (the user, the game found, the host found). An action is either
one call of the manager under `m_dataMutex`, or the accesses from one shared
field to the next; for instance `RequestCreatePublicGame` is `CreatePublicGame`
(the lookup of the name, under the lock), `CreateSetsHost`, `CreateSetsGame`,
`CreateResetsAddr`, `CreateLists` (`push_back`, under the lock), and
`CreateResetsHostAgain` (the handler's second reset). `RequestOpen` is
`ReadGameId`, `FindGame`, `OpenReadsState`, `OpenReadsAddr`, `OpenSets`, `Tell`.
The order of two writes is the order in the code, also where it differs between
games (`DoClientDiscovery` of Norrath sets the game first, the others the flag).

Abstracted: what an address is (whether it is there, and in a session whose it
is), session ids, game info beyond the name. The id of a user is empty until a
log-in draws one at random (`named`); the code compares ids, and those of all who
are not logged in agree (`SameId`). So a stranger who is not logged in and leaves may
end the game of an owner who is not either, and no packet finds such users. `told` says that a client knows the discovery server, so that no packet
comes before. Packets are received for any user who was told, any number of
times, which is a late, repeated or reordered packet; one that is lost is never
received. The name of a public Norrath game is stored with its stage (`Staged`)
but looked up without.

### ChatRooms

`rooms` is the map from ids; members are the users put in and not taken out,
whether or not they are alive, as the code's vectors of weak pointers. Public rooms
are made first. Notices to members only write to sockets. `Directory` maps the list to
`RoomDirectory`: a room is *new* from `roomIndex` on, *listed* while it is in `rooms`,
then *gone*.

### CharacterSaves

A piece of data is the number of the save its client began last, and `Full`
pieces make a character; who began none sends a 0. `Validate` asks for the metadata and for all of the
data; what follows the end is trimmed. `MaxPieces` bounds the pieces that a task has
before the one that completes it. A commit takes the task out and then
stores, or fails. The empty session is the key 0, which all who are not logged
in share. Each statement of the database has its `WHERE` (`Matches`), and
transactions are atomic. `Restart` ends the process at any point: tasks and users
are lost, rows stay. `CharacterStore` has the database's variables, the pieces there may be, and nothing else:
tasks, users, log-ins, failures and restarts are stuttering steps of it.

### Sockets

Output is numbered in units as it is queued, so that a lost, repeated or
reordered byte is seen. A frame is its length and its body, so that a read may
end within one. `WriteSocket` reads the size without the lock, `SendChunk`
reads units of the buffer without the lock, `EraseSent` erases under it; the
discovery thread appends in between, and if the append moves the vector the next
`SendChunk` may read anything (`Torn`): a data race of the code, kept as a
choice. `Held` says which tasks and threads point to a removed user; `LetGo` is
the end of a pointer and, when it was the last, of the user. The loop closes a socket in
three steps, as the code takes no lock over them: `CheckSocket` reads the flags, the
time and whether the buffer is empty, `RemoveClosing` is `RemoveUser` with its notices
to friends (a user may be their own), `DropSocket` erases. The discovery thread may
queue something in between, which nobody sends. Requests differ by
what they do to a connection: nothing, a task, a logout, a forced logout, an
empty frame, a length that cannot be.

### SocialLists

One action per request. Handles are model values, and several accounts may have the
same: `chat_handle` is not unique in the database, so `FindUserByChatHandle` takes
the first of `m_users`. A list is a count per handle, for its order is never used.
`Login` refuses an account that somebody uses, the asker included, and loads both
lists, or a part of them: the loop over the rows ends without a word when the
database fails. `CreateAccount` keeps the lists as they are. A request whose row
cannot be stored changes nothing. `origin` remembers where the lists came from
(loaded whole, cut short, kept from another account), which the properties need and
no action reads. `message` is the instant message of the last step.

### Lifecycle

The places of `main`, of `LobbyServer::Run` and of `DiscoveryServer::Run`. Each
`Start` may fail before it makes its thread; a lobby port that does not open is not
noticed, and the loop then uses a null socket (`Abort`). A request that is shorter than
the fields its handler reads throws through the thread, another way to `Abort`. `TellNext` is one round of
the loop over `m_clientSockets` in `Stop`; `CloseClient` and `AcceptConnection` of
the other thread move the vector, and the walk may then reach anything, or fail.
`Receive` waits for a packet, as `recvfrom` has no timeout; packets come or do not, and
are gone when there is no discovery thread to ask for them. `Database::Get` is two
steps under its mutex, by main or by a request.

### Streams

A byte is a cell that says of which number, text or data it is which part, so that a
reader that is one byte off has cells of two things and no value. `WriteField` writes
one field of any kind in the encoding of `ByteStream.cpp`; `Send` puts the frame on
the wire; `TakeFrame` cuts it off; one action for each kind of read. Which kinds a
message has (`plan`) is what the request's `Deserialize` says, and is taken to be
what its sender wrote. `Encrypted` may hold anything for a text that does not fill
its blocks: `encryptSymmetric` points its span at a vector that is gone when it is
read. Between the messages the lobby thread sends a character in chunks
(`SendChunk`, `KeepFinalChunk`, `Answer`).

## 3. What is checked

| run | instance | what it shows |
|---|---|---|
| `games_norrath` | 2 Norrath clients, 2 games, public and private | the two threads implement `GameDirectory`; the host flag means the owner's seat; a game goes with its host; nobody has two seats; a seat is kept until its member cancels |
| `games_arms` | 2 Arms clients, 1 game, reported counts, fairness | types, and that no increment leaves `int8_t`; no started game is listed; the packet of a host opens the game |
| `games_role`, `games_cancel` | as `games_norrath` | **violations**, see section 5 |
| `chat_rooms` | 3 users, 2 public rooms, 4 names (one empty), 5 rooms | fields and memberships agree; rooms go with their members; the rooms implement `RoomDirectory` |
| `chat_names` | the same | **violation** |
| `saves` | 2 users, 2 accounts, 3 sessions, 3 saves, 2 characters, restarts | accounts, separation and ownership of saves; the server implements `CharacterStore` |
| `saves_target` | the same | **violation** |
| `social` | 3 places for users, 2 accounts, 2 handles, restarts | lists are rows; rows follow requests; who is ignored is silent |
| `sockets_one` | 1 connection, 2 frames of all seven kinds, 1 notice, fairness | the stream, the frames, the last words, the end; users and sockets end together, whoever holds the last pointer |
| `lifecycle` | 3 threads, 3 connections, fairness | the threads end before main, and do end if packets come or no thread waits for them; the database is opened once; everybody is told, unless the vector moved |
| `streams` | messages of 2 fields of all eight kinds, characters of 0 to 4 bytes | what is written is read; a character is put together from its chunks |

Bounds, and why they are enough:

* *Seats = 2* for four, and *MaxCount = 3* for 127: a game can be empty, partly
  taken and full; counts reach both ends of their range. The proofs are for any.
* *Two clients and two games* give a host and a guest, a host who becomes a guest
  of another host, and a user whose late packet is of an earlier game. A third
  client would add only another guest. `games_arms` has one game, as its clients
  report counts and its liveness multiplies the states; that Arms clients keep the
  directory with any number of games is proved.
* *Reports* are, in `games_arms`, the greatest and the least count with the greatest
  maximum: an increment could leave `int8_t` above (it does not, as a game is joined only
  below its maximum), and a decrement does below. Elsewhere nothing is reported.
* *Three saves, three sessions*: a save that replaces another, and a log-in to
  another account while a task is open.
* *Chunk*: 2 units, so that a buffer needs one call of `::send` or two.
* *One connection, two frames*: a save and its commit; a frame that is read in two
  parts; a logout with a request after it. That users and sockets end together with
  any number of connections, which may hold each other's users in their tasks, is
  proved.
* *One notice*: the discovery thread appends before, within or after a write, or
  holds the user during a logout.
* *Two accounts, two handles*: two accounts with one handle or with two; a user who
  goes from one account to the other; three places, so that the first user of a
  handle leaves and another with it stays.
* *Three connections*: one of each to be skipped, told twice or gone when the vector
  moves.
* *Streams*: a block of 4 and texts of 0, 1 and 2 characters (4 bytes fill it, 2 do
  not); chunks of 2 and characters of 0 to 4 bytes (less, as much and more than a
  chunk, with and without a rest); one key allowed, and lists of 0, 1 and 2; frames
  up to 48, which the longest messages exceed. Two fields: any kind behind any other.
  One message among the chunks, as messages are independent once a frame is cut off.

Deadlock is not checked where a bounded counter ends the system (`CHECK_DEADLOCK
FALSE`: games, rooms, saves and messages run out). It is checked in `SocialLists`,
where users come and go for ever, in `Sockets`, whose loop never ends, and in
`Lifecycle`, where three threads wait for locks, flags and each other and must not
stop before the process does.

Symmetry is used over users, accounts and handles in runs without liveness.

**Fairness.** `GameSessions!Fairness` is weak fairness of each thread: both are
loops, and each holds a mutex only for a bounded search, so neither waits for
ever. Clients owe nothing. In `Sockets`, the two threads likewise; strong
fairness of `WriteSocket`, `SendChunk` and `ReadFails` says that a client that
stays takes what is written to it and that `select` ends up seeing a connection
that is lost. Without the first, a socket that waits to be closed may keep its
buffer for ever: the code closes it only when the buffer is empty, or after 30
silent seconds. In `Lifecycle`, weak fairness of each thread, and the end of the
process is promised only if packets keep coming.

**Mutants.** Each property has one: a definition with the kind of slip a change
of the code could make (a dropped check, a forgotten reset, an off-by-one), which
the run then finds. They are the operators with an underscore in their names.

## 4. What is proved

Every theorem is `Spec => []...` for any sets of users, names, sockets and
accounts and any bounds, from the named assumption of each module
(`ConstantsAssumption`, `ChatAssumption`, `SavesAssumption`, `SocketsAssumption`,
`SocialAssumption`, `LifecycleAssumption`, `StreamsAssumption`), which TLC evaluates in the runs. The pattern is the same throughout: `Init => IInv`;
each action keeps each part it can disturb, as a lemma; `IInv` gives the property.

* **GameSessions** (`IInv` in `GameSessionsInv`): type correctness,
  `HostFlagMeansOwner`, `NoGameOutlivesItsHost`, `NoDoubleSeat`,
  `ListedNotStarted`, and from the same invariant the action property
  `SeatKeptUntilCancel`. Hardly any of these is inductive alone. *LobbyInv* and
  *DiscoveryInv* say what each place of a thread knows (a handler works for an online
  user on a game of their kind; a packet past its lookup is for a game that was
  once listed). *CreationInv* says that nobody can reach a game before it is
  listed: without it a packet could open one that is being built. *KindInv*: users point to games of their kind only, so a lookup by id and kind
  fails just when the game is gone. *LeavingInv* carries the end of a host's game
  from the check to the erase. *NameInv*: a name that was free at the lookup is
  free at the `push_back`, as only the lobby thread adds games.
* **GameSessions implements GameDirectory** (`DirectoryImplemented`): each step
  announces, opens or ends one game, or changes nothing that others see. So ids
  are announced in order, no title changes, names are unique (but for public
  Norrath games), and a game that is over is over, whatever packets come.
* **ChatRooms**: the properties of `chat_rooms`, and that names are unique.
  *IdsAreFresh*: ids above `m_roomIndex` name no room, so a field never comes to mean a
  later room. **ChatRooms implements RoomDirectory** (`RoomDirectoryImplemented`): the
  step that needs care is a disconnect, which leaves two rooms; of these only one is
  private (*FieldsAreMemberships*), so at most one goes.
* **CharacterSaves**: the properties of `saves`, and that only complete characters are
  stored. *NumbersAreFresh* (session and
  save numbers in use were drawn), *SessionsDiffer* (no two users share one that is
  not empty), *AccountsExist*, *TaskIsLatest* (the task of a session is the last
  its owner began: this is why pieces do not mix), *TasksDiffer* (no two tasks, or
  a task and a row, are of one save: this is why a repeated last piece makes
  nothing). **CharacterSaves implements CharacterStore** (`StoreImplemented`).
* **Sockets**: `UsersHaveSockets` and `GoneUsersClose`. *LetGoKeeps* is the heart:
  whichever pointer goes last, and in whichever thread, the flag is set.
* **Sockets, the buffers**: types, `StreamIntact`, `FramesAligned` and `LastWordsSent`,
  from one invariant in three parts. *OutputInv*: the buffer ends with the unit queued
  last, none missing (*WriteNumbered*), and what was sent, less what is in flight, and
  what is in the buffer are together all that was queued (*SentNumbered*); the size
  that `WriteSocket` read is never more than the buffer holds, since only the thread
  itself erases. *InputInv*: what was read and what is still on its way is a sequence of
  frames (*Framed*), whichever part of it a read returns. *FlagsInv*: the
  flags keep their types, and *ClosingOrder*: the socket between the check and the erase
  is one that was decided on, and its user goes first. `LastWordsSent` follows: the
  decision is made in the check, where nothing is in flight, or in a read that finds the
  client gone; and if the socket waits its buffer is empty.

* **SocialLists**: the properties of `social`. *AccountsDiffer* (no account is used by
  two users: without it one of them could not know what the other stored),
  *HandlesAreAccounts* (a handle in use is that of an account that was drawn, and who
  has no account has no lists), *FreshAreEmpty* (nothing is stored for an account
  before it is made, so that a new account agrees with empty lists), *ListedOnce* (no
  handle is twice in a list, so that one erase takes it out). The two action
  properties follow: a message is refused by the list in memory, which is the rows.
* **Lifecycle**: the four safety properties of `lifecycle`. *Waits* orders the threads
  by the place of main; *LockedUnopened*: whoever holds the mutex finds the database
  not open, so that it is opened once; *WalkTells*: what the walk has passed is told,
  while the vector stays.

* **Streams**: types, `ReadsBack` and `DataArrives`, for messages of any length, texts and
  data of any length, any block of the cipher and any chunk. `StreamsProofs` goes from the
  bytes up. Each kind of field: what its encoding looks like (*UtfProperties*,
  *EncryptedProperties*, ...), and that reading it where it stands gives it back and
  leaves the offset behind it (*UtfHere*, *EncryptedHere*, ...); a list of keys is written
  as its parts (*SerializedEncodes*). A message is encoded as the encodings of its fields,
  one after the other, and the wire as the frames of the messages on their way
  (*TravelsFirst*: what `ReadSocket` cuts off is the body of the first). The invariant then
  has two ideas. *ReadInv*: there are fields still to be read, whose encodings are exactly
  the rest of the stream, whose kinds are the plan, and which with those already read are
  the message; so a reader can neither fail nor stop early (*NextReadable*). A message
  with too long a list is excused from that, but not from its number, which is read first
  and right whatever follows (*NumberRead*): without this, a message that is read wrong
  could pass for a chunk of a character. *FlowInv*: what the client has, what is on its way
  and the last chunk that is kept are together the data up to the position, and the
  padding; *FinalInv*: the end is on its way behind all other data, or has been seen. An
  encoding of a whole message is a fold, and what a fold gives for every sequence is proved
  by induction: the induction theorems of the library take a predicate, which the
  provers cannot instantiate, but `WFMin` takes a set, and a set of naturals that is not
  empty has a smallest element (*Smallest*, *AllNumbers*, *AllSequences*).

Only model-checked: liveness (`HostPacketOpensGame`, `WaitingCloses`,
`EndsWithPackets`), which is beyond the prover, as is everything with ENABLED. Every other
property of a passing run is a theorem. `IInv` of `Streams` quantifies over all sequences of fields
and is therefore not an invariant of a run; what TLC checks are the three properties that
follow from it.

## 5. Where the code and its words differ

Each is a run that must find the violation, and an entry under `findings`.

1. `games_role`: "Tell the host its own address" (`GameSessionManager.cpp:222`). The
   discovery thread reads `m_isHost`; the lobby thread makes the host a guest of
   another game; the discovery thread then reads the new `m_gameId` and opens that
   game with the wrong address.
2. `games_cancel`: "Game session is empty, removing it"
   (`GameSessionManager.cpp:259`). A client that looked a game up and cancels before it
   has a seat lowers the count, and a game with its host in it is erased.
3. `chat_names`: "Chat Room name is already in use!" (`ChatRoomManager.cpp:182`). A user
   who was in two private rooms and disconnects leaves one behind that nobody is in
   and that is never deleted.
4. `saves_target`: "the target user whose character is being saved"
   (`CharacterSaveManager.cpp:6`). The character is read at the commit; if the user
   loaded another one meanwhile, that one is overwritten.

Observed, modelled as it is, and in no run, as no text of the repository says
otherwise:

* two public Norrath games may have one name (the lookup is made without the stage);
* `RequestCreatePublicGame` clears the address of the host again after the game is
  listed (line 74), so that a packet that was checked before it opens a game without
  an address;
* the count of a game keeps a member who disconnected; a client may report a count of
  -128, the next cancel wraps it to 127, and the game stays listed and looks full;
* a notice that is queued after the check found the buffer of a closing socket empty, and
  before the socket is erased, is never sent;
* a frame without a body ends the loop with whole frames left in the buffer;
* a save into a deleted character is a success; users who are not logged in share one
  save task;
* a user who makes another account keeps the lists of the former one in memory; a load
  of lists that the database cuts short is taken for the whole;
* main waits in `join` until a packet comes, and for ever without one; the forced
  logouts of `Stop` are queued without a lock on the vector, and the loop may end
  before it writes them;
* `encryptSymmetric` pads a text into a vector that ends with the block and encrypts
  what is left there; "UNKNOWN DUMMY STRING" (`RequestLogin.cpp:121`) is such a text;
* a character without data gets no answer at all; a character list with too many keys
  leaves the rest of them in the stream, for the next field.

## 6. Not modelled, and why

* **SQLite** (`Source` never changes it; 267 thousand of the repository's 280 thousand
  lines): vendored. What the map covers is to be read against the rest, about 12
  thousand lines. `Database.cpp` is modelled from what its statements promise: a
  transaction is there or is not.
* **Cryptography**: the arithmetic of `rijndael` and `PasswordHash` has no state and no
  control; how `RealmCrypt` pads and what a block then holds is in `Streams`.
* **Dead code**: `RLEZ.hpp` and `ByteBufferReader.hpp` serve nothing that runs;
  `Serialize` and `Deserialize` of `RealmCharacter.cpp` are commented out;
  `Request_5F` and `Request_61` are in no table.
* **Configuration and log**: an `.ini` file read before any thread starts, and output.
* **Names and passwords**: a log-in finds its account or does not.
* Errors of `::send` that a connection survives; a frame length below four; fields of one
  byte, of a fixed length, and floating numbers.
* A stop of the process between an insert and its commit: that a transaction leaves nothing
  then is SQLite's promise.
* Handlers that only read change nothing; the one that does, `RequestMatchGame_RTA`
  with a stranger, is in `Sockets`.

## 7. Plan

Done, in the order they were: `GameSessions` with `GameDirectory` (the two threads,
where most hazards are), `Sockets`, `CharacterSaves`, `ChatRooms`, `SocialLists`,
`Lifecycle`, `Streams`, `RoomDirectory` and `CharacterStore`, and the theorems of each. Left:

1. An abstract specification of the lists in `SocialLists` (what an account has, with
   no users and no memory), which the code implements only while no load fails.
