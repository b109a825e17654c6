--------------------------- MODULE CharacterSaves ---------------------------
(***************************************************************************)
(* Return to Arms characters: the save tasks of CharacterSaveManager, the  *)
(* rows of RealmCharacters, and the log-ins that say whose they are.       *)
(*                                                                         *)
(* A save is a request that begins a task, requests that append to it, and *)
(* a last one that commits it.  In between, the same and other users log   *)
(* in, load and delete characters, begin other saves and leave.  All       *)
(* handlers run on the lobby thread, one after the other; the server may   *)
(* stop between any two of them, and only the database is kept.            *)
(*                                                                         *)
(* A piece of data is known by the save its client had begun last, 0 when  *)
(* it began none, and Full of them make a character.  Users of Champions   *)
(* of Norrath have no account; what they can reach of a task, users who    *)
(* are not logged in reach too.                                            *)
(***************************************************************************)
EXTENDS Integers, Sequences

CONSTANTS
  User,          (* the RealmUser objects, one per accepted connection      *)
  Account,       (* the accounts, by name and by number                     *)
  None,          (* no account (-1)                                         *)
  Full,          (* pieces that decompress to CHARACTER_DATA_SIZE           *)
  MaxSessions,   (* bound on the session ids generated                      *)
  MaxSaves,      (* bound on the saves begun                                *)
  MaxCharacters  (* bound on the characters ever stored                     *)

ASSUME SavesAssumption ==
  /\ None \notin Account
  /\ Full \in Nat \ {0}
  /\ MaxSessions \in Nat /\ MaxSaves \in Nat /\ MaxCharacters \in Nat

VARIABLES
  connection,    \* of a user: new, online (in m_users), removed
  account,       \* m_accountId
  session,       \* m_sessionId: a number, 0 is the empty one
  character,     \* m_characterId: 0 is none
  latest,        \* the save whose data the client sends
  tasks,         \* m_tasks, by session
  accounts,      \* RealmUsers
  rows,          \* RealmCharacters, by character_id
  sessions,      \* how many session ids were generated
  saves,         \* how many saves were begun
  characters     \* how many characters were ever stored

users    == <<connection, account, session, character>>
database == <<accounts, rows, characters>>
vars     == <<users, latest, tasks, database, sessions, saves>>

SessionId == 0 .. MaxSessions
Save      == 1 .. MaxSaves
Character == 1 .. MaxCharacters
Piece     == Save \cup {0}

\* Bound on the pieces of a task before the last one, which then is one too many.
MaxPieces == Full

NoTask == [type |-> "none"]
NoRow  == [account |-> None]

Task ==
  [type : {"new", "save"}, target : User, character : Character \cup {0},
   id : Save, meta : BOOLEAN, data : Seq(Piece)]

Row == [account : Account, made : Save, data : Seq(Piece)]

TypeOK ==
  /\ connection \in [User -> {"new", "online", "removed"}]
  /\ account \in [User -> Account \cup {None}]
  /\ session \in [User -> SessionId]
  /\ character \in [User -> Character \cup {0}]
  /\ latest \in [User -> Piece]
  /\ tasks \in [SessionId -> Task \cup {NoTask}]
  /\ accounts \subseteq Account
  /\ rows \in [Character -> Row \cup {NoRow}]
  /\ sessions \in SessionId /\ saves \in Save \cup {0}
  /\ characters \in Character \cup {0}

-----------------------------------------------------------------------------

Online(u) == connection[u] = "online"

Init ==
  /\ connection = [u \in User |-> "new"]
  /\ account = [u \in User |-> None]
  /\ session = [u \in User |-> 0]
  /\ character = [u \in User |-> 0]
  /\ latest = [u \in User |-> 0]
  /\ tasks = [k \in SessionId |-> NoTask]
  /\ accounts = {}
  /\ rows = [c \in Character |-> NoRow]
  /\ sessions = 0 /\ saves = 0 /\ characters = 0

-----------------------------------------------------------------------------
(* Accounts and sessions.                                                  *)

Connect(u) ==
  /\ connection[u] = "new"
  /\ connection' = [connection EXCEPT ![u] = "online"]
  /\ UNCHANGED <<account, session, character, latest, tasks, database, sessions, saves>>

\* The new session; the character of an earlier log-in is kept.
LogIn(u, a) ==
  /\ sessions < MaxSessions
  /\ sessions' = sessions + 1
  /\ session' = [session EXCEPT ![u] = sessions + 1]
  /\ account' = [account EXCEPT ![u] = a]
  /\ UNCHANGED <<connection, character, latest, tasks, rows, characters, saves>>

\* Mutant: m_users is not looked through.
InUse_Never(a) == FALSE

\* Somebody in m_users has that account.
InUse(a) == \E v \in User : Online(v) /\ account[v] = a

Login(u, a) ==
  /\ Online(u)
  /\ a \in accounts
  /\ ~InUse(a)
  /\ LogIn(u, a)
  /\ UNCHANGED accounts

CreateAccount(u, a) ==
  /\ Online(u)
  /\ a \notin accounts
  /\ accounts' = accounts \cup {a}
  /\ LogIn(u, a)

\* Logout, or the end of the connection.  Tasks keep the object.
Disconnect(u) ==
  /\ Online(u)
  /\ connection' = [connection EXCEPT ![u] = "removed"]
  /\ UNCHANGED <<account, session, character, latest, tasks, database, sessions, saves>>

-----------------------------------------------------------------------------
(* Save tasks.                                                             *)

\* Mutant: the data of the task that is replaced stays.
Before_Kept(k) == IF tasks[k] = NoTask THEN <<>> ELSE tasks[k].data

\* What a task begins with.
Before(k) == <<>>

\* BeginSaveTask, and the first AppendSaveData: the request may bring no data.
BeginSaveTask(u, target, type, c) ==
  /\ saves < MaxSaves
  /\ saves' = saves + 1
  /\ latest' = [latest EXCEPT ![u] = saves + 1]
  /\ \E meta \in BOOLEAN, first \in {<<>>, <<saves + 1>>} :
       tasks' = [tasks EXCEPT ![session[u]] =
                   [type |-> type, target |-> target, character |-> c,
                    id |-> saves + 1, meta |-> meta,
                    data |-> Before(session[u]) \o first]]
  /\ UNCHANGED <<users, database, sessions>>

CreateNewCharacter_RTA(u) ==
  /\ Online(u)
  /\ BeginSaveTask(u, u, "new", 0)

\* The target is found by its session: any user of the party.
SaveCharacter_RTA(u, target) ==
  /\ Online(u) /\ account[u] # None
  /\ Online(target) /\ account[target] # None
  /\ BeginSaveTask(u, target, "save", character[target])

\* AppendData: the client sends data of its latest save.
Appended(u, t) == [t EXCEPT !.data = Append(@, latest[u])]

Validate(t) == t.meta /\ Len(t.data) >= Full

\* Mutant: the character is stored with what follows.
Trimmed_Not(t) == t.data

\* What follows the last byte that is used goes.
Trimmed(t) == SubSeq(t.data, 1, Full)

\* Not the end, or not valid: the task keeps what it got.
AppendCharacterData(u) ==
  LET k == session[u] IN
  /\ Online(u)
  /\ tasks[k] # NoTask
  /\ Len(tasks[k].data) < MaxPieces
  /\ tasks' = [tasks EXCEPT ![k] = Appended(u, @)]
  /\ UNCHANGED <<users, latest, database, sessions, saves>>

\* Mutant: the task is found, and stays.
Extracted_Found(k) == tasks

\* CommitSaveTask takes the task out before anything is stored.
Extracted(k) == [tasks EXCEPT ![k] = NoTask]

\* The last append.
AppendCommits(u) ==
  LET k == session[u] IN
  /\ Online(u)
  /\ tasks[k] # NoTask
  /\ Validate(Appended(u, tasks[k]))
  /\ tasks' = Extracted(k)
  /\ UNCHANGED <<connection, account, session, latest, accounts, sessions, saves>>

\* Mutant: the account is not looked at.
Storable_Any(a) == TRUE

\* The database refuses what has no account.
Storable(a) == a # None

\* Database::CreateNewCharacter, for the account the target has now.
CommitNew(u) ==
  LET t == Appended(u, tasks[session[u]]) IN
  /\ AppendCommits(u)
  /\ t.type = "new" /\ Storable(account[t.target])
  /\ characters < MaxCharacters
  /\ characters' = characters + 1
  /\ rows' = [rows EXCEPT ![characters + 1] =
                [account |-> account[t.target], made |-> t.id, data |-> Trimmed(t)]]
  /\ character' = [character EXCEPT ![t.target] = characters + 1]

\* Mutant: WHERE character_id = ? alone.
Matches_AnyAccount(c, a) == rows[c] # NoRow

\* WHERE account_id = ? AND character_id = ?
Matches(c, a) == rows[c] # NoRow /\ rows[c].account = a

\* The rows of RealmCharacters that an UPDATE or a DELETE touches.
Selected(a, c) == {d \in Character : d = c /\ Matches(d, a)}

\* Database::SaveCharacter, for the character the target has now, which may be
\* none or gone: an UPDATE without a row is a success.
CommitSave(u) ==
  LET t == Appended(u, tasks[session[u]])
      a == account[t.target]
  IN
  /\ AppendCommits(u)
  /\ t.type = "save" /\ t.character # 0
  /\ rows' = [c \in Character |-> IF c \in Selected(a, character[t.target])
                                  THEN [rows[c] EXCEPT !.data = Trimmed(t)]
                                  ELSE rows[c]]
  /\ UNCHANGED <<character, characters>>

\* No account, no character, or an error of the database: the task is lost.
CommitFails(u) ==
  /\ AppendCommits(u)
  /\ UNCHANGED <<character, rows, characters>>

-----------------------------------------------------------------------------
(* Other requests about characters, and the end of the server.             *)

\* The user's m_characterId stays.
DeleteCharacter_RTA(u, c) ==
  /\ Online(u) /\ account[u] # None
  /\ rows' = [d \in Character |-> IF d \in Selected(account[u], c) THEN NoRow ELSE rows[d]]
  /\ UNCHANGED <<users, latest, tasks, accounts, characters, sessions, saves>>

GetCharacterData_RTA(u, c) ==
  /\ Online(u)
  /\ c \in Selected(account[u], c)
  /\ character' = [character EXCEPT ![u] = c]
  /\ UNCHANGED <<connection, account, session, latest, tasks, database, sessions, saves>>

\* The server stops, at any point, and starts again.
Restart ==
  /\ connection' = [u \in User |-> IF Online(u) THEN "removed" ELSE connection[u]]
  /\ tasks' = [k \in SessionId |-> NoTask]
  /\ UNCHANGED <<account, session, character, latest, database, sessions, saves>>

Next ==
  \/ \E u \in User :
       \/ Connect(u) \/ Disconnect(u)
       \/ \E a \in Account : Login(u, a) \/ CreateAccount(u, a)
       \/ CreateNewCharacter_RTA(u)
       \/ \E target \in User : SaveCharacter_RTA(u, target)
       \/ AppendCharacterData(u)
       \/ CommitNew(u) \/ CommitSave(u) \/ CommitFails(u)
       \/ \E c \in Character : DeleteCharacter_RTA(u, c) \/ GetCharacterData_RTA(u, c)
  \/ Restart

Spec == Init /\ [][Next]_vars

-----------------------------------------------------------------------------
(* Properties.                                                             *)

(* ProcessLoginRTA: an account is used by one user at a time, though users  *)
(* log in again, create accounts and leave in any order.                    *)
OneUserPerAccount ==
  \A u, v \in User :
    Online(u) /\ Online(v) /\ account[u] = account[v] /\ account[u] # None => u = v

(* BeginSaveTask: a task of a logged-in user holds data of the save that    *)
(* began it and of no other, whatever was begun and left before.            *)
PiecesOfOneSave ==
  \A k \in SessionId \ {0} : tasks[k] # NoTask =>
    \A i \in 1 .. Len(tasks[k].data) : tasks[k].data[i] = tasks[k].id

(* CommitSaveTask: a request to create a character makes at most one,       *)
(* however many last pieces its client sends.                               *)
NewCharacterOnce ==
  \A c, d \in Character :
    rows[c] # NoRow /\ rows[d] # NoRow /\ rows[c].made = rows[d].made => c = d

(* Validate: what is stored is a complete character and nothing after it;   *)
(* partial saves of users who left, began again or lost the server are not. *)
StoredAreComplete ==
  \A c \in Character : rows[c] # NoRow => Len(rows[c].data) = Full

Store == INSTANCE CharacterStore

(* CommitSaveTask and the database: whatever becomes of tasks, users and    *)
(* the server, those who own characters see whole ones only, each in the    *)
(* account it was made for and made by a save of its own.                   *)
ImplementsStore == Store!Spec

(* SaveCharacter: a commit changes no character of an account other than    *)
(* the target's, though the m_characterId of the target may be of an        *)
(* account it used before.                                                  *)
CommitsStayInAccount ==
  [][\A k \in SessionId : tasks[k] # NoTask /\ tasks'[k] = NoTask =>
       \A c \in Character : rows'[c] # rows[c] =>
         rows'[c] # NoRow /\ rows'[c].account = account[tasks[k].target]]_vars

(* "the target user whose character is being saved"                         *)
(* (CharacterSaveManager.cpp:7): a save is stored in the character its task *)
(* was begun for.                                                           *)
SavedWhereBegun ==
  [][\A k \in SessionId : tasks[k] # NoTask /\ tasks'[k] = NoTask =>
       \A c \in Character :
         rows[c] # NoRow /\ rows'[c] # rows[c] => c = tasks[k].character]_vars

=============================================================================
