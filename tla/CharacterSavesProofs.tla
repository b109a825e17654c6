------------------------ MODULE CharacterSavesProofs ------------------------
(***************************************************************************)
(* The accounts, the tasks and the rows of CharacterSaves, for any number  *)
(* of users, accounts, sessions, saves and characters.                     *)
(***************************************************************************)
EXTENDS CharacterSaves, TLAPS

\* Session ids and saves are numbered in the order they are made.
NumbersAreFresh ==
  /\ \A u \in User : session[u] <= sessions /\ latest[u] <= saves
  /\ \A k \in SessionId : tasks[k] # NoTask => k <= sessions /\ tasks[k].id <= saves
  /\ \A c \in Character : rows[c] # NoRow => rows[c].made <= saves /\ c <= characters

\* Who is logged in has a session of their own.
SessionsDiffer ==
  \A u, v \in User : session[u] = session[v] /\ session[u] # 0 => u = v

\* A user has an account only if it was created: a new one is in nobody's use.
AccountsExist == \A u \in User : account[u] # None => account[u] \in accounts

NewHaveNoAccount == \A u \in User : connection[u] = "new" => account[u] = None

\* The task of a logged-in user is the save they send the data of.
TaskIsLatest ==
  \A u \in User :
    session[u] # 0 /\ tasks[session[u]] # NoTask => tasks[session[u]].id = latest[u]

\* A save has one task, and none when its character is there.
TasksDiffer ==
  /\ \A k, l \in SessionId :
       tasks[k] # NoTask /\ tasks[l] # NoTask /\ tasks[k].id = tasks[l].id => k = l
  /\ \A k \in SessionId, c \in Character :
       tasks[k] # NoTask /\ rows[c] # NoRow => tasks[k].id # rows[c].made

UserInv == SessionsDiffer /\ AccountsExist /\ NewHaveNoAccount /\ OneUserPerAccount
TaskInv == TaskIsLatest /\ PiecesOfOneSave /\ TasksDiffer
RowInv  == NewCharacterOnce /\ StoredAreComplete

IInv == TypeOK /\ NumbersAreFresh /\ UserInv /\ TaskInv /\ RowInv

LEMMA InitHolds == Init => IInv
  BY SavesAssumption
  DEF Piece, Init, IInv, TypeOK, NumbersAreFresh, UserInv, TaskInv, RowInv, SessionsDiffer,
      AccountsExist, NewHaveNoAccount, OneUserPerAccount, TaskIsLatest, PiecesOfOneSave, TasksDiffer,
      NewCharacterOnce, StoredAreComplete, SessionId, Save, Character, Online

-----------------------------------------------------------------------------
(* What the operators on tasks return.                                     *)

\* A task with one more piece is the same task.
LEMMA AppendedFacts ==
  ASSUME IInv, NEW u \in User, NEW t \in Task
  PROVE  /\ Appended(u, t) \in Task
         /\ Appended(u, t).id = t.id /\ Appended(u, t).target = t.target
         /\ Appended(u, t).data = Append(t.data, latest[u])
<1>1. latest[u] \in Piece /\ t.data \in Seq(Piece)
  BY DEF IInv, TypeOK, Task
<1>2. Append(t.data, latest[u]) \in Seq(Piece)
  BY <1>1
<1> QED  BY <1>2 DEF Appended, Task

\* What Validate accepts is trimmed to a whole character.
LEMMA TrimmedFacts ==
  ASSUME NEW t \in Task, Validate(t)
  PROVE  Trimmed(t) \in Seq(Piece) /\ Len(Trimmed(t)) = Full
  BY SavesAssumption DEF Task, Validate, Trimmed

\* Neither record is the null one.
LEMMA NullFacts ==
  /\ \A t \in Task : t # NoTask
  /\ \A r \in Row : r # NoRow
<1>1. ASSUME NEW t \in Task PROVE t # NoTask
  <2>1. t.type # "none"
    BY DEF Task
  <2> QED  BY <2>1 DEF NoTask
<1>2. ASSUME NEW r \in Row PROVE r # NoRow
  <2>1. r.account # None
    BY SavesAssumption DEF Row
  <2> QED  BY <2>1 DEF NoRow
<1> QED  BY <1>1, <1>2

-----------------------------------------------------------------------------
(* The users.                                                              *)

\* Users come and go, and keep their fields; characters are selected.
LEMMA ConnectionsKeep ==
  ASSUME IInv, UNCHANGED <<account, session, latest, tasks, database, sessions, saves>>,
         TypeOK',
         \A u \in User : connection'[u] = "online" => connection[u] \in {"online", "new"},
         \A u \in User : connection'[u] = "new" => connection[u] = "new"
  PROVE  IInv'
<1>1. NumbersAreFresh' /\ TaskInv' /\ RowInv'
  BY DEF IInv, NumbersAreFresh, TaskInv, RowInv, TaskIsLatest, PiecesOfOneSave,
         TasksDiffer, NewCharacterOnce, StoredAreComplete, database
<1>2. SessionsDiffer' /\ AccountsExist' /\ NewHaveNoAccount'
  BY DEF IInv, UserInv, SessionsDiffer, AccountsExist, NewHaveNoAccount, database
<1>3. OneUserPerAccount'
  BY DEF IInv, UserInv, OneUserPerAccount, NewHaveNoAccount, Online
<1> QED  BY <1>1, <1>2, <1>3 DEF IInv, UserInv

\* A new session, for an account that nobody else is using.
LEMMA LogInKeeps ==
  ASSUME IInv, NEW u \in User, NEW a \in Account, LogIn(u, a), Online(u),
         accounts' \subseteq Account, accounts \subseteq accounts', a \in accounts',
         \A v \in User : Online(v) => account[v] # a
  PROVE  IInv'
<1>1. /\ sessions < MaxSessions /\ sessions' = sessions + 1
      /\ session' = [session EXCEPT ![u] = sessions + 1]
      /\ account' = [account EXCEPT ![u] = a]
      /\ UNCHANGED <<connection, character, latest, tasks, rows, characters, saves>>
  BY DEF LogIn
<1>2. sessions + 1 \in SessionId /\ sessions \in Nat
  BY <1>1, SavesAssumption DEF IInv, TypeOK, SessionId
<1>3. TypeOK'
  BY <1>1, <1>2 DEF IInv, TypeOK
<1>4. \A v \in User : session[v] \in 0 .. sessions
  BY DEF IInv, TypeOK, SessionId, NumbersAreFresh
<1>5. tasks[sessions + 1] = NoTask
  BY <1>2, SavesAssumption DEF IInv, NumbersAreFresh
<1>6. NumbersAreFresh'
  <2>1. \A v \in User : session'[v] <= sessions + 1 /\ latest[v] <= saves
    BY <1>1, <1>2, <1>4 DEF IInv, TypeOK, NumbersAreFresh
  <2>2. \A k \in SessionId :
          tasks[k] # NoTask => k <= sessions + 1 /\ tasks[k].id <= saves
    BY <1>2 DEF IInv, NumbersAreFresh, SessionId
  <2> QED  BY <1>1, <2>1, <2>2 DEF IInv, NumbersAreFresh
<1>7. SessionsDiffer'
  BY <1>1, <1>2, <1>4 DEF IInv, UserInv, TypeOK, SessionsDiffer
<1>8. AccountsExist' /\ NewHaveNoAccount' /\ OneUserPerAccount'
  BY <1>1 DEF IInv, UserInv, TypeOK, AccountsExist, NewHaveNoAccount, OneUserPerAccount, Online
<1>9. TaskInv'
  BY <1>1, <1>2, <1>5
  DEF IInv, TypeOK, TaskInv, TaskIsLatest, PiecesOfOneSave, TasksDiffer
<1>10. RowInv'
  BY <1>1 DEF IInv, RowInv, NewCharacterOnce, StoredAreComplete
<1> QED  BY <1>3, <1>6, <1>7, <1>8, <1>9, <1>10 DEF IInv, UserInv

-----------------------------------------------------------------------------
(* The tasks.                                                              *)

\* A new save takes the place of the one the session had.
LEMMA BeginKeeps ==
  ASSUME IInv, NEW u \in User, NEW target \in User, NEW type \in {"new", "save"},
         NEW c \in Character \cup {0}, BeginSaveTask(u, target, type, c)
  PROVE  IInv'
<1> DEFINE n == saves + 1
           k == session[u]
<1>1. PICK meta \in BOOLEAN, first \in {<<>>, <<n>>} :
        tasks' = [tasks EXCEPT ![k] =
                    [type |-> type, target |-> target, character |-> c, id |-> n,
                     meta |-> meta, data |-> Before(k) \o first]]
  BY DEF BeginSaveTask
<1>2. /\ saves < MaxSaves /\ saves' = n
      /\ latest' = [latest EXCEPT ![u] = n]
      /\ UNCHANGED <<users, database, sessions>>
  BY DEF BeginSaveTask
<1>3. n \in Save /\ saves \in Nat /\ k \in SessionId
  BY <1>2, SavesAssumption DEF IInv, TypeOK, Save
<1> DEFINE t == [type |-> type, target |-> target, character |-> c, id |-> n,
                 meta |-> meta, data |-> Before(k) \o first]
<1>4. /\ Before(k) \o first \in Seq(Piece)
      /\ \A i \in 1 .. Len(Before(k) \o first) : (Before(k) \o first)[i] = n
  <2>1. CASE first = <<>>
    <3>1. Before(k) \o first = <<>>
      BY <2>1 DEF Before
    <3> QED  BY <3>1
  <2>2. CASE first = <<n>>
    <3>1. Before(k) \o first = <<n>>
      BY <1>3, <2>2 DEF Before
    <3> QED  BY <1>3, <3>1 DEF Piece
  <2> QED  BY <1>1, <2>1, <2>2
<1>5. /\ t \in Task /\ t.id = n
      /\ \A i \in 1 .. Len(t.data) : t.data[i] = n
  BY <1>3, <1>4 DEF Task
<1>6. tasks' = [tasks EXCEPT ![k] = t]
  BY <1>1
<1> HIDE DEF t
<1>7. /\ tasks'[k] = t
      /\ \A l \in SessionId \ {k} : tasks'[l] = tasks[l]
  BY <1>3, <1>6 DEF IInv, TypeOK
<1>8. TypeOK'
  <2>1. tasks' \in [SessionId -> Task \cup {NoTask}]
    BY <1>5, <1>6 DEF IInv, TypeOK
  <2>2. latest' \in [User -> Piece] /\ saves' \in Save \cup {0}
    BY <1>2, <1>3 DEF IInv, TypeOK, Piece
  <2> QED  BY <1>2, <2>1, <2>2 DEF IInv, TypeOK, users, database
<1>9. /\ \A l \in SessionId : tasks[l] # NoTask => tasks[l].id \in Save /\ tasks[l].id <= saves
      /\ \A d \in Character : rows[d] # NoRow => rows[d].made \in Save /\ rows[d].made <= saves
      /\ \A v \in User : latest[v] \in Piece /\ latest[v] <= saves
  BY DEF IInv, TypeOK, NumbersAreFresh, Task, Row
<1>10. NumbersAreFresh'
  <2>1. \A v \in User : session'[v] <= sessions' /\ latest'[v] <= saves'
    BY <1>2, <1>3, <1>9 DEF IInv, TypeOK, NumbersAreFresh, users, Save, Piece
  <2>2. \A l \in SessionId : tasks'[l] # NoTask => l <= sessions' /\ tasks'[l].id <= saves'
    BY <1>2, <1>3, <1>5, <1>7, <1>9 DEF IInv, NumbersAreFresh, Save
  <2>3. \A d \in Character : rows'[d] # NoRow => rows'[d].made <= saves' /\ d <= characters'
    BY <1>2, <1>3, <1>9 DEF IInv, NumbersAreFresh, database, Save
  <2> QED  BY <2>1, <2>2, <2>3 DEF NumbersAreFresh
<1>11. UserInv'
  BY <1>2 DEF IInv, UserInv, SessionsDiffer, AccountsExist, NewHaveNoAccount,
              OneUserPerAccount, Online, users, database
<1>12. RowInv'
  BY <1>2 DEF IInv, RowInv, NewCharacterOnce, StoredAreComplete, database
<1>13. TaskIsLatest'
  <2> SUFFICES ASSUME NEW v \in User, session[v] # 0, tasks'[session[v]] # NoTask
               PROVE  tasks'[session[v]].id = latest'[v]
    BY <1>2 DEF TaskIsLatest, users
  <2>1. CASE v = u
    BY <1>2, <1>5, <1>7, <2>1 DEF IInv, TypeOK
  <2>2. CASE v # u
    <3>1. session[v] \in SessionId \ {k}
      BY <2>2 DEF IInv, TypeOK, UserInv, SessionsDiffer
    <3> QED  BY <1>2, <1>7, <2>2, <3>1 DEF IInv, TypeOK, TaskInv, TaskIsLatest
  <2> QED  BY <2>1, <2>2
<1>14. PiecesOfOneSave'
  BY <1>5, <1>7 DEF IInv, TaskInv, PiecesOfOneSave
<1>15. TasksDiffer'
  <2>1. n \notin 0 .. saves
    BY <1>3
  <2>2. /\ \A l \in SessionId \ {k} : tasks[l] # NoTask => tasks[l].id # n
        /\ \A d \in Character : rows[d] # NoRow => rows[d].made # n
    BY <1>3, <1>9 DEF Save
  <2> QED  BY <1>2, <1>5, <1>7, <2>2 DEF IInv, TaskInv, TasksDiffer, database
<1> QED
  BY <1>8, <1>10, <1>11, <1>12, <1>13, <1>14, <1>15 DEF IInv, TaskInv

\* A logged-in user sends more of the save its task was begun for.
LEMMA AppendKeeps ==
  ASSUME IInv, NEW u \in User, AppendCharacterData(u)
  PROVE  IInv'
<1> DEFINE k == session[u]
           t == Appended(u, tasks[k])
<1>1. /\ tasks[k] # NoTask
      /\ tasks' = [tasks EXCEPT ![k] = t]
      /\ UNCHANGED <<users, latest, database, sessions, saves>>
  BY DEF AppendCharacterData
<1>2. k \in SessionId /\ tasks[k] \in Task
  BY <1>1 DEF IInv, TypeOK
<1>3. /\ t \in Task /\ t.id = tasks[k].id
      /\ t.data = Append(tasks[k].data, latest[u])
  BY <1>1, <1>2, AppendedFacts
<1> HIDE DEF t
<1>4. /\ tasks'[k] = t /\ t # NoTask
      /\ \A l \in SessionId \ {k} : tasks'[l] = tasks[l]
  BY <1>1, <1>2, <1>3, NullFacts DEF IInv, TypeOK
<1>5. \A l \in SessionId :
        (tasks'[l] # NoTask <=> tasks[l] # NoTask) /\ tasks'[l].id = tasks[l].id
  BY <1>1, <1>3, <1>4
<1>6. TypeOK'
  <2>1. tasks' \in [SessionId -> Task \cup {NoTask}]
    BY <1>1, <1>3 DEF IInv, TypeOK
  <2> QED  BY <1>1, <2>1 DEF IInv, TypeOK, users, database
<1>7. NumbersAreFresh' /\ UserInv' /\ RowInv'
  BY <1>1, <1>5
  DEF IInv, NumbersAreFresh, UserInv, RowInv, SessionsDiffer, AccountsExist,
      NewHaveNoAccount, OneUserPerAccount, Online, NewCharacterOnce,
      StoredAreComplete, users, database
<1>8. TaskIsLatest' /\ TasksDiffer'
  BY <1>1, <1>5 DEF IInv, TypeOK, TaskInv, TaskIsLatest, TasksDiffer, users, database
<1>9. PiecesOfOneSave'
  <2>1. k # 0 => latest[u] = t.id /\ \A i \in 1 .. Len(tasks[k].data) : tasks[k].data[i] = t.id
    BY <1>1, <1>2, <1>3 DEF IInv, TaskInv, TaskIsLatest, PiecesOfOneSave
  <2>2. tasks[k].data \in Seq(Piece) /\ latest[u] \in Piece
    BY <1>1, <1>2 DEF IInv, TypeOK, Task
  <2>3. k # 0 => \A i \in 1 .. Len(t.data) : t.data[i] = t.id
    BY <1>3, <2>1, <2>2
  <2> QED  BY <1>4, <2>3 DEF IInv, TaskInv, PiecesOfOneSave
<1> QED  BY <1>6, <1>7, <1>8, <1>9 DEF IInv, TaskInv

\* Tasks go, rows keep their places, and a new one is of a task that went.
LEMMA TasksGoKeeps ==
  ASSUME IInv, TypeOK',
         UNCHANGED <<account, session, latest, accounts, sessions, saves>>,
         \A u \in User : connection'[u] = connection[u]
                         \/ (Online(u) /\ connection'[u] = "removed"),
         \A k \in SessionId : tasks'[k] \in {tasks[k], NoTask},
         characters <= characters',
         \A c \in Character : rows'[c] # NoRow =>
           /\ Len(rows'[c].data) = Full
           /\ \/ rows[c] # NoRow /\ rows'[c].made = rows[c].made
              \/ /\ c = characters' /\ characters' = characters + 1
                 /\ \E k \in SessionId :
                      tasks[k] # NoTask /\ tasks'[k] = NoTask /\ rows'[c].made = tasks[k].id
  PROVE  IInv'
<1>1. UserInv'
  BY DEF IInv, UserInv, SessionsDiffer, AccountsExist, NewHaveNoAccount,
         OneUserPerAccount, Online
<1>2. TaskIsLatest' /\ PiecesOfOneSave'
  BY DEF IInv, TypeOK, TaskInv, TaskIsLatest, PiecesOfOneSave
<1>3. characters \in Nat /\ characters' \in Nat
  BY SavesAssumption DEF IInv, TypeOK, Character
<1>4. NumbersAreFresh'
  <2>1. \A c \in Character : rows'[c] # NoRow => rows'[c].made <= saves /\ c <= characters'
    BY <1>3 DEF IInv, NumbersAreFresh, Character
  <2>2. \A k \in SessionId : tasks'[k] # NoTask => k <= sessions /\ tasks'[k].id <= saves
    BY DEF IInv, NumbersAreFresh
  <2> QED  BY <2>1, <2>2 DEF IInv, NumbersAreFresh
<1>5. TasksDiffer'
  <2>1. \A k, l \in SessionId :
          tasks'[k] # NoTask /\ tasks'[l] # NoTask /\ tasks'[k].id = tasks'[l].id => k = l
    BY DEF IInv, TaskInv, TasksDiffer
  <2>2. ASSUME NEW k \in SessionId, NEW c \in Character, tasks'[k] # NoTask, rows'[c] # NoRow
        PROVE  tasks'[k].id # rows'[c].made
    BY <2>2 DEF IInv, TaskInv, TasksDiffer
  <2> QED  BY <2>1, <2>2 DEF TasksDiffer
<1>6. StoredAreComplete'
  BY DEF StoredAreComplete
<1>7. NewCharacterOnce'
  <2> SUFFICES ASSUME NEW c \in Character, NEW d \in Character,
                      rows'[c] # NoRow, rows'[d] # NoRow, rows'[c].made = rows'[d].made
               PROVE  c = d
    BY DEF NewCharacterOnce
  <2> QED  BY DEF IInv, TaskInv, RowInv, TasksDiffer, NewCharacterOnce
<1> QED  BY <1>1, <1>2, <1>4, <1>5, <1>6, <1>7 DEF IInv, TaskInv, RowInv

-----------------------------------------------------------------------------
(* Commits, and the rows.                                                  *)

\* The task that a last append completes, and what goes with it.
LEMMA CommitFacts ==
  ASSUME IInv, NEW u \in User, AppendCommits(u)
  PROVE  /\ session[u] \in SessionId /\ tasks[session[u]] # NoTask
         /\ tasks' = [tasks EXCEPT ![session[u]] = NoTask]
         /\ Appended(u, tasks[session[u]]) \in Task
         /\ Appended(u, tasks[session[u]]).id = tasks[session[u]].id
         /\ Appended(u, tasks[session[u]]).target = tasks[session[u]].target
         /\ Trimmed(Appended(u, tasks[session[u]])) \in Seq(Piece)
         /\ Len(Trimmed(Appended(u, tasks[session[u]]))) = Full
         /\ tasks' \in [SessionId -> Task \cup {NoTask}]
         /\ UNCHANGED <<connection, account, session, latest, accounts, sessions, saves>>
<1>1. /\ tasks[session[u]] # NoTask
      /\ Validate(Appended(u, tasks[session[u]]))
      /\ tasks' = [tasks EXCEPT ![session[u]] = NoTask]
      /\ UNCHANGED <<connection, account, session, latest, accounts, sessions, saves>>
  BY DEF AppendCommits, Extracted
<1>2. session[u] \in SessionId /\ tasks[session[u]] \in Task
  BY <1>1 DEF IInv, TypeOK
<1>3. tasks' \in [SessionId -> Task \cup {NoTask}]
  BY <1>1 DEF IInv, TypeOK
<1> QED  BY <1>1, <1>2, <1>3, AppendedFacts, TrimmedFacts

LEMMA CommitNewKeeps ==
  ASSUME IInv, NEW u \in User, CommitNew(u)
  PROVE  IInv'
<1> DEFINE t == Appended(u, tasks[session[u]])
           n == characters + 1
           r == [account |-> account[t.target], made |-> t.id, data |-> Trimmed(t)]
<1>1. /\ AppendCommits(u) /\ account[t.target] # None
      /\ characters < MaxCharacters /\ characters' = n
      /\ rows' = [rows EXCEPT ![n] = r]
      /\ character' = [character EXCEPT ![t.target] = n]
  BY DEF CommitNew, Storable
<1>2. /\ t \in Task /\ t.id = tasks[session[u]].id
      /\ Trimmed(t) \in Seq(Piece) /\ Len(Trimmed(t)) = Full
      /\ session[u] \in SessionId /\ tasks[session[u]] # NoTask
      /\ tasks' = [tasks EXCEPT ![session[u]] = NoTask]
      /\ tasks' \in [SessionId -> Task \cup {NoTask}]
      /\ UNCHANGED <<connection, account, session, latest, accounts, sessions, saves>>
  BY <1>1, CommitFacts
<1> HIDE DEF t
<1>3. t.target \in User /\ t.id \in Save
  BY <1>2 DEF Task
<1>4. n \in Character /\ characters \in Nat
  BY <1>1, SavesAssumption DEF IInv, TypeOK, Character
<1>5. /\ r \in Row /\ r.made = t.id /\ Len(r.data) = Full
  BY <1>1, <1>2, <1>3 DEF IInv, TypeOK, Row
<1> HIDE DEF r
<1>6. TypeOK'
  <2>1. rows' \in [Character -> Row \cup {NoRow}]
    BY <1>1, <1>5 DEF IInv, TypeOK
  <2>2. character' \in [User -> Character \cup {0}] /\ characters' \in Character \cup {0}
    BY <1>1, <1>4 DEF IInv, TypeOK
  <2> QED  BY <1>2, <2>1, <2>2 DEF IInv, TypeOK
<1>7. /\ rows'[n] = r
      /\ \A c \in Character \ {n} : rows'[c] = rows[c]
  BY <1>1, <1>4 DEF IInv, TypeOK
<1>8. \A c \in Character : rows'[c] # NoRow =>
        /\ Len(rows'[c].data) = Full
        /\ \/ rows[c] # NoRow /\ rows'[c].made = rows[c].made
           \/ /\ c = characters' /\ characters' = characters + 1
              /\ \E k \in SessionId :
                   tasks[k] # NoTask /\ tasks'[k] = NoTask /\ rows'[c].made = tasks[k].id
  <2> SUFFICES ASSUME NEW c \in Character, rows'[c] # NoRow
               PROVE  /\ Len(rows'[c].data) = Full
                      /\ \/ rows[c] # NoRow /\ rows'[c].made = rows[c].made
                         \/ /\ c = characters' /\ characters' = characters + 1
                            /\ \E k \in SessionId : /\ tasks[k] # NoTask
                                                    /\ tasks'[k] = NoTask
                                                    /\ rows'[c].made = tasks[k].id
    OBVIOUS
  <2>1. CASE c = n
    <3>1. tasks'[session[u]] = NoTask
      BY <1>2 DEF IInv, TypeOK
    <3> QED  BY <1>1, <1>2, <1>5, <1>7, <2>1, <3>1
  <2>2. CASE c # n
    BY <1>7, <2>2 DEF IInv, RowInv, StoredAreComplete
  <2> QED  BY <2>1, <2>2
<1>9. \A k \in SessionId : tasks'[k] \in {tasks[k], NoTask}
  BY <1>2 DEF IInv, TypeOK
<1>10. characters <= characters'
  BY <1>1, <1>4
<1> QED  BY <1>2, <1>6, <1>8, <1>9, <1>10, TasksGoKeeps

LEMMA CommitSaveKeeps ==
  ASSUME IInv, NEW u \in User, CommitSave(u)
  PROVE  IInv'
<1> DEFINE t == Appended(u, tasks[session[u]])
           chosen == Selected(account[t.target], character[t.target])
<1>1. /\ AppendCommits(u)
      /\ rows' = [c \in Character |-> IF c \in chosen
                                     THEN [rows[c] EXCEPT !.data = Trimmed(t)] ELSE rows[c]]
      /\ UNCHANGED <<character, characters>>
  BY DEF CommitSave
<1>2. /\ Trimmed(t) \in Seq(Piece) /\ Len(Trimmed(t)) = Full
      /\ tasks' = [tasks EXCEPT ![session[u]] = NoTask]
      /\ tasks' \in [SessionId -> Task \cup {NoTask}]
      /\ UNCHANGED <<connection, account, session, latest, accounts, sessions, saves>>
  BY <1>1, CommitFacts
<1>3. \A c \in chosen : rows[c] \in Row
  BY DEF Selected, Matches, IInv, TypeOK
<1> HIDE DEF t, chosen
<1>4. \A c \in Character :
        \/ rows'[c] = rows[c]
        \/ /\ rows[c] \in Row /\ rows'[c] \in Row
           /\ rows'[c].made = rows[c].made /\ Len(rows'[c].data) = Full
  BY <1>1, <1>2, <1>3 DEF Row
<1>5. TypeOK'
  <2>1. rows' \in [Character -> Row \cup {NoRow}]
    BY <1>1, <1>4 DEF IInv, TypeOK
  <2> QED  BY <1>1, <1>2, <2>1 DEF IInv, TypeOK
<1>6. \A c \in Character : rows'[c] # NoRow =>
        Len(rows'[c].data) = Full /\ rows[c] # NoRow /\ rows'[c].made = rows[c].made
  BY <1>4, NullFacts DEF IInv, RowInv, StoredAreComplete
<1>7. \A k \in SessionId : tasks'[k] \in {tasks[k], NoTask}
  BY <1>2 DEF IInv, TypeOK
<1>8. characters <= characters'
  BY <1>1, SavesAssumption DEF IInv, TypeOK, Character
<1> QED  BY <1>2, <1>5, <1>6, <1>7, <1>8, TasksGoKeeps

LEMMA NextKeeps == IInv /\ [Next]_vars => IInv'
<1> SUFFICES ASSUME IInv, [Next]_vars PROVE IInv'
  OBVIOUS
<1>1. CASE UNCHANGED vars
  BY <1>1, ConnectionsKeep DEF vars, users, database, IInv, TypeOK
<1>2. ASSUME NEW u \in User, Connect(u) \/ Disconnect(u) PROVE IInv'
  <2>1. /\ UNCHANGED <<account, session, character, latest, tasks, database, sessions, saves>>
        /\ connection' = [connection EXCEPT ![u] = "online"]
           \/ (Online(u) /\ connection' = [connection EXCEPT ![u] = "removed"])
        /\ connection[u] \in {"new", "online"}
    BY <1>2 DEF Connect, Disconnect, Online
  <2>2. TypeOK'
    BY <2>1 DEF IInv, TypeOK, database
  <2>3. /\ \A v \in User : connection'[v] = "online" => connection[v] \in {"online", "new"}
        /\ \A v \in User : connection'[v] = "new" => connection[v] = "new"
    BY <2>1 DEF IInv, TypeOK
  <2> QED  BY <2>1, <2>2, <2>3, ConnectionsKeep
<1>3. ASSUME NEW u \in User, NEW a \in Account, Login(u, a) PROVE IInv'
  BY <1>3, LogInKeeps DEF Login, InUse, IInv, TypeOK
<1>4. ASSUME NEW u \in User, NEW a \in Account, CreateAccount(u, a) PROVE IInv'
  <2>1. \A v \in User : account[v] # a
    BY <1>4, SavesAssumption DEF CreateAccount, IInv, UserInv, AccountsExist
  <2> QED  BY <1>4, <2>1, LogInKeeps DEF CreateAccount, IInv, TypeOK
<1>5. ASSUME NEW u \in User, CreateNewCharacter_RTA(u) PROVE IInv'
  BY <1>5, BeginKeeps DEF CreateNewCharacter_RTA
<1>6. ASSUME NEW u \in User, NEW target \in User, SaveCharacter_RTA(u, target) PROVE IInv'
  BY <1>6, BeginKeeps DEF SaveCharacter_RTA, IInv, TypeOK
<1>7. ASSUME NEW u \in User, AppendCharacterData(u) PROVE IInv'
  BY <1>7, AppendKeeps
<1>8. ASSUME NEW u \in User, CommitNew(u) \/ CommitSave(u) PROVE IInv'
  BY <1>8, CommitNewKeeps, CommitSaveKeeps
<1>9. ASSUME NEW u \in User, CommitFails(u) PROVE IInv'
  <2>1. AppendCommits(u) /\ UNCHANGED <<character, rows, characters>>
    BY <1>9 DEF CommitFails
  <2>2. /\ tasks' = [tasks EXCEPT ![session[u]] = NoTask]
        /\ tasks' \in [SessionId -> Task \cup {NoTask}]
        /\ UNCHANGED <<connection, account, session, latest, accounts, sessions, saves>>
    BY <2>1, CommitFacts
  <2>3. TypeOK'
    BY <2>1, <2>2 DEF IInv, TypeOK
  <2>4. \A k \in SessionId : tasks'[k] \in {tasks[k], NoTask}
    BY <2>2 DEF IInv, TypeOK
  <2>5. /\ characters <= characters'
        /\ \A c \in Character : rows'[c] # NoRow => Len(rows'[c].data) = Full /\ rows[c] # NoRow
    BY <2>1, SavesAssumption DEF IInv, TypeOK, Character, RowInv, StoredAreComplete
  <2> QED  BY <2>1, <2>2, <2>3, <2>4, <2>5, TasksGoKeeps
<1>10. ASSUME NEW u \in User, NEW c \in Character, DeleteCharacter_RTA(u, c) PROVE IInv'
  <2> DEFINE chosen == Selected(account[u], c)
  <2>1. /\ rows' = [d \in Character |-> IF d \in chosen THEN NoRow ELSE rows[d]]
        /\ UNCHANGED <<users, latest, tasks, accounts, characters, sessions, saves>>
    BY <1>10 DEF DeleteCharacter_RTA
  <2> HIDE DEF chosen
  <2>2. TypeOK'
    BY <2>1 DEF IInv, TypeOK, users
  <2>3. /\ characters <= characters'
        /\ \A d \in Character : rows'[d] # NoRow =>
             Len(rows'[d].data) = Full /\ rows[d] # NoRow /\ rows'[d].made = rows[d].made
    BY <2>1, SavesAssumption DEF IInv, TypeOK, Character, RowInv, StoredAreComplete
  <2> QED  BY <2>1, <2>2, <2>3, TasksGoKeeps DEF users
<1>11. ASSUME NEW u \in User, NEW c \in Character, GetCharacterData_RTA(u, c) PROVE IInv'
  <2>1. /\ character' = [character EXCEPT ![u] = c]
        /\ UNCHANGED <<connection, account, session, latest, tasks, database, sessions, saves>>
    BY <1>11 DEF GetCharacterData_RTA
  <2>2. TypeOK'
    BY <2>1 DEF IInv, TypeOK, database
  <2> QED  BY <2>1, <2>2, ConnectionsKeep
<1>12. CASE Restart
  <2>1. /\ connection' = [u \in User |-> IF Online(u) THEN "removed" ELSE connection[u]]
        /\ tasks' = [k \in SessionId |-> NoTask]
        /\ UNCHANGED <<account, session, character, latest, database, sessions, saves>>
    BY <1>12 DEF Restart
  <2>2. TypeOK'
    BY <2>1 DEF IInv, TypeOK, database
  <2>3. /\ characters <= characters'
        /\ \A d \in Character : rows'[d] # NoRow =>
             Len(rows'[d].data) = Full /\ rows[d] # NoRow /\ rows'[d].made = rows[d].made
    BY <2>1, SavesAssumption DEF IInv, TypeOK, Character, RowInv, StoredAreComplete, database
  <2> QED  BY <2>1, <2>2, <2>3, TasksGoKeeps DEF database
<1> QED
  BY <1>1, <1>2, <1>3, <1>4, <1>5, <1>6, <1>7, <1>8, <1>9, <1>10, <1>11, <1>12 DEF Next

-----------------------------------------------------------------------------
(* Theorems.                                                               *)

(* What IInv gathers holds whatever clients ask for, and whenever the       *)
(* server stops.                                                            *)
THEOREM SavesInvariant == Spec => []IInv
<1> QED  BY InitHolds, NextKeeps, PTL DEF Spec

(* Fields, tasks and rows keep their types.                                *)
THEOREM SavesTyped == Spec => []TypeOK
  <1>1. IInv => TypeOK
    BY DEF IInv
  <1> QED
    BY SavesInvariant, <1>1, PTL

(* No account is used by two users in m_users.                              *)
THEOREM AccountsUsedOnce == Spec => []OneUserPerAccount
<1>1. IInv => OneUserPerAccount
  BY DEF IInv, UserInv
<1> QED  BY <1>1, SavesInvariant, PTL

(* The task of a logged-in user never mixes the data of two saves.          *)
THEOREM SavesDoNotMix == Spec => []PiecesOfOneSave
<1>1. IInv => PiecesOfOneSave
  BY DEF IInv, TaskInv
<1> QED  BY <1>1, SavesInvariant, PTL

(* One request to create a character makes one character at most.           *)
THEOREM CharactersMadeOnce == Spec => []NewCharacterOnce
<1>1. IInv => NewCharacterOnce
  BY DEF IInv, RowInv
<1> QED  BY <1>1, SavesInvariant, PTL

(* Nothing but complete characters is ever stored.                          *)
THEOREM CompleteStored == Spec => []StoredAreComplete
<1>1. IInv => StoredAreComplete
  BY DEF IInv, RowInv
<1> QED  BY <1>1, SavesInvariant, PTL

\* Rows change only with the task of a commit, or without any.
LEMMA StepStays ==
  ASSUME IInv, [Next]_vars, NEW k \in SessionId, tasks[k] # NoTask, tasks'[k] = NoTask,
         NEW c \in Character, rows'[c] # rows[c]
  PROVE  rows'[c] # NoRow /\ rows'[c].account = account[tasks[k].target]
<1>1. rows' # rows /\ tasks' # tasks
  OBVIOUS
<1>2. \E u \in User : CommitNew(u) \/ CommitSave(u)
  BY <1>1 DEF Next, vars, Connect, Disconnect, Login, CreateAccount, LogIn,
     CreateNewCharacter_RTA, SaveCharacter_RTA, BeginSaveTask, AppendCharacterData,
     CommitFails, DeleteCharacter_RTA, GetCharacterData_RTA, Restart, database, users
<1>3. PICK u \in User : CommitNew(u) \/ CommitSave(u)
  BY <1>2
<1> DEFINE t == Appended(u, tasks[session[u]])
<1>4. /\ session[u] \in SessionId /\ t \in Task
      /\ tasks' = [tasks EXCEPT ![session[u]] = NoTask]
      /\ t.target = tasks[session[u]].target
  BY <1>3, CommitFacts DEF CommitNew, CommitSave
<1>5. k = session[u]
  BY <1>4 DEF IInv, TypeOK
<1> HIDE DEF t
<1>6. CASE CommitNew(u)
  <2>1. /\ account[t.target] # None
        /\ rows' = [rows EXCEPT ![characters + 1] =
                      [account |-> account[t.target], made |-> t.id, data |-> Trimmed(t)]]
    BY <1>6 DEF CommitNew, Storable, t
  <2>2. rows'[c] = [account |-> account[t.target], made |-> t.id, data |-> Trimmed(t)]
    BY <2>1 DEF IInv, TypeOK
  <2>3. rows'[c].account = account[t.target]
    BY <2>2
  <2> QED  BY <1>4, <1>5, <2>1, <2>3 DEF NoRow
<1>7. CASE CommitSave(u)
  <2>1. rows' = [d \in Character |->
                   IF d \in Selected(account[t.target], character[t.target])
                   THEN [rows[d] EXCEPT !.data = Trimmed(t)] ELSE rows[d]]
    BY <1>7 DEF CommitSave, t
  <2>2. /\ c \in Selected(account[t.target], character[t.target])
        /\ rows'[c] = [rows[c] EXCEPT !.data = Trimmed(t)]
    BY <2>1
  <2>3. rows[c] \in Row /\ rows[c].account = account[t.target]
    BY <2>2 DEF Selected, Matches, IInv, TypeOK
  <2>4. rows'[c].account = account[t.target] /\ account[t.target] \in Account
    BY <2>2, <2>3 DEF Row
  <2> QED  BY <1>4, <1>5, <2>4, SavesAssumption DEF NoRow
<1> QED  BY <1>3, <1>6, <1>7

(* A commit stores into the account of its target and into no other.        *)
THEOREM CommitsStay == Spec => CommitsStayInAccount
<1>1. IInv /\ [Next]_vars =>
        [\A k \in SessionId : tasks[k] # NoTask /\ tasks'[k] = NoTask =>
           \A c \in Character : rows'[c] # rows[c] =>
             rows'[c] # NoRow /\ rows'[c].account = account[tasks[k].target]]_vars
  BY StepStays
<1> QED  BY <1>1, SavesInvariant, PTL DEF Spec, CommitsStayInAccount

-----------------------------------------------------------------------------
(* The store that others see.                                              *)

LEMMA StoreBegins == Init => Store!Init
  BY DEF Init, Store!Init, Character, Store!Character

\* What a commit stores is whole.
LEMMA TrimmedIsWhole ==
  ASSUME NEW d \in Seq(Piece), Len(d) = Full
  PROVE  d \in Store!Whole
<1>1. d \in [1 .. Len(d) -> Piece]
  OBVIOUS
<1> QED  BY <1>1 DEF Store!Whole

\* A new character is that of an account that exists, and of a save of its own.
LEMMA CommitCreates ==
  ASSUME IInv, NEW u \in User, CommitNew(u)
  PROVE  Store!Next
<1> DEFINE t == Appended(u, tasks[session[u]])
           a == account[t.target]
<1>1. /\ session[u] \in SessionId /\ tasks[session[u]] # NoTask
      /\ t \in Task /\ t.id = tasks[session[u]].id /\ UNCHANGED accounts
      /\ Trimmed(t) \in Seq(Piece) /\ Len(Trimmed(t)) = Full
  BY CommitFacts DEF CommitNew
<1>2. /\ a # None /\ characters < MaxCharacters /\ characters' = characters + 1
      /\ rows' = [rows EXCEPT ![characters + 1] =
                    [account |-> a, made |-> t.id, data |-> Trimmed(t)]]
  BY DEF CommitNew, Storable
<1> HIDE DEF t
<1>3. t.target \in User /\ t.id \in Save
  BY <1>1 DEF Task
<1>4. a \in Account /\ a \in accounts
  BY <1>2, <1>3 DEF IInv, TypeOK, UserInv, AccountsExist
<1>5. \A c \in Character : rows[c] # NoRow => rows[c].made # t.id
  BY <1>1 DEF IInv, TaskInv, TasksDiffer
<1>6. Trimmed(t) \in Store!Whole
  BY <1>1, TrimmedIsWhole
<1> HIDE DEF a
<1>7. Store!Create(a, t.id)
  BY <1>1, <1>2, <1>4, <1>5, <1>6 DEF Store!Create, Store!Exists, Store!Character, Character
<1> QED  BY <1>3, <1>4, <1>7 DEF Store!Next

\* One row at most is selected, and it is replaced or removed.
LEMMA SelectedOne ==
  ASSUME NEW a, NEW c, Selected(a, c) # {}
  PROVE  c \in Character /\ Selected(a, c) = {c} /\ rows[c] # NoRow
  BY DEF Selected, Matches

LEMMA CommitReplaces ==
  ASSUME IInv, NEW u \in User, CommitSave(u)
  PROVE  Store!Next \/ UNCHANGED Store!vars
<1> DEFINE t == Appended(u, tasks[session[u]])
           chosen == Selected(account[t.target], character[t.target])
<1>1. /\ UNCHANGED accounts
      /\ Trimmed(t) \in Seq(Piece) /\ Len(Trimmed(t)) = Full
  BY CommitFacts DEF CommitSave
<1>2. /\ UNCHANGED characters
      /\ rows' = [d \in Character |-> IF d \in chosen
                                      THEN [rows[d] EXCEPT !.data = Trimmed(t)] ELSE rows[d]]
  BY DEF CommitSave
<1>3. rows \in [Character -> Row \cup {NoRow}]
  BY DEF IInv, TypeOK
<1>4. CASE chosen = {}
  <2>1. rows' = rows
    BY <1>2, <1>3, <1>4
  <2> QED  BY <1>1, <1>2, <2>1 DEF Store!vars
<1>5. CASE chosen # {}
  <2> DEFINE c == character[t.target]
             whole == Trimmed(t)
  <2>1. c \in Character /\ chosen = {c} /\ rows[c] # NoRow
    BY <1>5, SelectedOne
  <2>2. whole \in Store!Whole
    BY <1>1, TrimmedIsWhole
  <2> HIDE DEF c, whole, chosen, t
  <2>3. rows' = [rows EXCEPT ![c].data = whole]
    BY <1>2, <1>3, <2>1 DEF whole
  <2>4. Store!Replace(c)
    BY <1>1, <1>2, <2>1, <2>2, <2>3 DEF Store!Replace, Store!Exists
  <2> QED  BY <2>1, <2>4 DEF Store!Next, Store!Character, Character
<1> QED  BY <1>4, <1>5

LEMMA DeleteRemoves ==
  ASSUME IInv, NEW u \in User, NEW c \in Character, DeleteCharacter_RTA(u, c)
  PROVE  Store!Next \/ UNCHANGED Store!vars
<1> DEFINE chosen == Selected(account[u], c)
<1>1. /\ UNCHANGED <<accounts, characters>>
      /\ rows' = [d \in Character |-> IF d \in chosen THEN NoRow ELSE rows[d]]
      /\ rows \in [Character -> Row \cup {NoRow}]
  BY DEF DeleteCharacter_RTA, IInv, TypeOK
<1>2. CASE chosen = {}
  <2>1. rows' = rows
    BY <1>1, <1>2
  <2> QED  BY <1>1, <2>1 DEF Store!vars
<1>3. CASE chosen # {}
  <2>1. chosen = {c} /\ rows[c] # NoRow
    BY <1>3, SelectedOne
  <2> HIDE DEF chosen
  <2>2. rows' = [rows EXCEPT ![c] = NoRow]
    BY <1>1, <2>1
  <2>3. Store!Remove(c)
    BY <1>1, <2>1, <2>2 DEF Store!Remove, Store!Exists
  <2> QED  BY <2>3 DEF Store!Next, Store!Character, Character
<1> QED  BY <1>2, <1>3

LEMMA StoreStep == IInv /\ [Next]_vars => [Store!Next]_Store!vars
<1> SUFFICES ASSUME IInv, [Next]_vars PROVE Store!Next \/ UNCHANGED Store!vars
  OBVIOUS
<1>1. ASSUME NEW u \in User, NEW a \in Account, CreateAccount(u, a)
      PROVE  Store!Next
  <2>1. Store!Register(a)
    BY <1>1 DEF CreateAccount, LogIn, Store!Register
  <2> QED  BY <2>1 DEF Store!Next
<1>2. ASSUME NEW u \in User,
             \/ Connect(u) \/ Disconnect(u) \/ CreateNewCharacter_RTA(u)
             \/ AppendCharacterData(u) \/ CommitFails(u)
             \/ \E a \in Account : Login(u, a)
             \/ \E target \in User : SaveCharacter_RTA(u, target)
             \/ \E c \in Character : GetCharacterData_RTA(u, c)
      PROVE  UNCHANGED Store!vars
  BY <1>2
  DEF Connect, Disconnect, Login, LogIn, CreateNewCharacter_RTA, SaveCharacter_RTA,
      BeginSaveTask, AppendCharacterData, CommitFails, AppendCommits, GetCharacterData_RTA,
      database, Store!vars
<1>3. CASE Restart \/ UNCHANGED vars
  BY <1>3 DEF Restart, vars, database, Store!vars
<1> QED
  BY <1>1, <1>2, <1>3, CommitCreates, CommitReplaces, DeleteRemoves DEF Next

(* CommitSaveTask and the database: those who own characters see whole ones *)
(* only, that appear, change and go at once, whatever becomes of tasks,     *)
(* users and the server.                                                    *)
THEOREM StoreImplemented == Spec => ImplementsStore
<1> QED
  BY StoreBegins, StoreStep, SavesInvariant, PTL DEF Spec, ImplementsStore, Store!Spec

=============================================================================
