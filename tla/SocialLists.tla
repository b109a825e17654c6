----------------------------- MODULE SocialLists -----------------------------
(***************************************************************************)
(* Friends, ignore lists and instant messages: the two lists each user     *)
(* keeps, the rows of UserFriendList and UserIgnoredList they are loaded   *)
(* from, and the accounts and chat handles that tie them together.         *)
(*                                                                         *)
(* One action per request: only the lobby thread touches any of this.  A   *)
(* list is a count per handle, as its order is never used.  Restart ends   *)
(* the process at any point; a crash after a row is written and before the *)
(* list follows looks the same, as the list is lost.                       *)
(*                                                                         *)
(* A user that left m_users can do nothing here, so a member of User is a  *)
(* place for a connection and may be used again.  A client of Norrath is a *)
(* user who never logs in: its account stays -1 and its handle empty.      *)
(***************************************************************************)
EXTENDS Integers, Sequences, SequencesExt

CONSTANTS
  User,         (* places for connections                                   *)
  Handle,       (* chat handles that accounts may have                      *)
  NoHandle,     (* the empty handle                                         *)
  MaxAccounts   (* bound on the accounts                                    *)

ASSUME SocialAssumption ==
  /\ NoHandle \notin Handle
  /\ MaxAccounts \in Nat

VARIABLES
  lastAccount,  \* account_id of the last row of RealmUsers (AUTOINCREMENT)
  accountHandle,\* chat_handle of those rows
  friendRows,   \* UserFriendList, by account_id
  ignoreRows,   \* UserIgnoredList, by account_id
  m_users,      \* the users connected, in the order they came
  account,      \* m_accountId; NoAccount is the code's -1
  handle,       \* m_chatHandle
  friends,      \* m_friendList
  ignored,      \* m_ignoreList
  origin,       \* of the two lists: loaded in whole, cut short, or kept
                \* from another account
  message       \* the instant message this step delivered

rows  == <<lastAccount, accountHandle, friendRows, ignoreRows>>
who   == <<account, handle>>
lists == <<friends, ignored, origin>>
vars  == <<rows, m_users, who, lists, message>>

Account == 1 .. MaxAccounts
NoAccount == 0
Handles == Handle \cup {NoHandle}
NoMessage == <<>>
NobodyListed == [h \in Handles |-> 0]

Online == {m_users[i] : i \in DOMAIN m_users}

TypeOK ==
  /\ lastAccount \in 0 .. MaxAccounts
  /\ accountHandle \in [Account -> Handles]
  /\ friendRows \in [Account -> SUBSET Handles]
  /\ ignoreRows \in [Account -> SUBSET Handles]
  /\ m_users \in Seq(User)
  /\ account \in [User -> Account \cup {NoAccount}]
  /\ handle \in [User -> Handles]
  /\ friends \in [User -> [Handles -> Nat]]
  /\ ignored \in [User -> [Handles -> Nat]]
  /\ origin \in [User -> {"whole", "short", "kept"}]
  /\ message \in (User \X User) \cup {NoMessage}

Init ==
  /\ lastAccount = 0
  /\ accountHandle = [a \in Account |-> NoHandle]
  /\ friendRows = [a \in Account |-> {}]
  /\ ignoreRows = [a \in Account |-> {}]
  /\ m_users = <<>>
  /\ account = [u \in User |-> NoAccount] /\ handle = [u \in User |-> NoHandle]
  /\ friends = [u \in User |-> NobodyListed]
  /\ ignored = [u \in User |-> NobodyListed]
  /\ origin = [u \in User |-> "whole"]
  /\ message = NoMessage

-----------------------------------------------------------------------------
(* UserManager and RealmUser.                                              *)

\* The first of m_users with that handle: handles are not unique.
FirstNamed(h) ==
  {i \in DOMAIN m_users :
     handle[m_users[i]] = h /\ \A j \in 1 .. i - 1 : handle[m_users[j]] # h}

IsFound(h) == FirstNamed(h) # {}
FindUserByChatHandle(h) == m_users[CHOOSE i \in FirstNamed(h) : TRUE]

\* Mutant: the end of the list is taken for a hit.
IsFriend_Always(u, h) == TRUE

IsFriend(u, h) == friends[u][h] > 0
IsIgnored(u, h) == ignored[u][h] > 0

Connect(u) ==
  /\ u \notin Online
  /\ m_users' = Append(m_users, u)
  /\ message' = NoMessage
  /\ UNCHANGED <<rows, who, lists>>

\* RemoveUser; the next user of this place is a new object.
Disconnect(i) ==
  LET u == m_users[i]
  IN /\ m_users' = RemoveAt(m_users, i)
     /\ account' = [account EXCEPT ![u] = NoAccount]
     /\ handle' = [handle EXCEPT ![u] = NoHandle]
     /\ friends' = [friends EXCEPT ![u] = NobodyListed]
     /\ ignored' = [ignored EXCEPT ![u] = NobodyListed]
     /\ origin' = [origin EXCEPT ![u] = "whole"]
     /\ message' = NoMessage
     /\ UNCHANGED rows

\* The process ends and starts again: rows stay.
Restart ==
  /\ m_users' = <<>>
  /\ account' = [u \in User |-> NoAccount] /\ handle' = [u \in User |-> NoHandle]
  /\ friends' = [u \in User |-> NobodyListed]
  /\ ignored' = [u \in User |-> NobodyListed]
  /\ origin' = [u \in User |-> "whole"]
  /\ message' = NoMessage
  /\ UNCHANGED rows

-----------------------------------------------------------------------------
(* Accounts.                                                               *)

\* Mutant: a second log-in to an account is not refused.
AccountInUse_Never(a) == FALSE

\* ProcessLoginRTA refuses an account that any user in m_users has, the one
\* that asks included.
AccountInUse(a) == \E u \in Online : account[u] = a

\* Mutant: the rows are read and dropped.
Loaded_Nothing(got) == NobodyListed

\* LoadFriends, LoadIgnores: the rows that are read, once each.
Loaded(got) == [h \in Handles |-> IF h \in got THEN 1 ELSE 0]

\* The loop over the rows ends early, in silence, when the database fails: a
\* part of each list is loaded.
Login(u, a) ==
  /\ u \in Online
  /\ a \in 1 .. lastAccount /\ ~AccountInUse(a)
  /\ account' = [account EXCEPT ![u] = a]
  /\ handle' = [handle EXCEPT ![u] = accountHandle[a]]
  /\ \E f \in SUBSET friendRows[a], g \in SUBSET ignoreRows[a] :
       /\ friends' = [friends EXCEPT ![u] = Loaded(f)]
       /\ ignored' = [ignored EXCEPT ![u] = Loaded(g)]
       /\ origin' = [origin EXCEPT ![u] =
                       IF f = friendRows[a] /\ g = ignoreRows[a]
                       THEN "whole" ELSE "short"]
  /\ message' = NoMessage
  /\ UNCHANGED <<rows, m_users>>

NoLists(u) == friends[u] = NobodyListed /\ ignored[u] = NobodyListed

\* A new row of RealmUsers, and the user has that account.  The lists are not
\* touched: those of a former account stay.
CreateAccount(u, h) ==
  /\ u \in Online
  /\ lastAccount < MaxAccounts
  /\ lastAccount' = lastAccount + 1
  /\ accountHandle' = [accountHandle EXCEPT ![lastAccount'] = h]
  /\ account' = [account EXCEPT ![u] = lastAccount']
  /\ handle' = [handle EXCEPT ![u] = h]
  /\ origin' = [origin EXCEPT ![u] = IF NoLists(u) THEN "whole" ELSE "kept"]
  /\ message' = NoMessage
  /\ UNCHANGED <<friendRows, ignoreRows, m_users, friends, ignored>>

-----------------------------------------------------------------------------
(* The two lists.  The database refuses an account that is not positive    *)
(* and an empty handle, and may fail otherwise: then nothing changes.      *)

\* Mutant: the handle is not looked at.
Accepts_AnyHandle(a, h) == a # NoAccount

Accepts(a, h) == a # NoAccount /\ h # NoHandle

Put(table, a, h) == IF a \in Account THEN [table EXCEPT ![a] = @ \cup {h}] ELSE table
Take(table, a, h) == IF a \in Account THEN [table EXCEPT ![a] = @ \ {h}] ELSE table

\* Mutant: the list is not told of what was stored.
Push_Forgets(list, u, h) == list

Push(list, u, h) == [list EXCEPT ![u][h] = @ + 1]

\* std::find and erase: the first of that handle goes.
Erase(list, u, h) == [list EXCEPT ![u][h] = @ - 1]

AddFriend(u, h) ==
  /\ u \in Online
  /\ ~IsFriend(u, h)
  /\ IsFound(h)
  /\ ~IsIgnored(FindUserByChatHandle(h), handle[u])
  /\ Accepts(account[u], h)
  /\ friendRows' = Put(friendRows, account[u], h)
  /\ friends' = Push(friends, u, h)
  /\ message' = NoMessage
  /\ UNCHANGED <<lastAccount, accountHandle, ignoreRows, m_users, who, ignored, origin>>

RemoveFriend(u, h) ==
  /\ u \in Online
  /\ IsFriend(u, h)
  /\ Accepts(account[u], h)
  /\ friendRows' = Take(friendRows, account[u], h)
  /\ friends' = Erase(friends, u, h)
  /\ message' = NoMessage
  /\ UNCHANGED <<lastAccount, accountHandle, ignoreRows, m_users, who, ignored, origin>>

AddIgnore(u, h) ==
  /\ u \in Online
  /\ ~IsFriend(u, h) /\ ~IsIgnored(u, h)
  /\ IsFound(h)
  /\ Accepts(account[u], h)
  /\ ignoreRows' = Put(ignoreRows, account[u], h)
  /\ ignored' = Push(ignored, u, h)
  /\ message' = NoMessage
  /\ UNCHANGED <<lastAccount, accountHandle, friendRows, m_users, who, friends, origin>>

RemoveIgnore(u, h) ==
  /\ u \in Online
  /\ IsIgnored(u, h)
  /\ Accepts(account[u], h)
  /\ ignoreRows' = Take(ignoreRows, account[u], h)
  /\ ignored' = Erase(ignored, u, h)
  /\ message' = NoMessage
  /\ UNCHANGED <<lastAccount, accountHandle, friendRows, m_users, who, friends, origin>>

\* RequestSendInstantMessage.
SendInstantMessage(u, h) ==
  /\ u \in Online
  /\ IsFound(h)
  /\ ~IsIgnored(FindUserByChatHandle(h), handle[u])
  /\ message' = <<u, FindUserByChatHandle(h)>>
  /\ UNCHANGED <<rows, m_users, who, lists>>

Next ==
  \/ Restart
  \/ \E i \in DOMAIN m_users : Disconnect(i)
  \/ \E u \in User :
       \/ Connect(u)
       \/ \E a \in Account : Login(u, a)
       \/ \E h \in Handle : CreateAccount(u, h)
       \/ \E h \in Handles :
            \/ AddFriend(u, h) \/ RemoveFriend(u, h)
            \/ AddIgnore(u, h) \/ RemoveIgnore(u, h)
            \/ SendInstantMessage(u, h)

Spec == Init /\ [][Next]_vars

-----------------------------------------------------------------------------
(* Properties.                                                             *)

Listed(list, u) == {h \in Handles : list[u][h] > 0}

(* ProcessLoginRTA, the four requests, and the statements of the database:  *)
(* what a user sees is what is stored.  Lists loaded in whole equal the     *)
(* rows of the account, each handle once, though others log in and out and  *)
(* the server restarts; lists cut short by a failure hold nothing that is   *)
(* not stored.  Only lists kept from another account may differ.            *)
ListsAreRows ==
  \A u \in User : account[u] # NoAccount =>
    /\ origin[u] = "whole" => /\ friends[u] = Loaded(friendRows[account[u]])
                              /\ ignored[u] = Loaded(ignoreRows[account[u]])
    /\ origin[u] = "short" => /\ Listed(friends, u) \subseteq friendRows[account[u]]
                              /\ Listed(ignored, u) \subseteq ignoreRows[account[u]]

(* RequestSendInstantMessage asks the list in memory; what holds is about   *)
(* the rows: no message reaches a user from a handle that the account of    *)
(* the user has ignored, in this session or in an earlier one, if the load  *)
(* at the login was not cut short.                                          *)
IgnoredAreSilent ==
  [][\A u, v \in User :
       message' = <<u, v>> /\ account[v] # NoAccount /\ origin[v] = "whole"
         => handle[u] \notin ignoreRows[account[v]]]_vars

(* SaveFriend, RemoveFriend, SaveIgnore, RemoveIgnore: a row comes or goes  *)
(* only in a request of a user of that account, and that user's list says   *)
(* the same after the request: nothing is stored behind a refusal.          *)
RowsFollowRequests ==
  [][\A a \in Account, h \in Handles :
       /\ (h \in friendRows[a]) # (h \in friendRows'[a]) =>
            \E u \in Online : account[u] = a /\ (IsFriend(u, h)') = (h \in friendRows'[a])
       /\ (h \in ignoreRows[a]) # (h \in ignoreRows'[a]) =>
            \E u \in Online : account[u] = a /\ (IsIgnored(u, h)') = (h \in ignoreRows'[a])]_vars

(* There is no foreign key from the two tables: rows name their handles by  *)
(* text, taken from a user who was online.  Every handle stored is one that *)
(* some account has, and never the empty handle of who is not logged in.    *)
RowsNameAccounts ==
  \A a \in Account : \A h \in friendRows[a] \cup ignoreRows[a] :
    \E b \in 1 .. lastAccount : accountHandle[b] = h /\ h # NoHandle

=============================================================================
