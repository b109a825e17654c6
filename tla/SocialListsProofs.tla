-------------------------- MODULE SocialListsProofs --------------------------
(***************************************************************************)
(* The lists and the rows of SocialLists, for any number of users,         *)
(* handles and accounts.                                                   *)
(***************************************************************************)
EXTENDS SocialLists, SequenceTheorems, TLAPS

\* Who is not connected is as a new user will be.
OfflineAreNew == \A u \in User : u \notin Online => account[u] = NoAccount

\* No account is used by two users.
AccountsDiffer ==
  \A u, v \in User : account[u] = account[v] /\ account[u] # NoAccount => u = v

\* An account in use was drawn, and gives its user the handle.
HandlesAreAccounts ==
  \A u \in User :
    /\ account[u] # NoAccount => /\ account[u] <= lastAccount
                                 /\ handle[u] = accountHandle[account[u]]
                                 /\ handle[u] # NoHandle
    /\ account[u] = NoAccount => handle[u] = NoHandle /\ NoLists(u)

\* Nothing is stored for an account before it is drawn.
FreshAreEmpty ==
  \A a \in Account : a > lastAccount => friendRows[a] = {} /\ ignoreRows[a] = {}

\* An account that was drawn has a handle.
AccountsNamed == \A a \in 1 .. lastAccount : accountHandle[a] # NoHandle

\* No handle is twice in a list.
ListedOnce ==
  \A u \in User, h \in Handles : friends[u][h] \in {0, 1} /\ ignored[u][h] \in {0, 1}

UserInv == OfflineAreNew /\ AccountsDiffer /\ HandlesAreAccounts
RowInv == FreshAreEmpty /\ AccountsNamed /\ RowsNameAccounts
IInv == TypeOK /\ UserInv /\ RowInv /\ ListedOnce /\ ListsAreRows

LEMMA InitHolds == Init => IInv
  BY SocialAssumption
  DEF Init, IInv, TypeOK, UserInv, OfflineAreNew, AccountsDiffer, HandlesAreAccounts,
      NoLists, RowInv, FreshAreEmpty, AccountsNamed, ListedOnce, ListsAreRows, RowsNameAccounts, Listed, Loaded,
      Account, NoAccount, Handles, NoMessage, NobodyListed, Online

-----------------------------------------------------------------------------
(* Operators.                                                              *)

LEMMA LoadedFacts ==
  ASSUME NEW r \in SUBSET Handles
  PROVE  /\ Loaded(r) \in [Handles -> {0, 1}]
         /\ \A h \in Handles : Loaded(r)[h] > 0 <=> h \in r
  BY DEF Loaded

LEMMA NobodyFacts == Loaded({}) = NobodyListed
  BY DEF Loaded, NobodyListed

\* A list follows its rows.
LEMMA PushFollows ==
  ASSUME NEW r \in SUBSET Handles, NEW h \in Handles, ~(Loaded(r)[h] > 0)
  PROVE  [Loaded(r) EXCEPT ![h] = @ + 1] = Loaded(r \cup {h})
<1>1. h \notin r /\ Loaded(r)[h] + 1 = 1
  BY DEF Loaded
<1>2. \A k \in Handles :
        [Loaded(r) EXCEPT ![h] = @ + 1][k] = Loaded(r \cup {h})[k]
  BY <1>1 DEF Loaded
<1> QED  BY <1>2 DEF Loaded

LEMMA EraseFollows ==
  ASSUME NEW r \in SUBSET Handles, NEW h \in Handles, Loaded(r)[h] > 0
  PROVE  [Loaded(r) EXCEPT ![h] = @ - 1] = Loaded(r \ {h})
<1>1. h \in r /\ Loaded(r)[h] - 1 = 0
  BY DEF Loaded
<1>2. \A k \in Handles :
        [Loaded(r) EXCEPT ![h] = @ - 1][k] = Loaded(r \ {h})[k]
  BY <1>1 DEF Loaded
<1> QED  BY <1>2 DEF Loaded

\* Whoever is found is connected and has the handle.
LEMMA FoundFacts ==
  ASSUME IInv, NEW h, IsFound(h)
  PROVE  /\ FindUserByChatHandle(h) \in Online
         /\ FindUserByChatHandle(h) \in User
         /\ handle[FindUserByChatHandle(h)] = h
<1>1. PICK n \in FirstNamed(h) : FindUserByChatHandle(h) = m_users[n]
  BY DEF FindUserByChatHandle, IsFound
<1>2. n \in DOMAIN m_users /\ handle[m_users[n]] = h
  BY <1>1 DEF FirstNamed
<1>3. m_users[n] \in Online /\ m_users[n] \in User
  BY <1>2, LenProperties DEF Online, IInv, TypeOK
<1> QED  BY <1>1, <1>2, <1>3

\* Users come and go at any place of m_users.
LEMMA RemoveAtFacts ==
  ASSUME NEW S, NEW s \in Seq(S), NEW i \in DOMAIN s
  PROVE  /\ RemoveAt(s, i) \in Seq(S)
         /\ \A u \in {s[k] : k \in DOMAIN s} :
              u # s[i] => \E j \in DOMAIN RemoveAt(s, i) : RemoveAt(s, i)[j] = u
<1> DEFINE a == SubSeq(s, 1, i - 1)
           b == SubSeq(s, i + 1, Len(s))
<1>1. DOMAIN s = 1 .. Len(s) /\ Len(s) \in Nat /\ i \in 1 .. Len(s)
  BY LenProperties
<1>2. \A k \in 1 .. Len(s) : s[k] \in S
  BY <1>1, LenProperties
<1>3. /\ a \in Seq(S) /\ Len(a) = i - 1
      /\ \A k \in 1 .. i - 1 : a[k] = s[k]
  <2>1. \A k \in 1 .. i - 1 : s[k] \in S
    BY <1>1, <1>2
  <2>2. /\ a \in Seq(S) /\ Len(a) = IF 1 <= i - 1 THEN i - 1 - 1 + 1 ELSE 0
        /\ \A k \in 1 .. i - 1 - 1 + 1 : a[k] = s[1 + k - 1]
    BY <1>1, <2>1, SubSeqProperties
  <2> QED  BY <1>1, <2>2
<1>4. /\ b \in Seq(S) /\ Len(b) = Len(s) - i
      /\ \A k \in 1 .. Len(s) - i : b[k] = s[i + k]
  <2>1. \A k \in i + 1 .. Len(s) : s[k] \in S
    BY <1>1, <1>2
  <2>2. /\ b \in Seq(S) /\ Len(b) = IF i + 1 <= Len(s) THEN Len(s) - (i + 1) + 1 ELSE 0
        /\ \A k \in 1 .. Len(s) - (i + 1) + 1 : b[k] = s[i + 1 + k - 1]
    BY <1>1, <2>1, SubSeqProperties
  <2> QED  BY <1>1, <2>2
<1>5. RemoveAt(s, i) = a \o b
  BY DEF RemoveAt
<1> HIDE DEF a, b
<1>6. /\ a \o b \in Seq(S) /\ Len(a \o b) = Len(s) - 1
      /\ \A k \in 1 .. Len(s) - 1 : k < i => (a \o b)[k] = s[k]
      /\ \A k \in 1 .. Len(s) - 1 : ~(k < i) => (a \o b)[k] = s[k + 1]
  <2>1. /\ a \o b \in Seq(S) /\ Len(a \o b) = Len(a) + Len(b)
        /\ \A k \in 1 .. Len(a) + Len(b) :
             (a \o b)[k] = IF k <= Len(a) THEN a[k] ELSE b[k - Len(a)]
    BY <1>3, <1>4, ConcatProperties
  <2>2. Len(a) + Len(b) = Len(s) - 1
    BY <1>1, <1>3, <1>4
  <2>3. ASSUME NEW k \in 1 .. Len(s) - 1, k < i PROVE (a \o b)[k] = s[k]
    <3>1. k <= Len(a) /\ k \in 1 .. i - 1
      BY <1>1, <1>3, <2>3
    <3> QED  BY <1>3, <2>1, <2>2, <3>1
  <2>4. ASSUME NEW k \in 1 .. Len(s) - 1, ~(k < i) PROVE (a \o b)[k] = s[k + 1]
    <3>1. ~(k <= Len(a)) /\ k - Len(a) \in 1 .. Len(s) - i /\ i + (k - Len(a)) = k + 1
      BY <1>1, <1>3, <2>4
    <3> QED  BY <1>4, <2>1, <2>2, <3>1
  <2> QED  BY <2>1, <2>2, <2>3, <2>4
<1>7. DOMAIN (a \o b) = 1 .. Len(s) - 1
  BY <1>6, LenProperties
<1>8. ASSUME NEW k \in 1 .. Len(s), s[k] # s[i]
      PROVE  \E j \in 1 .. Len(s) - 1 : (a \o b)[j] = s[k]
  <2>1. CASE k < i
    <3>1. k \in 1 .. Len(s) - 1
      BY <1>1, <2>1
    <3>2. (a \o b)[k] = s[k]
      BY <1>6, <2>1, <3>1
    <3> QED  BY <3>1, <3>2
  <2>2. CASE k > i
    <3>1. PICK j \in 1 .. Len(s) - 1 : ~(j < i) /\ j + 1 = k
      <4>1. k - 1 \in 1 .. Len(s) - 1 /\ ~(k - 1 < i) /\ k - 1 + 1 = k
        BY <1>1, <2>2
      <4> QED  BY <4>1
    <3>2. (a \o b)[j] = s[j + 1]
      BY <1>6, <3>1
    <3> QED  BY <3>1, <3>2
  <2>3. k < i \/ k > i
    <3>1. k # i
      BY <1>8
    <3> QED  BY <1>1, <3>1
  <2> QED  BY <2>1, <2>2, <2>3
<1>9. \A u \in {s[k] : k \in DOMAIN s} :
        u # s[i] => \E j \in DOMAIN (a \o b) : (a \o b)[j] = u
  BY <1>1, <1>7, <1>8
<1> QED  BY <1>5, <1>6, <1>9

-----------------------------------------------------------------------------
(* Connections and accounts.                                               *)

LEMMA ConnectKeeps ==
  ASSUME IInv, NEW u \in User, Connect(u)
  PROVE  IInv'
<1>1. m_users' = Append(m_users, u) /\ UNCHANGED <<rows, who, lists>>
      /\ message' = NoMessage
  BY DEF Connect
<1>2. TypeOK'
  BY <1>1 DEF IInv, TypeOK, rows, who, lists
<1>3. Online \subseteq Online'
  <2>1. \A i \in DOMAIN m_users : i \in DOMAIN m_users' /\ m_users'[i] = m_users[i]
    <3>1. m_users \in Seq(User) /\ m_users' \in Seq(User)
      BY <1>2 DEF IInv, TypeOK
    <3>2. /\ DOMAIN m_users = 1 .. Len(m_users) /\ Len(m_users) \in Nat
          /\ DOMAIN m_users' = 1 .. Len(m_users')
      BY <3>1, LenProperties
    <3>3. /\ Len(m_users') = Len(m_users) + 1
          /\ \A i \in 1 .. Len(m_users) : m_users'[i] = m_users[i]
      BY <1>1, <3>1, AppendProperties
    <3> QED  BY <3>2, <3>3
  <2> QED  BY <2>1 DEF Online
<1>4. UserInv'
  BY <1>1, <1>3 DEF IInv, UserInv, OfflineAreNew, AccountsDiffer, HandlesAreAccounts,
     NoLists, rows, who, lists
<1>5. RowInv' /\ ListedOnce' /\ ListsAreRows'
  BY <1>1 DEF IInv, RowInv, FreshAreEmpty, AccountsNamed, RowsNameAccounts, ListedOnce, ListsAreRows, Listed,
     rows, who, lists
<1> QED  BY <1>2, <1>4, <1>5 DEF IInv

\* One user, or all, become as a new user is.
LEMMA ResetKeeps ==
  ASSUME IInv, NEW S \in SUBSET User, m_users' \in Seq(User), Online \ S \subseteq Online',
         account' = [u \in User |-> IF u \in S THEN NoAccount ELSE account[u]],
         handle' = [u \in User |-> IF u \in S THEN NoHandle ELSE handle[u]],
         friends' = [u \in User |-> IF u \in S THEN NobodyListed ELSE friends[u]],
         ignored' = [u \in User |-> IF u \in S THEN NobodyListed ELSE ignored[u]],
         origin' = [u \in User |-> IF u \in S THEN "whole" ELSE origin[u]],
         message' = NoMessage, UNCHANGED rows
  PROVE  IInv'
<1>1. NobodyListed \in [Handles -> Nat] /\ \A h \in Handles : NobodyListed[h] = 0
  BY DEF NobodyListed
<1>2. TypeOK'
  BY <1>1 DEF IInv, TypeOK, rows, NoAccount, Handles
<1>3. UserInv'
  BY DEF IInv, UserInv, OfflineAreNew, AccountsDiffer, HandlesAreAccounts, NoLists, rows,
     TypeOK
<1>4. RowInv'
  BY DEF IInv, RowInv, FreshAreEmpty, AccountsNamed, RowsNameAccounts, rows
<1>5. ListedOnce'
  BY <1>1 DEF IInv, TypeOK, ListedOnce
<1>6. ListsAreRows'
  BY DEF IInv, TypeOK, ListsAreRows, Listed, rows
<1> QED  BY <1>2, <1>3, <1>4, <1>5, <1>6 DEF IInv

LEMMA DisconnectKeeps ==
  ASSUME IInv, NEW i \in DOMAIN m_users, Disconnect(i)
  PROVE  IInv'
<1> DEFINE S == {m_users[i]}
<1>1. m_users[i] \in User /\ S \in SUBSET User
  BY DEF IInv, TypeOK
<1>2. m_users' \in Seq(User) /\ Online \ S \subseteq Online'
  <2>1. m_users \in Seq(User) /\ m_users' = RemoveAt(m_users, i)
    BY DEF Disconnect, IInv, TypeOK
  <2>2. /\ RemoveAt(m_users, i) \in Seq(User)
        /\ \A u \in {m_users[k] : k \in DOMAIN m_users} :
             u # m_users[i] => \E j \in DOMAIN RemoveAt(m_users, i) : RemoveAt(m_users, i)[j] = u
    BY <2>1, RemoveAtFacts
  <2> QED  BY <2>1, <2>2 DEF Online
<1>3. /\ account' = [u \in User |-> IF u \in S THEN NoAccount ELSE account[u]]
      /\ handle' = [u \in User |-> IF u \in S THEN NoHandle ELSE handle[u]]
      /\ friends' = [u \in User |-> IF u \in S THEN NobodyListed ELSE friends[u]]
      /\ ignored' = [u \in User |-> IF u \in S THEN NobodyListed ELSE ignored[u]]
      /\ origin' = [u \in User |-> IF u \in S THEN "whole" ELSE origin[u]]
  BY <1>1 DEF Disconnect, IInv, TypeOK
<1>4. message' = NoMessage /\ UNCHANGED rows
  BY DEF Disconnect
<1> HIDE DEF S
<1> QED  BY <1>1, <1>2, <1>3, <1>4, ResetKeeps

LEMMA RestartKeeps ==
  ASSUME IInv, Restart
  PROVE  IInv'
<1>1. m_users' \in Seq(User) /\ Online \ User \subseteq Online'
  BY DEF Restart, Online, IInv, TypeOK
<1>2. /\ account' = [u \in User |-> IF u \in User THEN NoAccount ELSE account[u]]
      /\ handle' = [u \in User |-> IF u \in User THEN NoHandle ELSE handle[u]]
      /\ friends' = [u \in User |-> IF u \in User THEN NobodyListed ELSE friends[u]]
      /\ ignored' = [u \in User |-> IF u \in User THEN NobodyListed ELSE ignored[u]]
      /\ origin' = [u \in User |-> IF u \in User THEN "whole" ELSE origin[u]]
  BY DEF Restart
<1>3. message' = NoMessage /\ UNCHANGED rows
  BY DEF Restart
<1> QED  BY <1>1, <1>2, <1>3, ResetKeeps

LEMMA LoginKeeps ==
  ASSUME IInv, NEW u \in User, NEW a \in Account, Login(u, a)
  PROVE  IInv'
<1>1. /\ u \in Online /\ a <= lastAccount /\ ~AccountInUse(a)
      /\ account' = [account EXCEPT ![u] = a]
      /\ handle' = [handle EXCEPT ![u] = accountHandle[a]]
      /\ message' = NoMessage /\ UNCHANGED <<rows, m_users>>
  BY DEF Login, Account
<1>2. PICK f \in SUBSET friendRows[a], g \in SUBSET ignoreRows[a] :
        /\ friends' = [friends EXCEPT ![u] = Loaded(f)]
        /\ ignored' = [ignored EXCEPT ![u] = Loaded(g)]
        /\ origin' = [origin EXCEPT ![u] =
                        IF f = friendRows[a] /\ g = ignoreRows[a] THEN "whole" ELSE "short"]
  BY DEF Login
<1>3. f \in SUBSET Handles /\ g \in SUBSET Handles /\ a # NoAccount
  <2>1. friendRows[a] \in SUBSET Handles /\ ignoreRows[a] \in SUBSET Handles
    BY DEF IInv, TypeOK
  <2> QED  BY <1>2, <2>1 DEF Account, NoAccount
<1>4. /\ Loaded(f) \in [Handles -> {0, 1}] /\ Loaded(g) \in [Handles -> {0, 1}]
      /\ \A h \in Handles : Loaded(f)[h] > 0 <=> h \in f
      /\ \A h \in Handles : Loaded(g)[h] > 0 <=> h \in g
  BY <1>3, LoadedFacts
<1> HIDE DEF Loaded
<1>5. TypeOK'
  <2>1. Loaded(f) \in [Handles -> Nat] /\ Loaded(g) \in [Handles -> Nat]
    BY <1>4
  <2> QED  BY <1>1, <1>2, <2>1 DEF IInv, TypeOK, rows
<1>6. \A v \in User : account[v] # a
  <2>1. \A v \in Online : account[v] # a
    BY <1>1 DEF AccountInUse
  <2> QED  BY <2>1, <1>3 DEF IInv, UserInv, OfflineAreNew
<1>7. accountHandle[a] # NoHandle
  BY <1>1 DEF IInv, RowInv, AccountsNamed, Account
<1>8. UserInv'
  <2>1. OfflineAreNew'
    BY <1>1 DEF IInv, UserInv, OfflineAreNew, Online, TypeOK
  <2>2. AccountsDiffer'
    BY <1>1, <1>6 DEF IInv, UserInv, AccountsDiffer, TypeOK
  <2>3. HandlesAreAccounts'
    BY <1>1, <1>2, <1>3, <1>7 DEF IInv, UserInv, HandlesAreAccounts, NoLists, TypeOK, rows
  <2> QED  BY <2>1, <2>2, <2>3 DEF UserInv
<1>9. RowInv'
  BY <1>1 DEF IInv, RowInv, FreshAreEmpty, AccountsNamed, RowsNameAccounts, rows
<1>10. ListedOnce'
  BY <1>2, <1>4 DEF IInv, TypeOK, ListedOnce
<1>11. ListsAreRows'
  BY <1>1, <1>2, <1>4 DEF IInv, TypeOK, ListsAreRows, Listed, rows
<1> QED  BY <1>5, <1>8, <1>9, <1>10, <1>11 DEF IInv

LEMMA CreateAccountKeeps ==
  ASSUME IInv, NEW u \in User, NEW h \in Handle, CreateAccount(u, h)
  PROVE  IInv'
<1> DEFINE a == lastAccount + 1
<1>1. /\ u \in Online /\ lastAccount < MaxAccounts /\ lastAccount' = a
      /\ accountHandle' = [accountHandle EXCEPT ![a] = h]
      /\ account' = [account EXCEPT ![u] = a]
      /\ handle' = [handle EXCEPT ![u] = h]
      /\ origin' = [origin EXCEPT ![u] = IF NoLists(u) THEN "whole" ELSE "kept"]
      /\ message' = NoMessage
      /\ UNCHANGED <<friendRows, ignoreRows, m_users, friends, ignored>>
  BY DEF CreateAccount
<1>2. /\ lastAccount \in Nat /\ a \in Account /\ a # NoAccount
      /\ h \in Handles /\ h # NoHandle
  BY <1>1, SocialAssumption DEF IInv, TypeOK, Account, NoAccount, Handles
<1>3. \A v \in User : account[v] # NoAccount => account[v] <= lastAccount
  BY DEF IInv, UserInv, HandlesAreAccounts
<1>4. friendRows[a] = {} /\ ignoreRows[a] = {}
  BY <1>2 DEF IInv, RowInv, FreshAreEmpty
<1>5. \A v \in User : account[v] # a
  <2>1. \A v \in User : account[v] = a => account[v] # NoAccount /\ ~(account[v] <= lastAccount)
    BY <1>2
  <2> QED  BY <2>1, <1>3
<1>6. \A b \in 1 .. lastAccount : b \in Account /\ b # a
  BY <1>1, <1>2, SocialAssumption DEF Account
<1>7. TypeOK'
  <2>1. lastAccount' \in 0 .. MaxAccounts
    BY <1>1, <1>2 DEF Account
  <2>2. accountHandle' \in [Account -> Handles] /\ handle' \in [User -> Handles]
    BY <1>1, <1>2 DEF IInv, TypeOK
  <2>3. account' \in [User -> Account \cup {NoAccount}]
    BY <1>1, <1>2 DEF IInv, TypeOK
  <2>4. origin' \in [User -> {"whole", "short", "kept"}]
    <3>1. (IF NoLists(u) THEN "whole" ELSE "kept") \in {"whole", "short", "kept"}
      OBVIOUS
    <3> QED  BY <1>1, <3>1 DEF IInv, TypeOK
  <2> QED  BY <1>1, <2>1, <2>2, <2>3, <2>4 DEF IInv, TypeOK
<1>8. UserInv'
  <2>1. OfflineAreNew'
    BY <1>1 DEF IInv, UserInv, OfflineAreNew, Online, TypeOK
  <2>2. AccountsDiffer'
    BY <1>1, <1>5 DEF IInv, UserInv, AccountsDiffer, TypeOK
  <2>3. ASSUME NEW v \in User
        PROVE  /\ account'[v] # NoAccount => /\ account'[v] <= lastAccount'
                                             /\ handle'[v] = accountHandle'[account'[v]]
                                             /\ handle'[v] # NoHandle
               /\ account'[v] = NoAccount => handle'[v] = NoHandle /\ NoLists(v)'
    <3>1. CASE v = u
      BY <1>1, <1>2, <3>1 DEF IInv, TypeOK
    <3>2. CASE v # u
      BY <1>1, <1>2, <1>3, <1>5, <3>2
      DEF IInv, UserInv, HandlesAreAccounts, NoLists, TypeOK, Account
    <3> QED  BY <3>1, <3>2
  <2> QED  BY <2>1, <2>2, <2>3 DEF UserInv, HandlesAreAccounts
<1>9. RowInv'
  <2>1. FreshAreEmpty'
    BY <1>1, <1>2 DEF IInv, RowInv, FreshAreEmpty, Account
  <2>2. AccountsNamed'
    BY <1>1, <1>2 DEF IInv, RowInv, AccountsNamed, TypeOK, Account
  <2>3. \A b \in 1 .. lastAccount : b \in 1 .. lastAccount' /\ accountHandle'[b] = accountHandle[b]
    BY <1>1, <1>2, <1>6 DEF IInv, TypeOK
  <2>4. RowsNameAccounts'
    BY <1>1, <2>3 DEF IInv, RowInv, RowsNameAccounts
  <2> QED  BY <2>1, <2>2, <2>4 DEF RowInv
<1>10. ListedOnce'
  BY <1>1 DEF IInv, ListedOnce
<1>11. ListsAreRows'
  <2> SUFFICES ASSUME NEW v \in User, account'[v] # NoAccount
               PROVE  /\ origin'[v] = "whole" => /\ friends[v] = Loaded(friendRows[account'[v]])
                                                 /\ ignored[v] = Loaded(ignoreRows[account'[v]])
                      /\ origin'[v] = "short" => /\ Listed(friends, v) \subseteq friendRows[account'[v]]
                                                 /\ Listed(ignored, v) \subseteq ignoreRows[account'[v]]
    BY <1>1 DEF ListsAreRows, Listed, Loaded
  <2>1. CASE v = u
    <3>1. account'[v] = a /\ origin'[v] = IF NoLists(u) THEN "whole" ELSE "kept"
      BY <1>1, <2>1 DEF IInv, TypeOK
    <3>2. origin'[v] # "short"
      BY <3>1
    <3>3. origin'[v] = "whole" => NoLists(u)
      BY <3>1
    <3> QED  BY <1>4, <2>1, <3>1, <3>2, <3>3, NobodyFacts DEF NoLists
  <2>2. CASE v # u
    BY <1>1, <2>2 DEF IInv, TypeOK, ListsAreRows
  <2> QED  BY <2>1, <2>2
<1> QED  BY <1>7, <1>8, <1>9, <1>10, <1>11 DEF IInv

-----------------------------------------------------------------------------
(* The two lists.                                                          *)

\* What each of the four requests asks for.
LEMMA AcceptedFacts ==
  ASSUME IInv, NEW u \in User, NEW h \in Handles, Accepts(account[u], h)
  PROVE  /\ account[u] \in Account /\ h # NoHandle
         /\ \A v \in User : account[v] = account[u] => v = u
         /\ account[u] <= lastAccount
  BY DEF Accepts, IInv, TypeOK, UserInv, AccountsDiffer, HandlesAreAccounts

\* The first of a handle that is found is some account's, if it is not empty.
LEMMA FoundIsNamed ==
  ASSUME IInv, NEW h \in Handles, IsFound(h), h # NoHandle
  PROVE  \E b \in 1 .. lastAccount : accountHandle[b] = h
<1>1. PICK v \in User : handle[v] = h
  BY FoundFacts
<1>2. account[v] # NoAccount
  BY <1>1 DEF IInv, UserInv, HandlesAreAccounts
<1>3. account[v] \in 1 .. lastAccount /\ accountHandle[account[v]] = h
  BY <1>1, <1>2 DEF IInv, TypeOK, UserInv, HandlesAreAccounts, Account, NoAccount
<1> QED  BY <1>3

\* A user's lists and the rows of the account change together.
LEMMA ListsFollow ==
  ASSUME IInv, NEW u \in User, account[u] \in Account, account[u] <= lastAccount,
         NEW f \in [Handles -> {0, 1}], NEW g \in [Handles -> {0, 1}],
         NEW r \in SUBSET Handles, NEW s \in SUBSET Handles,
         \A k \in r \cup s : \E b \in 1 .. lastAccount : accountHandle[b] = k /\ k # NoHandle,
         origin[u] = "whole" => f = Loaded(r) /\ g = Loaded(s),
         origin[u] = "short" => /\ \A k \in Handles : f[k] > 0 => k \in r
                                /\ \A k \in Handles : g[k] > 0 => k \in s,
         friendRows' = [friendRows EXCEPT ![account[u]] = r],
         ignoreRows' = [ignoreRows EXCEPT ![account[u]] = s],
         friends' = [friends EXCEPT ![u] = f],
         ignored' = [ignored EXCEPT ![u] = g],
         message' = NoMessage,
         UNCHANGED <<lastAccount, accountHandle, m_users, account, handle, origin>>
  PROVE  IInv'
<1> DEFINE a == account[u]
<1>1. \A v \in User : account[v] = a => v = u
  BY DEF IInv, UserInv, AccountsDiffer, Account, NoAccount
<1>2. TypeOK'
  <2>1. f \in [Handles -> Nat] /\ g \in [Handles -> Nat]
    OBVIOUS
  <2> QED  BY <2>1 DEF IInv, TypeOK
<1>3. UserInv'
  <2>1. \A v \in User : account[v] = NoAccount => v # u
    BY DEF Account, NoAccount
  <2>2. OfflineAreNew' /\ AccountsDiffer'
    BY DEF IInv, UserInv, OfflineAreNew, AccountsDiffer, Online
  <2>3. \A v \in User : v # u => friends'[v] = friends[v] /\ ignored'[v] = ignored[v]
    BY DEF IInv, TypeOK
  <2>4. HandlesAreAccounts'
    BY <2>1, <2>3 DEF IInv, UserInv, HandlesAreAccounts, NoLists
  <2> QED  BY <2>2, <2>4 DEF UserInv
<1>4. RowInv'
  <2>1. FreshAreEmpty' /\ AccountsNamed'
    BY DEF IInv, TypeOK, RowInv, FreshAreEmpty, AccountsNamed, Account
  <2>2. RowsNameAccounts'
    BY DEF IInv, TypeOK, RowInv, RowsNameAccounts
  <2> QED  BY <2>1, <2>2 DEF RowInv
<1>5. ListedOnce'
  BY DEF IInv, TypeOK, ListedOnce
<1>6. ListsAreRows'
  <2> SUFFICES ASSUME NEW v \in User, account[v] # NoAccount
               PROVE  /\ origin[v] = "whole" => /\ friends'[v] = Loaded(friendRows'[account[v]])
                                                /\ ignored'[v] = Loaded(ignoreRows'[account[v]])
                      /\ origin[v] = "short" => /\ Listed(friends', v) \subseteq friendRows'[account[v]]
                                                /\ Listed(ignored', v) \subseteq ignoreRows'[account[v]]
    <3> HIDE DEF Loaded
    <3> QED  BY DEF ListsAreRows, Listed
  <2>1. CASE v = u
    <3>1. /\ friends'[v] = f /\ ignored'[v] = g
          /\ friendRows'[account[v]] = r /\ ignoreRows'[account[v]] = s
      BY <2>1 DEF IInv, TypeOK
    <3> QED  BY <2>1, <3>1 DEF Listed
  <2>2. CASE v # u
    <3>1. account[v] # a /\ account[v] \in Account
      BY <1>1, <2>2 DEF IInv, TypeOK
    <3>2. /\ friends'[v] = friends[v] /\ friendRows'[account[v]] = friendRows[account[v]]
          /\ ignored'[v] = ignored[v] /\ ignoreRows'[account[v]] = ignoreRows[account[v]]
      BY <2>2, <3>1 DEF IInv, TypeOK
    <3> QED  BY <3>2 DEF IInv, ListsAreRows, Listed
  <2> QED  BY <2>1, <2>2
<1> QED  BY <1>2, <1>3, <1>4, <1>5, <1>6 DEF IInv

\* What ListsFollow asks of the list that a request leaves alone.
LEMMA ListedFacts ==
  ASSUME IInv, NEW u \in User, account[u] \in Account
  PROVE  /\ friends[u] \in [Handles -> {0, 1}] /\ ignored[u] \in [Handles -> {0, 1}]
         /\ friendRows[account[u]] \in SUBSET Handles
         /\ ignoreRows[account[u]] \in SUBSET Handles
         /\ \A k \in friendRows[account[u]] \cup ignoreRows[account[u]] :
              \E b \in 1 .. lastAccount : accountHandle[b] = k /\ k # NoHandle
         /\ origin[u] = "whole" => /\ friends[u] = Loaded(friendRows[account[u]])
                                   /\ ignored[u] = Loaded(ignoreRows[account[u]])
         /\ origin[u] = "short" =>
              /\ \A k \in Handles : friends[u][k] > 0 => k \in friendRows[account[u]]
              /\ \A k \in Handles : ignored[u][k] > 0 => k \in ignoreRows[account[u]]
<1>1. friends[u] \in [Handles -> {0, 1}] /\ ignored[u] \in [Handles -> {0, 1}]
  <2>1. friends[u] \in [Handles -> Nat] /\ ignored[u] \in [Handles -> Nat]
    BY DEF IInv, TypeOK
  <2>2. \A h \in Handles : friends[u][h] \in {0, 1} /\ ignored[u][h] \in {0, 1}
    BY DEF IInv, ListedOnce
  <2> QED  BY <2>1, <2>2
<1>2. friendRows[account[u]] \in SUBSET Handles /\ ignoreRows[account[u]] \in SUBSET Handles
  BY DEF IInv, TypeOK
<1>3. \A k \in friendRows[account[u]] \cup ignoreRows[account[u]] :
        \E b \in 1 .. lastAccount : accountHandle[b] = k /\ k # NoHandle
  BY DEF IInv, RowInv, RowsNameAccounts
<1>4. account[u] # NoAccount
  BY DEF Account, NoAccount
<1>5. /\ origin[u] = "whole" => /\ friends[u] = Loaded(friendRows[account[u]])
                                /\ ignored[u] = Loaded(ignoreRows[account[u]])
      /\ origin[u] = "short" => /\ Listed(friends, u) \subseteq friendRows[account[u]]
                                /\ Listed(ignored, u) \subseteq ignoreRows[account[u]]
  BY <1>4 DEF IInv, ListsAreRows
<1> QED  BY <1>1, <1>2, <1>3, <1>5 DEF Listed

\* A list with one handle more, or one less.
LEMMA PushedFacts ==
  ASSUME NEW f \in [Handles -> {0, 1}], NEW h \in Handles, ~(f[h] > 0), NEW r \in SUBSET Handles
  PROVE  LET more == [f EXCEPT ![h] = @ + 1]
         IN /\ more \in [Handles -> {0, 1}]
            /\ f = Loaded(r) => more = Loaded(r \cup {h})
            /\ (\A k \in Handles : f[k] > 0 => k \in r)
                 => \A k \in Handles : more[k] > 0 => k \in r \cup {h}
<1> DEFINE more == [f EXCEPT ![h] = @ + 1]
<1>1. f[h] = 0
  OBVIOUS
<1>2. more \in [Handles -> {0, 1}] /\ \A k \in Handles : k # h => more[k] = f[k]
  BY <1>1
<1>3. f = Loaded(r) => more = Loaded(r \cup {h})
  BY PushFollows
<1>4. more[h] = 1
  BY <1>1
<1> HIDE DEF more
<1>5. (\A k \in Handles : f[k] > 0 => k \in r) => \A k \in Handles : more[k] > 0 => k \in r \cup {h}
  BY <1>2, <1>4
<1> USE DEF more
<1> QED  BY <1>2, <1>3, <1>5

LEMMA ErasedFacts ==
  ASSUME NEW f \in [Handles -> {0, 1}], NEW h \in Handles, f[h] > 0, NEW r \in SUBSET Handles
  PROVE  LET less == [f EXCEPT ![h] = @ - 1]
         IN /\ less \in [Handles -> {0, 1}]
            /\ f = Loaded(r) => less = Loaded(r \ {h})
            /\ (\A k \in Handles : f[k] > 0 => k \in r)
                 => \A k \in Handles : less[k] > 0 => k \in r \ {h}
<1> DEFINE less == [f EXCEPT ![h] = @ - 1]
<1>1. f[h] = 1
  OBVIOUS
<1>2. less \in [Handles -> {0, 1}] /\ \A k \in Handles : k # h => less[k] = f[k]
  BY <1>1
<1>3. f = Loaded(r) => less = Loaded(r \ {h})
  BY EraseFollows
<1>4. less[h] = 0
  BY <1>1
<1> HIDE DEF less
<1>5. (\A k \in Handles : f[k] > 0 => k \in r) => \A k \in Handles : less[k] > 0 => k \in r \ {h}
  BY <1>2, <1>4
<1> USE DEF less
<1> QED  BY <1>2, <1>3, <1>5

LEMMA AddFriendKeeps ==
  ASSUME IInv, NEW u \in User, NEW h \in Handles, AddFriend(u, h)
  PROVE  IInv'
<1> DEFINE a == account[u]
           more == [friends[u] EXCEPT ![h] = @ + 1]
           r == friendRows[a] \cup {h}
<1>1. Accepts(a, h) /\ IsFound(h) /\ ~(friends[u][h] > 0)
  BY DEF AddFriend, IsFriend
<1>2. a \in Account /\ h # NoHandle /\ a <= lastAccount
  BY <1>1, AcceptedFacts
<1>3. \E b \in 1 .. lastAccount : accountHandle[b] = h
  BY <1>1, <1>2, FoundIsNamed
<1>4. /\ friendRows' = [friendRows EXCEPT ![a] = r]
      /\ ignoreRows' = [ignoreRows EXCEPT ![a] = ignoreRows[a]]
      /\ friends' = [friends EXCEPT ![u] = more]
      /\ ignored' = [ignored EXCEPT ![u] = ignored[u]]
  <2>1. /\ friendRows' = Put(friendRows, a, h) /\ friends' = Push(friends, u, h)
        /\ ignoreRows' = ignoreRows /\ ignored' = ignored
    BY DEF AddFriend
  <2>2. Put(friendRows, a, h) = [friendRows EXCEPT ![a] = r]
    BY <1>2 DEF Put, IInv, TypeOK
  <2>3. Push(friends, u, h) = [friends EXCEPT ![u] = more]
    BY DEF Push, IInv, TypeOK
  <2>4. ignoreRows = [ignoreRows EXCEPT ![a] = ignoreRows[a]]
    BY DEF IInv, TypeOK
  <2>5. ignored = [ignored EXCEPT ![u] = ignored[u]]
    BY DEF IInv, TypeOK
  <2> QED  BY <2>1, <2>2, <2>3, <2>4, <2>5
<1>5. message' = NoMessage /\ UNCHANGED <<lastAccount, accountHandle, m_users, account, handle, origin>>
  BY DEF AddFriend, who
<1>6. friends[u] \in [Handles -> {0, 1}] /\ friendRows[a] \in SUBSET Handles
  BY <1>2, ListedFacts
<1>7. /\ more \in [Handles -> {0, 1}] /\ r \in SUBSET Handles
      /\ friends[u] = Loaded(friendRows[a]) => more = Loaded(r)
      /\ (\A k \in Handles : friends[u][k] > 0 => k \in friendRows[a])
           => \A k \in Handles : more[k] > 0 => k \in r
  BY <1>1, <1>6, PushedFacts
<1>8. \A k \in r \cup ignoreRows[a] : \E b \in 1 .. lastAccount : accountHandle[b] = k /\ k # NoHandle
  BY <1>2, <1>3, ListedFacts
<1>9. /\ ignored[u] \in [Handles -> {0, 1}] /\ ignoreRows[a] \in SUBSET Handles
      /\ origin[u] = "whole" => /\ friends[u] = Loaded(friendRows[a])
                                /\ ignored[u] = Loaded(ignoreRows[a])
      /\ origin[u] = "short" => /\ \A k \in Handles : friends[u][k] > 0 => k \in friendRows[a]
                                /\ \A k \in Handles : ignored[u][k] > 0 => k \in ignoreRows[a]
  BY <1>2, ListedFacts
<1> HIDE DEF more, r
<1>10. /\ origin[u] = "whole" => more = Loaded(r) /\ ignored[u] = Loaded(ignoreRows[a])
      /\ origin[u] = "short" => /\ \A k \in Handles : more[k] > 0 => k \in r
                                /\ \A k \in Handles : ignored[u][k] > 0 => k \in ignoreRows[a]
  BY <1>7, <1>9
<1> QED  BY <1>2, <1>4, <1>5, <1>7, <1>8, <1>9, <1>10, ListsFollow

LEMMA RemoveFriendKeeps ==
  ASSUME IInv, NEW u \in User, NEW h \in Handles, RemoveFriend(u, h)
  PROVE  IInv'
<1> DEFINE a == account[u]
           less == [friends[u] EXCEPT ![h] = @ - 1]
           r == friendRows[a] \ {h}
<1>1. Accepts(a, h) /\ friends[u][h] > 0
  BY DEF RemoveFriend, IsFriend
<1>2. a \in Account /\ h # NoHandle /\ a <= lastAccount
  BY <1>1, AcceptedFacts
<1>3. /\ friendRows' = [friendRows EXCEPT ![a] = r]
      /\ ignoreRows' = [ignoreRows EXCEPT ![a] = ignoreRows[a]]
      /\ friends' = [friends EXCEPT ![u] = less]
      /\ ignored' = [ignored EXCEPT ![u] = ignored[u]]
  <2>1. /\ friendRows' = Take(friendRows, a, h) /\ friends' = Erase(friends, u, h)
        /\ ignoreRows' = ignoreRows /\ ignored' = ignored
    BY DEF RemoveFriend
  <2>2. Take(friendRows, a, h) = [friendRows EXCEPT ![a] = r]
    BY <1>2 DEF Take, IInv, TypeOK
  <2>3. Erase(friends, u, h) = [friends EXCEPT ![u] = less]
    BY DEF Erase, IInv, TypeOK
  <2>4. ignoreRows = [ignoreRows EXCEPT ![a] = ignoreRows[a]]
    BY DEF IInv, TypeOK
  <2>5. ignored = [ignored EXCEPT ![u] = ignored[u]]
    BY DEF IInv, TypeOK
  <2> QED  BY <2>1, <2>2, <2>3, <2>4, <2>5
<1>4. message' = NoMessage /\ UNCHANGED <<lastAccount, accountHandle, m_users, account, handle, origin>>
  BY DEF RemoveFriend, who
<1>5. friends[u] \in [Handles -> {0, 1}] /\ friendRows[a] \in SUBSET Handles
  BY <1>2, ListedFacts
<1>6. /\ less \in [Handles -> {0, 1}] /\ r \in SUBSET Handles
      /\ friends[u] = Loaded(friendRows[a]) => less = Loaded(r)
      /\ (\A k \in Handles : friends[u][k] > 0 => k \in friendRows[a])
           => \A k \in Handles : less[k] > 0 => k \in r
  BY <1>1, <1>5, ErasedFacts
<1>7. \A k \in r \cup ignoreRows[a] : \E b \in 1 .. lastAccount : accountHandle[b] = k /\ k # NoHandle
  BY <1>2, ListedFacts
<1>8. /\ ignored[u] \in [Handles -> {0, 1}] /\ ignoreRows[a] \in SUBSET Handles
      /\ origin[u] = "whole" => /\ friends[u] = Loaded(friendRows[a])
                                /\ ignored[u] = Loaded(ignoreRows[a])
      /\ origin[u] = "short" => /\ \A k \in Handles : friends[u][k] > 0 => k \in friendRows[a]
                                /\ \A k \in Handles : ignored[u][k] > 0 => k \in ignoreRows[a]
  BY <1>2, ListedFacts
<1> HIDE DEF less, r
<1>9. /\ origin[u] = "whole" => less = Loaded(r) /\ ignored[u] = Loaded(ignoreRows[a])
      /\ origin[u] = "short" => /\ \A k \in Handles : less[k] > 0 => k \in r
                                /\ \A k \in Handles : ignored[u][k] > 0 => k \in ignoreRows[a]
  BY <1>6, <1>8
<1> QED  BY <1>2, <1>3, <1>4, <1>6, <1>7, <1>8, <1>9, ListsFollow

LEMMA AddIgnoreKeeps ==
  ASSUME IInv, NEW u \in User, NEW h \in Handles, AddIgnore(u, h)
  PROVE  IInv'
<1> DEFINE a == account[u]
           more == [ignored[u] EXCEPT ![h] = @ + 1]
           r == ignoreRows[a] \cup {h}
<1>1. Accepts(a, h) /\ IsFound(h) /\ ~(ignored[u][h] > 0)
  BY DEF AddIgnore, IsIgnored
<1>2. a \in Account /\ h # NoHandle /\ a <= lastAccount
  BY <1>1, AcceptedFacts
<1>3. \E b \in 1 .. lastAccount : accountHandle[b] = h
  BY <1>1, <1>2, FoundIsNamed
<1>4. /\ ignoreRows' = [ignoreRows EXCEPT ![a] = r]
      /\ friendRows' = [friendRows EXCEPT ![a] = friendRows[a]]
      /\ ignored' = [ignored EXCEPT ![u] = more]
      /\ friends' = [friends EXCEPT ![u] = friends[u]]
  <2>1. /\ ignoreRows' = Put(ignoreRows, a, h) /\ ignored' = Push(ignored, u, h)
        /\ friendRows' = friendRows /\ friends' = friends
    BY DEF AddIgnore
  <2>2. Put(ignoreRows, a, h) = [ignoreRows EXCEPT ![a] = r]
    BY <1>2 DEF Put, IInv, TypeOK
  <2>3. Push(ignored, u, h) = [ignored EXCEPT ![u] = more]
    BY DEF Push, IInv, TypeOK
  <2>4. friendRows = [friendRows EXCEPT ![a] = friendRows[a]]
    BY DEF IInv, TypeOK
  <2>5. friends = [friends EXCEPT ![u] = friends[u]]
    BY DEF IInv, TypeOK
  <2> QED  BY <2>1, <2>2, <2>3, <2>4, <2>5
<1>5. message' = NoMessage /\ UNCHANGED <<lastAccount, accountHandle, m_users, account, handle, origin>>
  BY DEF AddIgnore, who
<1>6. ignored[u] \in [Handles -> {0, 1}] /\ ignoreRows[a] \in SUBSET Handles
  BY <1>2, ListedFacts
<1>7. /\ more \in [Handles -> {0, 1}] /\ r \in SUBSET Handles
      /\ ignored[u] = Loaded(ignoreRows[a]) => more = Loaded(r)
      /\ (\A k \in Handles : ignored[u][k] > 0 => k \in ignoreRows[a])
           => \A k \in Handles : more[k] > 0 => k \in r
  BY <1>1, <1>6, PushedFacts
<1>8. \A k \in r \cup friendRows[a] : \E b \in 1 .. lastAccount : accountHandle[b] = k /\ k # NoHandle
  BY <1>2, <1>3, ListedFacts
<1>9. /\ friends[u] \in [Handles -> {0, 1}] /\ friendRows[a] \in SUBSET Handles
      /\ origin[u] = "whole" => /\ ignored[u] = Loaded(ignoreRows[a])
                                /\ friends[u] = Loaded(friendRows[a])
      /\ origin[u] = "short" => /\ \A k \in Handles : ignored[u][k] > 0 => k \in ignoreRows[a]
                                /\ \A k \in Handles : friends[u][k] > 0 => k \in friendRows[a]
  BY <1>2, ListedFacts
<1> HIDE DEF more, r
<1>10. /\ origin[u] = "whole" => more = Loaded(r) /\ friends[u] = Loaded(friendRows[a])
      /\ origin[u] = "short" => /\ \A k \in Handles : more[k] > 0 => k \in r
                                /\ \A k \in Handles : friends[u][k] > 0 => k \in friendRows[a]
  BY <1>7, <1>9
<1> QED  BY <1>2, <1>4, <1>5, <1>7, <1>8, <1>9, <1>10, ListsFollow

LEMMA RemoveIgnoreKeeps ==
  ASSUME IInv, NEW u \in User, NEW h \in Handles, RemoveIgnore(u, h)
  PROVE  IInv'
<1> DEFINE a == account[u]
           less == [ignored[u] EXCEPT ![h] = @ - 1]
           r == ignoreRows[a] \ {h}
<1>1. Accepts(a, h) /\ ignored[u][h] > 0
  BY DEF RemoveIgnore, IsIgnored
<1>2. a \in Account /\ h # NoHandle /\ a <= lastAccount
  BY <1>1, AcceptedFacts
<1>3. /\ ignoreRows' = [ignoreRows EXCEPT ![a] = r]
      /\ friendRows' = [friendRows EXCEPT ![a] = friendRows[a]]
      /\ ignored' = [ignored EXCEPT ![u] = less]
      /\ friends' = [friends EXCEPT ![u] = friends[u]]
  <2>1. /\ ignoreRows' = Take(ignoreRows, a, h) /\ ignored' = Erase(ignored, u, h)
        /\ friendRows' = friendRows /\ friends' = friends
    BY DEF RemoveIgnore
  <2>2. Take(ignoreRows, a, h) = [ignoreRows EXCEPT ![a] = r]
    BY <1>2 DEF Take, IInv, TypeOK
  <2>3. Erase(ignored, u, h) = [ignored EXCEPT ![u] = less]
    BY DEF Erase, IInv, TypeOK
  <2>4. friendRows = [friendRows EXCEPT ![a] = friendRows[a]]
    BY DEF IInv, TypeOK
  <2>5. friends = [friends EXCEPT ![u] = friends[u]]
    BY DEF IInv, TypeOK
  <2> QED  BY <2>1, <2>2, <2>3, <2>4, <2>5
<1>4. message' = NoMessage /\ UNCHANGED <<lastAccount, accountHandle, m_users, account, handle, origin>>
  BY DEF RemoveIgnore, who
<1>5. ignored[u] \in [Handles -> {0, 1}] /\ ignoreRows[a] \in SUBSET Handles
  BY <1>2, ListedFacts
<1>6. /\ less \in [Handles -> {0, 1}] /\ r \in SUBSET Handles
      /\ ignored[u] = Loaded(ignoreRows[a]) => less = Loaded(r)
      /\ (\A k \in Handles : ignored[u][k] > 0 => k \in ignoreRows[a])
           => \A k \in Handles : less[k] > 0 => k \in r
  BY <1>1, <1>5, ErasedFacts
<1>7. \A k \in r \cup friendRows[a] : \E b \in 1 .. lastAccount : accountHandle[b] = k /\ k # NoHandle
  BY <1>2, ListedFacts
<1>8. /\ friends[u] \in [Handles -> {0, 1}] /\ friendRows[a] \in SUBSET Handles
      /\ origin[u] = "whole" => /\ ignored[u] = Loaded(ignoreRows[a])
                                /\ friends[u] = Loaded(friendRows[a])
      /\ origin[u] = "short" => /\ \A k \in Handles : ignored[u][k] > 0 => k \in ignoreRows[a]
                                /\ \A k \in Handles : friends[u][k] > 0 => k \in friendRows[a]
  BY <1>2, ListedFacts
<1> HIDE DEF less, r
<1>9. /\ origin[u] = "whole" => less = Loaded(r) /\ friends[u] = Loaded(friendRows[a])
      /\ origin[u] = "short" => /\ \A k \in Handles : less[k] > 0 => k \in r
                                /\ \A k \in Handles : friends[u][k] > 0 => k \in friendRows[a]
  BY <1>6, <1>8
<1> QED  BY <1>2, <1>3, <1>4, <1>6, <1>7, <1>8, <1>9, ListsFollow

LEMMA SendKeeps ==
  ASSUME IInv, NEW u \in User, NEW h \in Handles, SendInstantMessage(u, h)
  PROVE  IInv'
<1>1. /\ message' = <<u, FindUserByChatHandle(h)>> /\ IsFound(h)
      /\ UNCHANGED <<rows, m_users, who, lists>>
  BY DEF SendInstantMessage
<1>2. FindUserByChatHandle(h) \in User
  BY <1>1, FoundFacts
<1>3. TypeOK'
  BY <1>1, <1>2 DEF IInv, TypeOK, rows, who, lists
<1> QED  BY <1>1, <1>3 DEF IInv, UserInv, OfflineAreNew, AccountsDiffer, HandlesAreAccounts,
         NoLists, Online, RowInv, FreshAreEmpty, AccountsNamed, RowsNameAccounts,
         ListedOnce, ListsAreRows, Listed, rows, who, lists

LEMMA StutterKeeps == IInv /\ UNCHANGED vars => IInv'
  BY DEF IInv, TypeOK, UserInv, OfflineAreNew, AccountsDiffer, HandlesAreAccounts,
     NoLists, Online, RowInv, FreshAreEmpty, AccountsNamed, RowsNameAccounts,
     ListedOnce, ListsAreRows, Listed, vars, rows, who, lists

LEMMA StepKeeps == IInv /\ [Next]_vars => IInv'
<1> SUFFICES ASSUME IInv, [Next]_vars PROVE IInv'
  OBVIOUS
<1>1. CASE Restart
  BY <1>1, RestartKeeps
<1>2. ASSUME NEW i \in DOMAIN m_users, Disconnect(i) PROVE IInv'
  BY <1>2, DisconnectKeeps
<1>3. ASSUME NEW u \in User, Connect(u) PROVE IInv'
  BY <1>3, ConnectKeeps
<1>4. ASSUME NEW u \in User, NEW a \in Account, Login(u, a) PROVE IInv'
  BY <1>4, LoginKeeps
<1>5. ASSUME NEW u \in User, NEW h \in Handle, CreateAccount(u, h) PROVE IInv'
  BY <1>5, CreateAccountKeeps
<1>6. ASSUME NEW u \in User, NEW h \in Handles,
             \/ AddFriend(u, h) \/ RemoveFriend(u, h)
             \/ AddIgnore(u, h) \/ RemoveIgnore(u, h)
      PROVE  IInv'
  BY <1>6, AddFriendKeeps, RemoveFriendKeeps, AddIgnoreKeeps, RemoveIgnoreKeeps
<1>7. ASSUME NEW u \in User, NEW h \in Handles, SendInstantMessage(u, h) PROVE IInv'
  BY <1>7, SendKeeps
<1>8. CASE UNCHANGED vars
  BY <1>8, StutterKeeps
<1> QED  BY <1>1, <1>2, <1>3, <1>4, <1>5, <1>6, <1>7, <1>8 DEF Next

LEMMA Inductive == Spec => []IInv
  BY InitHolds, StepKeeps, PTL DEF Spec

-----------------------------------------------------------------------------
(* Theorems.                                                               *)

(* The state stays within its types.                                        *)
THEOREM TypeCorrect == Spec => []TypeOK
<1>1. IInv => TypeOK
  BY DEF IInv
<1> QED  BY <1>1, Inductive, PTL

(* What a user sees is what is stored, for any number of users, accounts    *)
(* and handles.                                                             *)
THEOREM ListsStayRows == Spec => []ListsAreRows
<1>1. IInv => ListsAreRows
  BY DEF IInv
<1> QED  BY <1>1, Inductive, PTL

(* Every handle stored in a list belongs to an account.                     *)
THEOREM RowsStayNamed == Spec => []RowsNameAccounts
<1>1. IInv => RowsNameAccounts
  BY DEF IInv, RowInv
<1> QED  BY <1>1, Inductive, PTL

(* No two users are in one account, which the log-in alone looks after: the *)
(* lists could not follow the rows otherwise.                               *)
THEOREM OneUserPerAccount == Spec => []AccountsDiffer
<1>1. IInv => AccountsDiffer
  BY DEF IInv, UserInv
<1> QED  BY <1>1, Inductive, PTL

(* No instant message reaches a user from a handle the account has ignored. *)
THEOREM IgnoredStaySilent == Spec => IgnoredAreSilent
<1> DEFINE Silent ==
      \A u, v \in User :
        message' = <<u, v>> /\ account[v] # NoAccount /\ origin[v] = "whole"
          => handle[u] \notin ignoreRows[account[v]]
<1>1. IInv /\ [Next]_vars => [Silent]_vars
  <2> SUFFICES ASSUME IInv, Next, NEW u \in User, NEW v \in User,
                      message' = <<u, v>>, account[v] # NoAccount, origin[v] = "whole"
               PROVE  handle[u] \notin ignoreRows[account[v]]
    OBVIOUS
  <2>1. message' # NoMessage
    BY DEF NoMessage
  <2>2. PICK w \in User, h \in Handles : SendInstantMessage(w, h)
    BY <2>1 DEF Next, Restart, Disconnect, Connect, Login, CreateAccount,
       AddFriend, RemoveFriend, AddIgnore, RemoveIgnore
  <2>3. w = u /\ FindUserByChatHandle(h) = v /\ ~IsIgnored(v, handle[u])
    BY <2>2 DEF SendInstantMessage
  <2>4. ignored[v] = Loaded(ignoreRows[account[v]])
    BY DEF IInv, ListsAreRows
  <2>5. handle[u] \in Handles /\ account[v] \in Account
    BY DEF IInv, TypeOK
  <2>6. ignoreRows[account[v]] \in SUBSET Handles
    BY <2>5 DEF IInv, TypeOK
  <2> QED  BY <2>3, <2>4, <2>5, <2>6, LoadedFacts DEF IsIgnored
<1> QED  BY <1>1, Inductive, PTL DEF Spec, IgnoredAreSilent

(* Rows change in requests alone, and the list of who asked follows.        *)
THEOREM RowsFollow == Spec => RowsFollowRequests
<1> DEFINE Follows ==
      \A a \in Account, h \in Handles :
       /\ (h \in friendRows[a]) # (h \in friendRows'[a]) =>
            \E u \in Online : account[u] = a /\ (IsFriend(u, h)') = (h \in friendRows'[a])
       /\ (h \in ignoreRows[a]) # (h \in ignoreRows'[a]) =>
            \E u \in Online : account[u] = a /\ (IsIgnored(u, h)') = (h \in ignoreRows'[a])
<1>1. IInv /\ [Next]_vars => [Follows]_vars
  <2> SUFFICES ASSUME IInv, Next, NEW a \in Account, NEW h \in Handles
               PROVE
       /\ (h \in friendRows[a]) # (h \in friendRows'[a]) =>
            \E u \in Online : account[u] = a /\ (friends'[u][h] > 0) = (h \in friendRows'[a])
       /\ (h \in ignoreRows[a]) # (h \in ignoreRows'[a]) =>
            \E u \in Online : account[u] = a /\ (ignored'[u][h] > 0) = (h \in ignoreRows'[a])
    BY DEF IsFriend, IsIgnored
  <2>1. CASE UNCHANGED <<friendRows, ignoreRows>>
    BY <2>1
  <2>2. ASSUME NEW u \in User, NEW k \in Handles, AddFriend(u, k) \/ RemoveFriend(u, k)
        PROVE  /\ ignoreRows' = ignoreRows
               /\ (h \in friendRows[a]) # (h \in friendRows'[a]) =>
                     account[u] = a /\ u \in Online /\ (friends'[u][h] > 0) = (h \in friendRows'[a])
    <3>1. account[u] \in Account /\ friends[u] \in [Handles -> {0, 1}]
      BY <2>2, AcceptedFacts, ListedFacts DEF AddFriend, RemoveFriend
    <3>2. CASE AddFriend(u, k)
      BY <3>1, <3>2 DEF AddFriend, Put, Push, IsFriend, IInv, TypeOK
    <3>3. CASE RemoveFriend(u, k)
      <4>1. friends[u][k] = 1 /\ u \in Online
        BY <3>1, <3>3 DEF RemoveFriend, IsFriend
      <4>2. /\ friends' = [friends EXCEPT ![u] = [friends[u] EXCEPT ![k] = @ - 1]]
            /\ friendRows' = [friendRows EXCEPT ![account[u]] = @ \ {k}]
        BY <3>1, <3>3 DEF RemoveFriend, Take, Erase, IInv, TypeOK
      <4>3. friends'[u] = [friends[u] EXCEPT ![k] = @ - 1]
        BY <4>2 DEF IInv, TypeOK
      <4>4. friends'[u][k] = 0
        BY <3>1, <4>1, <4>3
      <4>5. h # k => (h \in friendRows'[a]) = (h \in friendRows[a])
        BY <3>1, <4>2 DEF IInv, TypeOK
      <4>6. a # account[u] => friendRows'[a] = friendRows[a]
        BY <4>2 DEF IInv, TypeOK
      <4>7. h \notin friendRows'[a] \/ h # k \/ a # account[u]
        BY <3>1, <4>2 DEF IInv, TypeOK
      <4>8. (h \in friendRows[a]) # (h \in friendRows'[a]) => a = account[u] /\ h = k /\ h \notin friendRows'[a]
        BY <4>5, <4>6, <4>7
      <4>9. ~(friends'[u][k] > 0)
        BY <4>4
      <4> QED  BY <3>3, <4>1, <4>8, <4>9 DEF RemoveFriend
    <3> QED  BY <2>2, <3>2, <3>3
  <2>3. ASSUME NEW u \in User, NEW k \in Handles, AddIgnore(u, k) \/ RemoveIgnore(u, k)
        PROVE  /\ friendRows' = friendRows
               /\ (h \in ignoreRows[a]) # (h \in ignoreRows'[a]) =>
                     account[u] = a /\ u \in Online /\ (ignored'[u][h] > 0) = (h \in ignoreRows'[a])
    <3>1. account[u] \in Account /\ ignored[u] \in [Handles -> {0, 1}]
      BY <2>3, AcceptedFacts, ListedFacts DEF AddIgnore, RemoveIgnore
    <3>2. CASE AddIgnore(u, k)
      BY <3>1, <3>2 DEF AddIgnore, Put, Push, IsIgnored, IInv, TypeOK
    <3>3. CASE RemoveIgnore(u, k)
      <4>1. ignored[u][k] = 1 /\ u \in Online
        BY <3>1, <3>3 DEF RemoveIgnore, IsIgnored
      <4>2. /\ ignored' = [ignored EXCEPT ![u] = [ignored[u] EXCEPT ![k] = @ - 1]]
            /\ ignoreRows' = [ignoreRows EXCEPT ![account[u]] = @ \ {k}]
        BY <3>1, <3>3 DEF RemoveIgnore, Take, Erase, IInv, TypeOK
      <4>3. ignored'[u] = [ignored[u] EXCEPT ![k] = @ - 1]
        BY <4>2 DEF IInv, TypeOK
      <4>4. ignored'[u][k] = 0
        BY <3>1, <4>1, <4>3
      <4>5. h # k => (h \in ignoreRows'[a]) = (h \in ignoreRows[a])
        BY <3>1, <4>2 DEF IInv, TypeOK
      <4>6. a # account[u] => ignoreRows'[a] = ignoreRows[a]
        BY <4>2 DEF IInv, TypeOK
      <4>7. h \notin ignoreRows'[a] \/ h # k \/ a # account[u]
        BY <3>1, <4>2 DEF IInv, TypeOK
      <4>8. (h \in ignoreRows[a]) # (h \in ignoreRows'[a]) => a = account[u] /\ h = k /\ h \notin ignoreRows'[a]
        BY <4>5, <4>6, <4>7
      <4>9. ~(ignored'[u][k] > 0)
        BY <4>4
      <4> QED  BY <3>3, <4>1, <4>8, <4>9 DEF RemoveIgnore
    <3> QED  BY <2>3, <3>2, <3>3
  <2>4. \/ UNCHANGED <<friendRows, ignoreRows>>
        \/ \E u \in User, k \in Handles : AddFriend(u, k) \/ RemoveFriend(u, k)
        \/ \E u \in User, k \in Handles : AddIgnore(u, k) \/ RemoveIgnore(u, k)
    BY DEF Next, Restart, Disconnect, Connect, Login, CreateAccount, SendInstantMessage, rows
  <2> QED  BY <2>1, <2>2, <2>3, <2>4
<1> QED  BY <1>1, Inductive, PTL DEF Spec, RowsFollowRequests
=============================================================================
