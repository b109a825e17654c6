---------------------------- MODULE SocketsProofs ----------------------------
(***************************************************************************)
(* Proofs about Sockets, for any number of connections, frames and         *)
(* notices.  First the two streams of a connection: what is queued is sent *)
(* once and in order, and frames are taken whole; then the users and their *)
(* connections.                                                            *)
(***************************************************************************)
EXTENDS Sockets, SequenceTheorems, TLAPS

-----------------------------------------------------------------------------
(* The streams: what is sent of the write buffer.                          *)

Writing == {"sending", "erase"}

\* The thread works on a socket from the read to the erase.
Places ==
  lobby.pc \in {"remove", "drop", "parse", "write"} \cup Writing => lobby.sock \in Socket

\* What was sent of the buffer of s and is still in it.
Flight(s) == IF lobby.sock = s THEN InFlight ELSE 0

\* The buffer ends with the unit that was queued last, with none missing.
WriteNumbered ==
  \A s \in Socket :
    /\ Len(write[s]) <= queued[s]
    /\ \A j \in 1 .. Len(write[s]) : write[s][j] = queued[s] - Len(write[s]) + j

\* Nothing is sent twice or left out, and what is sent is in its place.
SentNumbered ==
  \A s \in Socket : ~lost[s] =>
    /\ Len(sent[s]) + Len(write[s]) = queued[s] + Flight(s)
    /\ \A i \in 1 .. Len(sent[s]) : sent[s][i] \in {i, Torn}

OutputTyped ==
  /\ queued \in [Socket -> Nat]
  /\ write \in [Socket -> Seq(Nat)] /\ sent \in [Socket -> Seq(Nat)]

Lobby == [pc : LobbyPC, todo : SUBSET Socket, ready : SUBSET Socket,
          sock : Socket \cup {None}, size : Nat, total : Nat, moved : BOOLEAN]

LobbyTyped ==
  /\ lobby \in Lobby
  /\ lobby.total <= lobby.size
  /\ lobby.pc \in Writing => lobby.size <= Len(write[lobby.sock])

OutputInv ==
  /\ OutputTyped /\ LobbyTyped /\ Places
  /\ lost \in [Socket -> BOOLEAN]
  /\ WriteNumbered /\ SentNumbered

\* SubSeq from behind the n-th element.
LEMMA SubSeqTail ==
  ASSUME NEW S, NEW b \in Seq(S), NEW n \in Nat, n <= Len(b)
  PROVE  /\ SubSeq(b, n + 1, Len(b)) \in Seq(S)
         /\ Len(SubSeq(b, n + 1, Len(b))) = Len(b) - n
         /\ \A i \in 1 .. Len(b) - n : SubSeq(b, n + 1, Len(b))[i] = b[n + i]
<1> DEFINE c == Len(b)
           a == n + 1
           r == SubSeq(b, a, c)
<1>1. c \in Nat /\ \A i \in 1 .. c : b[i] \in S
  BY LenProperties, ElementOfSeq
<1>2. a \in Int /\ c - a + 1 = c - n /\ a >= 1 /\ a <= c + 1 /\ n <= c
  BY <1>1
<1> HIDE DEF a, c, r
<1>3. \A i \in a .. c : b[i] \in S
  BY <1>1, <1>2
<1>4. /\ r \in Seq(S) /\ Len(r) = (IF a <= c THEN c - a + 1 ELSE 0)
      /\ \A i \in 1 .. c - a + 1 : r[i] = b[a + i - 1]
  BY <1>1, <1>2, <1>3, SubSeqProperties DEF r
<1>5. (IF a <= c THEN c - a + 1 ELSE 0) = c - n
  BY <1>1, <1>2
<1>6. \A i \in 1 .. c - n : a + i - 1 = n + i
  BY DEF a
<1>7. /\ r \in Seq(S) /\ Len(r) = c - n
      /\ \A i \in 1 .. c - n : r[i] = b[n + i]
  BY <1>2, <1>4, <1>5, <1>6
<1> QED  BY <1>7 DEF r, a, c

-----------------------------------------------------------------------------
(* Output.                                                                 *)

LEMMA InitOutput == Init => OutputInv
<1> SUFFICES ASSUME Init PROVE OutputInv
  OBVIOUS
<1>1. <<>> \in Seq(Nat) /\ Len(<<>>) = 0
  BY EmptySeq
<1>2. \A s \in Socket : write[s] = <<>> /\ sent[s] = <<>> /\ queued[s] = 0 /\ Flight(s) = 0
  BY DEF Init, Flight, InFlight
<1>3. OutputTyped /\ lost \in [Socket -> BOOLEAN]
  BY <1>1 DEF Init, OutputTyped
<1>4. LobbyTyped /\ Places
  BY DEF Init, LobbyTyped, Lobby, Places, LobbyPC, Writing
<1> HIDE DEF Flight
<1>5. \A s \in Socket : Len(write[s]) = 0 /\ Len(sent[s]) = 0 /\ queued[s] = 0 /\ Flight(s) = 0
  BY <1>1, <1>2
<1>6. WriteNumbered
  BY <1>5 DEF WriteNumbered
<1>7. SentNumbered
  <2> SUFFICES ASSUME NEW s \in Socket
               PROVE  /\ Len(sent[s]) + Len(write[s]) = queued[s] + Flight(s)
                      /\ \A i \in 1 .. Len(sent[s]) : sent[s][i] \in {i, Torn}
    BY DEF SentNumbered
  <2>1. Len(write[s]) = 0 /\ Len(sent[s]) = 0 /\ queued[s] = 0 /\ Flight(s) = 0
    BY <1>5
  <2>2. Len(sent[s]) + Len(write[s]) = queued[s] + Flight(s)
    BY <2>1
  <2>3. 1 .. Len(sent[s]) = {}
    BY <2>1
  <2> QED  BY <2>2, <2>3
<1> QED  BY <1>3, <1>4, <1>6, <1>7 DEF OutputInv

\* A buffer that ends with unit q, and n more.
LEMMA UnitsFollow ==
  ASSUME NEW b \in Seq(Nat), NEW q \in Nat, NEW n \in Nat, Len(b) <= q,
         \A j \in 1 .. Len(b) : b[j] = q - Len(b) + j
  PROVE  LET more == b \o [i \in 1 .. n |-> q + i]
         IN /\ more \in Seq(Nat)
            /\ Len(more) = Len(b) + n
            /\ \A j \in 1 .. Len(b) + n : more[j] = q - Len(b) + j
<1> DEFINE units == [i \in 1 .. n |-> q + i]
           more == b \o units
           size == Len(b)
<1>1. units \in Seq(Nat) /\ Len(units) = n /\ \A i \in 1 .. n : units[i] = q + i
  <2>1. units \in [1 .. n -> Nat]
    OBVIOUS
  <2>2. units \in Seq(Nat)
    BY <2>1
  <2>3. Len(units) = n
    BY <2>2, LenProperties
  <2> QED  BY <2>2, <2>3
<1>2. size \in Nat
  BY LenProperties
<1> HIDE DEF units
<1>3. /\ more \in Seq(Nat) /\ Len(more) = size + n
      /\ \A i \in 1 .. size + n : more[i] = IF i <= size THEN b[i] ELSE units[i - size]
  BY <1>1, ConcatProperties
<1>4. \A j \in 1 .. size : b[j] = q - size + j
  OBVIOUS
<1> HIDE DEF more, size
<1>5. ASSUME NEW j \in 1 .. size + n PROVE more[j] = q - size + j
  <2>1. CASE j <= size
    <3>1. j \in 1 .. size /\ more[j] = b[j]
      BY <1>2, <1>3, <2>1
    <3> QED  BY <3>1, <1>4
  <2>2. CASE j > size
    <3>1. j - size \in 1 .. n
      BY <1>2, <2>2
    <3>2. units[j - size] = q + (j - size)
      BY <3>1, <1>1
    <3> QED  BY <3>2, <1>2, <1>3, <2>2
  <2> QED  BY <1>2, <2>1, <2>2
<1> QED  BY <1>3, <1>5 DEF more, size, units

\* Units are queued, while the lobby thread stays where it is or goes to a place
\* where it writes nothing.
LEMMA QueueKeeps ==
  ASSUME OutputInv, NEW amount \in [Socket -> Nat], Queue(amount), UNCHANGED lost,
         lobby' \in Lobby, lobby'.sock = lobby.sock,
         lobby'.size = lobby.size, lobby'.total = lobby.total,
         \/ lobby'.pc = lobby.pc
         \/ lobby.pc = "remove" /\ lobby'.pc = "drop"
  PROVE  OutputInv'
<1>1. /\ write' = [s \in Socket |-> write[s] \o Units(s, amount[s])]
      /\ queued' = [s \in Socket |-> queued[s] + amount[s]] /\ UNCHANGED sent
  BY DEF Queue
<1>2. ASSUME NEW s \in Socket
      PROVE  /\ write[s] \in Seq(Nat) /\ queued[s] \in Nat /\ Len(write[s]) \in Nat
             /\ Len(write[s]) <= queued[s]
             /\ \A j \in 1 .. Len(write[s]) : write[s][j] = queued[s] - Len(write[s]) + j
  <2>1. write[s] \in Seq(Nat) /\ queued[s] \in Nat
    BY DEF OutputInv, OutputTyped
  <2> QED  BY <2>1, LenProperties DEF OutputInv, WriteNumbered
<1>3. ASSUME NEW s \in Socket
      PROVE  /\ write'[s] \in Seq(Nat) /\ Len(write'[s]) = Len(write[s]) + amount[s]
             /\ queued'[s] = queued[s] + amount[s]
             /\ \A j \in 1 .. Len(write'[s]) : write'[s][j] = queued'[s] - Len(write'[s]) + j
  <2> DEFINE b == write[s]
             q == queued[s]
             n == amount[s]
             more == b \o [i \in 1 .. n |-> q + i]
  <2>1. /\ b \in Seq(Nat) /\ q \in Nat /\ n \in Nat /\ Len(b) \in Nat /\ Len(b) <= q
        /\ \A j \in 1 .. Len(b) : b[j] = q - Len(b) + j
    BY <1>2
  <2>2. write'[s] = more /\ queued'[s] = q + n
    BY <1>1 DEF Units
  <2> HIDE DEF b, q, n
  <2>3. /\ more \in Seq(Nat) /\ Len(more) = Len(b) + n
        /\ \A j \in 1 .. Len(b) + n : more[j] = q - Len(b) + j
    BY <2>1, UnitsFollow
  <2> HIDE DEF more
  <2>4. (q + n) - (Len(b) + n) = q - Len(b)
    BY <2>1
  <2>5. write'[s] \in Seq(Nat) /\ Len(write'[s]) = Len(b) + n
    BY <2>2, <2>3
  <2>6. \A j \in 1 .. Len(write'[s]) : write'[s][j] = queued'[s] - Len(write'[s]) + j
    BY <2>2, <2>3, <2>4, <2>5
  <2> QED  BY <2>2, <2>5, <2>6 DEF b, q, n
<1>4. \A s \in Socket : amount[s] \in Nat
  OBVIOUS
<1>5. OutputTyped'
  <2>1. \A s \in Socket : queued'[s] \in Nat /\ write'[s] \in Seq(Nat)
    BY <1>2, <1>3, <1>4
  <2> QED  BY <1>1, <2>1 DEF OutputInv, OutputTyped
<1>6. lobby.size \in Nat /\ lobby.total \in Nat
  BY DEF OutputInv, LobbyTyped, Lobby
<1>7. LobbyTyped' /\ Places'
  <2>1. lobby.pc \in Writing => lobby.sock \in Socket /\ lobby.size <= Len(write[lobby.sock])
    BY DEF OutputInv, LobbyTyped, Places
  <2>2. lobby.pc \in Writing => lobby.size <= Len(write'[lobby.sock])
    <3> SUFFICES ASSUME lobby.pc \in Writing PROVE lobby.size <= Len(write'[lobby.sock])
      OBVIOUS
    <3> DEFINE s == lobby.sock
    <3>1. s \in Socket /\ lobby.size <= Len(write[s])
      BY <2>1
    <3> HIDE DEF s
    <3>2. Len(write'[s]) = Len(write[s]) + amount[s] /\ Len(write[s]) \in Nat /\ amount[s] \in Nat
      BY <3>1, <1>2, <1>3, <1>4
    <3>3. lobby.size <= Len(write'[s])
      BY <3>1, <3>2, <1>6
    <3> QED  BY <3>3 DEF s
  <2>3. lobby'.pc \in Writing => lobby.pc \in Writing
    BY DEF Writing
  <2>4. lobby.total <= lobby.size
    BY DEF OutputInv, LobbyTyped
  <2>5. Places'
    BY DEF OutputInv, Places
  <2> QED  BY <2>2, <2>3, <2>4, <2>5 DEF LobbyTyped
<1>8. WriteNumbered'
  <2> SUFFICES ASSUME NEW s \in Socket PROVE Len(write'[s]) <= queued'[s]
    BY <1>3 DEF WriteNumbered
  <2> DEFINE c == Len(write[s])
             q == queued[s]
             n == amount[s]
  <2>1. c \in Nat /\ q \in Nat /\ n \in Nat /\ c <= q
    BY <1>2, <1>4
  <2>2. Len(write'[s]) = c + n /\ queued'[s] = q + n
    BY <1>3
  <2> HIDE DEF c, q, n
  <2> QED  BY <2>1, <2>2
<1>9. SentNumbered'
  <2>1. \A t \in Socket : Flight(t)' = Flight(t) /\ Flight(t) \in Nat
    BY <1>6 DEF Flight, InFlight
  <2> SUFFICES ASSUME NEW t \in Socket, ~lost[t]
               PROVE  /\ Len(sent[t]) + Len(write'[t]) = queued'[t] + Flight(t)
                      /\ \A i \in 1 .. Len(sent[t]) : sent[t][i] \in {i, Torn}
    BY <2>1, <1>1 DEF SentNumbered
  <2>2. /\ Len(sent[t]) + Len(write[t]) = queued[t] + Flight(t)
        /\ \A i \in 1 .. Len(sent[t]) : sent[t][i] \in {i, Torn}
    BY DEF OutputInv, SentNumbered
  <2> DEFINE a == Len(sent[t])
             c == Len(write[t])
             q == queued[t]
             f == Flight(t)
             n == amount[t]
  <2>3. a \in Nat
    BY LenProperties DEF OutputInv, OutputTyped
  <2>4. c \in Nat /\ q \in Nat /\ f \in Nat /\ n \in Nat /\ a + c = q + f
    BY <1>2, <1>4, <2>1, <2>2
  <2>5. Len(write'[t]) = c + n /\ queued'[t] = q + n
    BY <1>3
  <2> HIDE DEF a, c, q, f, n
  <2>6. a + (c + n) = (q + n) + f
    BY <2>3, <2>4
  <2> QED  BY <2>2, <2>5, <2>6 DEF a, f
<1> QED  BY <1>5, <1>7, <1>8, <1>9 DEF OutputInv

LEMMA OnlyAmount == \A s \in Socket, n \in Nat : Only(s, n) \in [Socket -> Nat]
  BY DEF Only

\* What RemoveUser queues, with what s is told.
LEMMA RemovalQueues ==
  ASSUME NEW s, NEW n \in Nat, RemoveUser(s, n)
  PROVE  \E amount \in [Socket -> Nat] : Queue(amount)
<1>1. PICK friends \in SUBSET Friends(s) :
        Queue([t \in Socket |-> (IF t = s THEN n ELSE 0) + (IF t \in friends THEN 1 ELSE 0)])
  BY DEF RemoveUser
<1>2. [t \in Socket |-> (IF t = s THEN n ELSE 0) + (IF t \in friends THEN 1 ELSE 0)]
        \in [Socket -> Nat]
  OBVIOUS
<1> QED  BY <1>1, <1>2

\* The thread moves on, or a client goes: no buffer changes.
LEMMA PlaceKeeps ==
  ASSUME OutputInv, UNCHANGED output,
         lost' \in [Socket -> BOOLEAN], \A s \in Socket : lost[s] => lost'[s],
         LobbyTyped', Places',
         \A s \in Socket : ~lost'[s] => Flight(s)' = Flight(s)
  PROVE  OutputInv'
<1>1. UNCHANGED <<queued, write, sent>>
  BY DEF output
<1>2. OutputTyped' /\ WriteNumbered'
  BY <1>1 DEF OutputInv, OutputTyped, WriteNumbered
<1>3. SentNumbered'
  BY <1>1 DEF OutputInv, SentNumbered
<1> QED  BY <1>2, <1>3 DEF OutputInv

\* What was read of the buffer is sent, or something torn in its place.
LEMMA SendChunkKeeps ==
  ASSUME OutputInv, SendChunk
  PROVE  OutputInv'
<1> DEFINE s == lobby.sock
           most == Least(lobby.size - lobby.total, Chunk)
<1>1. /\ lobby.pc = "sending" /\ lobby.total < lobby.size
      /\ UNCHANGED <<write, queued, lost>>
  BY DEF SendChunk, At, client
<1>2. /\ s \in Socket /\ lobby.total \in Nat /\ lobby.size \in Nat
      /\ lobby.size <= Len(write[s]) /\ write[s] \in Seq(Nat) /\ sent[s] \in Seq(Nat)
      /\ queued[s] \in Nat
  BY <1>1 DEF OutputInv, OutputTyped, LobbyTyped, Lobby, Places, Writing
<1>3. most \in Nat /\ most <= lobby.size - lobby.total
  BY <1>1, <1>2, SocketsAssumption DEF Least
<1>4. PICK n \in 1 .. most :
        /\ \E units \in {SubSeq(write[s], lobby.total + 1, lobby.total + n)} \cup
                        (IF lobby.moved THEN {[i \in 1 .. n |-> Torn]} ELSE {}) :
             sent' = [sent EXCEPT ![s] = @ \o units]
        /\ lobby' = [lobby EXCEPT !.total = @ + n, !.moved = FALSE,
                       !.pc = IF n < most THEN "erase" ELSE "sending"]
  BY DEF SendChunk
<1>5. PICK units \in {SubSeq(write[s], lobby.total + 1, lobby.total + n)} \cup
                     {[i \in 1 .. n |-> Torn]} :
        sent' = [sent EXCEPT ![s] = @ \o units]
  BY <1>4
<1>6. /\ n \in Nat /\ n >= 1 /\ lobby.total + n <= lobby.size
      /\ lobby.total + n <= Len(write[s]) /\ Len(write[s]) \in Nat
  <2>1. n \in Nat /\ n >= 1 /\ n <= most
    BY <1>3, <1>4
  <2>2. Len(write[s]) \in Nat
    BY <1>2, LenProperties
  <2> DEFINE size  == lobby.size
             total == lobby.total
             held  == Len(write[s])
  <2>3. /\ n \in Nat /\ most \in Nat /\ size \in Nat /\ total \in Nat /\ held \in Nat
        /\ n >= 1 /\ n <= most /\ most <= size - total /\ size <= held
    BY <2>1, <2>2, <1>2, <1>3
  <2> HIDE DEF most, s, size, total, held
  <2>4. n >= 1 /\ total + n <= size /\ total + n <= held
    BY <2>3
  <2> QED  BY <2>3, <2>4 DEF size, total, held
<1> HIDE DEF most, s
<1>7. /\ units \in Seq(Nat) /\ Len(units) = n
      /\ \A i \in 1 .. n : units[i] \in {write[s][lobby.total + i], Torn}
  <2>1. CASE units = SubSeq(write[s], lobby.total + 1, lobby.total + n)
    <3> DEFINE a == lobby.total + 1
               b == lobby.total + n
    <3>1. a \in Int /\ b \in Int /\ a >= 1 /\ b <= Len(write[s]) /\ a <= b /\ b - a + 1 = n
      <4> DEFINE k == lobby.total
                 c == Len(write[s])
      <4>1. k \in Nat
        BY <1>2
      <4>2. n \in Nat /\ n >= 1 /\ k + n <= c /\ c \in Nat
        BY <1>6
      <4>3. a = k + 1 /\ b = k + n
        OBVIOUS
      <4> HIDE DEF a, b, k, c
      <4>4. a \in Int /\ b \in Int /\ a >= 1 /\ b <= c /\ a <= b /\ b - a + 1 = n
        BY <4>1, <4>2, <4>3
      <4> QED  BY <4>4 DEF c
    <3>2. \A i \in a .. b : write[s][i] \in Nat
      <4>1. \A i \in 1 .. Len(write[s]) : write[s][i] \in Nat
        BY <1>2, ElementOfSeq
      <4> QED  BY <4>1, <3>1, <1>6
    <3>3. units = SubSeq(write[s], a, b)
      BY <2>1
    <3> HIDE DEF a, b
    <3>4. /\ units \in Seq(Nat) /\ Len(units) = n
          /\ \A i \in 1 .. n : units[i] = write[s][a + i - 1]
      BY <3>1, <3>2, <3>3, SubSeqProperties
    <3>5. \A i \in 1 .. n : a + i - 1 = lobby.total + i
      BY <1>2, <1>6 DEF a
    <3> QED  BY <3>4, <3>5
  <2>2. CASE units = [i \in 1 .. n |-> Torn]
    <3>1. units \in Seq(Nat)
      BY <2>2, <1>6 DEF Torn
    <3>2. Len(units) = n
      BY <3>1, <2>2, <1>6, LenProperties
    <3> QED  BY <2>2, <3>1, <3>2
  <2> QED  BY <1>5, <2>1, <2>2
<1>8. /\ sent[s] \o units \in Seq(Nat)
      /\ Len(sent[s] \o units) = Len(sent[s]) + n
      /\ \A i \in 1 .. Len(sent[s]) + n :
           (sent[s] \o units)[i] = IF i <= Len(sent[s]) THEN sent[s][i]
                                                        ELSE units[i - Len(sent[s])]
  <2>1. sent[s] \in Seq(Nat) /\ units \in Seq(Nat)
    BY <1>2, <1>7
  <2>2. Len(units) = n
    BY <1>7
  <2>3. /\ sent[s] \o units \in Seq(Nat)
        /\ Len(sent[s] \o units) = Len(sent[s]) + Len(units)
        /\ \A i \in 1 .. Len(sent[s]) + Len(units) :
             (sent[s] \o units)[i] = IF i <= Len(sent[s]) THEN sent[s][i]
                                                          ELSE units[i - Len(sent[s])]
    BY <2>1, ConcatProperties
  <2> QED  BY <2>2, <2>3
<1>9. /\ sent'[s] = sent[s] \o units
      /\ \A t \in Socket \ {s} : sent'[t] = sent[t]
      /\ sent' \in [Socket -> Seq(Nat)]
  BY <1>2, <1>5, <1>8 DEF OutputInv, OutputTyped
<1>10. /\ lobby' \in Lobby
       /\ lobby'.pc \in Writing /\ lobby'.sock = s
       /\ lobby'.size = lobby.size /\ lobby'.total = lobby.total + n
  <2>1. PICK pc \in Writing :
          lobby' = [lobby EXCEPT !.total = @ + n, !.moved = FALSE, !.pc = pc]
    BY <1>4 DEF Writing
  <2>2. /\ lobby \in Lobby
        /\ pc \in LobbyPC /\ lobby.total + n \in Nat
    BY <1>2, <1>6 DEF OutputInv, LobbyTyped, Lobby, Writing, LobbyPC
  <2> QED  BY <2>1, <2>2 DEF s, Lobby
<1>11. OutputTyped' /\ LobbyTyped' /\ Places' /\ WriteNumbered'
  BY <1>1, <1>2, <1>6, <1>9, <1>10
  DEF OutputInv, OutputTyped, LobbyTyped, Places, WriteNumbered
<1>12. SentNumbered'
  <2> SUFFICES ASSUME NEW t \in Socket, ~lost[t]
               PROVE  /\ Len(sent'[t]) + Len(write[t]) = queued[t] + Flight(t)'
                      /\ \A i \in 1 .. Len(sent'[t]) : sent'[t][i] \in {i, Torn}
    BY <1>1 DEF SentNumbered
  <2>1. /\ Len(sent[t]) + Len(write[t]) = queued[t] + Flight(t)
        /\ \A i \in 1 .. Len(sent[t]) : sent[t][i] \in {i, Torn}
    BY DEF OutputInv, SentNumbered
  <2>2. CASE t # s
    <3>1. Flight(t)' = Flight(t)
      BY <2>2, <1>10 DEF Flight, s
    <3> QED  BY <2>1, <2>2, <3>1, <1>9
  <2>3. CASE t = s
    <3> DEFINE a == Len(sent[s])
               c == Len(write[s])
               q == queued[s]
               f == lobby.total
    <3>1. Flight(t) = f /\ Flight(t)' = f + n
      BY <2>3, <1>1, <1>10 DEF Flight, InFlight, Writing, s
    <3>2. a \in Nat /\ c \in Nat /\ q \in Nat /\ f \in Nat /\ a + c = q + f
      BY <2>1, <2>3, <3>1, <1>2, <1>6, LenProperties
    <3>3. Len(sent'[s]) = a + n
      BY <1>8, <1>9
    <3>4. /\ f + n <= c
          /\ \A j \in 1 .. c : write[s][j] = q - c + j
      BY <1>2, <1>6 DEF OutputInv, WriteNumbered
    <3>5. ASSUME NEW i \in 1 .. a + n PROVE sent'[s][i] \in {i, Torn}
      <4>1. CASE i <= a
        <5>1. i \in 1 .. a
          BY <3>2, <4>1
        <5>2. sent'[s][i] = sent[s][i]
          BY <4>1, <1>8, <1>9
        <5> QED  BY <5>1, <5>2, <2>1, <2>3
      <4>2. CASE ~(i <= a)
        <5>1. sent'[s][i] = units[i - a]
          BY <4>2, <1>8, <1>9
        <5> HIDE DEF a, c, q, f
        <5>2. i - a \in 1 .. n /\ f + (i - a) \in 1 .. c /\ q - c + (f + (i - a)) = i
          BY <3>2, <3>4, <4>2, <1>6
        <5>3. write[s][f + (i - a)] = i
          BY <5>2, <3>4
        <5>4. units[i - a] \in {write[s][f + (i - a)], Torn}
          BY <5>2, <1>7 DEF f
        <5> QED  BY <5>1, <5>3, <5>4
      <4> QED  BY <4>1, <4>2
    <3>6. (a + n) + c = q + (f + n)
      <4> HIDE DEF a, c, q, f
      <4> QED  BY <3>2, <1>6
    <3> QED  BY <2>3, <3>1, <3>3, <3>5, <3>6
  <2> QED  BY <2>2, <2>3
<1> QED  BY <1>1, <1>11, <1>12 DEF OutputInv

\* What was sent is taken off, and what came meanwhile stays.
LEMMA EraseKeeps ==
  ASSUME OutputInv, EraseSent
  PROVE  OutputInv'
<1> DEFINE s == lobby.sock
           k == lobby.total
           c == Len(write[s])
<1>1. /\ lobby.pc = "erase" /\ UNCHANGED <<sent, queued, lost>>
      /\ write' = [write EXCEPT ![s] = SubSeq(write[s], k + 1, c)]
      /\ lobby' = [lobby EXCEPT !.pc = "serve"]
  BY DEF EraseSent, At, Kept, client
<1>2. /\ s \in Socket /\ k \in Nat /\ lobby.size \in Nat /\ k <= lobby.size /\ lobby.size <= c
      /\ write[s] \in Seq(Nat)
  BY <1>1 DEF OutputInv, OutputTyped, LobbyTyped, Lobby, Places, Writing
<1>3. c \in Nat
  BY <1>2, LenProperties
<1>4. k <= c
  <2> HIDE DEF k, c, s
  <2> QED  BY <1>2, <1>3
<1>5. \A i \in 1 .. c : write[s][i] \in Nat
  BY <1>2, ElementOfSeq
<1>6. /\ c <= queued[s] /\ queued[s] \in Nat
      /\ \A j \in 1 .. c : write[s][j] = queued[s] - c + j
  <2>1. s \in Socket /\ queued[s] \in Nat
    BY <1>2 DEF OutputInv, OutputTyped
  <2> QED  BY <2>1 DEF OutputInv, WriteNumbered
<1>7. /\ lobby' \in Lobby
      /\ lobby'.pc = "serve" /\ lobby'.sock = lobby.sock
      /\ lobby'.size = lobby.size /\ lobby'.total = lobby.total
  BY <1>1 DEF OutputInv, LobbyTyped, Lobby, LobbyPC
<1>8. \A t \in Socket : Flight(t) = IF t = s THEN k ELSE 0
  BY <1>1 DEF Flight, InFlight, Writing
<1>9. \A t \in Socket : Flight(t)' = 0
  BY <1>7 DEF Flight, InFlight
<1>10. LobbyTyped' /\ Places'
  BY <1>7 DEF OutputInv, LobbyTyped, Places, Writing
<1> HIDE DEF k, c, s
<1> DEFINE kept == SubSeq(write[s], k + 1, c)
<1>11. /\ kept \in Seq(Nat) /\ Len(kept) = c - k
       /\ \A i \in 1 .. c - k : kept[i] = write[s][k + i]
  <2> DEFINE a == k + 1
  <2>1. a \in Int /\ c \in Int /\ a >= 1 /\ c - a + 1 = c - k
    BY <1>2, <1>3
  <2>2. \A i \in a .. c : write[s][i] \in Nat
    BY <2>1, <1>5
  <2>3. kept = SubSeq(write[s], a, c)
    OBVIOUS
  <2> HIDE DEF a, kept
  <2>4. /\ kept \in Seq(Nat) /\ Len(kept) = (IF a <= c THEN c - a + 1 ELSE 0)
        /\ \A i \in 1 .. c - a + 1 : kept[i] = write[s][a + i - 1]
    BY <2>1, <2>2, <2>3, SubSeqProperties
  <2>5. (IF a <= c THEN c - a + 1 ELSE 0) = c - k
    BY <2>1, <1>2, <1>3, <1>4 DEF a
  <2>6. \A i \in 1 .. c - k : a + i - 1 = k + i
    BY <1>2, <1>3 DEF a
  <2> QED  BY <2>1, <2>4, <2>5, <2>6
<1> HIDE DEF kept
<1>12. /\ write'[s] = kept /\ \A t \in Socket \ {s} : write'[t] = write[t]
       /\ write' \in [Socket -> Seq(Nat)]
  BY <1>1, <1>2, <1>11 DEF OutputInv, OutputTyped, kept
<1>13. WriteNumbered'
  <2>1. c - k <= queued[s]
    BY <1>2, <1>3, <1>6
  <2>2. ASSUME NEW j \in 1 .. c - k PROVE kept[j] = queued[s] - (c - k) + j
    <3>1. k + j \in 1 .. c /\ queued[s] - c + (k + j) = queued[s] - (c - k) + j
      BY <1>2, <1>3, <1>6
    <3> QED  BY <3>1, <1>6, <1>11
  <2> QED  BY <2>1, <2>2, <1>1, <1>11, <1>12 DEF OutputInv, WriteNumbered
<1>14. SentNumbered'
  <2> SUFFICES ASSUME NEW t \in Socket, ~lost[t]
               PROVE  /\ Len(sent[t]) + Len(write'[t]) = queued[t] + 0
                      /\ \A i \in 1 .. Len(sent[t]) : sent[t][i] \in {i, Torn}
    BY <1>1, <1>9 DEF SentNumbered
  <2>1. /\ Len(sent[t]) + Len(write[t]) = queued[t] + Flight(t)
        /\ \A i \in 1 .. Len(sent[t]) : sent[t][i] \in {i, Torn}
    BY DEF OutputInv, SentNumbered
  <2>2. CASE t # s
    BY <2>1, <2>2, <1>8, <1>12
  <2>3. CASE t = s
    <3>1. Len(sent[t]) + c = queued[t] + k
      BY <2>1, <2>3, <1>8 DEF c
    <3>2. Len(sent[t]) \in Nat /\ queued[t] \in Nat
      BY LenProperties DEF OutputInv, OutputTyped
    <3> DEFINE a == Len(sent[t])
               q == queued[t]
    <3> HIDE DEF a, q
    <3>3. a \in Nat /\ q \in Nat /\ a + c = q + k
      BY <3>1, <3>2 DEF a, q
    <3>4. a + (c - k) = q + 0
      BY <3>3, <1>2, <1>3
    <3> QED  BY <3>4, <2>1, <2>3, <1>11, <1>12 DEF a, q
  <2> QED  BY <2>2, <2>3
<1>15. OutputTyped'
  BY <1>1, <1>12 DEF OutputInv, OutputTyped
<1> QED  BY <1>1, <1>10, <1>13, <1>14, <1>15 DEF OutputInv

\* The thread moves on and sends nothing.
LEMMA MoveKeeps ==
  ASSUME OutputInv, UNCHANGED output, lobby.pc \notin Writing,
         lost' \in [Socket -> BOOLEAN], \A s \in Socket : lost[s] => lost'[s],
         LobbyTyped', Places', lobby'.pc \in Writing => lobby'.total = 0
  PROVE  OutputInv'
<1>1. \A s \in Socket : Flight(s) = 0 /\ Flight(s)' = 0
  BY DEF Flight, InFlight, Writing
<1> QED  BY <1>1, PlaceKeeps

LEMMA NextOutput == OutputInv /\ [Next]_vars => OutputInv'
<1> SUFFICES ASSUME OutputInv, [Next]_vars PROVE OutputInv'
  OBVIOUS
<1> USE DEF At
<1>1. /\ lobby \in Lobby /\ lobby.total <= lobby.size /\ lobby.total \in Nat
      /\ lobby.pc \in Writing => lobby.sock \in Socket /\ lobby.size <= Len(write[lobby.sock])
      /\ lobby.sock \in Socket \cup {None} /\ lobby.todo \subseteq Socket
      /\ lost \in [Socket -> BOOLEAN]
  BY DEF OutputInv, LobbyTyped, Lobby, Places
<1>2. ASSUME UNCHANGED <<output, lobby>>, lost' \in [Socket -> BOOLEAN],
             \A s \in Socket : lost[s] => lost'[s]
      PROVE  OutputInv'
  <2>1. LobbyTyped' /\ Places' /\ \A s \in Socket : Flight(s)' = Flight(s)
    BY <1>2 DEF OutputInv, LobbyTyped, Places, Flight, InFlight, output
  <2> QED  BY <1>2, <2>1, PlaceKeeps
<1>3. ASSUME NEW s \in Socket, AcceptConnection(s) \/ FindUser(s) \/ ClientQuiet(s)
                               \/ \E k \in Kinds : ClientSends(s, k)
      PROVE  OutputInv'
  BY <1>1, <1>2, <1>3 DEF AcceptConnection, FindUser, ClientQuiet, ClientSends, client, output
<1>4. ASSUME NEW s \in Socket, ClientCloses(s) PROVE OutputInv'
  <2>1. lost' = [lost EXCEPT ![s] = TRUE] /\ UNCHANGED <<output, lobby>>
    BY <1>4 DEF ClientCloses
  <2> QED  BY <2>1, <1>1, <1>2
<1>5. CASE DropUser \/ UNCHANGED vars
  BY <1>1, <1>2, <1>5 DEF DropUser, vars, client
<1>6. ASSUME NEW amount \in [Socket -> Nat], Queue(amount), UNCHANGED <<lobby, lost>>
      PROVE  OutputInv'
  BY <1>1, <1>6, QueueKeeps
<1>7. CASE Request \/ CommitSave \/ \E target \in Socket : BeginSave(target)
  <2>1. Queue(Only(lobby.sock, 1)) /\ lobby.sock \in Socket /\ UNCHANGED <<lobby, lost>>
    BY <1>7 DEF Request, CommitSave, BeginSave, Handle, client
  <2>2. Only(lobby.sock, 1) \in [Socket -> Nat]
    BY <2>1, OnlyAmount
  <2> QED  BY <1>6, <2>1, <2>2
<1>8. CASE Logout \/ MatchUnknown
  <2>1. /\ RemoveUser(lobby.sock, 1) \/ RemoveUser(lobby.sock, 2)
        /\ UNCHANGED <<lobby, lost>>
    BY <1>8 DEF Logout, MatchUnknown, Handle, client
  <2>2. \E amount \in [Socket -> Nat] : Queue(amount)
    BY <2>1, RemovalQueues
  <2> QED  BY <1>6, <2>1, <2>2
<1>17. CASE RemoveClosing
  <2>1. /\ RemoveUser(lobby.sock, 0) /\ lobby.pc = "remove"
        /\ lobby' = [lobby EXCEPT !.pc = "drop"] /\ UNCHANGED lost
    BY <1>17 DEF RemoveClosing, Closes, client
  <2>2. PICK amount \in [Socket -> Nat] : Queue(amount)
    BY <2>1, RemovalQueues
  <2>3. /\ lobby' \in Lobby /\ lobby'.pc = "drop" /\ lobby'.sock = lobby.sock
        /\ lobby'.size = lobby.size /\ lobby'.total = lobby.total
    BY <1>1, <2>1 DEF Lobby, LobbyPC
  <2> QED  BY <2>1, <2>2, <2>3, QueueKeeps
<1>9. ASSUME NEW s \in Socket, Notify(s) PROVE OutputInv'
  <2>1. Queue(Only(s, 1)) /\ UNCHANGED lost /\ Only(s, 1) \in [Socket -> Nat]
    BY <1>9, OnlyAmount DEF Notify, client
  <2>2. PICK grows \in BOOLEAN :
          lobby' = [lobby EXCEPT !.moved = @ \/ (grows /\ At("sending") /\ lobby.sock = s)]
    BY <1>9 DEF Notify
  <2>3. /\ lobby' \in Lobby /\ lobby'.pc = lobby.pc /\ lobby'.sock = lobby.sock
        /\ lobby'.size = lobby.size /\ lobby'.total = lobby.total
    BY <1>1, <2>2 DEF Lobby
  <2> QED  BY <2>1, <2>3, QueueKeeps
<1>10. ASSUME UNCHANGED <<output, lost>>, lobby.pc \notin Writing,
              NEW pc \in LobbyPC \ Writing,
              NEW todo \in SUBSET Socket, NEW ready \in SUBSET Socket,
              NEW sock \in Socket \cup {None},
              pc \in {"remove", "drop", "parse", "write"} => sock \in Socket,
              lobby' = [lobby EXCEPT !.pc = pc, !.todo = todo, !.ready = ready, !.sock = sock]
       PROVE  OutputInv'
  <2>1. /\ lobby' \in Lobby /\ lobby'.pc = pc /\ lobby'.sock = sock
        /\ lobby'.total = lobby.total /\ lobby'.size = lobby.size
    BY <1>1, <1>10 DEF Lobby, LobbyPC
  <2>2. LobbyTyped' /\ Places'
    BY <1>1, <1>10, <2>1 DEF LobbyTyped, Places, Writing
  <2> QED  BY <1>1, <1>10, <2>1, <2>2, MoveKeeps DEF Writing
<1>11. ASSUME NEW s \in Socket, CheckSocket(s) \/ SkipRead(s) \/ ReadSocket(s) \/ ReadFails(s)
       PROVE  OutputInv'
  <2>1. UNCHANGED <<output, lost>> /\ lobby.pc \in {"check", "serve"}
    BY <1>11 DEF CheckSocket, SkipRead, ReadSocket, ReadFails, client
  <2>2. \E pc \in {"check", "remove", "parse", "write"}, sock \in Socket \cup {None} :
          /\ pc \in {"remove", "parse", "write"} => sock \in Socket
          /\ lobby' = [lobby EXCEPT !.pc = pc, !.todo = @ \ {s}, !.sock = sock]
    <3>1. CASE CheckSocket(s) /\ MustClose(s)
      <4>1. lobby' = [lobby EXCEPT !.todo = @ \ {s}, !.pc = "remove", !.sock = s]
        BY <3>1 DEF CheckSocket
      <4> QED  BY <4>1
    <3>2. CASE CheckSocket(s) /\ ~MustClose(s)
      <4>1. lobby' = [lobby EXCEPT !.todo = @ \ {s}, !.pc = "check", !.sock = None]
        BY <3>2 DEF CheckSocket
      <4> QED  BY <4>1
    <3>3. CASE SkipRead(s) \/ ReadSocket(s) \/ ReadFails(s)
      BY <3>3 DEF SkipRead, ReadSocket, ReadFails
    <3> QED  BY <1>11, <3>1, <3>2, <3>3
  <2>3. PICK pc \in {"check", "remove", "parse", "write"}, sock \in Socket \cup {None} :
          /\ pc \in {"remove", "parse", "write"} => sock \in Socket
          /\ lobby' = [lobby EXCEPT !.pc = pc, !.todo = @ \ {s}, !.sock = sock]
    BY <2>2
  <2>4. /\ lobby' = [lobby EXCEPT !.pc = pc, !.todo = lobby.todo \ {s}, !.ready = lobby.ready,
                       !.sock = sock]
        /\ lobby.todo \ {s} \in SUBSET Socket /\ lobby.ready \in SUBSET Socket
    BY <1>1, <2>3 DEF Lobby
  <2>5. lobby.pc \notin Writing /\ pc \in LobbyPC \ Writing
    BY <2>1 DEF Writing, LobbyPC
  <2>6. /\ UNCHANGED <<output, lost>>
        /\ pc \in {"remove", "drop", "parse", "write"} => sock \in Socket
    BY <2>1, <2>3
  <2> HIDE DEF Writing
  <2> QED  BY <1>10, <2>4, <2>5, <2>6
<1>12. CASE Select \/ Serve \/ NextPass \/ DropSocket
  <2>1. UNCHANGED <<output, lost>> /\ lobby.pc \notin Writing
    BY <1>12 DEF Select, Serve, NextPass, DropSocket, client, Writing
  <2>2. \E pc \in {"check", "accept", "serve"}, sock \in Socket \cup {None},
           todo \in SUBSET Socket, ready \in SUBSET Socket :
          lobby' = [lobby EXCEPT !.pc = pc, !.todo = todo, !.ready = ready, !.sock = sock]
    <3> DEFINE Served == {s \in Socket : status[s] = "listed"}
    <3>1. CASE Select
      <4> DEFINE Ready == {s \in Socket : status[s] = "listed" /\ (wire[s] # <<>> \/ lost[s])}
      <4>1. lobby' = [lobby EXCEPT !.pc = "accept", !.ready = Ready]
        BY <3>1 DEF Select
      <4> HIDE DEF Ready
      <4>2. lobby' = [lobby EXCEPT !.pc = "accept", !.todo = lobby.todo, !.ready = Ready,
                        !.sock = lobby.sock]
        BY <1>1, <4>1 DEF Lobby
      <4>3. Ready \in SUBSET Socket
        BY DEF Ready
      <4> QED  BY <1>1, <4>2, <4>3
    <3>2. CASE Serve
      <4>1. lobby' = [lobby EXCEPT !.pc = "serve", !.todo = Served]
        BY <3>2 DEF Serve
      <4>2. Served \in SUBSET Socket
        OBVIOUS
      <4> HIDE DEF Served
      <4>3. lobby' = [lobby EXCEPT !.pc = "serve", !.todo = Served, !.ready = lobby.ready,
                        !.sock = lobby.sock]
        BY <1>1, <4>1 DEF Lobby
      <4>4. lobby.ready \in SUBSET Socket
        BY <1>1 DEF Lobby
      <4> QED  BY <1>1, <4>2, <4>3, <4>4
    <3>3. CASE NextPass
      <4>1. lobby' = [lobby EXCEPT !.pc = "check", !.sock = None, !.ready = {}, !.todo = Served]
        BY <3>3 DEF NextPass
      <4>2. Served \in SUBSET Socket
        OBVIOUS
      <4> HIDE DEF Served
      <4>3. lobby' = [lobby EXCEPT !.pc = "check", !.todo = Served, !.ready = {}, !.sock = None]
        BY <1>1, <4>1 DEF Lobby
      <4> QED  BY <4>2, <4>3
    <3>4. CASE DropSocket
      <4>1. lobby' = [lobby EXCEPT !.pc = "check", !.sock = None]
        BY <3>4 DEF DropSocket
      <4>2. lobby' = [lobby EXCEPT !.pc = "check", !.todo = lobby.todo, !.ready = lobby.ready,
                        !.sock = None]
        BY <1>1, <4>1 DEF Lobby
      <4>3. lobby.todo \in SUBSET Socket /\ lobby.ready \in SUBSET Socket
        BY <1>1 DEF Lobby
      <4> QED  BY <4>2, <4>3
    <3> QED  BY <1>12, <3>1, <3>2, <3>3, <3>4
  <2>3. PICK pc \in {"check", "accept", "serve"}, sock \in Socket \cup {None},
           todo \in SUBSET Socket, ready \in SUBSET Socket :
          lobby' = [lobby EXCEPT !.pc = pc, !.todo = todo, !.ready = ready, !.sock = sock]
    BY <2>2
  <2>4. pc \in LobbyPC \ Writing /\ pc \notin {"remove", "drop", "parse", "write"}
    BY DEF LobbyPC, Writing
  <2> HIDE DEF At
  <2> QED  BY <1>10, <2>1, <2>3, <2>4
<1>13. CASE ParseEnds \/ ParseEmpty \/ SkipWrite
  <2>1. UNCHANGED <<output, lost>> /\ lobby.pc \in {"parse", "write"}
    BY <1>13 DEF ParseEnds, ParseEmpty, SkipWrite, client
  <2>2. PICK pc \in {"write", "serve"} : lobby' = [lobby EXCEPT !.pc = pc]
    BY <1>13 DEF ParseEnds, ParseEmpty, SkipWrite, StopParsing
  <2>3. /\ lobby' = [lobby EXCEPT !.pc = pc, !.todo = lobby.todo, !.ready = lobby.ready,
                       !.sock = lobby.sock]
        /\ lobby.todo \in SUBSET Socket /\ lobby.ready \in SUBSET Socket
    BY <1>1, <2>2 DEF Lobby
  <2>4. lobby.sock \in Socket
    BY <2>1 DEF OutputInv, Places
  <2>5. pc \in LobbyPC \ Writing /\ lobby.pc \notin Writing
    BY <2>1 DEF LobbyPC, Writing
  <2>6. lobby.sock \in Socket \cup {None} /\ UNCHANGED <<output, lost>>
    BY <2>1, <2>4
  <2> HIDE DEF At
  <2> QED  BY <1>10, <2>3, <2>4, <2>5, <2>6
<1>14. CASE WriteSocket
  <2>1. /\ UNCHANGED <<output, lost>> /\ lobby.pc = "write" /\ lobby.sock \in Socket
        /\ lobby' = [lobby EXCEPT !.pc = "sending", !.total = 0,
                       !.size = Len(write[lobby.sock]), !.moved = FALSE]
    BY <1>14 DEF WriteSocket, client
  <2>2. Len(write[lobby.sock]) \in Nat
    BY <2>1, LenProperties DEF OutputInv, OutputTyped
  <2>3. lobby' \in Lobby /\ lobby'.pc = "sending" /\ lobby'.total = 0 /\ lobby'.sock = lobby.sock
        /\ lobby'.size = Len(write[lobby.sock])
    BY <1>1, <2>1, <2>2 DEF Lobby, LobbyPC
  <2>4. LobbyTyped' /\ Places'
    BY <2>1, <2>2, <2>3 DEF LobbyTyped, Places, output
  <2> QED  BY <1>1, <2>1, <2>3, <2>4, MoveKeeps DEF Writing
<1>15. CASE SendStops \/ SendFails
  <2>1. /\ UNCHANGED <<output, lost>> /\ lobby.pc = "sending"
        /\ \/ lobby' = [lobby EXCEPT !.pc = "erase"]
           \/ lobby' = [lobby EXCEPT !.pc = "serve"] /\ lost[lobby.sock]
    BY <1>15 DEF SendStops, SendFails, client
  <2>2. /\ lobby' \in Lobby /\ lobby'.pc \in {"erase", "serve"} /\ lobby'.sock = lobby.sock
        /\ lobby'.total = lobby.total /\ lobby'.size = lobby.size
        /\ lobby'.pc = "serve" => lost[lobby.sock]
    BY <1>1, <2>1 DEF Lobby, LobbyPC
  <2>3. LobbyTyped' /\ Places'
    BY <1>1, <2>1, <2>2 DEF LobbyTyped, Places, Writing, output
  <2>4. \A s \in Socket : ~lost[s] => Flight(s)' = Flight(s)
    BY <2>1, <2>2 DEF Flight, InFlight
  <2> QED  BY <1>1, <2>1, <2>3, <2>4, PlaceKeeps
<1>16. CASE SendChunk \/ EraseSent
  BY <1>16, SendChunkKeeps, EraseKeeps
<1> QED
  BY <1>3, <1>4, <1>5, <1>7, <1>8, <1>9, <1>11, <1>12, <1>13, <1>14, <1>15, <1>16, <1>17
  DEF Next, LobbyStep

-----------------------------------------------------------------------------
(* Input.                                                                  *)

\* Pieces that are a frame without a body.
Bare == {"empty", "bad"}
Long(piece) == piece \notin Bare \cup {"body"}

\* A body follows its length, and a length its body.
Framed(b) ==
  \A i \in 1 .. Len(b) :
    /\ b[i] = "body" => i > 1 /\ Long(b[i - 1])
    /\ Long(b[i]) => i < Len(b) /\ b[i + 1] = "body"

\* What was read of the frames, and what is still on its way.
Arriving(s) == read[s] \o wire[s]

InputInv ==
  /\ wire \in [Socket -> Seq(Pieces)] /\ read \in [Socket -> Seq(Pieces)]
  /\ \A s \in Socket : Framed(Arriving(s))

LEMMA FrameFacts ==
  ASSUME NEW k \in Kinds
  PROVE  /\ FrameOf(k) \in Seq(Pieces)
         /\ k # "body" /\ FrameOf(k)[1] = k
         /\ k \in Bare => Len(FrameOf(k)) = 1
         /\ k \notin Bare => Len(FrameOf(k)) = 2 /\ FrameOf(k)[2] = "body"
<1>1. k \in Pieces /\ "body" \in Pieces /\ k # "body"
  BY SocketsAssumption DEF Pieces
<1>2. <<k>> \in Seq(Pieces) /\ Len(<<k>>) = 1 /\ <<k>>[1] = k
  BY <1>1
<1>3. /\ <<k, "body">> \in Seq(Pieces) /\ Len(<<k, "body">>) = 2
      /\ <<k, "body">>[1] = k /\ <<k, "body">>[2] = "body"
  BY <1>1
<1> QED  BY <1>1, <1>2, <1>3 DEF FrameOf, Bare

LEMMA FramedAppend ==
  ASSUME NEW b \in Seq(Pieces), Framed(b), NEW k \in Kinds
  PROVE  b \o FrameOf(k) \in Seq(Pieces) /\ Framed(b \o FrameOf(k))
<1> DEFINE f == FrameOf(k)
           c == b \o f
           n == Len(b)
           m == Len(f)
<1>1. /\ f \in Seq(Pieces) /\ k # "body" /\ f[1] = k
      /\ k \in Bare => m = 1
      /\ k \notin Bare => m = 2 /\ f[2] = "body"
  BY FrameFacts
<1>2. n \in Nat
  BY LenProperties
<1>3. m \in 1 .. 2
  BY <1>1
<1> HIDE DEF f
<1>4. /\ c \in Seq(Pieces) /\ Len(c) = n + m
      /\ \A i \in 1 .. n + m : c[i] = IF i <= n THEN b[i] ELSE f[i - n]
  BY <1>1, ConcatProperties
<1>5. \A i \in 1 .. n :
        /\ b[i] = "body" => i > 1 /\ Long(b[i - 1])
        /\ Long(b[i]) => i < n /\ b[i + 1] = "body"
  BY DEF Framed
<1>6. c[n + 1] = k
  BY <1>1, <1>2, <1>3, <1>4
<1>7. k \notin Bare => c[n + 2] = "body"
  <2> SUFFICES ASSUME k \notin Bare PROVE c[n + 2] = "body"
    OBVIOUS
  <2>1. m = 2 /\ f[2] = "body"
    BY <1>1
  <2>2. n + 2 \in 1 .. n + m /\ ~(n + 2 <= n) /\ (n + 2) - n = 2
    BY <2>1, <1>2
  <2> QED  BY <2>1, <2>2, <1>4
<1> HIDE DEF c, n, m
<1>8. ASSUME NEW i \in 1 .. n + m
      PROVE  /\ c[i] = "body" => i > 1 /\ Long(c[i - 1])
             /\ Long(c[i]) => i < n + m /\ c[i + 1] = "body"
  <2>1. CASE i <= n
    <3>1. i \in 1 .. n /\ c[i] = b[i] /\ i < n + m
      BY <2>1, <1>2, <1>3, <1>4
    <3>2. i > 1 => c[i - 1] = b[i - 1]
      BY <2>1, <1>2, <1>3, <1>4
    <3>3. i < n => c[i + 1] = b[i + 1]
      BY <2>1, <1>2, <1>3, <1>4
    <3> QED  BY <3>1, <3>2, <3>3, <1>5
  <2>2. CASE i = n + 1
    <3>1. Long(c[i]) => m = 2
      BY <2>2, <1>1, <1>6 DEF Long
    <3> QED  BY <2>2, <3>1, <1>1, <1>2, <1>3, <1>6, <1>7 DEF Long
  <2>3. CASE i = n + 2
    <3>1. k \notin Bare /\ c[i] = "body"
      BY <2>3, <1>1, <1>2, <1>3, <1>7
    <3>2. i - 1 = n + 1 /\ i > 1
      BY <2>3, <1>2
    <3> QED  BY <3>1, <3>2, <1>1, <1>6 DEF Long
  <2>4. i <= n \/ i = n + 1 \/ i = n + 2
    BY <1>2, <1>3
  <2> QED  BY <2>1, <2>2, <2>3, <2>4
<1> QED  BY <1>4, <1>8 DEF Framed, c, f

\* Without its first frame, a stream begins with a frame.
LEMMA FramedRest ==
  ASSUME NEW b \in Seq(Pieces), Framed(b), NEW n \in 1 .. Len(b),
         b[1] # "bad", n = Len(FrameOf(b[1]))
  PROVE  Framed(SubSeq(b, n + 1, Len(b)))
<1> DEFINE r == SubSeq(b, n + 1, Len(b))
           c == Len(b)
<1>1. c \in Nat /\ n \in 1 .. c /\ \A i \in 1 .. c : b[i] \in Pieces
  BY LenProperties, ElementOfSeq
<1>2. \A i \in 1 .. c :
        /\ b[i] = "body" => i > 1 /\ Long(b[i - 1])
        /\ Long(b[i]) => i < c /\ b[i + 1] = "body"
  BY DEF Framed
<1>3. ~Long(b[n])
  <2>1. b[1] # "body" /\ 1 \in 1 .. c
    BY <1>1, <1>2
  <2>2. CASE b[1] = "empty"
    <3>1. n = 1
      BY <2>2 DEF FrameOf
    <3> QED  BY <2>2, <3>1 DEF Long, Bare
  <2>3. CASE b[1] # "empty"
    <3>1. n = 2
      BY <2>3 DEF FrameOf
    <3>2. Long(b[1])
      BY <2>1, <2>3 DEF Long, Bare
    <3>3. b[2] = "body"
      BY <2>1, <3>2, <1>2
    <3> QED  BY <3>1, <3>3 DEF Long
  <2> QED  BY <2>2, <2>3
<1>4. /\ Len(r) = c - n
      /\ \A i \in 1 .. c - n : r[i] = b[n + i]
  <2> DEFINE a == n + 1
  <2>1. a \in Int /\ c \in Int /\ c - a + 1 = c - n /\ a >= 1 /\ a = n + 1 /\ a <= c + 1
    BY <1>1
  <2>2. r = SubSeq(b, a, c)
    OBVIOUS
  <2> HIDE DEF a, r, c
  <2>3. \A i \in a .. c : b[i] \in Pieces
    BY <2>1, <1>1
  <2>4. /\ Len(r) = (IF a <= c THEN c - a + 1 ELSE 0)
        /\ \A i \in 1 .. c - a + 1 : r[i] = b[a + i - 1]
    BY <2>1, <2>2, <2>3, SubSeqProperties
  <2>5. (IF a <= c THEN c - a + 1 ELSE 0) = c - n
    <3>1. n \in Nat /\ c \in Nat
      BY <1>1
    <3>2. CASE a <= c
      BY <2>1, <3>2
    <3>3. CASE ~(a <= c)
      BY <2>1, <3>1, <3>3
    <3> QED  BY <3>2, <3>3
  <2>6. \A i \in 1 .. c - n : a + i - 1 = n + i
    BY <2>1, <1>1
  <2> QED  BY <2>1, <2>4, <2>5, <2>6
<1> HIDE DEF r, c
<1>5. ASSUME NEW i \in 1 .. c - n
      PROVE  /\ r[i] = "body" => i > 1 /\ Long(r[i - 1])
             /\ Long(r[i]) => i < c - n /\ r[i + 1] = "body"
  <2>1. n + i \in 1 .. c /\ r[i] = b[n + i]
    BY <1>1, <1>4
  <2>2. r[i] = "body" => Long(b[n + i - 1])
    <3> DEFINE j == n + i
    <3>1. j \in 1 .. c /\ r[i] = b[j] /\ n + i - 1 = j - 1
      BY <2>1, <1>1
    <3> HIDE DEF j
    <3>2. b[j] = "body" => Long(b[j - 1])
      BY <3>1, <1>2
    <3> QED  BY <3>1, <3>2
  <2>3. i = 1 => r[i] # "body"
    <3>1. i = 1 => n + i - 1 = n
      BY <1>1
    <3> QED  BY <2>2, <3>1, <1>3
  <2>4. i > 1 => i - 1 \in 1 .. c - n /\ n + i - 1 = n + (i - 1)
    BY <1>1
  <2>5. i > 1 => r[i - 1] = b[n + i - 1]
    <3> SUFFICES ASSUME i > 1 PROVE r[i - 1] = b[n + i - 1]
      OBVIOUS
    <3> DEFINE j == i - 1
    <3>1. j \in 1 .. c - n /\ n + i - 1 = n + j
      BY <2>4
    <3> HIDE DEF j
    <3>2. r[j] = b[n + j]
      BY <3>1, <1>4
    <3> QED  BY <3>1, <3>2 DEF j
  <2>6. Long(r[i]) => n + i < c /\ b[n + i + 1] = "body"
    BY <2>1, <1>2
  <2>7. n + i < c => i < c - n /\ i + 1 \in 1 .. c - n /\ n + i + 1 = n + (i + 1)
    BY <1>1
  <2>8. i \in Nat /\ i >= 1
    OBVIOUS
  <2> HIDE DEF Long
  <2>9. n + i < c => r[i + 1] = b[n + i + 1]
    <3> SUFFICES ASSUME n + i < c PROVE r[i + 1] = b[n + i + 1]
      OBVIOUS
    <3> DEFINE j == i + 1
    <3>1. j \in 1 .. c - n /\ n + i + 1 = n + j
      BY <2>7
    <3> HIDE DEF j
    <3>2. r[j] = b[n + j]
      BY <3>1, <1>4
    <3> QED  BY <3>1, <3>2 DEF j
  <2>10. r[i] = "body" => i > 1
    BY <2>3, <2>8
  <2> QED  BY <2>2, <2>10, <2>5, <2>6, <2>7, <2>9
<1> QED  BY <1>4, <1>5 DEF Framed, r, c

LEMMA InitInput == Init => InputInv
<1> SUFFICES ASSUME Init PROVE InputInv
  OBVIOUS
<1>1. <<>> \in Seq(Pieces) /\ <<>> \o <<>> = <<>> /\ Len(<<>>) = 0
  BY EmptySeq
<1>2. Framed(<<>>)
  BY <1>1 DEF Framed
<1> QED  BY <1>1, <1>2 DEF Init, InputInv, Arriving

\* What is behind the n-th element of r \o w, if r has n.
LEMMA TailOfConcat ==
  ASSUME NEW S, NEW r \in Seq(S), NEW w \in Seq(S), NEW n \in Nat, n <= Len(r)
  PROVE  SubSeq(r, n + 1, Len(r)) \o w = SubSeq(r \o w, n + 1, Len(r \o w))
<1> DEFINE x == Len(r)
           y == Len(w)
           b == r \o w
           z == Len(b)
           rest == SubSeq(r, n + 1, x)
           left == rest \o w
           right == SubSeq(b, n + 1, z)
<1>1. x \in Nat /\ y \in Nat /\ n <= x
  BY LenProperties
<1>2. /\ b \in Seq(S) /\ z = x + y
      /\ \A i \in 1 .. x + y : b[i] = IF i <= x THEN r[i] ELSE w[i - x]
  BY ConcatProperties
<1>3. /\ rest \in Seq(S) /\ Len(rest) = x - n
      /\ \A i \in 1 .. x - n : rest[i] = r[n + i]
  BY SubSeqTail
<1> HIDE DEF rest
<1>4. /\ left \in Seq(S) /\ Len(left) = Len(rest) + Len(w)
      /\ \A i \in 1 .. Len(rest) + Len(w) :
           left[i] = IF i <= Len(rest) THEN rest[i] ELSE w[i - Len(rest)]
  BY <1>3, ConcatProperties
<1>5. n <= z
  <2> HIDE DEF x, y, z
  <2> QED  BY <1>1, <1>2
<1> HIDE DEF b
<1>6. /\ right \in Seq(S) /\ Len(right) = z - n
      /\ \A i \in 1 .. z - n : right[i] = b[n + i]
  BY <1>2, <1>5, SubSeqTail
<1> HIDE DEF left, right, x, z
<1>7. /\ Len(left) = x - n + y
      /\ \A i \in 1 .. x - n + y : left[i] = IF i <= x - n THEN rest[i] ELSE w[i - (x - n)]
  <2>1. Len(rest) = x - n /\ Len(w) = y
    BY <1>3
  <2> HIDE DEF y
  <2> QED  BY <1>4, <2>1
<1> HIDE DEF y
<1>8. Len(left) = Len(right)
  BY <1>1, <1>2, <1>6, <1>7
<1>9. ASSUME NEW i \in 1 .. x - n + y PROVE left[i] = right[i]
  <2> DEFINE j == n + i
  <2>1. i \in 1 .. z - n /\ j \in 1 .. x + y /\ (i <= x - n <=> j <= x) /\ i - (x - n) = j - x
    BY <1>1, <1>2
  <2>2. i <= x - n => i \in 1 .. x - n
    BY <1>1
  <2>3. right[i] = b[j]
    BY <2>1, <1>6
  <2>4. i <= x - n => rest[i] = r[j]
    BY <2>2, <1>3
  <2> HIDE DEF j
  <2>5. b[j] = IF j <= x THEN r[j] ELSE w[j - x]
    BY <2>1, <1>2
  <2>6. left[i] = IF i <= x - n THEN rest[i] ELSE w[i - (x - n)]
    BY <1>7
  <2> QED  BY <2>1, <2>3, <2>4, <2>5, <2>6
<1>10. left = right
  <2>1. Len(left) = x - n + y
    BY <1>7
  <2>2. \A i \in 1 .. Len(left) : left[i] = right[i]
    BY <2>1, <1>9
  <2> QED  BY <2>2, <1>4, <1>6, <1>8, SeqEqual
<1> QED  BY <1>10 DEF left, right, rest, b, x, z

\* The first frame of the buffer is taken.
LEMMA PopKeeps ==
  ASSUME InputInv, NEW s \in Socket, HasFrame(read[s]), Pop(s), UNCHANGED wire
  PROVE  InputInv'
<1> DEFINE r == read[s]
           w == wire[s]
           n == Len(FrameOf(r[1]))
           b == r \o w
<1>1. r \in Seq(Pieces) /\ w \in Seq(Pieces) /\ Framed(b)
  BY DEF InputInv, Arriving
<1>2. r # <<>> /\ r[1] # "bad" /\ n <= Len(r)
  BY DEF HasFrame
<1>3. n \in {1, 2}
  <2>1. CASE r[1] \in {"empty", "bad"}
    BY <2>1 DEF FrameOf
  <2>2. CASE r[1] \notin {"empty", "bad"}
    BY <2>2 DEF FrameOf
  <2> QED  BY <2>1, <2>2
<1>4. read' = [read EXCEPT ![s] = SubSeq(r, n + 1, Len(r))]
  BY DEF Pop, Rest
<1>5. n = Len(FrameOf(b[1])) /\ b[1] # "bad"
  <2>1. Len(r) \in Nat /\ Len(w) \in Nat
    BY <1>1, LenProperties
  <2> HIDE DEF r, w
  <2>2. \A i \in 1 .. Len(r) + Len(w) : b[i] = IF i <= Len(r) THEN r[i] ELSE w[i - Len(r)]
    BY <1>1, ConcatProperties
  <2>3. 1 <= Len(r)
    <3> HIDE DEF n
    <3> QED  BY <1>2, <1>3, <2>1
  <2>4. 1 \in 1 .. Len(r) + Len(w)
    BY <2>1, <2>3
  <2>5. b[1] = r[1]
    BY <2>2, <2>3, <2>4
  <2> QED  BY <2>5, <1>2
<1> HIDE DEF n, r, w
<1> DEFINE rest == SubSeq(r, n + 1, Len(r))
<1>6. Len(r) \in Nat /\ Len(w) \in Nat
  BY <1>1, LenProperties
<1>7. /\ rest \in Seq(Pieces) /\ Len(rest) = Len(r) - n
      /\ \A i \in 1 .. Len(r) - n : rest[i] = r[n + i]
  BY <1>1, <1>2, <1>3, SubSeqTail
<1>8. /\ b \in Seq(Pieces) /\ Len(b) = Len(r) + Len(w)
      /\ \A i \in 1 .. Len(r) + Len(w) : b[i] = IF i <= Len(r) THEN r[i] ELSE w[i - Len(r)]
  BY <1>1, ConcatProperties
<1> HIDE DEF b, rest
<1>9. n \in 1 .. Len(b)
  BY <1>2, <1>3, <1>6, <1>8
<1>10. Framed(SubSeq(b, n + 1, Len(b)))
  BY <1>1, <1>5, <1>8, <1>9, FramedRest
<1>11. rest \o w = SubSeq(b, n + 1, Len(b))
  <2>1. n \in Nat /\ n <= Len(r) /\ r \in Seq(Pieces) /\ w \in Seq(Pieces)
    BY <1>1, <1>2, <1>3
  <2>2. SubSeq(r, n + 1, Len(r)) \o w = SubSeq(r \o w, n + 1, Len(r \o w))
    BY <2>1, TailOfConcat
  <2> QED  BY <2>2 DEF rest, b
<1>12. /\ read'[s] = rest /\ \A t \in Socket \ {s} : read'[t] = read[t]
       /\ read' \in [Socket -> Seq(Pieces)]
  BY <1>4, <1>7 DEF InputInv, rest
<1>13. Framed(Arriving(s))'
  BY <1>10, <1>11, <1>12 DEF Arriving, w
<1>14. \A t \in Socket \ {s} : Framed(Arriving(t))'
  BY <1>12 DEF InputInv, Arriving
<1> QED  BY <1>12, <1>13, <1>14 DEF InputInv

\* What has arrived moves to the buffer.
LEMMA ReadKeeps ==
  ASSUME InputInv, NEW s \in Socket, NEW n \in 1 .. Len(wire[s]),
         read' = [read EXCEPT ![s] = @ \o SubSeq(wire[s], 1, n)],
         wire' = [wire EXCEPT ![s] = SubSeq(@, n + 1, Len(@))]
  PROVE  InputInv'
<1> DEFINE w == wire[s]
           first == SubSeq(w, 1, n)
           last == SubSeq(w, n + 1, Len(w))
<1>1. w \in Seq(Pieces) /\ read[s] \in Seq(Pieces) /\ Len(w) \in Nat /\ n \in 1 .. Len(w)
  BY LenProperties DEF InputInv
<1>2. \A i \in 1 .. Len(w) : w[i] \in Pieces
  BY <1>1, ElementOfSeq
<1> HIDE DEF w
<1>3. /\ last \in Seq(Pieces) /\ Len(last) = Len(w) - n
      /\ \A i \in 1 .. Len(w) - n : last[i] = w[n + i]
  BY <1>1, SubSeqTail
<1>4. /\ first \in Seq(Pieces) /\ Len(first) = n
      /\ \A i \in 1 .. n : first[i] = w[i]
  <2>1. \A i \in 1 .. n : w[i] \in Pieces
    BY <1>1, <1>2
  <2>2. n \in Nat /\ 1 <= n
    BY <1>1
  <2> HIDE DEF first
  <2>3. /\ first \in Seq(Pieces) /\ Len(first) = (IF 1 <= n THEN n - 1 + 1 ELSE 0)
        /\ \A i \in 1 .. n - 1 + 1 : first[i] = w[1 + i - 1]
    BY <2>1, <2>2, SubSeqProperties DEF first
  <2>4. n - 1 + 1 = n /\ \A i \in 1 .. n : 1 + i - 1 = i
    BY <2>2
  <2> QED  BY <2>2, <2>3, <2>4
<1> HIDE DEF first, last
<1>5. first \o last = w
  <2>0. /\ first \o last \in Seq(Pieces) /\ Len(first \o last) = Len(first) + Len(last)
        /\ \A i \in 1 .. Len(first) + Len(last) :
             (first \o last)[i] = IF i <= Len(first) THEN first[i] ELSE last[i - Len(first)]
    BY <1>3, <1>4, ConcatProperties
  <2>1. /\ first \o last \in Seq(Pieces) /\ Len(first \o last) = n + (Len(w) - n)
        /\ \A i \in 1 .. n + (Len(w) - n) :
             (first \o last)[i] = IF i <= n THEN first[i] ELSE last[i - n]
    <3>1. Len(first) = n /\ Len(last) = Len(w) - n
      BY <1>3, <1>4
    <3> QED  BY <3>1, <2>0
  <2>2. n + (Len(w) - n) = Len(w)
    BY <1>1
  <2>3. ASSUME NEW i \in 1 .. Len(w) PROVE (first \o last)[i] = w[i]
    <3>1. CASE i <= n
      BY <3>1, <2>1, <2>2, <1>1, <1>4
    <3>2. CASE ~(i <= n)
      <4> DEFINE j == i - n
      <4>1. j \in 1 .. Len(w) - n /\ n + j = i
        BY <3>2, <1>1
      <4>2. (first \o last)[i] = last[j]
        BY <3>2, <2>1, <2>2
      <4> HIDE DEF j
      <4>3. last[j] = w[n + j]
        BY <4>1, <1>3
      <4> QED  BY <4>1, <4>2, <4>3
    <3> QED  BY <3>1, <3>2
  <2> QED  BY <2>1, <2>2, <2>3, <1>1, SeqEqual
<1>6. (read[s] \o first) \o last = read[s] \o w
  <2> DEFINE r == read[s]
  <2>0. r \in Seq(Pieces) /\ first \in Seq(Pieces) /\ last \in Seq(Pieces)
    BY <1>1, <1>3, <1>4
  <2> HIDE DEF r
  <2>1. (r \o first) \o last = r \o (first \o last)
    BY <2>0, ConcatAssociative
  <2> QED  BY <2>1, <1>5 DEF r
<1>7. read[s] \o first \in Seq(Pieces)
  BY <1>1, <1>4, ConcatProperties
<1>8. /\ read' = [read EXCEPT ![s] = read[s] \o first] /\ wire' = [wire EXCEPT ![s] = last]
  BY DEF w, first, last
<1>9. /\ read'[s] = read[s] \o first /\ wire'[s] = last
      /\ \A t \in Socket \ {s} : read'[t] = read[t] /\ wire'[t] = wire[t]
      /\ read' \in [Socket -> Seq(Pieces)] /\ wire' \in [Socket -> Seq(Pieces)]
  BY <1>3, <1>7, <1>8 DEF InputInv
<1>10. Framed(Arriving(s))'
  BY <1>6, <1>9 DEF InputInv, Arriving, w
<1>11. \A t \in Socket \ {s} : Framed(Arriving(t))'
  BY <1>9 DEF InputInv, Arriving
<1> QED  BY <1>9, <1>10, <1>11 DEF InputInv

LEMMA SendsKeeps ==
  ASSUME InputInv, NEW s \in Socket, NEW k \in Kinds, ClientSends(s, k)
  PROVE  InputInv'
<1> DEFINE f == FrameOf(k)
<1>1. wire' = [wire EXCEPT ![s] = wire[s] \o f] /\ UNCHANGED read
  BY DEF ClientSends
<1>2. wire[s] \in Seq(Pieces) /\ read[s] \in Seq(Pieces) /\ f \in Seq(Pieces)
  BY FrameFacts DEF InputInv
<1>3. read[s] \o wire[s] \in Seq(Pieces) /\ Framed(read[s] \o wire[s])
  BY <1>2, ConcatProperties DEF InputInv, Arriving
<1>4. Framed((read[s] \o wire[s]) \o f)
  <2> DEFINE b == read[s] \o wire[s]
  <2>1. b \in Seq(Pieces) /\ Framed(b)
    BY <1>3
  <2> HIDE DEF b
  <2>2. Framed(b \o FrameOf(k))
    BY <2>1, FramedAppend
  <2> QED  BY <2>2 DEF b
<1> HIDE DEF f
<1>5. (read[s] \o wire[s]) \o f = read[s] \o (wire[s] \o f)
  <2> DEFINE r == read[s]
             w == wire[s]
  <2>1. r \in Seq(Pieces) /\ w \in Seq(Pieces) /\ f \in Seq(Pieces)
    BY <1>2
  <2> HIDE DEF r, w
  <2>2. (r \o w) \o f = r \o (w \o f)
    BY <2>1, ConcatAssociative
  <2> QED  BY <2>2 DEF r, w
<1>6. wire[s] \o f \in Seq(Pieces)
  BY <1>2, ConcatProperties
<1>7. /\ wire'[s] = wire[s] \o f /\ \A t \in Socket \ {s} : wire'[t] = wire[t]
      /\ wire' \in [Socket -> Seq(Pieces)]
  BY <1>1, <1>6 DEF InputInv
<1>8. Framed(Arriving(s))'
  BY <1>1, <1>4, <1>5, <1>7 DEF Arriving
<1>9. \A t \in Socket \ {s} : Framed(Arriving(t))'
  BY <1>1, <1>7 DEF InputInv, Arriving
<1> QED  BY <1>1, <1>7, <1>8, <1>9 DEF InputInv

LEMMA NextInput == OutputInv /\ InputInv /\ [Next]_vars => InputInv'
<1> SUFFICES ASSUME OutputInv, InputInv, [Next]_vars PROVE InputInv'
  OBVIOUS
<1>1. ASSUME UNCHANGED <<wire, read>> PROVE InputInv'
  BY <1>1 DEF InputInv, Arriving
<1>2. CASE UNCHANGED vars
  BY <1>1, <1>2 DEF vars, client
<1>3. ASSUME NEW s \in Socket,
             CheckSocket(s) \/ SkipRead(s) \/ ReadFails(s) \/ AcceptConnection(s)
               \/ FindUser(s) \/ Notify(s) \/ ClientCloses(s) \/ ClientQuiet(s)
      PROVE  InputInv'
  BY <1>1, <1>3
  DEF CheckSocket, SkipRead, ReadFails, AcceptConnection, FindUser, Notify, ClientCloses,
      ClientQuiet, client
<1>4. CASE Select \/ Serve \/ NextPass \/ ParseEnds \/ SkipWrite \/ WriteSocket \/ SendChunk
           \/ SendStops \/ SendFails \/ EraseSent \/ DropUser \/ RemoveClosing \/ DropSocket
  BY <1>1, <1>4
  DEF Select, Serve, NextPass, ParseEnds, SkipWrite, WriteSocket, SendChunk, SendStops,
      SendFails, EraseSent, DropUser, RemoveClosing, DropSocket, client
<1>5. ASSUME NEW kind, Handle(kind) PROVE InputInv'
  BY <1>5, PopKeeps DEF Handle, client
<1>6. CASE Request \/ CommitSave \/ Logout \/ MatchUnknown
           \/ \E target \in Socket : BeginSave(target)
  BY <1>5, <1>6 DEF Request, CommitSave, Logout, MatchUnknown, BeginSave
<1>7. CASE ParseEmpty
  <2>1. lobby.sock \in Socket
    BY <1>7 DEF ParseEmpty, At, OutputInv, Places
  <2> QED  BY <1>7, <2>1, PopKeeps DEF ParseEmpty, client
<1>8. ASSUME NEW s \in Socket, ReadSocket(s) PROVE InputInv'
  BY <1>8, ReadKeeps DEF ReadSocket
<1>9. ASSUME NEW s \in Socket, NEW k \in Kinds, ClientSends(s, k) PROVE InputInv'
  BY <1>9, SendsKeeps
<1> QED
  BY <1>2, <1>3, <1>4, <1>6, <1>7, <1>8, <1>9 DEF Next, LobbyStep

-----------------------------------------------------------------------------
(* Flags and bounds.                                                       *)

FlagsTyped ==
  /\ status \in [Socket -> {"new", "listed", "gone"}]
  /\ wait \in [Socket -> BOOLEAN] /\ forced \in [Socket -> BOOLEAN]
  /\ user \in [Socket -> {"none", "online", "removed", "freed"}]
  /\ tasks \in [Keys -> SUBSET Socket]
  /\ quiet \in [Socket -> BOOLEAN]
  /\ frames \in 0 .. MaxFrames
  /\ notices \in 0 .. MaxNotices
  /\ discovery \in Socket \cup {None}

Closing == {"remove", "drop"}

\* A socket is on its way out of m_clientSockets only when that is decided, and
\* its user goes before it.
ClosingOrder ==
  /\ lobby.pc \in Closing => forced[lobby.sock]
  /\ lobby.pc = "drop" => user[lobby.sock] # "online"

FlagsInv == FlagsTyped /\ ClosingOrder

BuffersInv == OutputInv /\ InputInv /\ FlagsInv

LEMMA InitFlags == Init => FlagsInv
  BY SocketsAssumption DEF Init, FlagsInv, FlagsTyped, ClosingOrder, Closing

LEMMA RemovalTyped ==
  ASSUME FlagsTyped, NEW s \in Socket
  PROVE  /\ Removed(s) \in {"none", "online", "removed", "freed"}
         /\ WaitsAfterRemoval(s) \in BOOLEAN
  BY DEF FlagsTyped, Removed, WaitsAfterRemoval

LEMMA LetGoTyped ==
  ASSUME FlagsTyped, NEW ts \in [Keys -> SUBSET Socket], NEW thread \in Socket \cup {None},
         LetGo(ts, thread), UNCHANGED <<status, forced, quiet, frames, notices>>
  PROVE  FlagsTyped'
<1>1. /\ tasks' = ts /\ discovery' = thread
      /\ user' = [s \in Socket |-> IF s \in Frees(ts, thread) THEN "freed" ELSE user[s]]
      /\ wait' = [s \in Socket |-> wait[s] \/ s \in Frees(ts, thread)]
  BY DEF LetGo
<1>2. user' \in [Socket -> {"none", "online", "removed", "freed"}]
  BY <1>1 DEF FlagsTyped
<1>3. wait' \in [Socket -> BOOLEAN]
  BY <1>1 DEF FlagsTyped
<1> QED  BY <1>1, <1>2, <1>3 DEF FlagsTyped

\* Nobody enters m_users but with a new connection.
NobodyComes == \A s \in Socket : user'[s] = "online" => user[s] = "online"

\* The steps of the lobby thread but those of CheckSocketProblem.
ServeStep ==
  \/ \E s \in Socket : SkipRead(s) \/ ReadSocket(s) \/ ReadFails(s)
  \/ Select \/ Serve \/ NextPass
  \/ ParseEnds \/ ParseEmpty
  \/ \E target \in Socket : BeginSave(target)
  \/ Request \/ CommitSave \/ Logout \/ MatchUnknown
  \/ SkipWrite \/ WriteSocket \/ SendChunk \/ SendStops \/ SendFails \/ EraseSent

LEMMA ServeClosesNothing ==
  ASSUME OutputInv, ServeStep
  PROVE  lobby'.pc \notin Closing
<1>1. lobby \in Lobby
  BY DEF OutputInv, LobbyTyped
<1>3. ASSUME NEW s \in Socket, SkipRead(s) \/ ReadSocket(s) \/ ReadFails(s)
      PROVE  lobby'.pc \notin Closing
  BY <1>1, <1>3 DEF SkipRead, ReadSocket, ReadFails, Lobby, Closing
<1>5. CASE Select \/ Serve \/ NextPass
  BY <1>1, <1>5 DEF Select, Serve, NextPass, Lobby, Closing
<1>6. CASE ParseEnds \/ ParseEmpty
  BY <1>1, <1>6 DEF ParseEnds, ParseEmpty, StopParsing, Lobby, Closing
<1>7. ASSUME NEW kind, Handle(kind) PROVE lobby'.pc \notin Closing
  BY <1>7 DEF Handle, At, Closing
<1>8. CASE Request \/ CommitSave \/ Logout \/ MatchUnknown
           \/ \E target \in Socket : BeginSave(target)
  BY <1>7, <1>8 DEF Request, CommitSave, Logout, MatchUnknown, BeginSave
<1>9. CASE SkipWrite \/ SendStops \/ SendFails \/ EraseSent
  BY <1>1, <1>9 DEF SkipWrite, SendStops, SendFails, EraseSent, Lobby, Closing
<1>10. CASE WriteSocket
  BY <1>1, <1>10 DEF WriteSocket, Lobby, Closing
<1>11. CASE SendChunk
  <2> DEFINE most == Least(lobby.size - lobby.total, Chunk)
  <2>1. PICK n \in 1 .. most :
          lobby' = [lobby EXCEPT !.total = @ + n, !.moved = FALSE,
                      !.pc = IF n < most THEN "erase" ELSE "sending"]
    BY <1>11 DEF SendChunk
  <2> HIDE DEF most
  <2> QED  BY <1>1, <2>1 DEF Lobby, Closing
<1> QED
  BY <1>3, <1>5, <1>6, <1>8, <1>9, <1>10, <1>11 DEF ServeStep

LEMMA NextFlags == OutputInv /\ FlagsInv /\ [Next]_vars => FlagsInv'
<1> SUFFICES ASSUME OutputInv, FlagsInv, [Next]_vars PROVE FlagsInv'
  OBVIOUS
<1>1. FlagsTyped /\ ClosingOrder /\ lobby \in Lobby
  BY DEF FlagsInv, OutputInv, LobbyTyped
\* The lobby thread stays where it is.
<1>2. ASSUME FlagsTyped', lobby'.pc = lobby.pc, lobby'.sock = lobby.sock, UNCHANGED forced,
             lobby.pc \in Closing => lobby.sock \in Socket /\ NobodyComes
      PROVE  FlagsInv'
  <2>1. lobby.pc = "drop" => user'[lobby.sock] # "online"
    BY <1>1, <1>2 DEF ClosingOrder, NobodyComes, Closing
  <2> QED  BY <1>1, <1>2, <2>1 DEF FlagsInv, ClosingOrder
\* It closes nothing.
<1>17. ASSUME FlagsTyped', lobby'.pc \notin Closing PROVE FlagsInv'
  BY <1>17 DEF FlagsInv, ClosingOrder, Closing
<1>18. lobby.pc \in Closing => lobby.sock \in Socket
  BY DEF OutputInv, Places, Closing
<1>3. CASE UNCHANGED vars
  <2>1. FlagsTyped' /\ NobodyComes /\ UNCHANGED <<forced, lobby>>
    BY <1>1, <1>3 DEF FlagsTyped, NobodyComes, vars, client, flags, users
  <2> QED  BY <1>2, <1>18, <2>1
<1>19. ASSUME ServeStep, FlagsTyped' PROVE FlagsInv'
  BY <1>17, <1>19, ServeClosesNothing
<1>4. ASSUME NEW s \in Socket, CheckSocket(s) PROVE FlagsInv'
  <2>1. /\ UNCHANGED <<client, status, wait, users, notices, discovery>>
        /\ forced' = [forced EXCEPT ![s] = MustClose(s)]
    BY <1>4 DEF CheckSocket
  <2>2. MustClose(s) \in BOOLEAN
    BY <1>1 DEF MustClose, FlagsTyped
  <2> HIDE DEF MustClose
  <2>3. FlagsTyped'
    BY <1>1, <2>1, <2>2 DEF FlagsTyped, client, users
  <2>4. CASE MustClose(s)
    <3>1. lobby'.pc = "remove" /\ lobby'.sock = s
      BY <1>1, <1>4, <2>4 DEF CheckSocket, Lobby
    <3>2. forced'[s]
      BY <1>1, <2>1, <2>4 DEF FlagsTyped
    <3> QED  BY <2>3, <3>1, <3>2 DEF FlagsInv, ClosingOrder
  <2>5. CASE ~MustClose(s)
    <3>1. lobby'.pc = "check"
      BY <1>1, <1>4, <2>5 DEF CheckSocket, Lobby
    <3> QED  BY <1>17, <2>3, <3>1 DEF Closing
  <2> QED  BY <2>4, <2>5
<1>20. CASE RemoveClosing
  <2> DEFINE s == lobby.sock
  <2>1. /\ lobby.pc = "remove" /\ lobby' = [lobby EXCEPT !.pc = "drop"]
        /\ UNCHANGED <<client, status, forced, tasks, notices, discovery>>
        /\ wait' = [wait EXCEPT ![s] = WaitsAfterRemoval(s)]
        /\ user' = [user EXCEPT ![s] = Removed(s)]
    BY <1>20 DEF RemoveClosing, At, Closes, RemoveUser
  <2>2. s \in Socket /\ forced[s]
    BY <1>1, <1>18, <2>1 DEF ClosingOrder, Closing
  <2>3. lobby'.pc = "drop" /\ lobby'.sock = s
    BY <1>1, <2>1 DEF Lobby
  <2> HIDE DEF s
  <2>4. /\ Removed(s) \in {"none", "online", "removed", "freed"} /\ Removed(s) # "online"
        /\ WaitsAfterRemoval(s) \in BOOLEAN
    BY <1>1, <2>2, RemovalTyped DEF Removed
  <2> HIDE DEF Removed, WaitsAfterRemoval
  <2>5. FlagsTyped'
    BY <1>1, <2>1, <2>2, <2>4 DEF FlagsTyped, client
  <2>6. user'[s] # "online"
    BY <1>1, <2>1, <2>2, <2>4 DEF FlagsTyped
  <2> QED  BY <2>1, <2>2, <2>3, <2>5, <2>6 DEF FlagsInv, ClosingOrder
<1>21. CASE DropSocket
  <2>1. /\ status' = [status EXCEPT ![lobby.sock] = "gone"]
        /\ lobby' = [lobby EXCEPT !.pc = "check", !.sock = None]
        /\ UNCHANGED <<client, wait, forced, users, notices, discovery>>
    BY <1>21 DEF DropSocket
  <2>2. FlagsTyped' /\ lobby'.pc = "check"
    BY <1>1, <2>1 DEF FlagsTyped, Lobby, client, users
  <2> QED  BY <1>17, <2>2 DEF Closing
<1>5. ASSUME NEW s \in Socket, ReadFails(s) PROVE FlagsInv'
  <2>1. /\ lost[s] /\ forced' = [forced EXCEPT ![s] = TRUE]
        /\ UNCHANGED <<client, status, wait, users, notices, discovery>>
    BY <1>5 DEF ReadFails
  <2>2. FlagsTyped'
    BY <1>1, <2>1 DEF FlagsTyped, client, users
  <2> QED  BY <1>5, <1>19, <2>2 DEF ServeStep
<1>6. ASSUME NEW s \in Socket, AcceptConnection(s) PROVE FlagsInv'
  <2>1. /\ status[s] = "new" /\ status' = [status EXCEPT ![s] = "listed"]
        /\ UNCHANGED <<client, wait, forced, tasks, notices, discovery>>
        /\ \E new \in {"none", "online"} : user' = [user EXCEPT ![s] = new]
    BY <1>6 DEF AcceptConnection
  <2>2. FlagsTyped'
    BY <1>1, <2>1 DEF FlagsTyped, client
  <2>3. lobby'.pc \notin Closing
    BY <1>6 DEF AcceptConnection, At, Closing
  <2> QED  BY <1>17, <2>2, <2>3
<1>7. ASSUME NEW s \in Socket, SkipRead(s) \/ ReadSocket(s) PROVE FlagsInv'
  <2>1. /\ UNCHANGED <<flags, users, lost, frames, notices, discovery>>
        /\ \/ UNCHANGED quiet
           \/ quiet' = [quiet EXCEPT ![s] = FALSE]
    BY <1>7 DEF SkipRead, ReadSocket, client
  <2>2. FlagsTyped'
    BY <1>1, <2>1 DEF FlagsTyped, flags, users
  <2> QED  BY <1>7, <1>19, <2>2 DEF ServeStep
<1>8. CASE Select \/ Serve \/ NextPass \/ ParseEmpty \/ SkipWrite \/ WriteSocket \/ SendChunk
           \/ SendStops \/ EraseSent \/ Request
  <2>1. UNCHANGED <<client, flags, users, notices, discovery>>
    BY <1>8
    DEF Select, Serve, NextPass, ParseEmpty, SkipWrite, WriteSocket, SendChunk, SendStops,
        EraseSent, Request, Handle, flags
  <2>2. FlagsTyped'
    BY <1>1, <2>1 DEF FlagsTyped, client, flags, users
  <2> QED  BY <1>8, <1>19, <2>2 DEF ServeStep
<1>9. CASE ParseEnds \/ SendFails
  <2>1. /\ UNCHANGED <<client, status, forced, users, notices, discovery>>
        /\ wait' = wait \/ wait' = [wait EXCEPT ![lobby.sock] = TRUE]
    BY <1>9 DEF ParseEnds, SendFails
  <2>2. FlagsTyped'
    BY <1>1, <2>1 DEF FlagsTyped, client, users
  <2> QED  BY <1>9, <1>19, <2>2 DEF ServeStep
<1>10. CASE Logout \/ MatchUnknown
  <2> DEFINE s == lobby.sock
  <2>1. /\ s \in Socket
        /\ UNCHANGED <<client, status, forced, tasks, notices, discovery>>
        /\ wait' = [wait EXCEPT ![s] = WaitsAfterRemoval(s)] \/ wait' = [wait EXCEPT ![s] = TRUE]
        /\ user' = [user EXCEPT ![s] = Removed(s)]
    BY <1>10 DEF Logout, MatchUnknown, Handle, RemoveUser
  <2> HIDE DEF s
  <2>2. /\ Removed(s) \in {"none", "online", "removed", "freed"}
        /\ WaitsAfterRemoval(s) \in BOOLEAN
    BY <1>1, <2>1, RemovalTyped
  <2>3. FlagsTyped'
    BY <1>1, <2>1, <2>2 DEF FlagsTyped, client
  <2> QED  BY <1>10, <1>19, <2>3 DEF ServeStep
<1>11. ASSUME NEW key \in Keys, NEW holders \in SUBSET Socket,
              LetGo([tasks EXCEPT ![key] = holders], discovery),
              UNCHANGED <<client, status, forced, notices>>, ServeStep
       PROVE  FlagsInv'
  <2>1. /\ [tasks EXCEPT ![key] = holders] \in [Keys -> SUBSET Socket]
        /\ discovery \in Socket \cup {None}
    BY <1>1, <1>11 DEF FlagsTyped
  <2>2. FlagsTyped'
    BY <1>1, <1>11, <2>1, LetGoTyped DEF client
  <2> QED  BY <1>11, <1>19, <2>2
<1>12. ASSUME NEW target \in Socket, BeginSave(target) PROVE FlagsInv'
  <2>1. /\ lobby.sock \in Socket /\ UNCHANGED <<client, status, forced, notices>>
        /\ {lobby.sock, target} \in SUBSET Socket
    BY <1>12 DEF BeginSave, Handle
  <2>2. PICK key \in {lobby.sock, None} :
          LetGo([tasks EXCEPT ![key] = {lobby.sock, target}], discovery)
    BY <1>12 DEF BeginSave
  <2>3. ServeStep
    BY <1>12 DEF ServeStep
  <2> QED  BY <1>11, <2>1, <2>2, <2>3 DEF Keys
<1>13. CASE CommitSave
  <2>1. lobby.sock \in Socket /\ UNCHANGED <<client, status, forced, notices>>
    BY <1>13 DEF CommitSave, Handle
  <2>2. PICK key \in {lobby.sock, None} : LetGo([tasks EXCEPT ![key] = {}], discovery)
    BY <1>13 DEF CommitSave
  <2>3. ServeStep
    BY <1>13 DEF ServeStep
  <2> QED  BY <1>11, <2>1, <2>2, <2>3 DEF Keys
<1>14. ASSUME NEW s \in Socket, FindUser(s) \/ Notify(s) PROVE FlagsInv'
  <2>1. /\ UNCHANGED <<client, flags, users>>
        /\ \/ discovery' = s /\ UNCHANGED notices
           \/ notices < MaxNotices /\ notices' = notices + 1 /\ UNCHANGED discovery
    BY <1>14 DEF FindUser, Notify
  <2>2. FlagsTyped'
    BY <1>1, <2>1, SocketsAssumption DEF FlagsTyped, client, flags, users
  <2>3. lobby'.pc = lobby.pc /\ lobby'.sock = lobby.sock
    BY <1>1, <1>14 DEF FindUser, Notify, Lobby
  <2> QED  BY <1>2, <1>18, <2>1, <2>2, <2>3 DEF flags, users, NobodyComes
<1>15. CASE DropUser
  <2>1. LetGo(tasks, None) /\ UNCHANGED <<client, status, forced, notices, lobby>>
    BY <1>15 DEF DropUser
  <2>2. FlagsTyped'
    BY <1>1, <2>1, LetGoTyped DEF FlagsTyped, client
  <2>3. NobodyComes
    BY <2>1 DEF LetGo, NobodyComes
  <2> QED  BY <1>2, <1>18, <2>1, <2>2, <2>3
<1>16. ASSUME NEW s \in Socket, ClientCloses(s) \/ ClientQuiet(s)
                                \/ \E k \in Kinds : ClientSends(s, k)
       PROVE  FlagsInv'
  <2>1. /\ UNCHANGED <<flags, users, notices, discovery>>
        /\ \/ UNCHANGED <<quiet, frames>> /\ lost' = [lost EXCEPT ![s] = TRUE]
           \/ UNCHANGED <<lost, frames>> /\ quiet' = [quiet EXCEPT ![s] = TRUE]
           \/ UNCHANGED <<lost, quiet>> /\ frames < MaxFrames /\ frames' = frames + 1
    BY <1>16 DEF ClientCloses, ClientQuiet, ClientSends
  <2>2. FlagsTyped'
    <3>1. quiet' \in [Socket -> BOOLEAN]
      BY <1>1, <2>1 DEF FlagsTyped
    <3>2. frames' \in 0 .. MaxFrames
      BY <1>1, <2>1, SocketsAssumption DEF FlagsTyped
    <3> QED  BY <1>1, <2>1, <3>1, <3>2 DEF FlagsTyped, flags, users
  <2>3. UNCHANGED lobby
    BY <1>16 DEF ClientCloses, ClientQuiet, ClientSends
  <2> QED  BY <1>2, <1>18, <2>1, <2>2, <2>3 DEF flags, users, NobodyComes
<1> QED
  BY <1>3, <1>4, <1>5, <1>6, <1>7, <1>8, <1>9, <1>10, <1>12, <1>13, <1>14, <1>15, <1>16,
     <1>20, <1>21
  DEF Next, LobbyStep

-----------------------------------------------------------------------------
(* The properties.                                                         *)

(* What BuffersInv gathers holds whatever the threads, the clients and the        *)
(* network do.                                                              *)
THEOREM BuffersInvariant == Spec => []BuffersInv
<1>1. Init => BuffersInv
  BY InitOutput, InitInput, InitFlags DEF BuffersInv
<1>2. BuffersInv /\ [Next]_vars => BuffersInv'
  BY NextOutput, NextInput, NextFlags DEF BuffersInv
<1> QED  BY <1>1, <1>2, PTL DEF Spec

(* The flags, buffers and positions of LobbyServer and RealmSocket keep     *)
(* their types; WriteSocket never takes off more than the buffer holds.     *)
THEOREM TypeCorrect == Spec => []TypeOK
<1>1. BuffersInv => TypeOK
  BY DEF BuffersInv, OutputInv, OutputTyped, LobbyTyped, Lobby, InputInv, FlagsInv, FlagsTyped,
         TypeOK, Writing
<1> QED  BY <1>1, BuffersInvariant, PTL

\* Of the buffer of s, what is in flight is not behind its end.
LEMMA FlightWithin ==
  ASSUME OutputInv, NEW s \in Socket
  PROVE  Flight(s) \in Nat /\ Flight(s) <= Len(write[s])
<1>1. Len(write[s]) \in Nat
  BY LenProperties DEF OutputInv, OutputTyped
<1>2. CASE lobby.sock = s /\ lobby.pc \in Writing
  <2>1. lobby.total <= lobby.size /\ lobby.size <= Len(write[s])
        /\ lobby.total \in Nat /\ lobby.size \in Nat
    BY <1>2 DEF OutputInv, LobbyTyped, Lobby
  <2>2. Flight(s) = lobby.total
    BY <1>2 DEF Flight, InFlight, Writing
  <2> QED  BY <1>1, <2>1, <2>2
<1>3. CASE ~(lobby.sock = s /\ lobby.pc \in Writing)
  BY <1>1, <1>3 DEF Flight, InFlight, Writing
<1> QED  BY <1>2, <1>3

LEMMA OutputIntact == OutputInv => StreamIntact
<1> SUFFICES ASSUME OutputInv, NEW s \in Socket, ~lost[s]
             PROVE  /\ Len(Stream(s)) = queued[s]
                    /\ \A i \in 1 .. queued[s] : Stream(s)[i] \in {i, Torn}
  BY DEF StreamIntact
<1> DEFINE b == write[s]
           out == sent[s]
           q == queued[s]
           f == Flight(s)
           a == Len(out)
           c == Len(b)
           left == SubSeq(b, f + 1, c)
<1>1. b \in Seq(Nat) /\ out \in Seq(Nat) /\ q \in Nat
  BY DEF OutputInv, OutputTyped
<1>2. f \in Nat /\ f <= c
  BY FlightWithin
<1>3. c <= q /\ \A j \in 1 .. c : b[j] = q - c + j
  BY DEF OutputInv, WriteNumbered
<1>4. a + c = q + f /\ \A i \in 1 .. a : out[i] \in {i, Torn}
  BY DEF OutputInv, SentNumbered
<1>5. Unsent(s) = left
  <2>1. CASE lobby.sock = s
    BY <2>1 DEF Unsent, Flight
  <2>2. CASE lobby.sock # s
    <3>1. f = 0
      BY <2>2 DEF Flight
    <3>2. SubSeq(b, 1, Len(b)) = b
      BY <1>1
    <3> QED  BY <2>2, <3>1, <3>2 DEF Unsent
  <2> QED  BY <2>1, <2>2
<1>6. Stream(s) = out \o left
  BY <1>5 DEF Stream
<1> HIDE DEF f, b, out, q
<1>7. a \in Nat /\ c \in Nat
  BY <1>1, LenProperties
<1>8. /\ left \in Seq(Nat) /\ Len(left) = c - f
      /\ \A i \in 1 .. c - f : left[i] = b[f + i]
  BY <1>1, <1>2, SubSeqTail
<1> HIDE DEF left
<1>9. /\ Len(out \o left) = Len(out) + Len(left)
      /\ \A i \in 1 .. Len(out) + Len(left) :
           (out \o left)[i] = IF i <= Len(out) THEN out[i] ELSE left[i - Len(out)]
  BY <1>1, <1>8, ConcatProperties
<1> HIDE DEF a, c
<1>10. a + (c - f) = q
  BY <1>1, <1>2, <1>4, <1>7
<1>11. /\ Len(out \o left) = q
       /\ \A i \in 1 .. q : (out \o left)[i] = IF i <= a THEN out[i] ELSE left[i - a]
  <2>1. Len(out) = a /\ Len(left) = c - f
    BY <1>8 DEF a
  <2> QED  BY <2>1, <1>9, <1>10
<1>12. ASSUME NEW i \in 1 .. q PROVE (out \o left)[i] \in {i, Torn}
  <2>1. CASE i <= a
    <3>1. i \in 1 .. a /\ (out \o left)[i] = out[i]
      BY <2>1, <1>7, <1>11
    <3> QED  BY <3>1, <1>4
  <2>2. CASE ~(i <= a)
    <3> DEFINE j == i - a
    <3>1. j \in 1 .. c - f /\ f + j \in 1 .. c /\ q - c + (f + j) = i
      BY <2>2, <1>1, <1>2, <1>7, <1>10
    <3>2. (out \o left)[i] = left[j]
      BY <2>2, <1>11
    <3> HIDE DEF j
    <3>3. left[j] = b[f + j] /\ b[f + j] = q - c + (f + j)
      BY <3>1, <1>3, <1>8
    <3> QED  BY <3>1, <3>2, <3>3
  <2> QED  BY <2>1, <2>2
<1> QED  BY <1>6, <1>11, <1>12 DEF q

(* WriteSocket and the two threads that call send: while the client is      *)
(* there, each unit queued is sent once and in its place, whatever is       *)
(* queued between the reads of the buffer's size and the erase.             *)
THEOREM StreamsIntact == Spec => []StreamIntact
<1>1. BuffersInv => StreamIntact
  BY OutputIntact DEF BuffersInv
<1> QED  BY <1>1, BuffersInvariant, PTL

LEMMA InputAligned == InputInv => FramesAligned
<1> SUFFICES ASSUME InputInv, NEW s \in Socket, read[s] # <<>> PROVE read[s][1] # "body"
  BY DEF FramesAligned
<1> DEFINE r == read[s]
           w == wire[s]
           b == r \o w
<1>1. r \in Seq(Pieces) /\ w \in Seq(Pieces) /\ r # <<>>
  BY DEF InputInv
<1>2. \A i \in 1 .. Len(b) : b[i] = "body" => i > 1
  BY DEF InputInv, Arriving, Framed
<1> HIDE DEF r, w
<1>3. Len(r) \in Nat /\ Len(w) \in Nat /\ Len(r) # 0
  BY <1>1, LenProperties, EmptySeq
<1>4. /\ Len(b) = Len(r) + Len(w)
      /\ \A i \in 1 .. Len(r) + Len(w) : b[i] = IF i <= Len(r) THEN r[i] ELSE w[i - Len(r)]
  BY <1>1, ConcatProperties
<1> HIDE DEF b
<1>5. 1 \in 1 .. Len(r) + Len(w) /\ 1 <= Len(r)
  BY <1>3
<1>6. b[1] = r[1] /\ 1 \in 1 .. Len(b)
  BY <1>4, <1>5
<1>7. b[1] # "body"
  BY <1>2, <1>6
<1> QED  BY <1>6, <1>7 DEF r

(* ReadSocket: whatever a read returns, and however many frames a pass      *)
(* takes, the buffer begins with the length of a frame.                     *)
THEOREM FramesAreAligned == Spec => []FramesAligned
<1>1. BuffersInv => FramesAligned
  BY InputAligned DEF BuffersInv
<1> QED  BY <1>1, BuffersInvariant, PTL

\* Only CheckSocketProblem closes, and only who must be closed; else a read fails.
LEMMA DecidingStep ==
  ASSUME BuffersInv, [Next]_vars, NEW s \in Socket, ~forced[s], forced'[s]
  PROVE  lost[s] \/ (lobby.pc = "check" /\ MustClose(s))
<1>1. forced \in [Socket -> BOOLEAN]
  BY DEF BuffersInv, FlagsInv, FlagsTyped
<1>2. forced' # forced
  OBVIOUS
<1>3. ASSUME NEW t \in Socket, CheckSocket(t) PROVE lobby.pc = "check" /\ MustClose(s)
  <2>1. forced' = [forced EXCEPT ![t] = MustClose(t)] /\ lobby.pc = "check"
    BY <1>3 DEF CheckSocket, At
  <2> HIDE DEF MustClose
  <2>2. t = s /\ MustClose(s)
    BY <1>1, <2>1
  <2> QED  BY <2>1, <2>2
<1>4. ASSUME NEW t \in Socket, ReadFails(t) PROVE lost[s]
  <2>1. lost[t] /\ forced' = [forced EXCEPT ![t] = TRUE]
    BY <1>4 DEF ReadFails
  <2>2. t = s
    BY <1>1, <2>1
  <2> QED  BY <2>1, <2>2
<1>5. ASSUME NEW t \in Socket,
             SkipRead(t) \/ ReadSocket(t) \/ FindUser(t) \/ Notify(t) \/ AcceptConnection(t)
               \/ ClientCloses(t) \/ ClientQuiet(t) \/ BeginSave(t)
               \/ \E k \in Kinds : ClientSends(t, k)
      PROVE  FALSE
  BY <1>2, <1>5
  DEF SkipRead, ReadSocket, FindUser, Notify, AcceptConnection, ClientCloses, ClientQuiet,
      BeginSave, Handle, ClientSends, flags
<1>6. ~(Select \/ Serve \/ NextPass \/ ParseEnds \/ ParseEmpty \/ Request \/ CommitSave
        \/ Logout \/ MatchUnknown \/ RemoveClosing \/ DropSocket)
  BY <1>2
  DEF Select, Serve, NextPass, ParseEnds, ParseEmpty, Request, CommitSave, Logout,
      MatchUnknown, RemoveClosing, DropSocket, Handle, flags
<1>7. ~(SkipWrite \/ WriteSocket \/ SendChunk \/ SendStops \/ SendFails \/ EraseSent
        \/ DropUser \/ UNCHANGED vars)
  BY <1>2
  DEF SkipWrite, WriteSocket, SendChunk, SendStops, SendFails, EraseSent, DropUser, vars, flags
<1> QED  BY <1>3, <1>4, <1>5, <1>6, <1>7 DEF Next, LobbyStep

\* A socket leaves m_clientSockets in one place.
LEMMA DroppingStep ==
  ASSUME BuffersInv, [Next]_vars, NEW s \in Socket, status[s] = "listed", status'[s] = "gone"
  PROVE  lobby.pc = "drop" /\ lobby.sock = s
<1>1. status \in [Socket -> {"new", "listed", "gone"}]
  BY DEF BuffersInv, FlagsInv, FlagsTyped
<1>2. status' # status
  OBVIOUS
<1>3. CASE DropSocket
  BY <1>1, <1>3 DEF DropSocket, At
<1>4. ASSUME NEW t \in Socket, AcceptConnection(t) PROVE FALSE
  BY <1>1, <1>4 DEF AcceptConnection
<1>5. ASSUME NEW t \in Socket,
             CheckSocket(t) \/ SkipRead(t) \/ ReadSocket(t) \/ ReadFails(t) \/ FindUser(t)
               \/ Notify(t) \/ ClientCloses(t) \/ ClientQuiet(t) \/ BeginSave(t)
               \/ \E k \in Kinds : ClientSends(t, k)
      PROVE  FALSE
  BY <1>2, <1>5
  DEF CheckSocket, SkipRead, ReadSocket, ReadFails, FindUser, Notify, ClientCloses,
      ClientQuiet, BeginSave, Handle, ClientSends, flags
<1>6. ~(Select \/ Serve \/ NextPass \/ ParseEnds \/ ParseEmpty \/ Request \/ CommitSave
        \/ Logout \/ MatchUnknown \/ RemoveClosing)
  BY <1>2
  DEF Select, Serve, NextPass, ParseEnds, ParseEmpty, Request, CommitSave, Logout,
      MatchUnknown, RemoveClosing, Handle, flags
<1>7. ~(SkipWrite \/ WriteSocket \/ SendChunk \/ SendStops \/ SendFails \/ EraseSent
        \/ DropUser \/ UNCHANGED vars)
  BY <1>2
  DEF SkipWrite, WriteSocket, SendChunk, SendStops, SendFails, EraseSent, DropUser, vars, flags
<1> QED  BY <1>3, <1>4, <1>5, <1>6, <1>7 DEF Next, LobbyStep

\* What is queued and not lost is sent when nothing is left in the buffer.
LEMMA EmptyIsSent ==
  ASSUME OutputInv, NEW s \in Socket, ~lost[s], lobby.pc = "check", write[s] = <<>>
  PROVE  Len(sent[s]) = queued[s]
<1>1. Flight(s) = 0
  BY DEF Flight, InFlight
<1>2. Len(sent[s]) + Len(write[s]) = queued[s] + Flight(s)
  BY DEF OutputInv, SentNumbered
<1>3. Len(sent[s]) \in Nat /\ queued[s] \in Nat
  BY LenProperties DEF OutputInv, OutputTyped
<1>4. Len(write[s]) = 0
  BY EmptySeq
<1> HIDE DEF Flight
<1> QED  BY <1>1, <1>2, <1>3, <1>4

(* CheckSocketProblem: when the end of the connection of a client that is   *)
(* there and not quiet is decided, all that was queued until then is sent,  *)
(* and no connection is dropped without that decision.  What is queued in   *)
(* between is not promised.                                                 *)
THEOREM LastWordsAreSent == Spec => LastWordsSent
<1> DEFINE Decided ==
             \A s \in Socket :
               ~forced[s] /\ forced'[s] => lost[s] \/ quiet[s] \/ Len(sent[s]) = queued[s]
           Dropped ==
             \A s \in Socket : status[s] = "listed" /\ status'[s] = "gone" => forced[s]
<1>1. BuffersInv /\ [Next]_vars => Decided
  <2> SUFFICES ASSUME BuffersInv, [Next]_vars, NEW s \in Socket,
                      ~forced[s], forced'[s], ~lost[s], ~quiet[s]
               PROVE  Len(sent[s]) = queued[s]
    OBVIOUS
  <2>1. lobby.pc = "check" /\ MustClose(s)
    BY DecidingStep
  <2>2. write[s] = <<>>
    BY <2>1 DEF MustClose
  <2> QED  BY <2>1, <2>2, EmptyIsSent DEF BuffersInv
<1>2. BuffersInv /\ [Next]_vars => Dropped
  BY DroppingStep DEF BuffersInv, FlagsInv, ClosingOrder, Closing
<1>3. BuffersInv /\ [Next]_vars => (Decided /\ Dropped)
  BY <1>1, <1>2
<1>4. Decided /\ Dropped =>
        \A s \in Socket :
          /\ ~forced[s] /\ forced'[s] => lost[s] \/ quiet[s] \/ Len(sent[s]) = queued[s]
          /\ status[s] = "listed" /\ status'[s] = "gone" => forced[s]
  OBVIOUS
<1> QED  BY <1>3, <1>4, BuffersInvariant, PTL DEF Spec, LastWordsSent

-----------------------------------------------------------------------------
(* Users and their connections.                                            *)

\* The part of TypeOK that the proof needs: no buffer is looked into.
UsersTyped ==
  /\ status \in [Socket -> {"new", "listed", "gone"}]
  /\ wait \in [Socket -> BOOLEAN]
  /\ user \in [Socket -> {"none", "online", "removed", "freed"}]
  /\ tasks \in [Keys -> SUBSET Socket]
  /\ discovery \in Socket \cup {None}

\* A user is made when the socket is accepted: without it, AcceptConnection
\* could put a new user in the place of one who is gone.
NewHaveNoUser == \A s \in Socket : status[s] = "new" => user[s] = "none"

UsersInv == UsersTyped /\ NewHaveNoUser /\ UsersHaveSockets /\ GoneUsersClose

LEMMA InitHolds == Init => UsersInv
  BY DEF Init, UsersInv, UsersTyped, NewHaveNoUser, UsersHaveSockets, GoneUsersClose

\* What RemoveUser leaves of the user of t, and asks of its socket.
LEMMA RemovalKeeps ==
  ASSUME UsersInv, NEW t,
         user' = [user EXCEPT ![t] = Removed(t)],
         wait' = [wait EXCEPT ![t] = WaitsAfterRemoval(t)]
                 \/ wait' = [wait EXCEPT ![t] = TRUE],
         UNCHANGED <<status, tasks, discovery>>
  PROVE  UsersInv'
<1>1. CASE t \notin Socket
  <2>1. UNCHANGED <<status, wait, user, tasks, discovery>>
    BY <1>1 DEF UsersInv, UsersTyped
  <2> QED
    BY <2>1 DEF UsersInv, UsersTyped, NewHaveNoUser, UsersHaveSockets, GoneUsersClose, Held
<1>2. CASE t \in Socket
  <2>1. /\ user[t] = "online" =>
             \/ Removed(t) = "removed" /\ Held(t, tasks, discovery)
             \/ Removed(t) = "freed" /\ WaitsAfterRemoval(t)
        /\ user[t] # "online" => Removed(t) = user[t]
        /\ wait[t] => WaitsAfterRemoval(t)
        /\ WaitsAfterRemoval(t) \in BOOLEAN
    BY <1>2 DEF UsersInv, UsersTyped, Removed, WaitsAfterRemoval
  <2>2. Removed(t) \in {"none", "removed", "freed"}
    BY <1>2, <2>1 DEF UsersInv, UsersTyped
  <2> HIDE DEF Removed, WaitsAfterRemoval
  <2>3. UsersTyped'
    BY <1>2, <2>1, <2>2 DEF UsersInv, UsersTyped
  <2>4. /\ user'[t] = Removed(t)
        /\ WaitsAfterRemoval(t) => wait'[t]
        /\ status'[t] = status[t]
    BY <1>2 DEF UsersInv, UsersTyped
  <2>5. \A s \in Socket \ {t} :
          user'[s] = user[s] /\ wait'[s] = wait[s] /\ status'[s] = status[s]
    BY DEF UsersInv, UsersTyped
  <2>6. NewHaveNoUser'
    BY <2>1, <2>4, <2>5 DEF UsersInv, NewHaveNoUser
  <2>7. UsersHaveSockets'
    BY <2>2, <2>4, <2>5 DEF UsersInv, UsersHaveSockets
  <2>8. GoneUsersClose'
    <3> SUFFICES ASSUME NEW s \in Socket, user'[s] \in {"removed", "freed"}
                 PROVE  wait'[s] \/ (user'[s] = "removed" /\ Held(s, tasks, discovery))
      BY DEF GoneUsersClose, Held
    <3>1. CASE s = t
      BY <2>1, <2>4, <3>1 DEF UsersInv, GoneUsersClose
    <3>2. CASE s # t
      BY <2>5, <3>2 DEF UsersInv, GoneUsersClose
    <3> QED  BY <3>1, <3>2
  <2> QED  BY <2>3, <2>6, <2>7, <2>8 DEF UsersInv
<1> QED  BY <1>1, <1>2

\* Nothing but flags that ask for the end of a connection changes.
LEMMA FlagsKeep ==
  ASSUME UsersInv, UNCHANGED <<status, users, discovery>>,
         wait' = wait \/ \E t : wait' = [wait EXCEPT ![t] = TRUE]
  PROVE  UsersInv'
<1>1. UsersTyped'
  BY DEF UsersInv, UsersTyped, users
<1>2. \A s \in Socket : wait[s] => wait'[s]
  BY DEF UsersInv, UsersTyped
<1>3. NewHaveNoUser' /\ UsersHaveSockets' /\ GoneUsersClose'
  BY <1>2 DEF UsersInv, NewHaveNoUser, UsersHaveSockets, GoneUsersClose, users, Held
<1> QED  BY <1>1, <1>3 DEF UsersInv

\* When tasks or the discovery thread let users go, their sockets are asked.
LEMMA LetGoKeeps ==
  ASSUME UsersInv, NEW ts \in [Keys -> SUBSET Socket], NEW thread \in Socket \cup {None},
         LetGo(ts, thread), UNCHANGED status
  PROVE  UsersInv'
<1>1. /\ tasks' = ts /\ discovery' = thread
      /\ user' = [s \in Socket |-> IF s \in Frees(ts, thread) THEN "freed" ELSE user[s]]
      /\ wait' = [s \in Socket |-> wait[s] \/ s \in Frees(ts, thread)]
  BY DEF LetGo
<1>2. \A s \in Socket :
        \/ /\ s \in Frees(ts, thread)
           /\ user[s] = "removed" /\ user'[s] = "freed" /\ wait'[s]
        \/ /\ s \notin Frees(ts, thread)
           /\ user'[s] = user[s] /\ (wait[s] => wait'[s])
           /\ user[s] = "removed" => Held(s, ts, thread)
  BY <1>1 DEF Frees
<1>3. UsersTyped'
  BY <1>1 DEF UsersInv, UsersTyped
<1>4. NewHaveNoUser' /\ UsersHaveSockets'
  BY <1>2 DEF UsersInv, NewHaveNoUser, UsersHaveSockets
<1>5. GoneUsersClose'
  BY <1>1, <1>2 DEF UsersInv, UsersTyped, GoneUsersClose, Held
<1> QED  BY <1>3, <1>4, <1>5 DEF UsersInv

LEMMA NextKeeps == BuffersInv /\ UsersInv /\ [Next]_vars => UsersInv'
<1> SUFFICES ASSUME BuffersInv, UsersInv, [Next]_vars PROVE UsersInv'
  OBVIOUS
<1>1. CASE UNCHANGED vars
  BY <1>1, FlagsKeep DEF vars, flags, users
<1>2. ASSUME NEW s \in Socket, CheckSocket(s) PROVE UsersInv'
  BY <1>2, FlagsKeep DEF CheckSocket, users
<1>15. CASE RemoveClosing
  BY <1>15, RemovalKeeps DEF RemoveClosing, Closes, RemoveUser
<1>16. CASE DropSocket
  <2>1. /\ lobby.sock \in Socket /\ user[lobby.sock] # "online"
        /\ UNCHANGED <<wait, users, discovery>>
        /\ status' = [status EXCEPT ![lobby.sock] = "gone"]
    BY <1>16
    DEF DropSocket, At, BuffersInv, OutputInv, Places, FlagsInv, ClosingOrder
  <2> QED
    BY <2>1
    DEF users, UsersInv, UsersTyped, NewHaveNoUser, UsersHaveSockets, GoneUsersClose, Held
<1>3. CASE Logout \/ MatchUnknown
  BY <1>3, RemovalKeeps DEF Logout, MatchUnknown, Handle, RemoveUser
<1>4. ASSUME NEW s \in Socket, AcceptConnection(s) PROVE UsersInv'
  <2>1. /\ UNCHANGED <<wait, tasks, discovery>> /\ user[s] = "none"
        /\ status' = [status EXCEPT ![s] = "listed"]
        /\ \E new \in {"none", "online"} : user' = [user EXCEPT ![s] = new]
    BY <1>4 DEF AcceptConnection, UsersInv, NewHaveNoUser
  <2> QED
    BY <2>1 DEF UsersInv, UsersTyped, NewHaveNoUser, UsersHaveSockets, GoneUsersClose, Held
<1>5. ASSUME NEW target \in Socket, BeginSave(target) PROVE UsersInv'
  <2>1. /\ lobby.sock \in Socket
        /\ UNCHANGED status
    BY <1>5 DEF BeginSave, Handle
  <2>2. PICK key \in {lobby.sock, None} :
          LetGo([tasks EXCEPT ![key] = {lobby.sock, target}], discovery)
    BY <1>5 DEF BeginSave
  <2> QED  BY <2>1, <2>2, LetGoKeeps DEF UsersInv, UsersTyped
<1>6. ASSUME NEW s \in Socket, FindUser(s) PROVE UsersInv'
  <2>1. discovery = None /\ discovery' = s /\ UNCHANGED <<status, wait, user, tasks>>
    BY <1>6 DEF FindUser, flags, users
  <2>2. \A t \in Socket : Held(t, tasks, discovery) => Held(t, tasks, discovery)'
    BY <2>1, SocketsAssumption DEF Held
  <2> HIDE DEF Held
  <2> QED
    BY <2>1, <2>2 DEF UsersInv, UsersTyped, NewHaveNoUser, UsersHaveSockets, GoneUsersClose
<1>7. CASE DropUser
  BY <1>7, LetGoKeeps DEF DropUser, flags, UsersInv, UsersTyped
<1>14. CASE CommitSave
  <2>1. UNCHANGED status
    BY <1>14 DEF CommitSave, Handle
  <2>2. PICK key \in {lobby.sock, None} : LetGo([tasks EXCEPT ![key] = {}], discovery)
    BY <1>14 DEF CommitSave
  <2> QED  BY <2>1, <2>2, LetGoKeeps DEF UsersInv, UsersTyped
<1>8. CASE ParseEnds \/ SendFails
  BY <1>8, FlagsKeep DEF ParseEnds, SendFails, users
<1>9. ASSUME NEW s \in Socket, SkipRead(s) \/ ReadSocket(s) \/ ReadFails(s) PROVE UsersInv'
  BY <1>9, FlagsKeep DEF SkipRead, ReadSocket, ReadFails, flags, users
<1>10. CASE Select \/ Serve \/ NextPass \/ ParseEmpty \/ SkipWrite \/ WriteSocket
            \/ SendChunk \/ SendStops \/ EraseSent
  BY <1>10, FlagsKeep
  DEF Select, Serve, NextPass, ParseEmpty, SkipWrite, WriteSocket, SendChunk,
      SendStops, EraseSent, flags, users
<1>11. CASE Request
  BY <1>11, FlagsKeep DEF Request, Handle, users
<1>12. ASSUME NEW s \in Socket, Notify(s) \/ ClientCloses(s) \/ ClientQuiet(s)
       PROVE  UsersInv'
  BY <1>12, FlagsKeep DEF Notify, ClientCloses, ClientQuiet, flags, users
<1>13. ASSUME NEW s \in Socket, NEW k \in Kinds, ClientSends(s, k) PROVE UsersInv'
  BY <1>13, FlagsKeep DEF ClientSends, flags, users
<1> QED
  BY <1>1, <1>2, <1>3, <1>4, <1>5, <1>6, <1>7, <1>8, <1>9, <1>10, <1>11, <1>12, <1>13,
     <1>14, <1>15, <1>16
  DEF Next, LobbyStep

(* What UsersInv gathers holds whatever the threads, the clients and the        *)
(* network do.                                                              *)
THEOREM SocketsInvariant == Spec => []UsersInv
<1> QED  BY InitHolds, NextKeeps, BuffersInvariant, PTL DEF Spec

(* Nobody is in m_users whose socket is not served.                         *)
THEOREM UsersServed == Spec => []UsersHaveSockets
<1>1. UsersInv => UsersHaveSockets
  BY DEF UsersInv
<1> QED  BY <1>1, SocketsInvariant, PTL

(* The connection of a user who is gone waits to be closed, unless a save   *)
(* task or the discovery thread still holds the user.                       *)
THEOREM GoneUsersAreClosed == Spec => []GoneUsersClose
<1>1. UsersInv => GoneUsersClose
  BY DEF UsersInv
<1> QED  BY <1>1, SocketsInvariant, PTL

=============================================================================
