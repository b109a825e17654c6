---------------------------- MODULE StreamsProofs ----------------------------
(***************************************************************************)
(* Proofs about Streams, for every value of its constants: any texts, any  *)
(* data, messages of any length, any block of the cipher and any bounds.   *)
(*                                                                         *)
(* First the encoding of each kind of field, and of several one after the  *)
(* other; then that decoding what was encoded gives it back, and leaves    *)
(* the offset behind it; then the stream as the frames of the messages on  *)
(* their way, and the data of a character in them.  The inductive          *)
(* invariant says that what is left of the stream encodes what is left to  *)
(* be read, and that what the client has, what is on its way and what is   *)
(* kept for the answer are, in this order, the data of the character.      *)
(***************************************************************************)
EXTENDS Streams, SequenceTheorems, WellFoundedInduction, TLAPS

-----------------------------------------------------------------------------
(* Induction, with a set in the place of a predicate.                      *)

\* A set of naturals that is not empty has a smallest element.
LEMMA Smallest ==
  ASSUME NEW T \in SUBSET Nat, T # {}
  PROVE  \E m \in T : \A k \in T : m <= k
<1> DEFINE R == OpToRel(<, Nat)
<1>1. IsWellFoundedOn(R, Nat)
  BY NatLessThanWellFounded
<1>2. \A k, m \in Nat : <<k, m>> \in R <=> k < m
  BY DEF OpToRel
<1> HIDE DEF R
<1>3. PICK m \in T : \A k \in T : ~(<<k, m>> \in R)
  BY <1>1, WFMin
<1>4. ASSUME NEW k \in T PROVE m <= k
  <2>1. m \in Nat /\ k \in Nat /\ ~(k < m)
    BY <1>2, <1>3, <1>4
  <2> QED  BY <2>1
<1> QED  BY <1>4

LEMMA AllNumbers ==
  ASSUME NEW T \in SUBSET Nat, 0 \in T, \A n \in T : n + 1 \in T
  PROVE  \A n \in Nat : n \in T
<1> SUFFICES ASSUME Nat \ T # {} PROVE FALSE
  OBVIOUS
<1>1. PICK m \in Nat \ T : \A k \in Nat \ T : m <= k
  BY Smallest
<1>2. m - 1 \in Nat /\ m - 1 \notin Nat \ T
  BY <1>1
<1>3. (m - 1) + 1 \in T
  BY <1>2
<1> QED  BY <1>1, <1>3

-----------------------------------------------------------------------------
(* FlattenSeq.                                                             *)

Flattening(f, ss) ==
  f = [i \in 1 .. Len(ss) |-> IF i = 1 THEN ss[i] ELSE f[i-1] \o ss[i]]

LEMMA FlattenDef ==
  ASSUME NEW ss, Len(ss) # 0
  PROVE  FlattenSeq(ss) = (CHOOSE f : Flattening(f, ss))[Len(ss)]
BY DEF FlattenSeq, Flattening

LEMMA FlatteningStep ==
  ASSUME NEW ss, NEW f, Flattening(f, ss), NEW i \in 1 .. Len(ss)
  PROVE  f[i] = IF i = 1 THEN ss[i] ELSE f[i-1] \o ss[i]
<1> DEFINE e(j) == IF j = 1 THEN ss[j] ELSE f[j-1] \o ss[j]
<1>1. f = [j \in 1 .. Len(ss) |-> e(j)]
  BY DEF Flattening
<1> HIDE DEF e
<1>2. f[i] = e(i)
  BY <1>1
<1> QED  BY <1>2 DEF e

LEMMA FlatteningExists ==
  ASSUME NEW S, NEW ss \in Seq(Seq(S)), Len(ss) # 0
  PROVE  \E f : Flattening(f, ss) /\ f \in [1 .. Len(ss) -> Seq(S)]
<1> DEFINE Step(f, n) == \A i \in 1 .. n : f[i] = IF i = 1 THEN ss[i] ELSE f[i-1] \o ss[i]
           T == {n \in Nat : n <= Len(ss) => \E f \in [1 .. n -> Seq(S)] : Step(f, n)}
<1>1. Len(ss) \in Nat /\ \A i \in 1 .. Len(ss) : ss[i] \in Seq(S)
  BY LenProperties, ElementOfSeq
<1>2. 0 \in T
  <2>1. [i \in 1 .. 0 |-> <<>>] \in [1 .. 0 -> Seq(S)]
    OBVIOUS
  <2>2. Step([i \in 1 .. 0 |-> <<>>], 0)
    OBVIOUS
  <2> QED  BY <2>1, <2>2
<1>3. ASSUME NEW n \in T PROVE n + 1 \in T
  <2>1. n \in Nat /\ n + 1 \in Nat
    OBVIOUS
  <2> SUFFICES ASSUME n + 1 <= Len(ss)
               PROVE  \E f \in [1 .. n + 1 -> Seq(S)] : Step(f, n + 1)
    BY <2>1
  <2>2. PICK f \in [1 .. n -> Seq(S)] : Step(f, n)
    BY <2>1, <1>1
  <2> DEFINE last == IF n = 0 THEN ss[1] ELSE f[n] \o ss[n + 1]
             g == [i \in 1 .. n + 1 |-> IF i = n + 1 THEN last ELSE f[i]]
  <2>3. last \in Seq(S)
    <3>1. ss[n + 1] \in Seq(S)
      BY <1>1, <2>1
    <3>2. CASE n = 0
      BY <3>1, <3>2
    <3>3. CASE n # 0
      <4>1. f[n] \in Seq(S)
        BY <2>1, <3>3
      <4> QED  BY <4>1, <3>1, <3>3, ConcatProperties
    <3> QED  BY <3>2, <3>3
  <2> HIDE DEF last
  <2>4. g \in [1 .. n + 1 -> Seq(S)]
    BY <2>1, <2>3
  <2>5. Step(g, n + 1)
    <3> SUFFICES ASSUME NEW i \in 1 .. n + 1
                 PROVE  g[i] = IF i = 1 THEN ss[i] ELSE g[i-1] \o ss[i]
      OBVIOUS
    <3>1. CASE i = n + 1
      BY <3>1, <2>1 DEF last
    <3>2. CASE i # n + 1
      <4>1. i \in 1 .. n /\ (i # 1 => i - 1 \in 1 .. n)
        BY <2>1, <3>2
      <4>2. f[i] = IF i = 1 THEN ss[i] ELSE f[i-1] \o ss[i]
        BY <4>1, <2>2
      <4>3. g[i] = f[i] /\ (i # 1 => g[i-1] = f[i-1])
        BY <4>1, <2>1
      <4> QED  BY <4>2, <4>3
    <3> QED  BY <3>1, <3>2
  <2> QED  BY <2>4, <2>5
<1>4. Len(ss) \in T
  <2> HIDE DEF T
  <2>1. T \in SUBSET Nat
    BY DEF T
  <2> QED  BY <1>1, <1>2, <1>3, <2>1, AllNumbers
<1>5. PICK f \in [1 .. Len(ss) -> Seq(S)] : Step(f, Len(ss))
  <2>1. Len(ss) <= Len(ss)
    BY <1>1
  <2> HIDE DEF Step
  <2>2. Len(ss) <= Len(ss) => \E f \in [1 .. Len(ss) -> Seq(S)] : Step(f, Len(ss))
    BY <1>4
  <2> QED  BY <2>1, <2>2
<1>6. Flattening(f, ss)
  BY <1>5 DEF Flattening
<1> QED  BY <1>5, <1>6

LEMMA FlatteningsAgree ==
  ASSUME NEW S, NEW ss \in Seq(S), NEW tt \in Seq(S), NEW f, NEW g,
         Flattening(f, ss), Flattening(g, tt),
         NEW m \in Nat, m <= Len(ss), m <= Len(tt),
         \A i \in 1 .. m : ss[i] = tt[i]
  PROVE  \A i \in 1 .. m : f[i] = g[i]
<1> DEFINE T == {n \in Nat : n \in 1 .. m => f[n] = g[n]}
<1>0. Len(ss) \in Nat /\ Len(tt) \in Nat
  BY LenProperties
<1>1. \A i \in 1 .. m : /\ f[i] = IF i = 1 THEN ss[i] ELSE f[i-1] \o ss[i]
                        /\ g[i] = IF i = 1 THEN tt[i] ELSE g[i-1] \o tt[i]
  <2> SUFFICES ASSUME NEW i \in 1 .. m
               PROVE  /\ f[i] = IF i = 1 THEN ss[i] ELSE f[i-1] \o ss[i]
                      /\ g[i] = IF i = 1 THEN tt[i] ELSE g[i-1] \o tt[i]
    OBVIOUS
  <2>1. i \in 1 .. Len(ss) /\ i \in 1 .. Len(tt)
    BY <1>0
  <2> QED  BY <2>1, FlatteningStep
<1>2. 0 \in T
  OBVIOUS
<1>3. ASSUME NEW n \in T PROVE n + 1 \in T
  <2> SUFFICES ASSUME n + 1 \in 1 .. m PROVE f[n+1] = g[n+1]
    OBVIOUS
  <2>1. CASE n = 0
    BY <2>1, <1>1
  <2>2. CASE n # 0
    <3>1. f[n] = g[n]
      BY <2>2
    <3>2. (n + 1) - 1 = n /\ n + 1 # 1
      BY <2>2
    <3> QED  BY <3>1, <3>2, <1>1
  <2> QED  BY <2>1, <2>2
<1>4. T \in SUBSET Nat
  OBVIOUS
<1>5. \A n \in Nat : n \in T
  <2> HIDE DEF T
  <2> QED  BY <1>2, <1>3, <1>4, AllNumbers
<1> QED  BY <1>5

LEMMA FlatteningsMeet ==
  ASSUME NEW S, NEW ss \in Seq(S), NEW tt \in Seq(S), NEW f, NEW g,
         Flattening(f, ss), Flattening(g, tt), Len(ss) # 0, Len(ss) <= Len(tt),
         \A i \in 1 .. Len(ss) : ss[i] = tt[i]
  PROVE  f[Len(ss)] = g[Len(ss)]
<1>1. Len(ss) \in Nat /\ Len(ss) <= Len(ss) /\ Len(ss) \in 1 .. Len(ss)
  BY LenProperties
<1>2. \A i \in 1 .. Len(ss) : f[i] = g[i]
  BY <1>1, FlatteningsAgree
<1> QED  BY <1>1, <1>2

LEMMA FlattenEmpty == FlattenSeq(<<>>) = <<>>
BY DEF FlattenSeq

LEMMA FlattenType ==
  ASSUME NEW S, NEW ss \in Seq(Seq(S))
  PROVE  FlattenSeq(ss) \in Seq(S)
<1>1. CASE Len(ss) = 0
  <2>1. ss = <<>>
    BY <1>1, EmptySeq
  <2> QED  BY <2>1, FlattenEmpty, EmptySeq
<1>2. CASE Len(ss) # 0
  <2>1. PICK g : Flattening(g, ss) /\ g \in [1 .. Len(ss) -> Seq(S)]
    BY <1>2, FlatteningExists
  <2> DEFINE f == CHOOSE h : Flattening(h, ss)
  <2>2. Flattening(f, ss)
    BY <2>1
  <2>3. Len(ss) \in Nat
    BY LenProperties
  <2> HIDE DEF f
  <2>4. f[Len(ss)] = g[Len(ss)]
    BY <2>1, <2>2, <2>3, <1>2, FlatteningsAgree
  <2>5. FlattenSeq(ss) = f[Len(ss)]
    BY <1>2, FlattenDef DEF f
  <2>6. Len(ss) \in 1 .. Len(ss)
    BY <2>3, <1>2
  <2>7. g[Len(ss)] \in Seq(S)
    BY <2>1, <2>6
  <2> QED  BY <2>4, <2>5, <2>7
<1> QED  BY <1>1, <1>2

LEMMA FlattenAppend ==
  ASSUME NEW S, NEW ss \in Seq(Seq(S)), NEW s \in Seq(S)
  PROVE  FlattenSeq(Append(ss, s)) = FlattenSeq(ss) \o s
<1> DEFINE tt == Append(ss, s)
           n == Len(ss)
<1>1. /\ tt \in Seq(Seq(S)) /\ Len(tt) = n + 1 /\ n \in Nat
      /\ \A i \in 1 .. n : tt[i] = ss[i]
      /\ tt[n + 1] = s
  BY AppendProperties, LenProperties
<1> HIDE DEF tt, n
<1>2. PICK g : Flattening(g, tt)
  BY <1>1, FlatteningExists
<1> DEFINE f == CHOOSE h : Flattening(h, tt)
<1>3. Flattening(f, tt)
  BY <1>2
<1>4. FlattenSeq(tt) = f[n + 1]
  BY <1>1, FlattenDef
<1> HIDE DEF f
<1>5. f[n + 1] = IF n + 1 = 1 THEN tt[n + 1] ELSE f[(n + 1) - 1] \o tt[n + 1]
  <2>1. PICK m \in 1 .. Len(tt) : m = n + 1
    BY <1>1
  <2>2. f[m] = IF m = 1 THEN tt[m] ELSE f[m - 1] \o tt[m]
    BY <1>3, FlatteningStep
  <2> QED  BY <2>1, <2>2
<1>6. CASE n = 0
  <2>1. ss = <<>>
    BY <1>6, EmptySeq DEF n
  <2>2. FlattenSeq(tt) = s
    BY <1>4, <1>5, <1>6, <1>1
  <2> QED  BY <2>1, <2>2, FlattenEmpty, ConcatEmptySeq DEF tt
<1>7. CASE n # 0
  <2>1. PICK h : Flattening(h, ss)
    BY <1>7, FlatteningExists DEF n
  <2> DEFINE k == CHOOSE j : Flattening(j, ss)
  <2>2. Flattening(k, ss)
    BY <2>1
  <2>3. FlattenSeq(ss) = k[n]
    BY <1>7, FlattenDef DEF n
  <2> HIDE DEF k
  <2>4. n <= Len(ss) /\ n <= Len(tt)
    BY <1>1 DEF n
  <2>6. k[n] = f[n]
    <3>1. /\ ss \in Seq(Seq(S)) /\ tt \in Seq(Seq(S)) /\ Len(ss) # 0
          /\ Len(ss) <= Len(tt) /\ \A i \in 1 .. Len(ss) : ss[i] = tt[i]
      BY <1>1, <1>7 DEF n
    <3>2. k[Len(ss)] = f[Len(ss)]
      BY <3>1, <1>3, <2>2, FlatteningsMeet
    <3> QED  BY <3>2 DEF n
  <2> QED  BY <2>3, <2>6, <1>1, <1>4, <1>5, <1>7 DEF tt
<1> QED  BY <1>6, <1>7

LEMMA AllSequences ==
  ASSUME NEW S, NEW T \in SUBSET Seq(S), <<>> \in T,
         \A s \in T, e \in S : Append(s, e) \in T
  PROVE  \A s \in Seq(S) : s \in T
<1> DEFINE N == {n \in Nat : \A s \in Seq(S) : Len(s) = n => s \in T}
<1>1. 0 \in N
  <2> SUFFICES ASSUME NEW s \in Seq(S), Len(s) = 0 PROVE s \in T
    OBVIOUS
  <2>1. s = <<>>
    BY EmptySeq
  <2> QED  BY <2>1
<1>2. ASSUME NEW n \in N PROVE n + 1 \in N
  <2> SUFFICES ASSUME NEW s \in Seq(S), Len(s) = n + 1 PROVE s \in T
    OBVIOUS
  <2>1. s # <<>>
    BY EmptySeq
  <2>2. PICK r \in Seq(S), e \in S : s = Append(r, e)
    BY <2>1, SequenceEmptyOrAppend
  <2>3. Len(s) = Len(r) + 1 /\ Len(r) \in Nat
    BY <2>2, AppendProperties, LenProperties
  <2>4. Len(r) = n
    BY <2>3
  <2>5. r \in T
    BY <2>4
  <2> QED  BY <2>2, <2>5
<1>3. \A n \in Nat : n \in N
  <2>1. N \in SUBSET Nat
    OBVIOUS
  <2> HIDE DEF N
  <2> QED  BY <1>1, <1>2, <2>1, AllNumbers
<1> SUFFICES ASSUME NEW s \in Seq(S) PROVE s \in T
  OBVIOUS
<1>4. Len(s) \in N
  <2> HIDE DEF N
  <2> QED  BY <1>3, LenProperties
<1> QED  BY <1>4

LEMMA FlattenConcat ==
  ASSUME NEW S, NEW ss \in Seq(Seq(S)), NEW tt \in Seq(Seq(S))
  PROVE  FlattenSeq(ss \o tt) = FlattenSeq(ss) \o FlattenSeq(tt)
<1> DEFINE Q(uu) == FlattenSeq(ss \o uu) = FlattenSeq(ss) \o FlattenSeq(uu)
           T == {uu \in Seq(Seq(S)) : Q(uu)}
<1>0. FlattenSeq(ss) \in Seq(S)
  BY FlattenType
<1>1. <<>> \in T
  <2>1. ss \o <<>> = ss /\ <<>> \in Seq(Seq(S))
    BY ConcatEmptySeq, EmptySeq
  <2>2. FlattenSeq(ss) \o <<>> = FlattenSeq(ss)
    BY <1>0, ConcatEmptySeq
  <2>3. Q(<<>>)
    BY <2>1, <2>2, FlattenEmpty
  <2> QED  BY <2>1, <2>3
<1>2. ASSUME NEW uu \in T, NEW e \in Seq(S) PROVE Append(uu, e) \in T
  <2>1. uu \in Seq(Seq(S)) /\ Q(uu)
    OBVIOUS
  <2> HIDE DEF Q
  <2>2. Append(uu, e) \in Seq(Seq(S)) /\ Append(uu, e) = uu \o <<e>>
    BY <2>1, AppendProperties, AppendIsConcat
  <2>3. ss \o uu \in Seq(Seq(S))
    BY <2>1, ConcatProperties
  <2>4. <<e>> \in Seq(Seq(S))
    OBVIOUS
  <2>5. ss \o Append(uu, e) = Append(ss \o uu, e)
    <3>1. ss \o (uu \o <<e>>) = (ss \o uu) \o <<e>>
      BY <2>1, <2>4
    <3>2. Append(ss \o uu, e) = (ss \o uu) \o <<e>>
      BY <2>3, AppendIsConcat
    <3> QED  BY <2>2, <3>1, <3>2
  <2>6. FlattenSeq(Append(ss \o uu, e)) = FlattenSeq(ss \o uu) \o e
    BY <2>3, FlattenAppend
  <2>7. FlattenSeq(Append(uu, e)) = FlattenSeq(uu) \o e
    BY <2>1, FlattenAppend
  <2>8. FlattenSeq(uu) \in Seq(S)
    BY <2>1, FlattenType
  <2>9. (FlattenSeq(ss) \o FlattenSeq(uu)) \o e = FlattenSeq(ss) \o (FlattenSeq(uu) \o e)
    BY <1>0, <2>8
  <2>10. Q(Append(uu, e))
    BY <2>1, <2>5, <2>6, <2>7, <2>9 DEF Q
  <2> QED  BY <2>2, <2>10
<1>3. tt \in T
  <2>1. T \in SUBSET Seq(Seq(S))
    OBVIOUS
  <2> HIDE DEF T
  <2> QED  BY <1>1, <1>2, <2>1, AllSequences
<1> QED  BY <1>3

LEMMA FlattenOne ==
  ASSUME NEW S, NEW s \in Seq(S)
  PROVE  FlattenSeq(<<s>>) = s
<1>1. <<>> \in Seq(Seq(S)) /\ Append(<<>>, s) = <<s>>
  BY EmptySeq
<1>2. FlattenSeq(Append(<<>>, s)) = FlattenSeq(<<>>) \o s
  BY <1>1, FlattenAppend
<1> QED  BY <1>1, <1>2, FlattenEmpty, ConcatEmptySeq

LEMMA FlattenFirst ==
  ASSUME NEW S, NEW ss \in Seq(Seq(S)), ss # <<>>
  PROVE  FlattenSeq(ss) = Head(ss) \o FlattenSeq(Tail(ss))
<1>1. Head(ss) \in Seq(S) /\ Tail(ss) \in Seq(Seq(S))
  BY HeadTailProperties
<1>2. ss = <<Head(ss)>> \o Tail(ss)
  <2>1. Len(ss) \in Nat \ {0}
    BY EmptySeq
  <2>2. SubSeq(ss, 1, Len(ss)) = <<ss[1]>> \o SubSeq(ss, 1 + 1, Len(ss))
    BY <2>1, SubSeqRecursiveFirst
  <2>3. Tail(ss) = SubSeq(ss, 2, Len(ss)) /\ SubSeq(ss, 1, Len(ss)) = ss
    BY TailIsSubSeq, SubSeqFull
  <2>4. Head(ss) = ss[1]
    OBVIOUS
  <2> QED  BY <2>2, <2>3, <2>4
<1>3. <<Head(ss)>> \in Seq(Seq(S))
  BY <1>1
<1>4. FlattenSeq(<<Head(ss)>> \o Tail(ss))
        = FlattenSeq(<<Head(ss)>>) \o FlattenSeq(Tail(ss))
  BY <1>1, <1>3, FlattenConcat
<1>5. FlattenSeq(<<Head(ss)>>) = Head(ss)
  BY <1>1, FlattenOne
<1> QED  BY <1>2, <1>4, <1>5

\* A sequence is put together from its elements.
LEMMA FlattenSingles ==
  ASSUME NEW S, NEW s \in Seq(S)
  PROVE  FlattenSeq([i \in DOMAIN s |-> <<s[i]>>]) = s
<1> DEFINE Single(r) == [i \in DOMAIN r |-> <<r[i]>>]
           T == {r \in Seq(S) : FlattenSeq(Single(r)) = r}
<1>1. <<>> \in T
  <2>1. Single(<<>>) = <<>>
    OBVIOUS
  <2> QED  BY <2>1, FlattenEmpty, EmptySeq
<1>2. ASSUME NEW r \in T, NEW e \in S PROVE Append(r, e) \in T
  <2>1. r \in Seq(S) /\ FlattenSeq(Single(r)) = r
    OBVIOUS
  <2>2. /\ Append(r, e) \in Seq(S) /\ Len(Append(r, e)) = Len(r) + 1
        /\ \A i \in 1 .. Len(r) : Append(r, e)[i] = r[i]
        /\ Append(r, e)[Len(r) + 1] = e
        /\ Append(r, e) = r \o <<e>>
    BY <2>1, AppendProperties, AppendIsConcat
  <2>3. /\ Len(r) \in Nat /\ DOMAIN r = 1 .. Len(r) /\ \A i \in 1 .. Len(r) : r[i] \in S
        /\ DOMAIN Append(r, e) = 1 .. Len(r) + 1
    BY <2>1, <2>2, LenProperties, ElementOfSeq
  <2>4. /\ Single(r) \in Seq(Seq(S)) /\ Len(Single(r)) = Len(r)
        /\ \A i \in 1 .. Len(r) : Single(r)[i] = <<r[i]>>
    BY <2>3
  <2>5. Single(Append(r, e)) = Append(Single(r), <<e>>)
    BY <2>2, <2>3, <2>4
  <2> HIDE DEF Single
  <2>6. <<e>> \in Seq(S)
    OBVIOUS
  <2>7. FlattenSeq(Append(Single(r), <<e>>)) = FlattenSeq(Single(r)) \o <<e>>
    BY <2>4, <2>6, FlattenAppend
  <2> QED  BY <2>1, <2>2, <2>5, <2>7
<1>3. s \in T
  <2>1. T \in SUBSET Seq(S)
    OBVIOUS
  <2> HIDE DEF T
  <2> QED  BY <1>1, <1>2, <2>1, AllSequences
<1> QED  BY <1>3

-----------------------------------------------------------------------------
(* What is written: the types of fields and of their encodings.            *)

Byte == {c \in Cell : c.of = "cipher" \/ c.value \in Nat}

Of == {"u8", "u16", "u32", "net", "utf8", "utf16", "cipher", "byte"}

Texts == {"utf8", "utf16", "sz_utf8", "encrypted"}

Item ==
  [kind : {"u16", "u32"}, value : {<<n>> : n \in Nat}]
    \cup [kind : Texts, value : {<<t>> : t \in Text}]
    \cup [kind : {"bytes"}, value : Seq(Nat)]
    \cup [kind : {"meta"}, value : Seq(Text \X Text)]

LEMMA ItemCases ==
  ASSUME NEW f \in Item
  PROVE  \/ \E n \in Nat : f = [kind |-> "u16", value |-> <<n>>]
         \/ \E n \in Nat : f = [kind |-> "u32", value |-> <<n>>]
         \/ \E t \in Text : f = [kind |-> "utf8", value |-> <<t>>]
         \/ \E t \in Text : f = [kind |-> "utf16", value |-> <<t>>]
         \/ \E t \in Text : f = [kind |-> "sz_utf8", value |-> <<t>>]
         \/ \E t \in Text : f = [kind |-> "encrypted", value |-> <<t>>]
         \/ \E d \in Seq(Nat) : f = [kind |-> "bytes", value |-> d]
         \/ \E kv \in Seq(Text \X Text) : f = [kind |-> "meta", value |-> kv]
<1>1. CASE f \in [kind : {"u16", "u32"}, value : {<<n>> : n \in Nat}]
  <2>1. f = [kind |-> f.kind, value |-> f.value] /\ f.kind \in {"u16", "u32"}
    BY <1>1
  <2>2. PICK n \in Nat : f.value = <<n>>
    BY <1>1
  <2> QED  BY <2>1, <2>2
<1>2. CASE f \in [kind : Texts, value : {<<t>> : t \in Text}]
  <2>1. f = [kind |-> f.kind, value |-> f.value] /\ f.kind \in Texts
    BY <1>2
  <2>2. PICK t \in Text : f.value = <<t>>
    BY <1>2
  <2> QED  BY <2>1, <2>2 DEF Texts
<1>3. CASE f \in [kind : {"bytes"}, value : Seq(Nat)]
  BY <1>3
<1>4. CASE f \in [kind : {"meta"}, value : Seq(Text \X Text)]
  BY <1>4
<1> QED  BY <1>1, <1>2, <1>3, <1>4 DEF Item

LEMMA FieldIsItem ==
  ASSUME NEW f \in Field PROVE f \in Item
BY StreamsAssumption DEF Field, Item, Texts

LEMMA CellsProperties ==
  ASSUME NEW of \in Of, NEW v \in Int, of = "cipher" \/ v \in Nat, NEW n \in Nat
  PROVE  /\ Cells(of, v, n) \in Seq(Byte) /\ Len(Cells(of, v, n)) = n
         /\ \A i \in 1 .. n : Cells(of, v, n)[i] = [of |-> of, value |-> v, at |-> i]
<1>1. \A i \in 1 .. n : [of |-> of, value |-> v, at |-> i] \in Byte
  BY DEF Byte, Cell, Of
<1>2. Cells(of, v, n) \in [1 .. n -> Byte]
  BY <1>1 DEF Cells
<1>3. Cells(of, v, n) \in Seq(Byte)
  BY <1>2
<1>4. \A i \in 1 .. n : Cells(of, v, n)[i] = [of |-> of, value |-> v, at |-> i]
  BY DEF Cells
<1>5. Len(Cells(of, v, n)) = n
  <2>1. DOMAIN Cells(of, v, n) = 1 .. n
    BY DEF Cells
  <2> HIDE DEF Cells
  <2> QED  BY <1>3, <2>1, LenProperties
<1> QED  BY <1>3, <1>4, <1>5

LEMMA U32Properties ==
  ASSUME NEW n \in Nat
  PROVE  /\ U32(n) \in Seq(Byte) /\ Len(U32(n)) = 4
         /\ \A i \in 1 .. 4 : U32(n)[i] = [of |-> "u32", value |-> n, at |-> i]
<1>1. "u32" \in Of /\ n \in Int /\ 4 \in Nat
  BY DEF Of
<1>2. /\ Cells("u32", n, 4) \in Seq(Byte) /\ Len(Cells("u32", n, 4)) = 4
      /\ \A i \in 1 .. 4 : Cells("u32", n, 4)[i] = [of |-> "u32", value |-> n, at |-> i]
  BY <1>1, CellsProperties
<1> QED  BY <1>2 DEF U32

LEMMA TextFacts ==
  ASSUME NEW t \in Text
  PROVE  /\ TextLength[t] \in Nat /\ t \in Nat /\ (TextLength[t] = 0 <=> t = 0)
         /\ 0 \in Text
BY StreamsAssumption

\* The bytes of a block cipher are whole blocks, and as many as its length says.
LEMMA PaddedProperties ==
  ASSUME NEW n \in Nat
  PROVE  /\ Padded(n) \in Nat /\ Padded(n) >= n
         /\ BlockLength(Padded(n)) \in Nat
         /\ 2 * BlockLength(Padded(n)) - 4 = Padded(n)
         /\ n = 0 => Padded(n) = 0
<1> DEFINE q == (n + Block - 1) \div Block
<1>1. Block \in Nat /\ Block >= 1 /\ Block % 2 = 0
  BY StreamsAssumption
<1>2. q \in Nat
  BY <1>1
<1>3. q * Block >= n
  <2>1. n + Block - 1 < (q + 1) * Block
    BY <1>1
  <2>2. (q + 1) * Block = q * Block + Block
    BY <1>1, <1>2
  <2>3. q * Block \in Nat
    BY <1>1, <1>2
  <2> HIDE DEF q
  <2> QED  BY <1>1, <2>1, <2>2, <2>3
<1>4. n = 0 => q = 0
  BY <1>1
<1>5. PICK k \in Nat : Block = 2 * k
  <2>1. Block = 2 * (Block \div 2) /\ Block \div 2 \in Nat
    BY <1>1
  <2> QED  BY <2>1
<1> HIDE DEF q
<1>6. q * Block = 2 * (q * k) /\ q * k \in Nat
  BY <1>2, <1>5
<1>7. Padded(n) = q * Block
  BY DEF Padded, q
<1>8. BlockLength(Padded(n)) = q * k + 2
  <2> DEFINE p == q * k
  <2>1. p \in Nat /\ Padded(n) = 2 * p
    BY <1>6, <1>7
  <2> HIDE DEF p
  <2>2. (Padded(n) + 4) \div 2 = p + 2
    BY <2>1
  <2> QED  BY <2>2 DEF BlockLength, p
<1>9. q = 0 => q * Block = 0
  BY <1>1
<1> DEFINE p == q * k
<1>10. p \in Nat /\ q * Block = 2 * p /\ BlockLength(Padded(n)) = p + 2
  BY <1>6, <1>8
<1> HIDE DEF p
<1> QED  BY <1>3, <1>4, <1>7, <1>9, <1>10

\* A text: its length, and its characters.
LEMMA UtfProperties ==
  ASSUME NEW kind \in {"utf8", "utf16"}, NEW t \in Text
  PROVE  /\ Width[kind] \in {1, 2} /\ Width[kind] * TextLength[t] \in Nat
         /\ Utf(kind, t) \in Seq(Byte)
         /\ Len(Utf(kind, t)) = 4 + Width[kind] * TextLength[t]
         /\ \A i \in 1 .. 4 :
              Utf(kind, t)[i] = [of |-> "u32", value |-> TextLength[t], at |-> i]
         /\ \A i \in 1 .. Width[kind] * TextLength[t] :
              Utf(kind, t)[4 + i] = [of |-> kind, value |-> t, at |-> i]
<1> DEFINE n == TextLength[t]
           w == Width[kind] * n
           u == U32(n)
           c == Cells(kind, t, w)
<1>1. n \in Nat /\ t \in Nat
  BY TextFacts
<1>2. Width[kind] \in {1, 2}
  BY DEF Width
<1>3. w \in Nat
  <2> HIDE DEF n
  <2> QED  BY <1>1, <1>2
<1>4. kind \in Of /\ t \in Int
  BY <1>1 DEF Of
<1> HIDE DEF n, w
<1>5. /\ c \in Seq(Byte) /\ Len(c) = w
      /\ \A i \in 1 .. w : c[i] = [of |-> kind, value |-> t, at |-> i]
  BY <1>1, <1>3, <1>4, CellsProperties
<1>6. /\ u \in Seq(Byte) /\ Len(u) = 4
      /\ \A i \in 1 .. 4 : u[i] = [of |-> "u32", value |-> n, at |-> i]
  BY <1>1, U32Properties
<1>7. Utf(kind, t) = u \o c
  BY DEF Utf, n, w
<1> HIDE DEF u, c
<1>8. /\ u \o c \in Seq(Byte) /\ Len(u \o c) = Len(u) + Len(c)
      /\ \A i \in 1 .. Len(u) + Len(c) :
           (u \o c)[i] = IF i <= Len(u) THEN u[i] ELSE c[i - Len(u)]
  BY <1>5, <1>6, ConcatProperties
<1>9. ASSUME NEW i \in 1 .. 4
      PROVE  (u \o c)[i] = [of |-> "u32", value |-> n, at |-> i]
  BY <1>3, <1>5, <1>6, <1>8
<1>10. ASSUME NEW i \in 1 .. w
       PROVE  (u \o c)[4 + i] = [of |-> kind, value |-> t, at |-> i]
  <2>1. 4 + i \in 1 .. Len(u) + Len(c) /\ ~(4 + i <= Len(u)) /\ (4 + i) - Len(u) = i
    BY <1>3, <1>5, <1>6
  <2> QED  BY <2>1, <1>5, <1>8
<1>11. Len(u \o c) = 4 + w
  BY <1>5, <1>6, <1>8
<1> QED  BY <1>2, <1>3, <1>7, <1>8, <1>9, <1>10, <1>11 DEF n, w

LEMMA TerminatedProperties ==
  ASSUME NEW t \in Text
  PROVE  /\ Terminated(t) \in Seq(Byte)
         /\ Len(Terminated(t)) = TextLength[t] + 1
         /\ \A i \in 1 .. TextLength[t] :
              Terminated(t)[i] = [of |-> "utf8", value |-> t, at |-> i]
         /\ Terminated(t)[TextLength[t] + 1] = [of |-> "u8", value |-> 0, at |-> 1]
<1> DEFINE n == TextLength[t]
           c == Cells("utf8", t, n)
           z == Cells("u8", 0, 1)
<1>1. n \in Nat /\ t \in Nat
  BY TextFacts
<1>2. "utf8" \in Of /\ "u8" \in Of /\ t \in Int /\ 0 \in Int /\ 1 \in Nat
  BY <1>1 DEF Of
<1> HIDE DEF n
<1>3. /\ c \in Seq(Byte) /\ Len(c) = n
      /\ \A i \in 1 .. n : c[i] = [of |-> "utf8", value |-> t, at |-> i]
  BY <1>1, <1>2, CellsProperties
<1>4. /\ z \in Seq(Byte) /\ Len(z) = 1
      /\ \A i \in 1 .. 1 : z[i] = [of |-> "u8", value |-> 0, at |-> i]
  BY <1>2, CellsProperties
<1>5. Terminated(t) = c \o z
  BY DEF Terminated, n
<1> HIDE DEF c, z
<1>6. /\ c \o z \in Seq(Byte) /\ Len(c \o z) = Len(c) + Len(z)
      /\ \A i \in 1 .. Len(c) + Len(z) :
           (c \o z)[i] = IF i <= Len(c) THEN c[i] ELSE z[i - Len(c)]
  BY <1>3, <1>4, ConcatProperties
<1>7. ASSUME NEW i \in 1 .. n
      PROVE  (c \o z)[i] = [of |-> "utf8", value |-> t, at |-> i]
  BY <1>1, <1>3, <1>4, <1>6
<1>8. (c \o z)[n + 1] = [of |-> "u8", value |-> 0, at |-> 1]
  <2>1. n + 1 \in 1 .. Len(c) + Len(z) /\ ~(n + 1 <= Len(c)) /\ (n + 1) - Len(c) = 1
    BY <1>1, <1>3, <1>4
  <2>2. 1 \in 1 .. 1
    OBVIOUS
  <2> QED  BY <2>1, <2>2, <1>4, <1>6
<1>9. Len(c \o z) = n + 1
  BY <1>3, <1>4, <1>6
<1> QED  BY <1>5, <1>6, <1>7, <1>8, <1>9 DEF n

\* The cipher of a text is its own only where the text fills its blocks.
LEMMA EncryptedProperties ==
  ASSUME NEW t \in Text, NEW e \in Encrypted(t)
  PROVE  \E c \in {t, Junk} :
           LET size == 2 * TextLength[t]
           IN  /\ Aligned(t) => c = t
               /\ size \in Nat
               /\ e \in Seq(Byte) /\ Len(e) = 8 + Padded(size)
               /\ \A i \in 1 .. 4 :
                    e[i] = [of |-> "u32", value |-> BlockLength(Padded(size)), at |-> i]
               /\ \A i \in 1 .. 4 : e[4 + i] = [of |-> "u32", value |-> size, at |-> i]
               /\ \A i \in 1 .. Padded(size) :
                    e[8 + i] = [of |-> "cipher", value |-> c, at |-> i]
<1> DEFINE size == 2 * TextLength[t]
           p == Padded(size)
           u == U32(BlockLength(p))
           v == U32(size)
<1>1. PICK c \in {t, Junk} : /\ Aligned(t) => c = t
                             /\ e = u \o v \o Cells("cipher", c, p)
  BY DEF Encrypted
<1> DEFINE w == Cells("cipher", c, p)
<1>2. TextLength[t] \in Nat /\ t \in Nat
  BY TextFacts
<1>3. size \in Nat
  BY <1>2
<1> HIDE DEF size
<1>4. p \in Nat /\ BlockLength(p) \in Nat
  BY <1>3, PaddedProperties
<1>5. "cipher" \in Of /\ c \in Int
  BY <1>1, <1>2 DEF Of, Junk
<1> HIDE DEF p
<1>6. /\ w \in Seq(Byte) /\ Len(w) = p
      /\ \A i \in 1 .. p : w[i] = [of |-> "cipher", value |-> c, at |-> i]
  BY <1>4, <1>5, CellsProperties
<1>7. /\ u \in Seq(Byte) /\ Len(u) = 4
      /\ \A i \in 1 .. 4 : u[i] = [of |-> "u32", value |-> BlockLength(p), at |-> i]
  BY <1>4, U32Properties
<1>8. /\ v \in Seq(Byte) /\ Len(v) = 4
      /\ \A i \in 1 .. 4 : v[i] = [of |-> "u32", value |-> size, at |-> i]
  BY <1>3, U32Properties
<1> HIDE DEF u, v, w
<1>9. /\ u \o v \in Seq(Byte) /\ Len(u \o v) = Len(u) + Len(v)
      /\ \A i \in 1 .. Len(u) + Len(v) :
           (u \o v)[i] = IF i <= Len(u) THEN u[i] ELSE v[i - Len(u)]
  BY <1>7, <1>8, ConcatProperties
<1> DEFINE h == u \o v
<1>10. /\ h \in Seq(Byte) /\ Len(h) = 8
       /\ \A i \in 1 .. 4 : h[i] = [of |-> "u32", value |-> BlockLength(p), at |-> i]
       /\ \A i \in 1 .. 4 : h[4 + i] = [of |-> "u32", value |-> size, at |-> i]
  <2>1. \A i \in 1 .. 4 : h[i] = u[i]
    BY <1>7, <1>8, <1>9
  <2>2. ASSUME NEW i \in 1 .. 4 PROVE h[4 + i] = v[i]
    <3>1. 4 + i \in 1 .. Len(u) + Len(v) /\ ~(4 + i <= Len(u)) /\ (4 + i) - Len(u) = i
      BY <1>7, <1>8
    <3> QED  BY <3>1, <1>9
  <2> QED  BY <2>1, <2>2, <1>7, <1>8, <1>9
<1>11. e = h \o w
  BY <1>1 DEF w
<1> HIDE DEF h
<1>12. /\ h \o w \in Seq(Byte) /\ Len(h \o w) = Len(h) + Len(w)
       /\ \A i \in 1 .. Len(h) + Len(w) :
            (h \o w)[i] = IF i <= Len(h) THEN h[i] ELSE w[i - Len(h)]
  <2>1. h \in Seq(Byte) /\ w \in Seq(Byte)
    BY <1>6, <1>10
  <2> QED  BY <2>1, ConcatProperties
<1>13. ASSUME NEW i \in 1 .. 4 PROVE e[i] = h[i] /\ e[4 + i] = h[4 + i]
  <2>1. i \in 1 .. Len(h) + Len(w) /\ i <= Len(h)
    BY <1>4, <1>6, <1>10
  <2>2. 4 + i \in 1 .. Len(h) + Len(w) /\ 4 + i <= Len(h)
    BY <1>4, <1>6, <1>10
  <2> QED  BY <2>1, <2>2, <1>11, <1>12
<1>14. ASSUME NEW i \in 1 .. p PROVE e[8 + i] = w[i]
  <2>1. 8 + i \in 1 .. Len(h) + Len(w) /\ ~(8 + i <= Len(h)) /\ (8 + i) - Len(h) = i
    BY <1>4, <1>6, <1>10
  <2> QED  BY <2>1, <1>11, <1>12
<1>15. e \in Seq(Byte) /\ Len(e) = 8 + p
  BY <1>6, <1>10, <1>11, <1>12
<1> QED  BY <1>1, <1>3, <1>6, <1>10, <1>13, <1>14, <1>15 DEF size, p

LEMMA BytesProperties ==
  ASSUME NEW d \in Seq(Nat)
  PROVE  /\ Bytes(d) \in Seq(Byte) /\ Len(Bytes(d)) = 4 + Len(d) /\ Len(d) \in Nat
         /\ \A i \in 1 .. 4 : Bytes(d)[i] = [of |-> "u32", value |-> Len(d), at |-> i]
         /\ \A i \in 1 .. Len(d) :
              Bytes(d)[4 + i] = [of |-> "byte", value |-> d[i], at |-> 1]
<1> DEFINE n == Len(d)
           u == U32(n)
           c == [i \in 1 .. n |-> [of |-> "byte", value |-> d[i], at |-> 1]]
<1>1. n \in Nat /\ \A i \in 1 .. n : d[i] \in Nat
  BY LenProperties, ElementOfSeq
<1> HIDE DEF n
<1>2. \A i \in 1 .. n : [of |-> "byte", value |-> d[i], at |-> 1] \in Byte
  BY <1>1 DEF Byte, Cell
<1>3. c \in Seq(Byte) /\ DOMAIN c = 1 .. n
  <2>1. c \in [1 .. n -> Byte]
    BY <1>2
  <2> QED  BY <1>1, <2>1
<1>4. \A i \in 1 .. n : c[i] = [of |-> "byte", value |-> d[i], at |-> 1]
  OBVIOUS
<1>5. /\ u \in Seq(Byte) /\ Len(u) = 4
      /\ \A i \in 1 .. 4 : u[i] = [of |-> "u32", value |-> n, at |-> i]
  BY <1>1, U32Properties
<1>6. Bytes(d) = u \o c
  BY DEF Bytes, n
<1> HIDE DEF u, c
<1>7. Len(c) = n
  BY <1>1, <1>3, LenProperties
<1>8. /\ u \o c \in Seq(Byte) /\ Len(u \o c) = Len(u) + Len(c)
      /\ \A i \in 1 .. Len(u) + Len(c) :
           (u \o c)[i] = IF i <= Len(u) THEN u[i] ELSE c[i - Len(u)]
  BY <1>3, <1>5, ConcatProperties
<1>9. ASSUME NEW i \in 1 .. 4 PROVE (u \o c)[i] = u[i]
  <2>1. i \in 1 .. Len(u) + Len(c) /\ i <= Len(u)
    BY <1>1, <1>5, <1>7
  <2> QED  BY <2>1, <1>8
<1>10. ASSUME NEW i \in 1 .. n PROVE (u \o c)[4 + i] = c[i]
  <2>1. 4 + i \in 1 .. Len(u) + Len(c) /\ ~(4 + i <= Len(u)) /\ (4 + i) - Len(u) = i
    BY <1>1, <1>5, <1>7
  <2> QED  BY <2>1, <1>8
<1>11. Len(u \o c) = 4 + n
  BY <1>5, <1>7, <1>8
<1> QED  BY <1>1, <1>4, <1>5, <1>6, <1>8, <1>9, <1>10, <1>11 DEF n

LEMMA EncodingType ==
  ASSUME NEW f \in Item, f.kind # "meta", NEW e \in Encodings(f)
  PROVE  e \in Seq(Byte) /\ Len(e) \in Nat /\ Len(e) >= 1
<1>1. CASE \E n \in Nat : f = [kind |-> "u16", value |-> <<n>>]
  <2>1. PICK n \in Nat : f = [kind |-> "u16", value |-> <<n>>]
    BY <1>1
  <2>2. e = Cells("u16", n, 2)
    BY <2>1 DEF Encodings
  <2>3. "u16" \in Of /\ n \in Int /\ 2 \in Nat
    BY DEF Of
  <2>4. Cells("u16", n, 2) \in Seq(Byte) /\ Len(Cells("u16", n, 2)) = 2
    BY <2>3, CellsProperties
  <2> QED  BY <2>2, <2>4
<1>2. CASE \E n \in Nat : f = [kind |-> "u32", value |-> <<n>>]
  <2>1. PICK n \in Nat : f = [kind |-> "u32", value |-> <<n>>]
    BY <1>2
  <2>2. e = U32(n)
    BY <2>1 DEF Encodings
  <2>3. U32(n) \in Seq(Byte) /\ Len(U32(n)) = 4
    BY U32Properties
  <2> QED  BY <2>2, <2>3
<1>3. CASE \E t \in Text : f = [kind |-> "utf8", value |-> <<t>>]
  <2>1. PICK t \in Text : f = [kind |-> "utf8", value |-> <<t>>]
    BY <1>3
  <2>2. e = Utf("utf8", t)
    BY <2>1 DEF Encodings
  <2>3. /\ Utf("utf8", t) \in Seq(Byte) /\ Width["utf8"] * TextLength[t] \in Nat
        /\ Len(Utf("utf8", t)) = 4 + Width["utf8"] * TextLength[t]
    BY UtfProperties
  <2> QED  BY <2>2, <2>3
<1>4. CASE \E t \in Text : f = [kind |-> "utf16", value |-> <<t>>]
  <2>1. PICK t \in Text : f = [kind |-> "utf16", value |-> <<t>>]
    BY <1>4
  <2>2. e = Utf("utf16", t)
    BY <2>1 DEF Encodings
  <2>3. /\ Utf("utf16", t) \in Seq(Byte) /\ Width["utf16"] * TextLength[t] \in Nat
        /\ Len(Utf("utf16", t)) = 4 + Width["utf16"] * TextLength[t]
    BY UtfProperties
  <2> QED  BY <2>2, <2>3
<1>5. CASE \E t \in Text : f = [kind |-> "sz_utf8", value |-> <<t>>]
  <2>1. PICK t \in Text : f = [kind |-> "sz_utf8", value |-> <<t>>]
    BY <1>5
  <2>2. e = Terminated(t)
    BY <2>1 DEF Encodings
  <2>3. /\ Terminated(t) \in Seq(Byte) /\ Len(Terminated(t)) = TextLength[t] + 1
        /\ TextLength[t] \in Nat
    BY TerminatedProperties, TextFacts
  <2> QED  BY <2>2, <2>3
<1>6. CASE \E t \in Text : f = [kind |-> "encrypted", value |-> <<t>>]
  <2>1. PICK t \in Text : f = [kind |-> "encrypted", value |-> <<t>>]
    BY <1>6
  <2>2. e \in Encrypted(t)
    BY <2>1 DEF Encodings
  <2> DEFINE size == 2 * TextLength[t]
  <2>3. e \in Seq(Byte) /\ Len(e) = 8 + Padded(size) /\ size \in Nat
    BY <2>2, EncryptedProperties
  <2>4. Padded(size) \in Nat
    <3> HIDE DEF size
    <3> QED  BY <2>3, PaddedProperties
  <2> QED  BY <2>3, <2>4
<1>7. CASE \E d \in Seq(Nat) : f = [kind |-> "bytes", value |-> d]
  <2>1. PICK d \in Seq(Nat) : f = [kind |-> "bytes", value |-> d]
    BY <1>7
  <2>2. e = Bytes(d)
    BY <2>1 DEF Encodings
  <2>3. Bytes(d) \in Seq(Byte) /\ Len(Bytes(d)) = 4 + Len(d) /\ Len(d) \in Nat
    BY BytesProperties
  <2> QED  BY <2>2, <2>3
<1> QED  BY <1>1, <1>2, <1>3, <1>4, <1>5, <1>6, <1>7, ItemCases

-----------------------------------------------------------------------------
(* Encodings of several fields, one after the other.                       *)

Encodes(es, items) ==
  /\ es \in Seq(Seq(Byte)) /\ items \in Seq(Item) /\ Len(es) = Len(items)
  /\ \A i \in 1 .. Len(items) : es[i] \in Encodings(items[i])

LEMMA EncodesConcat ==
  ASSUME NEW es, NEW x, Encodes(es, x), NEW et, NEW y, Encodes(et, y)
  PROVE  Encodes(es \o et, x \o y)
<1>1. /\ es \in Seq(Seq(Byte)) /\ et \in Seq(Seq(Byte)) /\ x \in Seq(Item) /\ y \in Seq(Item)
      /\ Len(es) = Len(x) /\ Len(et) = Len(y)
  BY DEF Encodes
<1>2. Len(x) \in Nat /\ Len(y) \in Nat
  BY <1>1, LenProperties
<1>3. /\ x \o y \in Seq(Item) /\ Len(x \o y) = Len(x) + Len(y)
      /\ \A i \in 1 .. Len(x) + Len(y) :
           (x \o y)[i] = IF i <= Len(x) THEN x[i] ELSE y[i - Len(x)]
  BY <1>1, ConcatProperties
<1>4. /\ es \o et \in Seq(Seq(Byte)) /\ Len(es \o et) = Len(es) + Len(et)
      /\ \A i \in 1 .. Len(es) + Len(et) :
           (es \o et)[i] = IF i <= Len(es) THEN es[i] ELSE et[i - Len(es)]
  BY <1>1, ConcatProperties
<1>5. ASSUME NEW i \in 1 .. Len(x \o y)
      PROVE  (es \o et)[i] \in Encodings((x \o y)[i])
  <2>1. CASE i <= Len(x)
    <3>1. i \in 1 .. Len(x) /\ i \in 1 .. Len(x) + Len(y)
      BY <2>1, <1>2, <1>3
    <3>2. (es \o et)[i] = es[i] /\ (x \o y)[i] = x[i]
      BY <3>1, <2>1, <1>1, <1>3, <1>4
    <3> QED  BY <3>1, <3>2 DEF Encodes
  <2>2. CASE ~(i <= Len(x))
    <3>1. i - Len(x) \in 1 .. Len(y) /\ i \in 1 .. Len(x) + Len(y)
      BY <2>2, <1>2, <1>3
    <3>2. (es \o et)[i] = et[i - Len(x)] /\ (x \o y)[i] = y[i - Len(x)]
      BY <3>1, <2>2, <1>1, <1>3, <1>4
    <3> QED  BY <3>1, <3>2 DEF Encodes
  <2> QED  BY <2>1, <2>2
<1>6. Len(es \o et) = Len(x \o y)
  BY <1>1, <1>3, <1>4
<1> QED  BY <1>3, <1>4, <1>5, <1>6 DEF Encodes

LEMMA EncodesOne ==
  ASSUME NEW f \in Item, NEW e \in Seq(Byte), e \in Encodings(f)
  PROVE  Encodes(<<e>>, <<f>>)
BY DEF Encodes

LEMMA EncodesNone == Encodes(<<>>, <<>>)
BY EmptySeq DEF Encodes

LEMMA EncodesFirst ==
  ASSUME NEW es, NEW x, Encodes(es, x), x # <<>>
  PROVE  /\ es # <<>> /\ Head(es) \in Encodings(Head(x)) /\ Head(es) \in Seq(Byte)
         /\ Head(x) \in Item /\ Encodes(Tail(es), Tail(x))
<1>1. /\ es \in Seq(Seq(Byte)) /\ x \in Seq(Item) /\ Len(es) = Len(x)
  BY DEF Encodes
<1>2. Len(x) \in Nat /\ Len(x) >= 1
  BY <1>1, EmptySeq
<1>3. es # <<>>
  BY <1>1, <1>2
<1>4. Head(es) = es[1] /\ Head(x) = x[1]
  BY <1>1, <1>3
<1>5. es[1] \in Encodings(x[1])
  BY <1>2 DEF Encodes
<1>6. /\ Tail(es) \in Seq(Seq(Byte)) /\ Len(Tail(es)) = Len(es) - 1
      /\ \A i \in 1 .. Len(Tail(es)) : Tail(es)[i] = es[i + 1]
      /\ Head(es) \in Seq(Byte)
  BY <1>1, <1>3, HeadTailProperties
<1>7. /\ Tail(x) \in Seq(Item) /\ Len(Tail(x)) = Len(x) - 1
      /\ \A i \in 1 .. Len(Tail(x)) : Tail(x)[i] = x[i + 1]
      /\ Head(x) \in Item
  BY <1>1, HeadTailProperties
<1>8. ASSUME NEW i \in 1 .. Len(Tail(x)) PROVE Tail(es)[i] \in Encodings(Tail(x)[i])
  <2>1. i + 1 \in 1 .. Len(x) /\ i \in 1 .. Len(Tail(es))
    BY <1>1, <1>2, <1>6, <1>7
  <2>2. es[i + 1] \in Encodings(x[i + 1])
    BY <2>1 DEF Encodes
  <2> QED  BY <2>1, <2>2, <1>6, <1>7
<1>9. Len(Tail(es)) = Len(Tail(x))
  BY <1>1, <1>6, <1>7
<1>10. Encodes(Tail(es), Tail(x))
  BY <1>6, <1>7, <1>8, <1>9 DEF Encodes
<1> QED  BY <1>3, <1>4, <1>5, <1>6, <1>7, <1>10

-----------------------------------------------------------------------------
(* A list of keys and values is written as its parts.                      *)

MetaField(kv) == [kind |-> "meta", value |-> kv]

Count(kv) == [kind |-> "u32", value |-> <<Len(kv)>>]

Strings(kv, c) == [i \in 1 .. Len(kv) |-> [kind |-> "utf16", value |-> <<kv[i][c]>>]]

LEMMA MetaParts ==
  ASSUME NEW kv
  PROVE  Parts(MetaField(kv))
           = ((<<Count(kv)>> \o Strings(kv, 1)) \o <<Count(kv)>>) \o Strings(kv, 2)
BY DEF Parts, MetaField, Count, Strings

LEMMA CountIsItem ==
  ASSUME NEW kv \in Seq(Text \X Text)
  PROVE  /\ Len(kv) \in Nat /\ Count(kv) \in Item
         /\ Encodings(Count(kv)) = {U32(Len(kv))}
<1>1. Len(kv) \in Nat
  BY LenProperties
<1>2. Count(kv) \in Item
  BY <1>1 DEF Count, Item
<1>3. Encodings(Count(kv)) = {U32(Len(kv))}
  BY DEF Count, Encodings
<1> QED  BY <1>1, <1>2, <1>3

LEMMA ColumnEncodes ==
  ASSUME NEW kv \in Seq(Text \X Text), NEW c \in {1, 2}
  PROVE  Encodes([i \in 1 .. Len(kv) |-> Utf("utf16", kv[i][c])], Strings(kv, c))
<1> DEFINE n == Len(kv)
           es == [i \in 1 .. n |-> Utf("utf16", kv[i][c])]
           x == Strings(kv, c)
<1>1. n \in Nat /\ \A i \in 1 .. n : kv[i][c] \in Text
  <2>1. n \in Nat /\ \A i \in 1 .. n : kv[i] \in Text \X Text
    BY LenProperties, ElementOfSeq
  <2> HIDE DEF n
  <2> QED  BY <2>1
<1>2. x = [i \in 1 .. n |-> [kind |-> "utf16", value |-> <<kv[i][c]>>]]
  BY DEF Strings
<1> HIDE DEF n, x
<1>3. \A i \in 1 .. n : Utf("utf16", kv[i][c]) \in Seq(Byte)
  BY <1>1, UtfProperties
<1>4. es \in [1 .. n -> Seq(Byte)]
  BY <1>3
<1>5. es \in Seq(Seq(Byte)) /\ DOMAIN es = 1 .. n
  BY <1>1, <1>4
<1>6. \A i \in 1 .. n : [kind |-> "utf16", value |-> <<kv[i][c]>>] \in Item
  BY <1>1 DEF Item, Texts
<1>7. x \in [1 .. n -> Item]
  BY <1>2, <1>6
<1>8. x \in Seq(Item) /\ DOMAIN x = 1 .. n
  BY <1>1, <1>7
<1>9. Len(es) = n /\ Len(x) = n
  <2>1. Len(x) = n
    BY <1>1, <1>8, LenProperties
  <2> HIDE DEF es
  <2>2. Len(es) = n
    BY <1>1, <1>5, LenProperties
  <2> QED  BY <2>1, <2>2
<1>10. ASSUME NEW i \in 1 .. n PROVE es[i] \in Encodings(x[i])
  <2>1. es[i] = Utf("utf16", kv[i][c]) /\ x[i] = [kind |-> "utf16", value |-> <<kv[i][c]>>]
    BY <1>2
  <2>2. Encodings([kind |-> "utf16", value |-> <<kv[i][c]>>]) = {Utf("utf16", kv[i][c])}
    BY DEF Encodings
  <2> QED  BY <2>1, <2>2
<1> QED  BY <1>5, <1>8, <1>9, <1>10 DEF Encodes, n, x

LEMMA SerializedEncodes ==
  ASSUME NEW kv \in Seq(Text \X Text)
  PROVE  \E es : /\ Encodes(es, Parts(MetaField(kv)))
                 /\ Serialized(kv) = FlattenSeq(es)
<1> DEFINE n == Len(kv)
           u == U32(n)
           col(c) == [i \in 1 .. n |-> Utf("utf16", kv[i][c])]
           a == <<u>> \o col(1)
           b == a \o <<u>>
           es == b \o col(2)
<1>1. u \in Seq(Byte) /\ u \in Encodings(Count(kv)) /\ Count(kv) \in Item
  BY CountIsItem, U32Properties
<1>2. Encodes(<<u>>, <<Count(kv)>>)
  BY <1>1, EncodesOne
<1>3. Encodes(col(1), Strings(kv, 1)) /\ Encodes(col(2), Strings(kv, 2))
  BY ColumnEncodes
<1>4. Serialized(kv) = ((u \o FlattenSeq(col(1))) \o u) \o FlattenSeq(col(2))
  BY DEF Serialized, Column
<1> HIDE DEF u, col
<1>5. Encodes(a, <<Count(kv)>> \o Strings(kv, 1))
  BY <1>2, <1>3, EncodesConcat
<1>6. FlattenSeq(<<u>>) = u /\ <<u>> \in Seq(Seq(Byte))
  BY <1>1, FlattenOne
<1>7. col(1) \in Seq(Seq(Byte)) /\ col(2) \in Seq(Seq(Byte))
  BY <1>3 DEF Encodes
<1>8. FlattenSeq(a) = u \o FlattenSeq(col(1))
  BY <1>6, <1>7, FlattenConcat
<1> HIDE DEF a
<1>9. Encodes(b, (<<Count(kv)>> \o Strings(kv, 1)) \o <<Count(kv)>>)
  BY <1>2, <1>5, EncodesConcat
<1>10. a \in Seq(Seq(Byte))
  BY <1>5 DEF Encodes
<1>11. FlattenSeq(b) = FlattenSeq(a) \o u
  BY <1>6, <1>10, FlattenConcat
<1> HIDE DEF b
<1>12. Encodes(es, ((<<Count(kv)>> \o Strings(kv, 1)) \o <<Count(kv)>>) \o Strings(kv, 2))
  BY <1>3, <1>9, EncodesConcat
<1>13. b \in Seq(Seq(Byte))
  BY <1>9 DEF Encodes
<1>14. FlattenSeq(es) = FlattenSeq(b) \o FlattenSeq(col(2))
  BY <1>7, <1>13, FlattenConcat
<1> QED  BY <1>4, <1>8, <1>11, <1>12, <1>14, MetaParts

-----------------------------------------------------------------------------
(* What a reader should find, and the kinds it reads.                      *)

PartsOf(x) == [i \in DOMAIN x |-> Parts(x[i])]

Meant(x) == FlattenSeq(PartsOf(x))

Kinds(x) == [i \in DOMAIN x |-> x[i].kind]

Plain(x) == \A i \in DOMAIN x : x[i].kind # "meta"

LEMMA PlainConcat ==
  ASSUME NEW x \in Seq(Item), NEW y \in Seq(Item), Plain(x), Plain(y)
  PROVE  Plain(x \o y)
<1>1. /\ x \o y \in Seq(Item) /\ Len(x \o y) = Len(x) + Len(y)
      /\ \A i \in 1 .. Len(x) + Len(y) :
           (x \o y)[i] = IF i <= Len(x) THEN x[i] ELSE y[i - Len(x)]
  BY ConcatProperties
<1>2. /\ Len(x) \in Nat /\ Len(y) \in Nat /\ DOMAIN x = 1 .. Len(x)
      /\ DOMAIN y = 1 .. Len(y)
  BY LenProperties
<1>3. DOMAIN (x \o y) = 1 .. Len(x) + Len(y)
  BY <1>1, LenProperties
<1> SUFFICES ASSUME NEW i \in 1 .. Len(x) + Len(y) PROVE (x \o y)[i].kind # "meta"
  BY <1>3 DEF Plain
<1>4. CASE i <= Len(x)
  <2>1. i \in DOMAIN x
    BY <1>2, <1>4
  <2> QED  BY <2>1, <1>1, <1>4 DEF Plain
<1>5. CASE ~(i <= Len(x))
  <2>1. i - Len(x) \in DOMAIN y
    BY <1>2, <1>5
  <2> QED  BY <2>1, <1>1, <1>5 DEF Plain
<1> QED  BY <1>4, <1>5

LEMMA PartsPlain ==
  ASSUME NEW f \in Item, f.kind # "meta"
  PROVE  Parts(f) = <<f>>
BY DEF Parts

LEMMA MetaItem ==
  ASSUME NEW f \in Item, f.kind = "meta"
  PROVE  \E kv \in Seq(Text \X Text) : f = MetaField(kv)
BY ItemCases DEF MetaField

LEMMA PartsType ==
  ASSUME NEW f \in Item
  PROVE  Parts(f) \in Seq(Item) /\ Plain(Parts(f))
<1>1. CASE f.kind # "meta"
  <2>1. Parts(f) = <<f>>
    BY <1>1, PartsPlain
  <2> QED  BY <2>1, <1>1 DEF Plain
<1>2. CASE f.kind = "meta"
  <2>1. PICK kv \in Seq(Text \X Text) : f = MetaField(kv)
    BY <1>2, MetaItem
  <2> DEFINE a == <<Count(kv)>> \o Strings(kv, 1)
             b == a \o <<Count(kv)>>
  <2>2. Parts(f) = b \o Strings(kv, 2)
    BY <2>1, MetaParts
  <2>3. Count(kv) \in Item
    BY CountIsItem
  <2>4. <<Count(kv)>> \in Seq(Item) /\ Plain(<<Count(kv)>>)
    BY <2>3 DEF Plain, Count
  <2>5. Strings(kv, 1) \in Seq(Item) /\ Strings(kv, 2) \in Seq(Item)
    BY ColumnEncodes DEF Encodes
  <2>6. Plain(Strings(kv, 1)) /\ Plain(Strings(kv, 2))
    BY DEF Plain, Strings
  <2>7. a \in Seq(Item) /\ Plain(a)
    BY <2>4, <2>5, <2>6, ConcatProperties, PlainConcat
  <2> HIDE DEF a
  <2>8. b \in Seq(Item) /\ Plain(b)
    BY <2>4, <2>7, ConcatProperties, PlainConcat
  <2> HIDE DEF b
  <2>9. b \o Strings(kv, 2) \in Seq(Item) /\ Plain(b \o Strings(kv, 2))
    BY <2>5, <2>6, <2>8, ConcatProperties, PlainConcat
  <2> QED  BY <2>2, <2>9
<1> QED  BY <1>1, <1>2

LEMMA PartsOfType ==
  ASSUME NEW x \in Seq(Item)
  PROVE  PartsOf(x) \in Seq(Seq(Item)) /\ Len(PartsOf(x)) = Len(x)
<1>1. /\ Len(x) \in Nat /\ DOMAIN x = 1 .. Len(x) /\ \A i \in 1 .. Len(x) : x[i] \in Item
  BY LenProperties, ElementOfSeq
<1>2. PartsOf(x) \in [1 .. Len(x) -> Seq(Item)]
  BY <1>1, PartsType DEF PartsOf
<1>3. PartsOf(x) \in Seq(Seq(Item)) /\ DOMAIN PartsOf(x) = 1 .. Len(x)
  BY <1>1, <1>2
<1> QED  BY <1>1, <1>3, LenProperties

LEMMA MeantType ==
  ASSUME NEW x \in Seq(Item) PROVE Meant(x) \in Seq(Item)
BY PartsOfType, FlattenType DEF Meant

LEMMA PartsOfConcat ==
  ASSUME NEW x \in Seq(Item), NEW y \in Seq(Item)
  PROVE  PartsOf(x \o y) = PartsOf(x) \o PartsOf(y)
<1>1. /\ x \o y \in Seq(Item) /\ Len(x \o y) = Len(x) + Len(y)
      /\ \A i \in 1 .. Len(x) + Len(y) :
           (x \o y)[i] = IF i <= Len(x) THEN x[i] ELSE y[i - Len(x)]
  BY ConcatProperties
<1>2. /\ Len(x) \in Nat /\ Len(y) \in Nat /\ DOMAIN x = 1 .. Len(x)
      /\ DOMAIN y = 1 .. Len(y)
  BY LenProperties
<1>3. DOMAIN (x \o y) = 1 .. Len(x) + Len(y)
  BY <1>1, LenProperties
<1>4. /\ PartsOf(x) \in Seq(Seq(Item)) /\ Len(PartsOf(x)) = Len(x)
      /\ PartsOf(y) \in Seq(Seq(Item)) /\ Len(PartsOf(y)) = Len(y)
      /\ PartsOf(x \o y) \in Seq(Seq(Item)) /\ Len(PartsOf(x \o y)) = Len(x) + Len(y)
  BY <1>1, PartsOfType
<1>5. /\ PartsOf(x) \o PartsOf(y) \in Seq(Seq(Item))
      /\ Len(PartsOf(x) \o PartsOf(y)) = Len(x) + Len(y)
      /\ \A i \in 1 .. Len(x) + Len(y) :
           (PartsOf(x) \o PartsOf(y))[i]
             = IF i <= Len(x) THEN PartsOf(x)[i] ELSE PartsOf(y)[i - Len(x)]
  <2>1. PartsOf(x) \in Seq(Seq(Item)) /\ PartsOf(y) \in Seq(Seq(Item))
    BY <1>4
  <2>2. /\ PartsOf(x) \o PartsOf(y) \in Seq(Seq(Item))
        /\ Len(PartsOf(x) \o PartsOf(y)) = Len(PartsOf(x)) + Len(PartsOf(y))
        /\ \A i \in 1 .. Len(PartsOf(x)) + Len(PartsOf(y)) :
             (PartsOf(x) \o PartsOf(y))[i]
               = IF i <= Len(PartsOf(x)) THEN PartsOf(x)[i]
                 ELSE PartsOf(y)[i - Len(PartsOf(x))]
    BY <2>1, ConcatProperties
  <2>3. Len(PartsOf(x)) = Len(x) /\ Len(PartsOf(y)) = Len(y)
    BY <1>4
  <2> QED  BY <2>2, <2>3
<1>6. ASSUME NEW i \in 1 .. Len(x) + Len(y)
      PROVE  PartsOf(x \o y)[i] = (PartsOf(x) \o PartsOf(y))[i]
  <2>1. PartsOf(x \o y)[i] = Parts((x \o y)[i])
    BY <1>3 DEF PartsOf
  <2>2. CASE i <= Len(x)
    <3>1. i \in DOMAIN x
      BY <1>2, <2>2
    <3>2. PartsOf(x)[i] = Parts(x[i])
      BY <3>1 DEF PartsOf
    <3> QED  BY <2>1, <2>2, <3>2, <1>1, <1>5
  <2>3. CASE ~(i <= Len(x))
    <3>1. i - Len(x) \in DOMAIN y
      BY <1>2, <2>3
    <3>2. PartsOf(y)[i - Len(x)] = Parts(y[i - Len(x)])
      BY <3>1 DEF PartsOf
    <3> QED  BY <2>1, <2>3, <3>2, <1>1, <1>5
  <2> QED  BY <2>2, <2>3
<1> QED  BY <1>4, <1>5, <1>6, SeqEqual

LEMMA MeantConcat ==
  ASSUME NEW x \in Seq(Item), NEW y \in Seq(Item)
  PROVE  Meant(x \o y) = Meant(x) \o Meant(y)
<1>1. PartsOf(x) \in Seq(Seq(Item)) /\ PartsOf(y) \in Seq(Seq(Item))
  BY PartsOfType
<1>2. FlattenSeq(PartsOf(x) \o PartsOf(y)) = FlattenSeq(PartsOf(x)) \o FlattenSeq(PartsOf(y))
  BY <1>1, FlattenConcat
<1> QED  BY <1>2, PartsOfConcat DEF Meant

LEMMA MeantPlain ==
  ASSUME NEW x \in Seq(Item), Plain(x)
  PROVE  Meant(x) = x
<1>1. \A i \in DOMAIN x : x[i] \in Item
  BY LenProperties, ElementOfSeq
<1>2. \A i \in DOMAIN x : Parts(x[i]) = <<x[i]>>
  BY <1>1, PartsPlain DEF Plain
<1>3. PartsOf(x) = [i \in DOMAIN x |-> <<x[i]>>]
  BY <1>2 DEF PartsOf
<1> QED  BY <1>3, FlattenSingles DEF Meant

LEMMA SplitFirst ==
  ASSUME NEW S, NEW x \in Seq(S), x # <<>>
  PROVE  /\ Head(x) \in S /\ Tail(x) \in Seq(S) /\ <<Head(x)>> \in Seq(S)
         /\ x = <<Head(x)>> \o Tail(x)
         /\ Len(x) \in Nat /\ Len(x) >= 1 /\ Head(x) = x[1]
<1>1. Len(x) \in Nat \ {0}
  BY EmptySeq
<1>2. SubSeq(x, 1, Len(x)) = <<x[1]>> \o SubSeq(x, 1 + 1, Len(x))
  BY <1>1, SubSeqRecursiveFirst
<1>3. Tail(x) = SubSeq(x, 2, Len(x)) /\ SubSeq(x, 1, Len(x)) = x
  BY TailIsSubSeq, SubSeqFull
<1>4. Head(x) = x[1]
  OBVIOUS
<1>5. Head(x) \in S /\ Tail(x) \in Seq(S)
  BY HeadTailProperties
<1> QED  BY <1>1, <1>2, <1>3, <1>4, <1>5

LEMMA MeantFirst ==
  ASSUME NEW x \in Seq(Item), x # <<>>
  PROVE  Meant(x) = Parts(Head(x)) \o Meant(Tail(x))
<1>1. /\ Head(x) \in Item /\ Tail(x) \in Seq(Item) /\ <<Head(x)>> \in Seq(Item)
      /\ x = <<Head(x)>> \o Tail(x)
  BY SplitFirst
<1>2. Meant(<<Head(x)>> \o Tail(x)) = Meant(<<Head(x)>>) \o Meant(Tail(x))
  BY <1>1, MeantConcat
<1>3. Meant(<<Head(x)>>) = Parts(Head(x))
  <2>1. PartsOf(<<Head(x)>>) = <<Parts(Head(x))>>
    BY DEF PartsOf
  <2>2. FlattenSeq(<<Parts(Head(x))>>) = Parts(Head(x))
    BY <1>1, PartsType, FlattenOne
  <2> QED  BY <2>1, <2>2 DEF Meant
<1> QED  BY <1>1, <1>2, <1>3

LEMMA KindsType ==
  ASSUME NEW x \in Seq(Item)
  PROVE  /\ Kinds(x) \in Seq(Kind) /\ Len(Kinds(x)) = Len(x)
         /\ \A i \in 1 .. Len(x) : Kinds(x)[i] = x[i].kind
<1>1. /\ Len(x) \in Nat /\ DOMAIN x = 1 .. Len(x) /\ \A i \in 1 .. Len(x) : x[i] \in Item
  BY LenProperties, ElementOfSeq
<1>2. \A f \in Item : f.kind \in Kind
  BY DEF Item, Kind, Texts
<1>3. Kinds(x) \in [1 .. Len(x) -> Kind]
  BY <1>1, <1>2 DEF Kinds
<1>4. Kinds(x) \in Seq(Kind) /\ DOMAIN Kinds(x) = 1 .. Len(x)
  BY <1>1, <1>3
<1>5. \A i \in 1 .. Len(x) : Kinds(x)[i] = x[i].kind
  BY <1>1 DEF Kinds
<1> QED  BY <1>1, <1>4, <1>5, LenProperties

LEMMA KindsConcat ==
  ASSUME NEW x \in Seq(Item), NEW y \in Seq(Item)
  PROVE  Kinds(x \o y) = Kinds(x) \o Kinds(y)
<1>1. /\ x \o y \in Seq(Item) /\ Len(x \o y) = Len(x) + Len(y)
      /\ \A i \in 1 .. Len(x) + Len(y) :
           (x \o y)[i] = IF i <= Len(x) THEN x[i] ELSE y[i - Len(x)]
  BY ConcatProperties
<1>2. Len(x) \in Nat /\ Len(y) \in Nat
  BY LenProperties
<1>3. /\ Kinds(x) \in Seq(Kind) /\ Len(Kinds(x)) = Len(x)
      /\ \A i \in 1 .. Len(x) : Kinds(x)[i] = x[i].kind
  BY KindsType
<1>4. /\ Kinds(y) \in Seq(Kind) /\ Len(Kinds(y)) = Len(y)
      /\ \A i \in 1 .. Len(y) : Kinds(y)[i] = y[i].kind
  BY KindsType
<1>5. /\ Kinds(x \o y) \in Seq(Kind) /\ Len(Kinds(x \o y)) = Len(x) + Len(y)
      /\ \A i \in 1 .. Len(x) + Len(y) : Kinds(x \o y)[i] = (x \o y)[i].kind
  BY <1>1, KindsType
<1>6. /\ Kinds(x) \o Kinds(y) \in Seq(Kind)
      /\ Len(Kinds(x) \o Kinds(y)) = Len(x) + Len(y)
      /\ \A i \in 1 .. Len(x) + Len(y) :
           (Kinds(x) \o Kinds(y))[i]
             = IF i <= Len(x) THEN Kinds(x)[i] ELSE Kinds(y)[i - Len(x)]
  <2>1. Kinds(x) \in Seq(Kind) /\ Kinds(y) \in Seq(Kind)
    BY <1>3, <1>4
  <2>2. /\ Kinds(x) \o Kinds(y) \in Seq(Kind)
        /\ Len(Kinds(x) \o Kinds(y)) = Len(Kinds(x)) + Len(Kinds(y))
        /\ \A i \in 1 .. Len(Kinds(x)) + Len(Kinds(y)) :
             (Kinds(x) \o Kinds(y))[i]
               = IF i <= Len(Kinds(x)) THEN Kinds(x)[i]
                 ELSE Kinds(y)[i - Len(Kinds(x))]
    BY <2>1, ConcatProperties
  <2>3. Len(Kinds(x)) = Len(x) /\ Len(Kinds(y)) = Len(y)
    BY <1>3, <1>4
  <2> QED  BY <2>2, <2>3
<1>7. ASSUME NEW i \in 1 .. Len(x) + Len(y)
      PROVE  Kinds(x \o y)[i] = (Kinds(x) \o Kinds(y))[i]
  <2>1. CASE i <= Len(x)
    <3>1. i \in 1 .. Len(x)
      BY <1>2, <2>1
    <3> QED  BY <2>1, <3>1, <1>1, <1>3, <1>5, <1>6
  <2>2. CASE ~(i <= Len(x))
    <3>1. i - Len(x) \in 1 .. Len(y)
      BY <1>2, <2>2
    <3> QED  BY <2>2, <3>1, <1>1, <1>4, <1>5, <1>6
  <2> QED  BY <2>1, <2>2
<1> QED  BY <1>5, <1>6, <1>7, SeqEqual

-----------------------------------------------------------------------------
(* Reading: what is left in the stream encodes what is left to be read.    *)

Rest(s, k) == SubSeq(s, k + 1, Len(s))

Left(todo, es, done) ==
  /\ Encodes(es, todo) /\ Regular(todo) /\ done \in Seq(Item)
  /\ Rest(stream, offset) = FlattenSeq(es)
  /\ Len(result) = Len(done) /\ \A i \in 1 .. Len(done) : Same(result[i], done[i])
  /\ Meant(message) = done \o Meant(todo)

Reading(todo, es, done) == Left(todo, es, done) /\ plan = Kinds(todo)

\* The stream and the reader's place in it.
StreamTyped ==
  /\ stream \in Seq(Byte) /\ offset \in 0 .. Len(stream)
  /\ plan \in Seq(Kind) /\ result \in Seq(Value)

LEMMA SplitRest ==
  ASSUME NEW S, NEW s \in Seq(S), NEW k \in 0 .. Len(s), NEW e \in Seq(S), NEW r \in Seq(S),
         Rest(s, k) = e \o r
  PROVE  /\ Len(e) \in Nat /\ k + Len(e) \in 0 .. Len(s)
         /\ \A i \in 1 .. Len(e) : s[k + i] = e[i]
         /\ Rest(s, k + Len(e)) = r
<1> DEFINE m == Len(e)
           n == Len(s)
           o == Len(r)
<1>1. m \in Nat /\ n \in Nat /\ o \in Nat /\ k \in Nat /\ k <= n
  BY LenProperties
<1>2. \A i \in k + 1 .. n : s[i] \in S
  <2>1. \A i \in 1 .. n : s[i] \in S
    BY ElementOfSeq
  <2> HIDE DEF n
  <2> QED  BY <2>1, <1>1
<1>3. /\ Len(SubSeq(s, k + 1, n)) = IF k + 1 <= n THEN n - (k + 1) + 1 ELSE 0
      /\ \A i \in 1 .. n - (k + 1) + 1 : SubSeq(s, k + 1, n)[i] = s[(k + 1) + i - 1]
  <2>1. k + 1 \in Int /\ n \in Int
    BY <1>1
  <2> HIDE DEF n
  <2> QED  BY <1>2, <2>1, SubSeqProperties
<1>4. /\ Len(e \o r) = m + o
      /\ \A i \in 1 .. m + o : (e \o r)[i] = IF i <= m THEN e[i] ELSE r[i - m]
  BY ConcatProperties
<1>5. SubSeq(s, k + 1, n) = e \o r
  BY DEF Rest
<1> HIDE DEF m, n, o
<1>6. n - k = m + o
  <2>1. (IF k + 1 <= n THEN n - (k + 1) + 1 ELSE 0) = n - k
    BY <1>1
  <2> QED  BY <2>1, <1>3, <1>4, <1>5
<1>7. ASSUME NEW i \in 1 .. n - k PROVE s[k + i] = (e \o r)[i]
  <2>1. i \in 1 .. n - (k + 1) + 1 /\ (k + 1) + i - 1 = k + i
    BY <1>1
  <2> QED  BY <2>1, <1>3, <1>5
<1>8. ASSUME NEW i \in 1 .. m PROVE s[k + i] = e[i]
  <2>1. i \in 1 .. n - k /\ i \in 1 .. m + o /\ i <= m
    BY <1>1, <1>6
  <2> QED  BY <2>1, <1>4, <1>7
<1>9. SubSeq(s, k + m + 1, n) = r
  <2> DEFINE t == SubSeq(s, k + m + 1, n)
  <2>1. /\ t \in Seq(S)
        /\ Len(t) = IF k + m + 1 <= n THEN n - (k + m + 1) + 1 ELSE 0
        /\ \A i \in 1 .. n - (k + m + 1) + 1 : t[i] = s[(k + m + 1) + i - 1]
    <3>1. k + m + 1 \in Int /\ n \in Int
      BY <1>1
    <3>2. \A i \in k + m + 1 .. n : s[i] \in S
      BY <1>1, <1>2
    <3> QED  BY <3>1, <3>2, SubSeqProperties
  <2> HIDE DEF t
  <2>2. Len(t) = o
    BY <1>1, <1>6, <2>1
  <2>3. ASSUME NEW i \in 1 .. o PROVE t[i] = r[i]
    <3>1. i \in 1 .. n - (k + m + 1) + 1 /\ (k + m + 1) + i - 1 = k + (m + i)
      BY <1>1, <1>6
    <3>2. m + i \in 1 .. n - k /\ m + i \in 1 .. m + o /\ ~(m + i <= m) /\ (m + i) - m = i
      BY <1>1, <1>6
    <3>3. t[i] = s[k + (m + i)]
      BY <2>1, <3>1
    <3> QED  BY <3>2, <3>3, <1>4, <1>7
  <2>4. t = r
    BY <2>1, <2>2, <2>3, SeqEqual DEF o
  <2> QED  BY <2>4 DEF t
<1>10. k + m \in 0 .. n
  BY <1>1, <1>6
<1>11. Rest(s, k + m) = r
  BY <1>9 DEF Rest, n
<1> QED  BY <1>1, <1>8, <1>10, <1>11 DEF m, n

\* The next field is at the offset, and after it comes the rest.
LEMMA NextLeft ==
  ASSUME StreamTyped, NEW todo, NEW es, NEW done, Left(todo, es, done), todo # <<>>
  PROVE  /\ Head(todo) \in Item
         /\ Head(es) \in Seq(Byte) /\ Head(es) \in Encodings(Head(todo))
         /\ Encodes(Tail(es), Tail(todo))
         /\ FlattenSeq(Tail(es)) \in Seq(Byte)
         /\ Rest(stream, offset) = Head(es) \o FlattenSeq(Tail(es))
         /\ Len(Head(es)) \in Nat /\ offset + Len(Head(es)) \in 0 .. Len(stream)
         /\ \A i \in 1 .. Len(Head(es)) : stream[offset + i] = Head(es)[i]
         /\ Rest(stream, offset + Len(Head(es))) = FlattenSeq(Tail(es))
<1>1. Encodes(es, todo) /\ todo \in Seq(Item) /\ es \in Seq(Seq(Byte))
  BY DEF Left, Encodes
<1>2. /\ es # <<>> /\ Head(es) \in Encodings(Head(todo)) /\ Head(es) \in Seq(Byte)
      /\ Head(todo) \in Item /\ Encodes(Tail(es), Tail(todo))
  BY <1>1, EncodesFirst
<1>3. FlattenSeq(es) = Head(es) \o FlattenSeq(Tail(es))
  BY <1>1, <1>2, FlattenFirst
<1>4. FlattenSeq(Tail(es)) \in Seq(Byte)
  BY <1>2, FlattenType DEF Encodes
<1>5. Rest(stream, offset) = Head(es) \o FlattenSeq(Tail(es))
  BY <1>3 DEF Left
<1>6. stream \in Seq(Byte) /\ offset \in 0 .. Len(stream)
  BY DEF StreamTyped
<1>7. /\ Len(Head(es)) \in Nat /\ offset + Len(Head(es)) \in 0 .. Len(stream)
      /\ \A i \in 1 .. Len(Head(es)) : stream[offset + i] = Head(es)[i]
      /\ Rest(stream, offset + Len(Head(es))) = FlattenSeq(Tail(es))
  <2> DEFINE e == Head(es)
             r == FlattenSeq(Tail(es))
  <2>1. e \in Seq(Byte) /\ r \in Seq(Byte) /\ Rest(stream, offset) = e \o r
    BY <1>2, <1>4, <1>5
  <2> HIDE DEF e, r
  <2>2. Len(e) \in Nat /\ offset + Len(e) \in 0 .. Len(stream)
    BY <1>6, <2>1, SplitRest
  <2>3. \A i \in 1 .. Len(e) : stream[offset + i] = e[i]
    BY <1>6, <2>1, SplitRest
  <2>4. Rest(stream, offset + Len(e)) = r
    BY <1>6, <2>1, SplitRest
  <2> QED  BY <2>2, <2>3, <2>4 DEF e, r
<1> QED  BY <1>2, <1>4, <1>5, <1>7

\* The kinds that are still to be read: the first, and the others.
LEMMA KindsFirst ==
  ASSUME NEW x \in Seq(Item), x # <<>>
  PROVE  /\ Kinds(x) \in Seq(Kind) /\ Kinds(x) # <<>>
         /\ Head(Kinds(x)) = Head(x).kind /\ Tail(Kinds(x)) = Kinds(Tail(x))
<1>1. /\ Tail(x) \in Seq(Item) /\ <<Head(x)>> \in Seq(Item)
      /\ x = <<Head(x)>> \o Tail(x) /\ Head(x) = x[1]
      /\ Len(x) \in Nat /\ Len(x) >= 1
  BY SplitFirst
<1>2. Kinds(<<Head(x)>> \o Tail(x)) = Kinds(<<Head(x)>>) \o Kinds(Tail(x))
  BY <1>1, KindsConcat
<1>3. Kinds(<<Head(x)>>) = <<Head(x).kind>>
  BY DEF Kinds
<1>4. Kinds(Tail(x)) \in Seq(Kind)
  BY <1>1, KindsType
<1> DEFINE p == Kinds(x)
<1>5. p \in Seq(Kind) /\ Len(p) = Len(x) /\ p[1] = x[1].kind
  <2>1. 1 \in 1 .. Len(x)
    BY <1>1
  <2> QED  BY <2>1, KindsType
<1>6. p = <<Head(x).kind>> \o Kinds(Tail(x))
  BY <1>1, <1>2, <1>3
<1> HIDE DEF p
<1>7. p # <<>>
  BY <1>1, <1>5, EmptySeq
<1>8. /\ p = <<Head(p)>> \o Tail(p) /\ Tail(p) \in Seq(Kind) /\ <<Head(p)>> \in Seq(Kind)
      /\ Head(p) = p[1]
  BY <1>5, <1>7, SplitFirst
<1>9. Head(p) = Head(x).kind
  BY <1>1, <1>5, <1>8
<1>10. <<Head(p)>> \o Kinds(Tail(x)) = <<Head(p)>> \o Tail(p)
  BY <1>6, <1>8, <1>9
<1>11. Kinds(Tail(x)) = Tail(p)
  BY <1>4, <1>8, <1>10, ConcatSimplifications
<1> QED  BY <1>5, <1>7, <1>9, <1>11 DEF p

LEMMA RegularTail ==
  ASSUME NEW x \in Seq(Item), x # <<>>, Regular(x)
  PROVE  Regular(Tail(x)) /\ (Head(x).kind = "meta" => Len(Head(x).value) <= MaxKeys)
<1>1. /\ Len(Tail(x)) = Len(x) - 1 /\ Tail(x) \in Seq(Item)
      /\ \A i \in 1 .. Len(Tail(x)) : Tail(x)[i] = x[i + 1]
  BY HeadTailProperties
<1>2. Len(x) \in Nat /\ Len(x) >= 1 /\ Head(x) = x[1]
  BY SplitFirst
<1>3. DOMAIN Tail(x) = 1 .. Len(Tail(x)) /\ DOMAIN x = 1 .. Len(x)
  BY <1>1, LenProperties
<1>4. \A i \in DOMAIN Tail(x) : i + 1 \in DOMAIN x /\ Tail(x)[i] = x[i + 1]
  BY <1>1, <1>2, <1>3
<1>5. 1 \in DOMAIN x
  BY <1>2, <1>3
<1> QED  BY <1>2, <1>4, <1>5 DEF Regular

LEMMA RegularConcat ==
  ASSUME NEW x \in Seq(Item), NEW y \in Seq(Item), Plain(x), Regular(y)
  PROVE  Regular(x \o y)
<1>1. Len(x) \in Nat /\ Len(y) \in Nat /\ DOMAIN x = 1 .. Len(x) /\ DOMAIN y = 1 .. Len(y)
  BY LenProperties
<1>2. /\ x \o y \in Seq(Item) /\ Len(x \o y) = Len(x) + Len(y)
      /\ \A i \in 1 .. Len(x) + Len(y) :
           (x \o y)[i] = IF i <= Len(x) THEN x[i] ELSE y[i - Len(x)]
  BY ConcatProperties
<1>3. DOMAIN (x \o y) = 1 .. Len(x) + Len(y)
  BY <1>2, LenProperties
<1> SUFFICES ASSUME NEW i \in DOMAIN (x \o y), (x \o y)[i].kind = "meta"
             PROVE  Len((x \o y)[i].value) <= MaxKeys
  BY DEF Regular
<1>4. CASE i <= Len(x)
  <2>1. i \in DOMAIN x /\ (x \o y)[i] = x[i]
    BY <1>1, <1>2, <1>3, <1>4
  <2> QED  BY <2>1 DEF Plain
<1>5. CASE ~(i <= Len(x))
  <2>1. i - Len(x) \in DOMAIN y /\ (x \o y)[i] = y[i - Len(x)]
    BY <1>1, <1>2, <1>3, <1>5
  <2> QED  BY <2>1 DEF Regular
<1> QED  BY <1>4, <1>5

\* One part of what is to be read is read.
LEMMA PartRead ==
  ASSUME StreamTyped, NEW todo, NEW es, NEW done, Left(todo, es, done), todo # <<>>,
         Head(todo).kind # "meta", result \in Seq(Value), NEW r \in Value,
         Same(r, Head(todo)),
         result' = Append(result, r), offset' = offset + Len(Head(es)),
         UNCHANGED <<stream, message>>
  PROVE  Left(Tail(todo), Tail(es), Append(done, Head(todo)))'
<1> DEFINE f == Head(todo)
<1>1. f \in Item /\ todo \in Seq(Item) /\ done \in Seq(Item)
  BY NextLeft DEF Left, Encodes
<1>2. /\ Tail(todo) \in Seq(Item) /\ <<f>> \in Seq(Item)
      /\ todo = <<f>> \o Tail(todo) /\ Len(todo) \in Nat /\ Len(todo) >= 1
  BY <1>1, SplitFirst
<1>3. Regular(Tail(todo))
  BY <1>1, RegularTail DEF Left
<1>4. /\ Append(done, f) \in Seq(Item) /\ Len(Append(done, f)) = Len(done) + 1
      /\ \A i \in 1 .. Len(done) : Append(done, f)[i] = done[i]
      /\ Append(done, f)[Len(done) + 1] = f /\ Append(done, f) = done \o <<f>>
  BY <1>1, AppendProperties, AppendIsConcat
<1>5. /\ Len(Append(result, r)) = Len(result) + 1
      /\ \A i \in 1 .. Len(result) : Append(result, r)[i] = result[i]
      /\ Append(result, r)[Len(result) + 1] = r
  BY AppendProperties
<1>6. /\ Len(result) = Len(done) /\ \A i \in 1 .. Len(done) : Same(result[i], done[i])
      /\ Len(done) \in Nat
  BY <1>1, LenProperties DEF Left
<1>7. ASSUME NEW i \in 1 .. Len(done) + 1
      PROVE  Same(Append(result, r)[i], Append(done, f)[i])
  <2>1. CASE i <= Len(done)
    <3>1. i \in 1 .. Len(done)
      BY <1>6, <2>1
    <3>2. Append(result, r)[i] = result[i] /\ Append(done, f)[i] = done[i]
      BY <3>1, <1>4, <1>5, <1>6
    <3> QED  BY <3>1, <3>2, <1>6
  <2>2. CASE ~(i <= Len(done))
    <3>1. i = Len(done) + 1
      BY <1>6, <2>2
    <3>2. Append(result, r)[i] = r /\ Append(done, f)[i] = f
      BY <3>1, <1>4, <1>5, <1>6
    <3> QED  BY <3>2
  <2> QED  BY <2>1, <2>2
<1>8. Meant(message) = Append(done, f) \o Meant(Tail(todo))
  <2>1. Meant(todo) = Parts(f) \o Meant(Tail(todo))
    BY <1>1, MeantFirst
  <2>2. Parts(f) = <<f>>
    BY <1>1, PartsPlain
  <2>3. Meant(Tail(todo)) \in Seq(Item)
    BY <1>2, MeantType
  <2>4. (done \o <<f>>) \o Meant(Tail(todo)) = done \o (<<f>> \o Meant(Tail(todo)))
    BY <1>1, <1>2, <2>3
  <2>5. Meant(message) = done \o Meant(todo)
    BY DEF Left
  <2> QED  BY <1>4, <2>1, <2>2, <2>4, <2>5
<1>9. /\ Encodes(Tail(es), Tail(todo))
      /\ Rest(stream, offset + Len(Head(es))) = FlattenSeq(Tail(es))
  BY NextLeft
<1>10. /\ Len(result') = Len(Append(done, f))
       /\ \A i \in 1 .. Len(Append(done, f)) : Same(result'[i], Append(done, f)[i])
  BY <1>4, <1>5, <1>6, <1>7
<1>11. Rest(stream', offset') = FlattenSeq(Tail(es))
  BY <1>9
<1>12. Meant(message)' = Append(done, f) \o Meant(Tail(todo))
  BY <1>8 DEF Meant, PartsOf
<1> QED  BY <1>3, <1>4, <1>9, <1>10, <1>11, <1>12 DEF Left

-----------------------------------------------------------------------------
(* Decoding.                                                               *)

LEMMA AtCells ==
  ASSUME stream \in Seq(Byte), NEW p \in Nat, NEW n \in Nat, p + n <= Len(stream),
         NEW of \in Of, NEW v \in Int, of = "cipher" \/ v \in Nat,
         \A i \in 1 .. n : stream[p + i] = [of |-> of, value |-> v, at |-> i]
  PROVE  At(p, n) = Cells(of, v, n)
<1>1. Len(stream) \in Nat /\ \A i \in 1 .. Len(stream) : stream[i] \in Byte
  BY LenProperties, ElementOfSeq
<1>2. \A i \in p + 1 .. p + n : stream[i] \in Byte
  BY <1>1
<1> DEFINE s == SubSeq(stream, p + 1, p + n)
<1>3. /\ s \in Seq(Byte)
      /\ Len(s) = IF p + 1 <= p + n THEN (p + n) - (p + 1) + 1 ELSE 0
      /\ \A i \in 1 .. (p + n) - (p + 1) + 1 : s[i] = stream[(p + 1) + i - 1]
  <2>1. p + 1 \in Int /\ p + n \in Int
    OBVIOUS
  <2> QED  BY <1>2, <2>1, SubSeqProperties
<1> HIDE DEF s
<1>4. Len(s) = n
  BY <1>3
<1>5. ASSUME NEW i \in 1 .. n PROVE s[i] = [of |-> of, value |-> v, at |-> i]
  <2>1. i \in 1 .. (p + n) - (p + 1) + 1 /\ (p + 1) + i - 1 = p + i
    OBVIOUS
  <2> QED  BY <2>1, <1>3
<1>6. /\ Cells(of, v, n) \in Seq(Byte) /\ Len(Cells(of, v, n)) = n
      /\ \A i \in 1 .. n : Cells(of, v, n)[i] = [of |-> of, value |-> v, at |-> i]
  BY CellsProperties
<1>7. s = Cells(of, v, n)
  BY <1>3, <1>4, <1>5, <1>6, SeqEqual
<1> QED  BY <1>7 DEF At, s

\* A number that was written is read.
LEMMA IntAtRight ==
  ASSUME stream \in Seq(Byte), NEW p \in Nat, NEW n \in Nat, n >= 1, p + n <= Len(stream),
         NEW of \in Of, NEW v \in Nat,
         \A i \in 1 .. n : stream[p + i] = [of |-> of, value |-> v, at |-> i]
  PROVE  IntAt(of, p, n) = v /\ After(p, n) = p + n
<1>1. At(p, n) = Cells(of, v, n)
  BY AtCells
<1>2. /\ Cells(of, v, n) \in Seq(Byte) /\ Len(Cells(of, v, n)) = n
      /\ \A i \in 1 .. n : Cells(of, v, n)[i] = [of |-> of, value |-> v, at |-> i]
  <2>1. v \in Int
    OBVIOUS
  <2> QED  BY <2>1, CellsProperties
<1>3. 1 \in 1 .. n
  OBVIOUS
<1>4. Cells(of, v, n)[1].of = of /\ Cells(of, v, n)[1].value = v
  BY <1>2, <1>3
<1>5. Whole(At(p, n))
  <2> DEFINE c == Cells(of, v, n)
  <2>1. c[1].of = of /\ c[1].value = v /\ Len(c) = n
    BY <1>2, <1>4
  <2>2. c = Cells(c[1].of, c[1].value, Len(c))
    BY <2>1
  <2> HIDE DEF c
  <2>3. Whole(c)
    BY <2>2 DEF Whole
  <2> QED  BY <1>1, <2>3 DEF c
<1>6. stream[p + 1].of = of /\ stream[p + 1].value = v
  <2>1. stream[p + 1] = [of |-> of, value |-> v, at |-> 1]
    BY <1>3
  <2> QED  BY <2>1
<1>7. ~(p >= Len(stream))
  <2>1. Len(stream) \in Nat
    BY LenProperties
  <2> QED  BY <2>1
<1> QED  BY <1>5, <1>6, <1>7 DEF IntAt, After

LEMMA TextOfRight ==
  ASSUME NEW of \in Of, NEW t \in Text, NEW size \in Nat, size = 0 <=> TextLength[t] = 0
  PROVE  TextOf(of, TextLength[t], Cells(of, t, size)) = t
<1> DEFINE c == Cells(of, t, size)
           texts == {u \in Text : TextLength[u] = TextLength[t] /\ c = Cells(of, u, Len(c))}
<1>1. t \in Nat /\ t \in Int
  BY TextFacts
<1>2. Len(c) = size /\ \A i \in 1 .. size : c[i] = [of |-> of, value |-> t, at |-> i]
  BY <1>1, CellsProperties
<1>3. t \in texts
  BY <1>2
<1>4. ASSUME NEW u \in texts PROVE u = t
  <2>1. u \in Text /\ TextLength[u] = TextLength[t] /\ c = Cells(of, u, size)
    BY <1>2
  <2>2. CASE size = 0
    <3>1. TextLength[t] = 0 /\ TextLength[u] = 0
      BY <2>1, <2>2
    <3> QED  BY <2>1, <3>1, TextFacts
  <2>3. CASE size # 0
    <3>1. 1 \in 1 .. size
      BY <2>3
    <3>2. Cells(of, u, size)[1] = [of |-> of, value |-> u, at |-> 1]
      BY <3>1 DEF Cells
    <3>3. c[1] = [of |-> of, value |-> t, at |-> 1]
      BY <3>1, <1>2
    <3> QED  BY <2>1, <3>2, <3>3
  <2> QED  BY <2>2, <2>3
<1>5. TextOf(of, TextLength[t], c) = IF texts = {} THEN Junk ELSE CHOOSE u \in texts : TRUE
  BY DEF TextOf
<1> HIDE DEF texts
<1>6. (CHOOSE u \in texts : TRUE) \in texts
  BY <1>3
<1> QED  BY <1>3, <1>4, <1>5, <1>6

\* Where the cipher was spoilt, no text comes of it.
LEMMA TextOfSpoilt ==
  ASSUME NEW of \in Of, NEW n, NEW size \in Nat, size # 0
  PROVE  TextOf(of, n, Cells(of, Junk, size)) = Junk
<1> DEFINE c == Cells(of, Junk, size)
<1>1. ASSUME NEW u \in Text, c = Cells(of, u, Len(c)) PROVE FALSE
  <2>1. 1 \in 1 .. size
    OBVIOUS
  <2>2. c[1].value = Junk
    BY <2>1 DEF Cells
  <2>3. DOMAIN c = 1 .. size
    BY DEF Cells
  <2>4. DOMAIN Cells(of, u, Len(c)) = 1 .. Len(c)
    BY DEF Cells
  <2>5. 1 \in 1 .. Len(c)
    BY <1>1, <2>1, <2>3, <2>4
  <2>6. Cells(of, u, Len(c))[1].value = u
    BY <2>5 DEF Cells
  <2>7. u \in Nat
    BY TextFacts
  <2> QED  BY <1>1, <2>2, <2>6, <2>7 DEF Junk
<1> QED  BY <1>1 DEF TextOf

LEMMA ElementTypes ==
  ASSUME stream \in Seq(Byte)
  PROVE  /\ Len(stream) \in Nat
         /\ \A i \in 1 .. Len(stream) :
              /\ stream[i] \in Cell
              /\ stream[i].of # "cipher" => stream[i].value \in Nat
BY LenProperties, ElementOfSeq DEF Byte

\* Whatever is in the stream, a number that is read is one or junk.
LEMMA IntAtType ==
  ASSUME stream \in Seq(Byte), NEW of \in {"u16", "u32"}, NEW p \in Nat, NEW n \in Nat, n >= 1
  PROVE  /\ IntAt(of, p, n) \in Nat \cup {Junk}
         /\ After(p, n) \in Nat /\ After(p, n) >= p
<1>1. Len(stream) \in Nat
  BY LenProperties
<1>2. CASE p >= Len(stream)
  BY <1>2 DEF IntAt, After
<1>3. CASE ~(p >= Len(stream))
  <2>1. p + 1 \in 1 .. Len(stream)
    BY <1>1, <1>3
  <2>2. stream[p + 1].of = of => stream[p + 1].value \in Nat
    BY <2>1, ElementTypes
  <2> QED  BY <1>3, <2>2 DEF IntAt, After
<1> QED  BY <1>2, <1>3

-----------------------------------------------------------------------------
(* Reading the encoding that is at the offset.                             *)

Here(e) ==
  /\ stream \in Seq(Byte) /\ offset \in Nat
  /\ e \in Seq(Byte) /\ Len(e) \in Nat /\ offset + Len(e) <= Len(stream)
  /\ \A i \in 1 .. Len(e) : stream[offset + i] = e[i]

LEMMA U16Here ==
  ASSUME NEW n \in Nat, Here(Cells("u16", n, 2))
  PROVE  /\ Readable("u16") /\ IntAt("u16", offset, 2) = n
         /\ After(offset, 2) = offset + Len(Cells("u16", n, 2))
<1> DEFINE e == Cells("u16", n, 2)
<1>1. "u16" \in Of /\ n \in Int /\ 2 \in Nat /\ 2 >= 1
  BY DEF Of
<1>2. Len(e) = 2 /\ \A i \in 1 .. 2 : e[i] = [of |-> "u16", value |-> n, at |-> i]
  BY <1>1, CellsProperties
<1> HIDE DEF e
<1>3. /\ stream \in Seq(Byte) /\ offset \in Nat /\ offset + 2 <= Len(stream)
      /\ \A i \in 1 .. 2 : stream[offset + i] = [of |-> "u16", value |-> n, at |-> i]
  BY <1>2 DEF Here, e
<1>4. IntAt("u16", offset, 2) = n /\ After(offset, 2) = offset + 2
  BY <1>1, <1>3, IntAtRight
<1>5. Readable("u16")
  BY <1>3, <1>4 DEF Readable
<1> QED  BY <1>2, <1>4, <1>5 DEF e

LEMMA U32Here ==
  ASSUME NEW e, Here(e), Len(e) >= 4, NEW n \in Nat,
         \A i \in 1 .. 4 : e[i] = [of |-> "u32", value |-> n, at |-> i]
  PROVE  U32At(offset) = n /\ Body = offset + 4 /\ Body <= Len(stream) /\ n # Junk
<1>1. "u32" \in Of /\ 4 \in Nat /\ 4 >= 1
  BY DEF Of
<1>2. /\ stream \in Seq(Byte) /\ offset \in Nat /\ offset + 4 <= Len(stream)
      /\ \A i \in 1 .. 4 : stream[offset + i] = [of |-> "u32", value |-> n, at |-> i]
  <2>1. /\ stream \in Seq(Byte) /\ offset \in Nat /\ Len(e) \in Nat
        /\ offset + Len(e) <= Len(stream)
        /\ \A i \in 1 .. Len(e) : stream[offset + i] = e[i]
    BY DEF Here
  <2>2. Len(stream) \in Nat
    BY <2>1, LenProperties
  <2>3. offset + 4 <= Len(stream)
    BY <2>1, <2>2
  <2>4. \A i \in 1 .. 4 : i \in 1 .. Len(e)
    BY <2>1
  <2> QED  BY <2>1, <2>3, <2>4
<1>3. IntAt("u32", offset, 4) = n /\ After(offset, 4) = offset + 4
  BY <1>1, <1>2, IntAtRight
<1>4. n # Junk
  BY DEF Junk
<1> QED  BY <1>2, <1>3, <1>4 DEF U32At, Body

LEMMA UtfHere ==
  ASSUME NEW kind \in {"utf8", "utf16"}, NEW t \in Text, Here(Utf(kind, t))
  PROVE  LET n == U32At(offset)
             size == Width[kind] * n
         IN  /\ Readable(kind)
             /\ TextOf(kind, n, At(Body, size)) = t
             /\ Body + size = offset + Len(Utf(kind, t))
<1>0. /\ Width[kind] \in {1, 2} /\ Width[kind] * TextLength[t] \in Nat
      /\ Utf(kind, t) \in Seq(Byte)
      /\ Len(Utf(kind, t)) = 4 + Width[kind] * TextLength[t]
      /\ \A i \in 1 .. 4 :
           Utf(kind, t)[i] = [of |-> "u32", value |-> TextLength[t], at |-> i]
      /\ \A i \in 1 .. Width[kind] * TextLength[t] :
           Utf(kind, t)[4 + i] = [of |-> kind, value |-> t, at |-> i]
  BY UtfProperties, SMTT(30)
<1> DEFINE e == Utf(kind, t)
           n == TextLength[t]
           size == Width[kind] * n
<1>1. /\ Width[kind] \in {1, 2} /\ size \in Nat /\ e \in Seq(Byte) /\ Len(e) = 4 + size
      /\ \A i \in 1 .. 4 : e[i] = [of |-> "u32", value |-> n, at |-> i]
      /\ \A i \in 1 .. size : e[4 + i] = [of |-> kind, value |-> t, at |-> i]
  BY <1>0, Zenon
<1>2. n \in Nat /\ t \in Nat /\ t \in Int /\ kind \in Of
  BY TextFacts DEF Of
<1>3. size = 0 <=> TextLength[t] = 0
  <2> HIDE DEF n
  <2>1. size = 0 <=> n = 0
    BY <1>1, <1>2
  <2> QED  BY <2>1 DEF n
<1>4. Here(e)
  OBVIOUS
<1> HIDE DEF e, n
<1>5. Len(e) >= 4
  BY <1>1
<1>6. U32At(offset) = n /\ Body = offset + 4 /\ Body <= Len(stream) /\ n # Junk
  BY <1>1, <1>2, <1>4, <1>5, U32Here
<1> HIDE DEF size
<1>7. /\ stream \in Seq(Byte) /\ offset + 4 \in Nat /\ (offset + 4) + size <= Len(stream)
      /\ \A i \in 1 .. size :
           stream[(offset + 4) + i] = [of |-> kind, value |-> t, at |-> i]
  <2>1. /\ stream \in Seq(Byte) /\ offset \in Nat /\ offset + Len(e) <= Len(stream)
        /\ \A i \in 1 .. Len(e) : stream[offset + i] = e[i]
    BY <1>4 DEF Here
  <2>2. (offset + 4) + size <= Len(stream)
    BY <2>1, <1>1
  <2>3. ASSUME NEW i \in 1 .. size
        PROVE  stream[(offset + 4) + i] = [of |-> kind, value |-> t, at |-> i]
    <3>1. 4 + i \in 1 .. Len(e) /\ (offset + 4) + i = offset + (4 + i)
      BY <1>1, <2>1
    <3> QED  BY <1>1, <2>1, <3>1
  <2> QED  BY <2>1, <2>2, <2>3
<1>8. At(offset + 4, size) = Cells(kind, t, size)
  BY <1>1, <1>2, <1>7, AtCells
<1>9. TextOf(kind, TextLength[t], Cells(kind, t, size)) = t
  BY <1>1, <1>2, <1>3, TextOfRight
<1>10. Width[kind] * U32At(offset) = size
  BY <1>6 DEF size
<1>11. Readable(kind)
  BY <1>6, <1>7, <1>10 DEF Readable
<1>12. Body + size = offset + Len(e)
  BY <1>1, <1>4, <1>6 DEF Here
<1>13. TextOf(kind, U32At(offset), At(Body, size)) = t
  BY <1>6, <1>8, <1>9 DEF n
<1> QED  BY <1>10, <1>11, <1>12, <1>13 DEF e

LEMMA MinProperties ==
  ASSUME NEW T \in SUBSET Nat, T # {}
  PROVE  Min(T) \in T /\ \A k \in T : Min(T) <= k
BY Smallest DEF Min

LEMMA TerminatedHere ==
  ASSUME NEW t \in Text, Here(Terminated(t))
  PROVE  LET n == Min(Ends) - 1 - offset
         IN  /\ Readable("sz_utf8")
             /\ TextOf("utf8", n, At(offset, n)) = t
             /\ Min(Ends) = offset + Len(Terminated(t))
<1> DEFINE e == Terminated(t)
           n == TextLength[t]
<1>1. /\ e \in Seq(Byte) /\ Len(e) = n + 1
      /\ \A i \in 1 .. n : e[i] = [of |-> "utf8", value |-> t, at |-> i]
      /\ e[n + 1] = [of |-> "u8", value |-> 0, at |-> 1]
  BY TerminatedProperties
<1>2. n \in Nat /\ t \in Nat /\ t \in Int /\ "utf8" \in Of
  BY TextFacts DEF Of
<1>3. Here(e)
  OBVIOUS
<1> HIDE DEF e, n
<1>4. /\ stream \in Seq(Byte) /\ offset \in Nat /\ offset + (n + 1) <= Len(stream)
      /\ \A i \in 1 .. n : stream[offset + i] = [of |-> "utf8", value |-> t, at |-> i]
      /\ stream[offset + (n + 1)] = [of |-> "u8", value |-> 0, at |-> 1]
      /\ Len(stream) \in Nat
  <2>1. /\ stream \in Seq(Byte) /\ offset \in Nat /\ offset + Len(e) <= Len(stream)
        /\ \A i \in 1 .. Len(e) : stream[offset + i] = e[i]
    BY <1>3 DEF Here
  <2>2. Len(stream) \in Nat
    BY <2>1, LenProperties
  <2>3. n + 1 \in 1 .. Len(e) /\ \A i \in 1 .. n : i \in 1 .. Len(e)
    BY <1>1, <1>2
  <2> QED  BY <1>1, <2>1, <2>2, <2>3
<1> DEFINE m == offset + (n + 1)
<1>5. m \in Ends
  BY <1>2, <1>4 DEF Ends
<1>6. ASSUME NEW k \in offset + 1 .. m - 1 PROVE stream[k].of = "utf8"
  <2>1. k - offset \in 1 .. n /\ offset + (k - offset) = k
    BY <1>2, <1>4
  <2>2. stream[offset + (k - offset)] = [of |-> "utf8", value |-> t, at |-> k - offset]
    BY <1>4, <2>1
  <2> QED  BY <2>1, <2>2
<1>7. \A k \in Ends : m <= k
  <2> SUFFICES ASSUME NEW k \in Ends, ~(m <= k) PROVE FALSE
    OBVIOUS
  <2>1. k \in offset + 1 .. Len(stream) /\ stream[k].of = "u8"
    BY DEF Ends
  <2>2. k \in offset + 1 .. m - 1
    BY <2>1, <1>2, <1>4
  <2> QED  BY <1>6, <2>1, <2>2
<1>8. Ends \in SUBSET Nat /\ Ends # {}
  BY <1>4, <1>5 DEF Ends
<1>9. m \in Nat
  BY <1>2, <1>4
<1>10. Min(Ends) = m
  <2>1. Min(Ends) \in Ends /\ \A k \in Ends : Min(Ends) <= k
    BY <1>8, MinProperties
  <2>2. Min(Ends) <= m /\ m <= Min(Ends) /\ Min(Ends) \in Nat
    BY <2>1, <1>5, <1>7, <1>8
  <2> HIDE DEF m
  <2> QED  BY <2>2, <1>9
<1>11. Readable("sz_utf8")
  BY <1>6, <1>8, <1>10 DEF Readable
<1>12. Min(Ends) - 1 - offset = n
  BY <1>2, <1>4, <1>10
<1>13. At(offset, n) = Cells("utf8", t, n)
  <2>1. offset + n <= Len(stream)
    BY <1>2, <1>4
  <2> QED  BY <1>2, <1>4, <2>1, AtCells
<1>14. TextOf("utf8", TextLength[t], Cells("utf8", t, n)) = t
  <2>1. n = 0 <=> TextLength[t] = 0
    BY DEF n
  <2> QED  BY <1>2, <2>1, TextOfRight
<1>15. Min(Ends) = offset + Len(e)
  BY <1>1, <1>10
<1>16. TextOf("utf8", n, At(offset, n)) = t
  BY <1>13, <1>14 DEF n
<1> QED  BY <1>11, <1>12, <1>15, <1>16 DEF e

LEMMA EncryptedHere ==
  ASSUME NEW t \in Text, NEW e \in Encrypted(t), Here(e)
  PROVE  /\ Readable("encrypted")
         /\ LET v == TextOf("cipher", U32At(Body) \div 2, At(Cipher, EncryptedSize))
            IN  v = t \/ (~Aligned(t) /\ v = Junk)
         /\ Cipher + EncryptedSize = offset + Len(e)
<1> DEFINE size == 2 * TextLength[t]
           p == Padded(size)
           b == BlockLength(p)
<1>1. PICK c \in {t, Junk} :
        /\ Aligned(t) => c = t
        /\ size \in Nat
        /\ e \in Seq(Byte) /\ Len(e) = 8 + p
        /\ \A i \in 1 .. 4 : e[i] = [of |-> "u32", value |-> b, at |-> i]
        /\ \A i \in 1 .. 4 : e[4 + i] = [of |-> "u32", value |-> size, at |-> i]
        /\ \A i \in 1 .. p : e[8 + i] = [of |-> "cipher", value |-> c, at |-> i]
  BY EncryptedProperties
<1>2. TextLength[t] \in Nat /\ t \in Nat /\ "cipher" \in Of /\ "u32" \in Of /\ c \in Int
  BY <1>1, TextFacts DEF Of, Junk
<1>3. size \div 2 = TextLength[t] /\ (size = 0 <=> TextLength[t] = 0)
  BY <1>2
<1>4. Aligned(t) <=> size % Block = 0
  BY DEF Aligned
<1> HIDE DEF size
<1>5. /\ p \in Nat /\ p >= size /\ b \in Nat /\ 2 * b - 4 = p
      /\ size = 0 => p = 0
  BY <1>1, PaddedProperties
<1> HIDE DEF p, b
<1>6. Len(e) >= 4
  BY <1>1, <1>5
<1>7. U32At(offset) = b /\ Body = offset + 4 /\ Body <= Len(stream) /\ b # Junk
  BY <1>1, <1>5, <1>6, U32Here
<1>8. EncryptedSize = p
  BY <1>5, <1>7 DEF EncryptedSize
<1>9. /\ stream \in Seq(Byte) /\ offset \in Nat /\ offset + (8 + p) <= Len(stream)
      /\ \A i \in 1 .. 8 + p : stream[offset + i] = e[i]
  BY <1>1 DEF Here
<1>10. U32At(Body) = size /\ Cipher = offset + 8
  <2> DEFINE q == offset + 4
  <2>1. q \in Nat /\ q + 4 <= Len(stream) /\ 4 \in Nat /\ 4 >= 1 /\ "u32" \in Of
        /\ stream \in Seq(Byte) /\ size \in Nat /\ q + 4 = offset + 8
    BY <1>1, <1>2, <1>5, <1>9
  <2>2. ASSUME NEW i \in 1 .. 4
        PROVE  stream[q + i] = [of |-> "u32", value |-> size, at |-> i]
    <3>1. 4 + i \in 1 .. 8 + p /\ q + i = offset + (4 + i)
      BY <1>5, <1>9
    <3> QED  BY <1>1, <1>9, <3>1
  <2>4. q = offset + 4
    OBVIOUS
  <2> HIDE DEF q
  <2>3. IntAt("u32", q, 4) = size /\ After(q, 4) = q + 4
    BY <2>1, <2>2, IntAtRight
  <2> QED  BY <1>7, <2>1, <2>3, <2>4 DEF U32At, Cipher
<1>11. size # Junk
  BY <1>1 DEF Junk
<1>12. Readable("encrypted")
  <2>1. Cipher + EncryptedSize <= Len(stream)
    BY <1>5, <1>8, <1>9, <1>10
  <2> QED  BY <1>5, <1>7, <1>8, <1>10, <1>11, <2>1 DEF Readable
<1>13. Cipher + EncryptedSize = offset + Len(e)
  BY <1>1, <1>5, <1>8, <1>9, <1>10
<1>14. At(offset + 8, p) = Cells("cipher", c, p)
  <2>1. offset + 8 \in Nat /\ (offset + 8) + p <= Len(stream)
    BY <1>5, <1>9
  <2>2. ASSUME NEW i \in 1 .. p
        PROVE  stream[(offset + 8) + i] = [of |-> "cipher", value |-> c, at |-> i]
    <3>1. 8 + i \in 1 .. 8 + p /\ (offset + 8) + i = offset + (8 + i)
      BY <1>5, <1>9
    <3> QED  BY <1>1, <1>9, <3>1
  <2> QED  BY <1>2, <1>5, <1>9, <2>1, <2>2, AtCells
<1> DEFINE v == TextOf("cipher", TextLength[t], Cells("cipher", c, p))
<1>15. v = t \/ (~Aligned(t) /\ v = Junk)
  <2>1. CASE c = t
    <3>1. p = 0 <=> TextLength[t] = 0
      BY <1>1, <1>2, <1>3, <1>5
    <3> QED  BY <2>1, <3>1, <1>2, <1>5, TextOfRight
  <2>2. CASE c # t
    <3>1. c = Junk /\ ~Aligned(t)
      BY <1>1, <2>2
    <3>2. size # 0
      <4>1. 0 % Block = 0
        BY StreamsAssumption
      <4> QED  BY <1>4, <3>1, <4>1
    <3>3. p # 0
      BY <3>2, <1>1, <1>5
    <3> QED  BY <3>1, <3>3, <1>2, <1>5, TextOfSpoilt
  <2> QED  BY <2>1, <2>2
<1>16. TextOf("cipher", U32At(Body) \div 2, At(Cipher, EncryptedSize)) = v
  BY <1>3, <1>8, <1>10, <1>14
<1> QED  BY <1>12, <1>13, <1>15, <1>16

LEMMA BytesHere ==
  ASSUME NEW d \in Seq(Nat), Here(Bytes(d))
  PROVE  /\ Readable("bytes") /\ U32At(offset) = Len(d)
         /\ \A i \in 1 .. Len(d) : /\ stream[Body + i].of = "byte"
                                   /\ stream[Body + i].value = d[i]
         /\ Body + Len(d) = offset + Len(Bytes(d))
<1> DEFINE e == Bytes(d)
           n == Len(d)
<1>1. /\ e \in Seq(Byte) /\ Len(e) = 4 + n /\ n \in Nat
      /\ \A i \in 1 .. 4 : e[i] = [of |-> "u32", value |-> n, at |-> i]
      /\ \A i \in 1 .. n : e[4 + i] = [of |-> "byte", value |-> d[i], at |-> 1]
  BY BytesProperties
<1>2. Here(e)
  OBVIOUS
<1> HIDE DEF e, n
<1>3. Len(e) >= 4
  BY <1>1
<1>4. U32At(offset) = n /\ Body = offset + 4 /\ Body <= Len(stream) /\ n # Junk
  BY <1>1, <1>2, <1>3, U32Here
<1>5. /\ offset \in Nat /\ offset + (4 + n) <= Len(stream)
      /\ \A i \in 1 .. 4 + n : stream[offset + i] = e[i]
  BY <1>1, <1>2 DEF Here
<1>6. Readable("bytes")
  <2>1. Body + n <= Len(stream)
    BY <1>1, <1>4, <1>5
  <2> QED  BY <1>4, <2>1 DEF Readable
<1>7. ASSUME NEW i \in 1 .. n
      PROVE  stream[Body + i].of = "byte" /\ stream[Body + i].value = d[i]
  <2>1. 4 + i \in 1 .. 4 + n /\ Body + i = offset + (4 + i)
    BY <1>1, <1>4, <1>5
  <2>2. stream[Body + i] = [of |-> "byte", value |-> d[i], at |-> 1]
    BY <1>1, <1>5, <2>1
  <2> QED  BY <2>2
<1>8. Body + n = offset + Len(e)
  BY <1>1, <1>4, <1>5
<1> QED  BY <1>4, <1>6, <1>7, <1>8 DEF e, n

\* A list that is to be read: its parts are to be read, the count first.
LEMMA MetaLeft ==
  ASSUME StreamTyped, NEW todo, NEW es, NEW done, Left(todo, es, done), todo # <<>>,
         NEW kv \in Seq(Text \X Text), Head(todo) = MetaField(kv)
  PROVE  \E rest, er :
           LET strings == [i \in 1 .. Len(kv) |-> "utf16"]
           IN  /\ Left(rest, er, done) /\ rest # <<>>
               /\ Head(rest) = Count(kv) /\ Head(er) = U32(Len(kv))
               /\ Kinds(Tail(rest)) = (strings \o <<"u32">> \o strings) \o Kinds(Tail(todo))
               /\ Len(kv) <= MaxKeys
<1> DEFINE x == Parts(MetaField(kv))
           y == (Strings(kv, 1) \o <<Count(kv)>>) \o Strings(kv, 2)
           strings == [i \in 1 .. Len(kv) |-> "utf16"]
<1>1. /\ Encodes(es, todo) /\ todo \in Seq(Item) /\ es \in Seq(Seq(Byte))
      /\ Regular(todo) /\ done \in Seq(Item)
  BY DEF Left, Encodes
<1>2. /\ Head(es) \in Seq(Byte) /\ Head(es) \in Encodings(Head(todo))
      /\ Encodes(Tail(es), Tail(todo)) /\ Head(todo) \in Item
      /\ es # <<>>
  BY <1>1, EncodesFirst
<1>3. /\ Tail(es) \in Seq(Seq(Byte)) /\ Tail(todo) \in Seq(Item)
  BY <1>2 DEF Encodes
<1>4. Head(es) = Serialized(kv)
  <2>1. Encodings(MetaField(kv)) = {Serialized(kv)}
    BY DEF Encodings, MetaField
  <2> QED  BY <1>2, <2>1
<1>5. PICK ex : Encodes(ex, x) /\ Serialized(kv) = FlattenSeq(ex)
  BY SerializedEncodes
<1>6. x \in Seq(Item) /\ Plain(x)
  <2>1. MetaField(kv) \in Item
    BY <1>2
  <2> QED  BY <2>1, PartsType
<1>7. /\ Strings(kv, 1) \in Seq(Item) /\ Strings(kv, 2) \in Seq(Item)
      /\ Count(kv) \in Item /\ <<Count(kv)>> \in Seq(Item) /\ Len(kv) \in Nat
      /\ Encodings(Count(kv)) = {U32(Len(kv))}
  BY ColumnEncodes, CountIsItem DEF Encodes
<1>8. y \in Seq(Item) /\ Strings(kv, 1) \o <<Count(kv)>> \in Seq(Item)
  BY <1>7, ConcatProperties
<1>9. x = <<Count(kv)>> \o y
  <2> DEFINE a == <<Count(kv)>>
             b == Strings(kv, 1)
             c == Strings(kv, 2)
  <2>1. x = ((a \o b) \o a) \o c
    BY MetaParts
  <2>2. a \in Seq(Item) /\ b \in Seq(Item) /\ c \in Seq(Item)
    BY <1>7
  <2>3. y = (b \o a) \o c
    OBVIOUS
  <2> HIDE DEF a, b, c, x, y
  <2>4. (a \o b) \o a = a \o (b \o a) /\ b \o a \in Seq(Item)
    BY <2>2, ConcatProperties
  <2>5. (a \o (b \o a)) \o c = a \o ((b \o a) \o c)
    BY <2>2, <2>4
  <2> QED  BY <2>1, <2>3, <2>4, <2>5 DEF a
<1>10. Kinds(y) = strings \o <<"u32">> \o strings
  <2>1. Kinds(Strings(kv, 1)) = strings /\ Kinds(Strings(kv, 2)) = strings
    <3>1. ASSUME NEW c \in {1, 2} PROVE Kinds(Strings(kv, c)) = strings
      <4>1. DOMAIN Strings(kv, c) = 1 .. Len(kv)
        BY DEF Strings
      <4>2. \A i \in 1 .. Len(kv) : Strings(kv, c)[i].kind = "utf16"
        BY DEF Strings
      <4> QED  BY <4>1, <4>2 DEF Kinds
    <3> QED  BY <3>1
  <2>2. Kinds(<<Count(kv)>>) = <<"u32">>
    BY DEF Kinds, Count
  <2>3. Kinds(Strings(kv, 1) \o <<Count(kv)>>) = Kinds(Strings(kv, 1)) \o Kinds(<<Count(kv)>>)
    BY <1>7, KindsConcat
  <2>4. Kinds(y) = Kinds(Strings(kv, 1) \o <<Count(kv)>>) \o Kinds(Strings(kv, 2))
    BY <1>7, <1>8, KindsConcat
  <2> QED  BY <2>1, <2>2, <2>3, <2>4
<1> HIDE DEF x, y, strings
<1> DEFINE rest == x \o Tail(todo)
           er == ex \o Tail(es)
<1>11. Encodes(er, rest) /\ rest \in Seq(Item) /\ er \in Seq(Seq(Byte))
  <2>1. Encodes(er, rest)
    BY <1>2, <1>5, EncodesConcat
  <2> HIDE DEF er, rest
  <2> QED  BY <2>1 DEF Encodes
<1>12. rest = <<Count(kv)>> \o (y \o Tail(todo)) /\ y \o Tail(todo) \in Seq(Item)
  <2>1. (<<Count(kv)>> \o y) \o Tail(todo) = <<Count(kv)>> \o (y \o Tail(todo))
    <3>1. \A a, b, c \in Seq(Item) : (a \o b) \o c = a \o (b \o c)
      OBVIOUS
    <3>2. PICK a \in Seq(Item), b \in Seq(Item), c \in Seq(Item) :
            a = <<Count(kv)>> /\ b = y /\ c = Tail(todo)
      BY <1>3, <1>7, <1>8
    <3>3. (a \o b) \o c = a \o (b \o c)
      BY <3>1
    <3> QED  BY <3>2, <3>3
  <2> QED  BY <2>1, <1>3, <1>8, <1>9, ConcatProperties
<1>13. FlattenSeq(er) = FlattenSeq(es)
  <2>1. ex \in Seq(Seq(Byte))
    BY <1>5 DEF Encodes
  <2>2. FlattenSeq(er) = FlattenSeq(ex) \o FlattenSeq(Tail(es))
    BY <1>3, <2>1, FlattenConcat
  <2>3. FlattenSeq(es) = Head(es) \o FlattenSeq(Tail(es))
    BY <1>1, <1>2, FlattenFirst
  <2> QED  BY <2>2, <2>3, <1>4, <1>5
<1>14. Regular(Tail(todo)) /\ Len(kv) <= MaxKeys
  <2>1. Head(todo).kind = "meta" /\ Head(todo).value = kv
    BY DEF MetaField
  <2> QED  BY <1>1, <2>1, RegularTail
<1>15. Regular(rest)
  BY <1>3, <1>6, <1>14, RegularConcat
<1>16. Meant(rest) = Meant(todo)
  <2>1. Meant(rest) = Meant(x) \o Meant(Tail(todo))
    BY <1>3, <1>6, MeantConcat
  <2>2. Meant(x) = x
    BY <1>6, MeantPlain
  <2>3. Meant(todo) = Parts(Head(todo)) \o Meant(Tail(todo))
    BY <1>1, MeantFirst
  <2> QED  BY <2>1, <2>2, <2>3 DEF x
<1> HIDE DEF rest, er
<1>17. Left(rest, er, done)
  BY <1>11, <1>13, <1>15, <1>16 DEF Left
<1>18. /\ rest # <<>> /\ Head(rest) = Count(kv) /\ Tail(rest) = y \o Tail(todo)
  <2> DEFINE z == y \o Tail(todo)
  <2>1. rest = <<Count(kv)>> \o z /\ z \in Seq(Item)
    BY <1>12
  <2> HIDE DEF z
  <2>2. /\ Len(rest) = 1 + Len(z) /\ Len(z) \in Nat /\ rest[1] = Count(kv)
    BY <1>7, <2>1, ConcatProperties, LenProperties
  <2>3. rest # <<>>
    BY <2>2
  <2>4. Head(rest) = rest[1]
    BY <1>11, <2>3
  <2>5. /\ rest = <<Head(rest)>> \o Tail(rest) /\ Tail(rest) \in Seq(Item)
    BY <1>11, <2>3, SplitFirst
  <2>6. <<Count(kv)>> \o Tail(rest) = <<Count(kv)>> \o z
    BY <2>1, <2>2, <2>4, <2>5
  <2>7. Tail(rest) = z
    BY <1>7, <2>1, <2>5, <2>6, ConcatSimplifications
  <2> QED  BY <2>2, <2>3, <2>4, <2>7 DEF z
<1>19. Head(er) = U32(Len(kv))
  <2>1. Head(er) \in Encodings(Head(rest))
    BY <1>11, <1>18, EncodesFirst
  <2> QED  BY <2>1, <1>7, <1>18
<1>20. Kinds(Tail(rest)) = (strings \o <<"u32">> \o strings) \o Kinds(Tail(todo))
  <2>1. Kinds(y \o Tail(todo)) = Kinds(y) \o Kinds(Tail(todo))
    BY <1>3, <1>8, KindsConcat
  <2> QED  BY <2>1, <1>10, <1>18
<1> QED  BY <1>14, <1>17, <1>18, <1>19, <1>20 DEF strings

-----------------------------------------------------------------------------
(* Messages, their bodies and their frames.                                *)

Data(chunk, end) ==
  <<Id(DataId), [kind |-> "bytes", value |-> chunk], [kind |-> "u32", value |-> <<end>>]>>

IsData(msg) == msg[1] = Id(DataId)

\* The messages there are: a notice or an answer of any fields, or a chunk.
IsMessage(msg) ==
  /\ msg \in Seq(Item) /\ msg # <<>> /\ msg[1].kind = "u16"
  /\ IsData(msg) => \E chunk \in Seq(Nat), end \in {0, 1} : msg = Data(chunk, end)

IsBody(bytes, msg) == \E es : Encodes(es, msg) /\ bytes = FlattenSeq(es)

IsFrame(bytes, msg) == \E body \in Seq(Byte) : /\ bytes = Frame(body, Len(body))
                                               /\ IsBody(body, msg)

LEMMA AnyEncodingType ==
  ASSUME NEW f \in Item, NEW e \in Encodings(f)
  PROVE  e \in Seq(Byte)
<1>1. CASE f.kind # "meta"
  BY <1>1, EncodingType
<1>2. CASE f.kind = "meta"
  <2>1. PICK kv \in Seq(Text \X Text) : f = MetaField(kv)
    BY <1>2, MetaItem
  <2>2. e = Serialized(kv)
    <3>1. Encodings(MetaField(kv)) = {Serialized(kv)}
      BY DEF Encodings, MetaField
    <3> QED  BY <2>1, <3>1
  <2>3. PICK es : Encodes(es, Parts(MetaField(kv))) /\ e = FlattenSeq(es)
    BY <2>2, SerializedEncodes
  <2>4. es \in Seq(Seq(Byte))
    BY <2>3 DEF Encodes
  <2> QED  BY <2>3, <2>4, FlattenType
<1> QED  BY <1>1, <1>2

LEMMA IdIsItem ==
  ASSUME NEW n \in Nat
  PROVE  /\ Id(n) \in Item /\ Encodings(Id(n)) = {Cells("u16", n, 2)}
         /\ Cells("u16", n, 2) \in Seq(Byte) /\ Len(Cells("u16", n, 2)) = 2
         /\ Cells("u16", n, 2)[1].value = n
<1>1. Id(n) \in Item /\ Encodings(Id(n)) = {Cells("u16", n, 2)}
  BY DEF Id, Item, Encodings
<1>2. "u16" \in Of /\ n \in Int /\ 2 \in Nat /\ 1 \in 1 .. 2
  BY DEF Of
<1>3. /\ Cells("u16", n, 2) \in Seq(Byte) /\ Len(Cells("u16", n, 2)) = 2
      /\ \A i \in 1 .. 2 : Cells("u16", n, 2)[i] = [of |-> "u16", value |-> n, at |-> i]
  BY <1>2, CellsProperties
<1>4. Cells("u16", n, 2)[1].value = n
  BY <1>2, <1>3
<1> QED  BY <1>1, <1>3, <1>4

LEMMA NumberItem ==
  ASSUME NEW f \in Item, f.kind = "u16"
  PROVE  \E n \in Nat : f = Id(n)
<1>1. f \in [kind : {"u16", "u32"}, value : {<<n>> : n \in Nat}]
  BY DEF Item, Texts
<1>2. f = [kind |-> f.kind, value |-> f.value]
  BY <1>1
<1>3. PICK n \in Nat : f.value = <<n>>
  BY <1>1
<1> QED  BY <1>2, <1>3 DEF Id

LEMMA BodyType ==
  ASSUME NEW bytes, NEW msg, IsBody(bytes, msg)
  PROVE  bytes \in Seq(Byte) /\ msg \in Seq(Item) /\ Len(bytes) \in Nat
<1>1. PICK es : Encodes(es, msg) /\ bytes = FlattenSeq(es)
  BY DEF IsBody
<1>2. es \in Seq(Seq(Byte)) /\ msg \in Seq(Item)
  BY <1>1 DEF Encodes
<1>3. bytes \in Seq(Byte)
  BY <1>1, <1>2, FlattenType
<1> QED  BY <1>2, <1>3, LenProperties

LEMMA BodyNone == IsBody(<<>>, <<>>)
BY EncodesNone, FlattenEmpty DEF IsBody

LEMMA BodyAppend ==
  ASSUME NEW bytes, NEW msg, IsBody(bytes, msg), NEW f \in Item, NEW e \in Encodings(f)
  PROVE  /\ IsBody(bytes \o e, Append(msg, f)) /\ Len(bytes \o e) = Len(bytes) + Len(e)
         /\ Append(msg, f) \in Seq(Item) /\ Len(Append(msg, f)) = Len(msg) + 1
         /\ Append(msg, f)[1] = IF msg = <<>> THEN f ELSE msg[1]
<1>1. PICK es : Encodes(es, msg) /\ bytes = FlattenSeq(es)
  BY DEF IsBody
<1>2. e \in Seq(Byte)
  BY AnyEncodingType
<1>3. Encodes(<<e>>, <<f>>)
  BY <1>2, EncodesOne
<1>4. Encodes(es \o <<e>>, msg \o <<f>>)
  BY <1>1, <1>3, EncodesConcat
<1>5. msg \in Seq(Item) /\ es \in Seq(Seq(Byte)) /\ <<e>> \in Seq(Seq(Byte))
  BY <1>1, <1>2 DEF Encodes
<1>6. FlattenSeq(es \o <<e>>) = FlattenSeq(es) \o FlattenSeq(<<e>>)
  BY <1>5, FlattenConcat
<1>7. FlattenSeq(<<e>>) = e
  BY <1>2, FlattenOne
<1>8. /\ Append(msg, f) = msg \o <<f>> /\ Append(msg, f) \in Seq(Item)
      /\ Len(Append(msg, f)) = Len(msg) + 1 /\ Len(msg) \in Nat
      /\ \A i \in 1 .. Len(msg) : Append(msg, f)[i] = msg[i]
      /\ Append(msg, f)[Len(msg) + 1] = f
  BY <1>5, AppendIsConcat, AppendProperties, LenProperties
<1>9. IsBody(bytes \o e, Append(msg, f))
  BY <1>1, <1>4, <1>6, <1>7, <1>8 DEF IsBody
<1>10. Append(msg, f)[1] = IF msg = <<>> THEN f ELSE msg[1]
  <2>1. CASE msg = <<>>
    BY <2>1
  <2>2. CASE msg # <<>>
    <3>1. 1 \in 1 .. Len(msg)
      BY <1>5, <1>8, <2>2, EmptySeq
    <3> QED  BY <3>1, <1>8, <2>2
  <2> QED  BY <2>1, <2>2
<1>11. Len(bytes \o e) = Len(bytes) + Len(e)
  BY <1>2, BodyType, ConcatProperties
<1> QED  BY <1>8, <1>9, <1>10, <1>11

LEMMA BodyOne ==
  ASSUME NEW f \in Item, NEW e \in Encodings(f)
  PROVE  IsBody(e, <<f>>)
<1>1. e \in Seq(Byte)
  BY AnyEncodingType
<1>2. Encodes(<<e>>, <<f>>) /\ FlattenSeq(<<e>>) = e
  BY <1>1, EncodesOne, FlattenOne
<1> QED  BY <1>2 DEF IsBody

LEMMA DataIsMessage ==
  ASSUME NEW chunk \in Seq(Nat), NEW end \in {0, 1}
  PROVE  /\ IsMessage(Data(chunk, end)) /\ IsData(Data(chunk, end))
         /\ Data(chunk, end)[2].value = chunk /\ Data(chunk, end)[3].value = <<end>>
         /\ Regular(Data(chunk, end)) /\ Plain(Data(chunk, end))
         /\ Len(Data(chunk, end)) = 3
<1> DEFINE msg == Data(chunk, end)
<1>1. DataId \in Nat
  BY StreamsAssumption
<1>2. /\ Id(DataId) \in Item
      /\ [kind |-> "bytes", value |-> chunk] \in Item
      /\ [kind |-> "u32", value |-> <<end>>] \in Item
  BY <1>1, IdIsItem DEF Item
<1>3. msg \in Seq(Item) /\ msg # <<>>
  BY <1>2 DEF Data
<1>4. msg[1] = Id(DataId) /\ msg[1].kind = "u16"
  BY DEF Data, Id
<1>5. IsMessage(msg) /\ IsData(msg)
  BY <1>3, <1>4 DEF IsMessage, IsData
<1>6. /\ msg[1].kind # "meta" /\ msg[2].kind # "meta" /\ msg[3].kind # "meta"
      /\ DOMAIN msg = 1 .. 3
      /\ msg[2].value = chunk /\ msg[3].value = <<end>>
  BY DEF Data, Id
<1>7. Plain(msg)
  BY <1>6 DEF Plain
<1>8. Regular(msg)
  BY <1>7 DEF Regular, Plain
<1>9. Len(msg) = 3
  BY DEF Data
<1> QED  BY <1>5, <1>6, <1>7, <1>8, <1>9

LEMMA DataBody ==
  ASSUME NEW chunk \in Seq(Nat), NEW end \in {0, 1}
  PROVE  IsBody(Cells("u16", DataId, 2) \o Bytes(chunk) \o U32(end), Data(chunk, end))
<1> DEFINE f == [kind |-> "bytes", value |-> chunk]
           g == [kind |-> "u32", value |-> <<end>>]
           a == Cells("u16", DataId, 2)
           b == Bytes(chunk)
           c == U32(end)
<1>1. DataId \in Nat
  BY StreamsAssumption
<1>2. Id(DataId) \in Item /\ a \in Encodings(Id(DataId))
  BY <1>1, IdIsItem
<1>3. f \in Item /\ b \in Encodings(f)
  BY DEF Item, Encodings
<1>4. g \in Item /\ c \in Encodings(g)
  BY DEF Item, Encodings
<1>5. Data(chunk, end) = Append(Append(<<Id(DataId)>>, f), g)
  BY DEF Data
<1> HIDE DEF a, b, c, f, g
<1>6. IsBody(a, <<Id(DataId)>>)
  BY <1>2, BodyOne
<1>7. IsBody(a \o b, Append(<<Id(DataId)>>, f))
  BY <1>3, <1>6, BodyAppend
<1>8. IsBody((a \o b) \o c, Append(Append(<<Id(DataId)>>, f), g))
  BY <1>4, <1>7, BodyAppend
<1> QED  BY <1>5, <1>8 DEF a, b, c

\* A body starts with the number of its message.
LEMMA BodyFirst ==
  ASSUME NEW bytes, NEW msg, IsBody(bytes, msg), IsMessage(msg)
  PROVE  \E n \in Nat : /\ msg[1] = Id(n) /\ bytes[1].value = n
                        /\ Len(bytes) \in Nat /\ Len(bytes) >= 2
<1>1. PICK es : Encodes(es, msg) /\ bytes = FlattenSeq(es)
  BY DEF IsBody
<1>2. es \in Seq(Seq(Byte)) /\ msg \in Seq(Item) /\ msg # <<>> /\ msg[1].kind = "u16"
  BY <1>1 DEF Encodes, IsMessage
<1>3. /\ es # <<>> /\ Head(es) \in Encodings(Head(msg)) /\ Head(es) \in Seq(Byte)
      /\ Head(msg) \in Item /\ Encodes(Tail(es), Tail(msg))
  BY <1>1, <1>2, EncodesFirst
<1>4. Head(msg) = msg[1]
  BY <1>2
<1>5. PICK n \in Nat : msg[1] = Id(n)
  BY <1>2, <1>3, <1>4, NumberItem
<1>6. Head(es) = Cells("u16", n, 2)
  BY <1>3, <1>4, <1>5, IdIsItem
<1>7. Len(Head(es)) = 2 /\ Head(es)[1].value = n
  BY <1>6, IdIsItem
<1>8. Tail(es) \in Seq(Seq(Byte))
  BY <1>3 DEF Encodes
<1> DEFINE r == FlattenSeq(Tail(es))
           e == Head(es)
<1>9. r \in Seq(Byte)
  BY <1>8, FlattenType
<1>10. bytes = e \o r
  BY <1>1, <1>2, <1>3, FlattenFirst
<1>11. e \in Seq(Byte) /\ Len(e) = 2 /\ e[1].value = n
  BY <1>3, <1>7
<1> HIDE DEF e, r
<1>12. /\ Len(e \o r) = Len(e) + Len(r) /\ Len(r) \in Nat
       /\ \A i \in 1 .. Len(e) + Len(r) :
            (e \o r)[i] = IF i <= Len(e) THEN e[i] ELSE r[i - Len(e)]
  BY <1>9, <1>11, ConcatProperties, LenProperties
<1>13. 1 \in 1 .. Len(e) + Len(r) /\ 1 <= Len(e)
  BY <1>11, <1>12
<1>14. (e \o r)[1] = e[1]
  BY <1>12, <1>13
<1> QED  BY <1>5, <1>10, <1>11, <1>12, <1>14

\* A frame is its length, which counts itself, and a body.
LEMMA FrameProperties ==
  ASSUME NEW body \in Seq(Byte)
  PROVE  LET frame == Frame(body, Len(body))
         IN  /\ frame \in Seq(Byte) /\ Len(body) \in Nat /\ Len(frame) = Len(body) + 4
             /\ frame[1].value = Len(frame)
             /\ \A i \in 1 .. Len(body) : frame[4 + i] = body[i]
<1> DEFINE n == NetSize(Len(body))
           c == Cells("net", n, 4)
<1>1. Len(body) \in Nat
  BY LenProperties
<1>2. n \in Nat /\ n = Len(body) + 4 /\ n \in Int /\ "net" \in Of /\ 4 \in Nat
  BY <1>1 DEF NetSize, Of
<1>3. /\ c \in Seq(Byte) /\ Len(c) = 4
      /\ \A i \in 1 .. 4 : c[i] = [of |-> "net", value |-> n, at |-> i]
  <2> HIDE DEF n
  <2> QED  BY <1>2, CellsProperties
<1>4. Frame(body, Len(body)) = c \o body
  BY DEF Frame
<1> HIDE DEF c, n
<1>5. /\ c \o body \in Seq(Byte) /\ Len(c \o body) = Len(c) + Len(body)
      /\ \A i \in 1 .. Len(c) + Len(body) :
           (c \o body)[i] = IF i <= Len(c) THEN c[i] ELSE body[i - Len(c)]
  BY <1>3, ConcatProperties
<1>6. (c \o body)[1].value = n
  <2>1. 1 \in 1 .. Len(c) + Len(body) /\ 1 <= Len(c) /\ 1 \in 1 .. 4
    BY <1>1, <1>3
  <2>2. (c \o body)[1] = c[1]
    BY <1>5, <2>1
  <2> QED  BY <2>1, <2>2, <1>3
<1>7. ASSUME NEW i \in 1 .. Len(body) PROVE (c \o body)[4 + i] = body[i]
  <2>1. 4 + i \in 1 .. Len(c) + Len(body) /\ ~(4 + i <= Len(c)) /\ (4 + i) - Len(c) = i
    BY <1>1, <1>3
  <2> QED  BY <2>1, <1>5
<1>8. Len(c \o body) = Len(body) + 4 /\ Len(c \o body) = n
  BY <1>1, <1>2, <1>3, <1>5
<1> QED  BY <1>1, <1>4, <1>5, <1>6, <1>7, <1>8

-----------------------------------------------------------------------------
(* The stream: the frames of the messages that are on their way.           *)

Carry(frames, msgs) ==
  /\ frames \in Seq(Seq(Byte)) /\ msgs \in Seq(Seq(Item)) /\ Len(frames) = Len(msgs)
  /\ \A k \in 1 .. Len(msgs) : IsFrame(frames[k], msgs[k]) /\ IsMessage(msgs[k])

Travels(bytes, msgs) == \E frames : Carry(frames, msgs) /\ bytes = FlattenSeq(frames)

LEMMA TravelsType ==
  ASSUME NEW bytes, NEW msgs, Travels(bytes, msgs)
  PROVE  bytes \in Seq(Byte) /\ msgs \in Seq(Seq(Item)) /\ Len(bytes) \in Nat
<1>1. PICK frames : Carry(frames, msgs) /\ bytes = FlattenSeq(frames)
  BY DEF Travels
<1>2. frames \in Seq(Seq(Byte)) /\ msgs \in Seq(Seq(Item))
  BY <1>1 DEF Carry
<1>3. bytes \in Seq(Byte)
  BY <1>1, <1>2, FlattenType
<1> QED  BY <1>2, <1>3, LenProperties

LEMMA TravelsNone == Travels(<<>>, <<>>)
<1>1. Carry(<<>>, <<>>)
  BY EmptySeq DEF Carry
<1> QED  BY <1>1, FlattenEmpty DEF Travels

LEMMA CarryAppend ==
  ASSUME NEW frames, NEW msgs, Carry(frames, msgs), NEW frame \in Seq(Byte), NEW msg,
         IsFrame(frame, msg), IsMessage(msg)
  PROVE  Carry(Append(frames, frame), Append(msgs, msg))
<1>1. /\ frames \in Seq(Seq(Byte)) /\ msgs \in Seq(Seq(Item)) /\ Len(frames) = Len(msgs)
      /\ msg \in Seq(Item)
  BY DEF Carry, IsMessage
<1>2. /\ Append(msgs, msg) \in Seq(Seq(Item)) /\ Len(Append(msgs, msg)) = Len(msgs) + 1
      /\ \A i \in 1 .. Len(msgs) : Append(msgs, msg)[i] = msgs[i]
      /\ Append(msgs, msg)[Len(msgs) + 1] = msg /\ Len(msgs) \in Nat
  BY <1>1, AppendProperties, LenProperties
<1>3. /\ Append(frames, frame) \in Seq(Seq(Byte)) /\ Len(Append(frames, frame)) = Len(frames) + 1
      /\ \A i \in 1 .. Len(frames) : Append(frames, frame)[i] = frames[i]
      /\ Append(frames, frame)[Len(frames) + 1] = frame
  BY <1>1, AppendProperties
<1>4. ASSUME NEW k \in 1 .. Len(Append(msgs, msg))
      PROVE  /\ IsFrame(Append(frames, frame)[k], Append(msgs, msg)[k])
             /\ IsMessage(Append(msgs, msg)[k])
  <2>1. CASE k \in 1 .. Len(msgs)
    <3>1. Append(frames, frame)[k] = frames[k] /\ Append(msgs, msg)[k] = msgs[k]
      BY <1>1, <1>2, <1>3, <2>1
    <3> QED  BY <2>1, <3>1 DEF Carry
  <2>2. CASE k \notin 1 .. Len(msgs)
    <3>1. k = Len(msgs) + 1
      BY <1>2, <2>2
    <3>2. Append(frames, frame)[k] = frame /\ Append(msgs, msg)[k] = msg
      BY <1>1, <1>2, <1>3, <3>1
    <3> QED  BY <3>2
  <2> QED  BY <2>1, <2>2
<1> QED  BY <1>1, <1>2, <1>3, <1>4 DEF Carry

\* A message that is sent follows those on their way.
LEMMA TravelsAppend ==
  ASSUME NEW bytes, NEW msgs, Travels(bytes, msgs), NEW body, NEW msg,
         IsBody(body, msg), IsMessage(msg)
  PROVE  /\ Travels(bytes \o Frame(body, Len(body)), Append(msgs, msg))
         /\ bytes # <<>> => /\ bytes \o Frame(body, Len(body)) # <<>>
                            /\ (bytes \o Frame(body, Len(body)))[1] = bytes[1]
<1> DEFINE frame == Frame(body, Len(body))
<1>1. PICK frames : Carry(frames, msgs) /\ bytes = FlattenSeq(frames)
  BY DEF Travels
<1>2. body \in Seq(Byte)
  BY BodyType
<1>3. frame \in Seq(Byte)
  BY <1>2, FrameProperties
<1>4. IsFrame(frame, msg)
  BY <1>2 DEF IsFrame
<1> HIDE DEF frame
<1>5. Carry(Append(frames, frame), Append(msgs, msg))
  BY <1>1, <1>3, <1>4, CarryAppend
<1>6. frames \in Seq(Seq(Byte))
  BY <1>1 DEF Carry
<1>7. FlattenSeq(Append(frames, frame)) = bytes \o frame
  BY <1>1, <1>3, <1>6, FlattenAppend
<1>8. Travels(bytes \o frame, Append(msgs, msg))
  BY <1>5, <1>7 DEF Travels
<1>9. bytes \in Seq(Byte) /\ Len(bytes) \in Nat
  BY TravelsType
<1>10. ASSUME bytes # <<>>
       PROVE  bytes \o frame # <<>> /\ (bytes \o frame)[1] = bytes[1]
  <2>1. /\ Len(bytes \o frame) = Len(bytes) + Len(frame) /\ Len(frame) \in Nat
        /\ \A i \in 1 .. Len(bytes) + Len(frame) :
             (bytes \o frame)[i] = IF i <= Len(bytes) THEN bytes[i] ELSE frame[i - Len(bytes)]
        /\ bytes \o frame \in Seq(Byte)
    BY <1>3, <1>9, ConcatProperties, LenProperties
  <2>2. Len(bytes) >= 1
    BY <1>9, <1>10, EmptySeq
  <2>3. 1 \in 1 .. Len(bytes) + Len(frame) /\ 1 <= Len(bytes)
    BY <1>9, <2>1, <2>2
  <2>4. (bytes \o frame)[1] = bytes[1]
    BY <2>1, <2>3
  <2>5. bytes \o frame # <<>>
    BY <1>3, <1>9, <1>10, ConcatEqualIffEmpty
  <2> QED  BY <2>4, <2>5
<1> QED  BY <1>8, <1>10 DEF frame

LEMMA TravelsEmpty ==
  ASSUME NEW msgs, Travels(<<>>, msgs)
  PROVE  msgs = <<>>
<1>1. PICK frames : Carry(frames, msgs) /\ <<>> = FlattenSeq(frames)
  BY DEF Travels
<1>2. frames \in Seq(Seq(Byte)) /\ msgs \in Seq(Seq(Item)) /\ Len(frames) = Len(msgs)
  BY <1>1 DEF Carry
<1> SUFFICES ASSUME msgs # <<>> PROVE FALSE
  OBVIOUS
<1>3. Len(msgs) \in Nat \ {0}
  BY <1>2, EmptySeq
<1>4. frames # <<>>
  BY <1>2, <1>3
<1>5. Head(frames) \in Seq(Byte) /\ Tail(frames) \in Seq(Seq(Byte)) /\ Head(frames) = frames[1]
  BY <1>2, <1>4, HeadTailProperties
<1>6. <<>> = Head(frames) \o FlattenSeq(Tail(frames))
  BY <1>1, <1>2, <1>4, FlattenFirst
<1>7. Head(frames) = <<>>
  <2>1. FlattenSeq(Tail(frames)) \in Seq(Byte)
    BY <1>5, FlattenType
  <2> DEFINE e == Head(frames)
             r == FlattenSeq(Tail(frames))
  <2>2. e \in Seq(Byte) /\ r \in Seq(Byte) /\ e \o r = <<>>
    BY <1>5, <1>6, <2>1
  <2> HIDE DEF e, r
  <2>3. e = <<>>
    BY <2>2, ConcatEqualIffEmpty
  <2> QED  BY <2>3 DEF e
<1>8. IsFrame(frames[1], msgs[1])
  BY <1>1, <1>3 DEF Carry
<1>9. PICK body \in Seq(Byte) : frames[1] = Frame(body, Len(body))
  BY <1>8 DEF IsFrame
<1>10. Len(frames[1]) = Len(body) + 4 /\ Len(body) \in Nat
  BY <1>9, FrameProperties
<1> QED  BY <1>5, <1>7, <1>10

LEMMA CarryFirst ==
  ASSUME NEW frames, NEW msgs, Carry(frames, msgs), frames # <<>>
  PROVE  /\ msgs # <<>> /\ Carry(Tail(frames), Tail(msgs))
         /\ IsFrame(Head(frames), Head(msgs)) /\ IsMessage(Head(msgs))
<1>1. /\ frames \in Seq(Seq(Byte)) /\ msgs \in Seq(Seq(Item)) /\ Len(frames) = Len(msgs)
  BY DEF Carry
<1>2. Len(frames) \in Nat /\ Len(frames) >= 1
  BY <1>1, EmptySeq
<1>3. msgs # <<>>
  BY <1>1, <1>2
<1>4. Head(frames) = frames[1] /\ Head(msgs) = msgs[1]
  BY <1>1, <1>3
<1>5. IsFrame(frames[1], msgs[1]) /\ IsMessage(msgs[1])
  BY <1>1, <1>2 DEF Carry
<1>6. /\ Tail(frames) \in Seq(Seq(Byte)) /\ Len(Tail(frames)) = Len(frames) - 1
      /\ \A i \in 1 .. Len(Tail(frames)) : Tail(frames)[i] = frames[i + 1]
  BY <1>1, HeadTailProperties
<1>7. /\ Tail(msgs) \in Seq(Seq(Item)) /\ Len(Tail(msgs)) = Len(msgs) - 1
      /\ \A i \in 1 .. Len(Tail(msgs)) : Tail(msgs)[i] = msgs[i + 1]
  BY <1>1, <1>3, HeadTailProperties
<1>8. ASSUME NEW k \in 1 .. Len(Tail(msgs))
      PROVE  IsFrame(Tail(frames)[k], Tail(msgs)[k]) /\ IsMessage(Tail(msgs)[k])
  <2>1. k + 1 \in 1 .. Len(msgs) /\ k \in 1 .. Len(Tail(frames))
    BY <1>1, <1>2, <1>6, <1>7
  <2>2. IsFrame(frames[k + 1], msgs[k + 1]) /\ IsMessage(msgs[k + 1])
    BY <2>1 DEF Carry
  <2> QED  BY <2>1, <2>2, <1>6, <1>7
<1>9. Carry(Tail(frames), Tail(msgs))
  <2>1. Len(Tail(frames)) = Len(Tail(msgs))
    BY <1>1, <1>6, <1>7
  <2> QED  BY <2>1, <1>6, <1>7, <1>8 DEF Carry
<1> QED  BY <1>3, <1>4, <1>5, <1>9

LEMMA CutFront ==
  ASSUME NEW S, NEW e \in Seq(S), NEW r \in Seq(S)
  PROVE  SubSeq(e \o r, Len(e) + 1, Len(e \o r)) = r
<1> DEFINE s == e \o r
           m == Len(e)
           o == Len(r)
           n == Len(s)
           t == SubSeq(s, m + 1, n)
<1>1. /\ m \in Nat /\ o \in Nat /\ s \in Seq(S) /\ n = m + o
      /\ \A i \in 1 .. m + o : s[i] = IF i <= m THEN e[i] ELSE r[i - m]
  BY ConcatProperties, LenProperties
<1>2. \A i \in 1 .. n : s[i] \in S
  <2>1. s \in Seq(S)
    BY <1>1
  <2> HIDE DEF s
  <2> QED  BY <2>1, ElementOfSeq
<1> HIDE DEF s, m, o, n
<1>3. m + 1 \in Int /\ n \in Int /\ \A i \in m + 1 .. n : s[i] \in S
  BY <1>1, <1>2
<1>4. /\ t \in Seq(S) /\ Len(t) = IF m + 1 <= n THEN n - (m + 1) + 1 ELSE 0
      /\ \A i \in 1 .. n - (m + 1) + 1 : t[i] = s[(m + 1) + i - 1]
  BY <1>3, SubSeqProperties
<1> HIDE DEF t
<1>5. Len(t) = o
  BY <1>1, <1>4
<1>6. ASSUME NEW i \in 1 .. o PROVE t[i] = r[i]
  <2>1. /\ i \in 1 .. n - (m + 1) + 1 /\ (m + 1) + i - 1 = m + i
        /\ m + i \in 1 .. m + o /\ ~(m + i <= m) /\ (m + i) - m = i
    BY <1>1
  <2>2. t[i] = s[m + i]
    BY <1>4, <2>1
  <2> QED  BY <1>1, <2>1, <2>2
<1>7. t = r
  BY <1>4, <1>5, <1>6, SeqEqual DEF o
<1> QED  BY <1>7 DEF t, s, m, n

\* The first frame of the stream: what ReadSocket cuts off it is the body of
\* the first message, and the others follow.
LEMMA TravelsFirst ==
  ASSUME NEW bytes, NEW msgs, Travels(bytes, msgs), bytes # <<>>
  PROVE  /\ msgs # <<>> /\ IsMessage(Head(msgs))
         /\ LET size == bytes[1].value
            IN  /\ size \in Nat /\ size >= 6 /\ size <= Len(bytes)
                /\ IsBody(SubSeq(bytes, 5, size), Head(msgs))
                /\ Head(msgs)[1] = Id(bytes[5].value) /\ bytes[5].value \in Nat
                /\ Travels(SubSeq(bytes, size + 1, Len(bytes)), Tail(msgs))
<1>1. PICK frames : Carry(frames, msgs) /\ bytes = FlattenSeq(frames)
  BY DEF Travels
<1>2. frames \in Seq(Seq(Byte)) /\ bytes \in Seq(Byte) /\ Len(bytes) \in Nat
  BY <1>1, TravelsType DEF Carry
<1>3. frames # <<>>
  BY <1>1, FlattenEmpty
<1>4. /\ msgs # <<>> /\ Carry(Tail(frames), Tail(msgs))
      /\ IsFrame(Head(frames), Head(msgs)) /\ IsMessage(Head(msgs))
  BY <1>1, <1>3, CarryFirst
<1> DEFINE e == Head(frames)
           r == FlattenSeq(Tail(frames))
           size == Len(e)
<1>5. e \in Seq(Byte) /\ Tail(frames) \in Seq(Seq(Byte))
  BY <1>2, <1>3, HeadTailProperties
<1>6. r \in Seq(Byte) /\ bytes = e \o r
  BY <1>1, <1>2, <1>3, <1>5, FlattenType, FlattenFirst
<1>7. PICK body \in Seq(Byte) : e = Frame(body, Len(body)) /\ IsBody(body, Head(msgs))
  BY <1>4 DEF IsFrame
<1>8. /\ Len(body) \in Nat /\ size = Len(body) + 4 /\ e[1].value = size
      /\ \A i \in 1 .. Len(body) : e[4 + i] = body[i]
  BY <1>7, FrameProperties
<1>9. PICK n \in Nat : Head(msgs)[1] = Id(n) /\ body[1].value = n /\ Len(body) >= 2
  BY <1>4, <1>7, BodyFirst
<1>10. Travels(r, Tail(msgs))
  BY <1>4 DEF Travels
<1> HIDE DEF e, r, size
<1> DEFINE k == 0
<1>11. k \in 0 .. Len(bytes) /\ Rest(bytes, k) = e \o r
  <2>1. SubSeq(bytes, 1, Len(bytes)) = bytes /\ 0 + 1 = 1
    BY <1>2, SubSeqFull
  <2> QED  BY <2>1, <1>2, <1>6 DEF Rest
<1>12. k = 0
  OBVIOUS
<1> HIDE DEF k
<1>21. /\ bytes \in Seq(Byte) /\ k \in 0 .. Len(bytes) /\ e \in Seq(Byte) /\ r \in Seq(Byte)
       /\ Rest(bytes, k) = e \o r
  BY <1>2, <1>5, <1>6, <1>11
<1>13. k + Len(e) \in 0 .. Len(bytes)
  BY <1>21, SplitRest
<1>14. \A i \in 1 .. Len(e) : bytes[k + i] = e[i]
  BY <1>21, SplitRest
<1>15. SubSeq(bytes, Len(e) + 1, Len(bytes)) = r
  BY <1>5, <1>6, CutFront
<1>16. size \in Nat /\ size <= Len(bytes) /\ size >= 6 /\ k + Len(e) = size
  BY <1>2, <1>8, <1>9, <1>12, <1>13 DEF size
<1>17. \A i \in 1 .. size : bytes[i] = e[i]
  <2> SUFFICES ASSUME NEW i \in 1 .. size PROVE bytes[i] = e[i]
    OBVIOUS
  <2>1. i \in 1 .. Len(e) /\ k + i = i
    BY <1>12, <1>16
  <2>2. bytes[k + i] = e[i]
    BY <1>14, <2>1
  <2> QED  BY <2>1, <2>2
<1>18. bytes[1].value = size /\ bytes[5].value = n
  <2>1. 1 \in 1 .. size /\ 5 \in 1 .. size /\ 1 \in 1 .. Len(body) /\ 4 + 1 = 5
    BY <1>8, <1>9, <1>16
  <2>2. e[4 + 1] = body[1]
    BY <1>8, <2>1
  <2>3. e[5] = body[1]
    BY <2>1, <2>2
  <2> QED  BY <2>1, <2>3, <1>8, <1>9, <1>17
<1>19. SubSeq(bytes, size + 1, Len(bytes)) = r
  BY <1>15 DEF size
<1>20. SubSeq(bytes, 5, size) = body
  <2> DEFINE s == SubSeq(bytes, 5, size)
  <2>1. \A i \in 5 .. size : bytes[i] \in Byte
    <3>1. \A i \in 1 .. Len(bytes) : bytes[i] \in Byte
      BY <1>2, ElementOfSeq
    <3> QED  BY <3>1, <1>2, <1>16
  <2>2. /\ s \in Seq(Byte) /\ Len(s) = IF 5 <= size THEN size - 5 + 1 ELSE 0
        /\ \A i \in 1 .. size - 5 + 1 : s[i] = bytes[5 + i - 1]
    <3>1. 5 \in Int /\ size \in Int
      BY <1>16
    <3> QED  BY <2>1, <3>1, SubSeqProperties
  <2> HIDE DEF s
  <2>3. Len(s) = Len(body)
    BY <1>8, <1>16, <2>2
  <2>4. ASSUME NEW i \in 1 .. Len(s) PROVE s[i] = body[i]
    <3>1. /\ i \in 1 .. size - 5 + 1 /\ 5 + i - 1 = 4 + i /\ 4 + i \in 1 .. size
          /\ i \in 1 .. Len(body)
      BY <1>8, <1>16, <2>3
    <3>2. s[i] = bytes[4 + i]
      BY <2>2, <3>1
    <3> QED  BY <3>1, <3>2, <1>8, <1>17
  <2>5. s = body
    BY <2>2, <2>3, <2>4, SeqEqual
  <2> QED  BY <2>5 DEF s
<1> QED  BY <1>4, <1>7, <1>9, <1>10, <1>16, <1>18, <1>19, <1>20

-----------------------------------------------------------------------------
(* The data of a character in the messages that are on their way.          *)

Messages == {msg \in Seq(Item) : IsMessage(msg)}

Carried(msg) == IF IsData(msg) THEN msg[2].value ELSE <<>>

Parcels(msgs) == [k \in DOMAIN msgs |-> Carried(msgs[k])]

DataOf(msgs) == FlattenSeq(Parcels(msgs))

NoData(msgs) == \A k \in DOMAIN msgs : ~IsData(msgs[k])

NoEnd(msgs) == \A k \in DOMAIN msgs : IsData(msgs[k]) => msgs[k][3].value = <<0>>

LEMMA CarriedType ==
  ASSUME NEW msg \in Messages
  PROVE  Carried(msg) \in Seq(Nat)
<1>1. IsMessage(msg)
  BY DEF Messages
<1>2. CASE IsData(msg)
  <2>1. PICK chunk \in Seq(Nat), end \in {0, 1} : msg = Data(chunk, end)
    BY <1>1, <1>2 DEF IsMessage
  <2>2. msg[2].value = chunk
    BY <2>1, DataIsMessage
  <2> QED  BY <1>2, <2>2 DEF Carried
<1>3. CASE ~IsData(msg)
  BY <1>3, EmptySeq DEF Carried
<1> QED  BY <1>2, <1>3

LEMMA ParcelsType ==
  ASSUME NEW x \in Seq(Messages)
  PROVE  Parcels(x) \in Seq(Seq(Nat)) /\ Len(Parcels(x)) = Len(x)
<1>1. /\ Len(x) \in Nat /\ DOMAIN x = 1 .. Len(x) /\ \A i \in 1 .. Len(x) : x[i] \in Messages
  BY LenProperties, ElementOfSeq
<1>2. Parcels(x) \in [1 .. Len(x) -> Seq(Nat)]
  BY <1>1, CarriedType DEF Parcels
<1>3. Parcels(x) \in Seq(Seq(Nat)) /\ DOMAIN Parcels(x) = 1 .. Len(x)
  BY <1>1, <1>2
<1> QED  BY <1>1, <1>3, LenProperties

LEMMA ParcelsConcat ==
  ASSUME NEW x \in Seq(Messages), NEW y \in Seq(Messages)
  PROVE  Parcels(x \o y) = Parcels(x) \o Parcels(y)
<1>1. /\ x \o y \in Seq(Messages) /\ Len(x \o y) = Len(x) + Len(y)
      /\ \A i \in 1 .. Len(x) + Len(y) :
           (x \o y)[i] = IF i <= Len(x) THEN x[i] ELSE y[i - Len(x)]
  BY ConcatProperties
<1>2. /\ Len(x) \in Nat /\ Len(y) \in Nat /\ DOMAIN x = 1 .. Len(x)
      /\ DOMAIN y = 1 .. Len(y)
  BY LenProperties
<1>3. DOMAIN (x \o y) = 1 .. Len(x) + Len(y)
  BY <1>1, LenProperties
<1>4. /\ Parcels(x) \in Seq(Seq(Nat)) /\ Len(Parcels(x)) = Len(x)
      /\ Parcels(y) \in Seq(Seq(Nat)) /\ Len(Parcels(y)) = Len(y)
      /\ Parcels(x \o y) \in Seq(Seq(Nat)) /\ Len(Parcels(x \o y)) = Len(x) + Len(y)
  BY <1>1, ParcelsType
<1>5. /\ Parcels(x) \o Parcels(y) \in Seq(Seq(Nat))
      /\ Len(Parcels(x) \o Parcels(y)) = Len(x) + Len(y)
      /\ \A i \in 1 .. Len(x) + Len(y) :
           (Parcels(x) \o Parcels(y))[i]
             = IF i <= Len(x) THEN Parcels(x)[i] ELSE Parcels(y)[i - Len(x)]
  <2>1. Parcels(x) \in Seq(Seq(Nat)) /\ Parcels(y) \in Seq(Seq(Nat))
    BY <1>4
  <2>2. /\ Parcels(x) \o Parcels(y) \in Seq(Seq(Nat))
        /\ Len(Parcels(x) \o Parcels(y)) = Len(Parcels(x)) + Len(Parcels(y))
        /\ \A i \in 1 .. Len(Parcels(x)) + Len(Parcels(y)) :
             (Parcels(x) \o Parcels(y))[i]
               = IF i <= Len(Parcels(x)) THEN Parcels(x)[i]
                 ELSE Parcels(y)[i - Len(Parcels(x))]
    BY <2>1, ConcatProperties
  <2>3. Len(Parcels(x)) = Len(x) /\ Len(Parcels(y)) = Len(y)
    BY <1>4
  <2> QED  BY <2>2, <2>3
<1>6. ASSUME NEW i \in 1 .. Len(x) + Len(y)
      PROVE  Parcels(x \o y)[i] = (Parcels(x) \o Parcels(y))[i]
  <2>1. Parcels(x \o y)[i] = Carried((x \o y)[i])
    BY <1>3 DEF Parcels
  <2>2. CASE i <= Len(x)
    <3>1. i \in DOMAIN x
      BY <1>2, <2>2
    <3>2. Parcels(x)[i] = Carried(x[i])
      BY <3>1 DEF Parcels
    <3> QED  BY <2>1, <2>2, <3>2, <1>1, <1>5
  <2>3. CASE ~(i <= Len(x))
    <3>1. i - Len(x) \in DOMAIN y
      BY <1>2, <2>3
    <3>2. Parcels(y)[i - Len(x)] = Carried(y[i - Len(x)])
      BY <3>1 DEF Parcels
    <3> QED  BY <2>1, <2>3, <3>2, <1>1, <1>5
  <2> QED  BY <2>2, <2>3
<1> QED  BY <1>4, <1>5, <1>6, SeqEqual

LEMMA DataOfConcat ==
  ASSUME NEW x \in Seq(Messages), NEW y \in Seq(Messages)
  PROVE  DataOf(x \o y) = DataOf(x) \o DataOf(y)
<1>1. Parcels(x) \in Seq(Seq(Nat)) /\ Parcels(y) \in Seq(Seq(Nat))
  BY ParcelsType
<1>2. FlattenSeq(Parcels(x) \o Parcels(y)) = FlattenSeq(Parcels(x)) \o FlattenSeq(Parcels(y))
  BY <1>1, FlattenConcat
<1> QED  BY <1>2, ParcelsConcat DEF DataOf

LEMMA DataOfType ==
  ASSUME NEW x \in Seq(Messages)
  PROVE  DataOf(x) \in Seq(Nat)
BY ParcelsType, FlattenType DEF DataOf

LEMMA DataOfOne ==
  ASSUME NEW msg \in Messages
  PROVE  DataOf(<<msg>>) = Carried(msg)
<1>1. Parcels(<<msg>>) = <<Carried(msg)>>
  BY DEF Parcels
<1> QED  BY <1>1, CarriedType, FlattenOne DEF DataOf

LEMMA DataOfAppend ==
  ASSUME NEW x \in Seq(Messages), NEW msg \in Messages
  PROVE  DataOf(Append(x, msg)) = DataOf(x) \o Carried(msg)
<1>1. Append(x, msg) = x \o <<msg>> /\ <<msg>> \in Seq(Messages)
  BY AppendIsConcat
<1>2. DataOf(x \o <<msg>>) = DataOf(x) \o DataOf(<<msg>>)
  BY <1>1, DataOfConcat
<1> QED  BY <1>1, <1>2, DataOfOne

LEMMA DataOfFirst ==
  ASSUME NEW x \in Seq(Messages), x # <<>>
  PROVE  /\ Head(x) \in Messages /\ Tail(x) \in Seq(Messages)
         /\ DataOf(x) = Carried(Head(x)) \o DataOf(Tail(x))
<1>1. /\ Head(x) \in Messages /\ Tail(x) \in Seq(Messages) /\ <<Head(x)>> \in Seq(Messages)
      /\ x = <<Head(x)>> \o Tail(x)
  BY SplitFirst
<1>2. DataOf(<<Head(x)>> \o Tail(x)) = DataOf(<<Head(x)>>) \o DataOf(Tail(x))
  BY <1>1, DataOfConcat
<1> QED  BY <1>1, <1>2, DataOfOne

\* Notices carry nothing.
LEMMA DataOfNone ==
  ASSUME NEW x \in Seq(Messages), NoData(x)
  PROVE  DataOf(x) = <<>>
<1> DEFINE T == {y \in Seq(Messages) : NoData(y) => DataOf(y) = <<>>}
<1>1. <<>> \in T
  <2>1. Parcels(<<>>) = <<>>
    BY DEF Parcels
  <2> QED  BY <2>1, FlattenEmpty, EmptySeq DEF DataOf
<1>2. ASSUME NEW y \in T, NEW msg \in Messages PROVE Append(y, msg) \in T
  <2>1. y \in Seq(Messages)
    OBVIOUS
  <2>2. /\ Append(y, msg) \in Seq(Messages) /\ Len(Append(y, msg)) = Len(y) + 1
        /\ \A i \in 1 .. Len(y) : Append(y, msg)[i] = y[i]
        /\ Append(y, msg)[Len(y) + 1] = msg
        /\ Len(y) \in Nat /\ DOMAIN y = 1 .. Len(y)
    BY <2>1, AppendProperties, LenProperties
  <2>3. DOMAIN Append(y, msg) = 1 .. Len(y) + 1
    BY <2>2, LenProperties
  <2>4. ASSUME NoData(Append(y, msg)) PROVE DataOf(Append(y, msg)) = <<>>
    <3>1. NoData(y)
      BY <2>2, <2>3, <2>4 DEF NoData
    <3>2. ~IsData(msg)
      BY <2>2, <2>3, <2>4 DEF NoData
    <3>3. DataOf(y) = <<>> /\ Carried(msg) = <<>>
      BY <3>1, <3>2 DEF Carried
    <3> QED  BY <2>1, <3>3, DataOfAppend
  <2> QED  BY <2>2, <2>4
<1>3. x \in T
  <2>1. T \in SUBSET Seq(Messages)
    OBVIOUS
  <2> HIDE DEF T
  <2> QED  BY <1>1, <1>2, <2>1, AllSequences
<1> QED  BY <1>3

LEMMA EndsAppend ==
  ASSUME NEW x \in Seq(Messages), NEW msg \in Messages
  PROVE  /\ Append(x, msg) \in Seq(Messages)
         /\ NoData(Append(x, msg)) <=> NoData(x) /\ ~IsData(msg)
         /\ NoEnd(Append(x, msg)) <=> NoEnd(x) /\ (IsData(msg) => msg[3].value = <<0>>)
<1>1. /\ Append(x, msg) \in Seq(Messages) /\ Len(Append(x, msg)) = Len(x) + 1
      /\ \A i \in 1 .. Len(x) : Append(x, msg)[i] = x[i]
      /\ Append(x, msg)[Len(x) + 1] = msg
      /\ Len(x) \in Nat /\ DOMAIN x = 1 .. Len(x)
  BY AppendProperties, LenProperties
<1>2. DOMAIN Append(x, msg) = 1 .. Len(x) + 1
  BY <1>1, LenProperties
<1>3. /\ Len(x) + 1 \in 1 .. Len(x) + 1
      /\ \A k \in 1 .. Len(x) + 1 : k \in 1 .. Len(x) \/ k = Len(x) + 1
  BY <1>1
<1>4. NoData(Append(x, msg)) <=> NoData(x) /\ ~IsData(msg)
  BY <1>1, <1>2, <1>3 DEF NoData
<1>5. NoEnd(Append(x, msg)) <=> NoEnd(x) /\ (IsData(msg) => msg[3].value = <<0>>)
  BY <1>1, <1>2, <1>3 DEF NoEnd
<1> QED  BY <1>1, <1>4, <1>5

LEMMA EndsTail ==
  ASSUME NEW x \in Seq(Messages), x # <<>>
  PROVE  /\ Tail(x) \in Seq(Messages) /\ Head(x) \in Messages
         /\ NoData(x) => NoData(Tail(x)) /\ ~IsData(Head(x))
         /\ NoEnd(x) => NoEnd(Tail(x)) /\ (IsData(Head(x)) => Head(x)[3].value = <<0>>)
<1>1. /\ Tail(x) \in Seq(Messages) /\ Len(Tail(x)) = Len(x) - 1 /\ Head(x) \in Messages
      /\ \A i \in 1 .. Len(Tail(x)) : Tail(x)[i] = x[i + 1]
  BY HeadTailProperties
<1>2. Len(x) \in Nat /\ Len(x) >= 1 /\ Head(x) = x[1] /\ DOMAIN x = 1 .. Len(x)
  BY SplitFirst, LenProperties
<1>3. DOMAIN Tail(x) = 1 .. Len(Tail(x))
  BY <1>1, LenProperties
<1>4. \A i \in DOMAIN Tail(x) : i + 1 \in DOMAIN x /\ Tail(x)[i] = x[i + 1]
  BY <1>1, <1>2, <1>3
<1>5. 1 \in DOMAIN x
  BY <1>2
<1>6. NoData(x) => NoData(Tail(x)) /\ ~IsData(Head(x))
  BY <1>2, <1>4, <1>5 DEF NoData
<1>7. NoEnd(x) => NoEnd(Tail(x)) /\ (IsData(Head(x)) => Head(x)[3].value = <<0>>)
  BY <1>2, <1>4, <1>5 DEF NoEnd
<1> QED  BY <1>1, <1>6, <1>7

-----------------------------------------------------------------------------
(* How far a character has come: its data, and its end.                    *)

\* What the client has, what is on its way and what is kept for the answer
\* are the first bytes of the data, and with the last chunk less than a chunk
\* of padding.
Flow(sum, data, pos, last) ==
  \E zeros \in Seq({0}) :
    /\ Len(zeros) < ChunkSize /\ (last = <<>> => zeros = <<>>)
    /\ sum = SubSeq(data, 1, pos) \o zeros

\* The end is not on its way yet, has arrived, or is on its way behind all
\* other data.
Final(msgs, last, ended, seen) ==
  \/ ~ended /\ ~seen /\ NoEnd(msgs)
  \/ ended /\ seen /\ NoData(msgs)
  \/ /\ ended /\ ~seen
     /\ \E x, y \in Seq(Messages) : /\ msgs = (x \o <<Data(last, 1)>>) \o y
                                    /\ NoEnd(x) /\ NoData(y)

LEMMA DataInMessages ==
  ASSUME NEW chunk \in Seq(Nat), NEW end \in {0, 1}
  PROVE  /\ Data(chunk, end) \in Messages /\ Carried(Data(chunk, end)) = chunk
         /\ IsData(Data(chunk, end)) /\ Data(chunk, end)[3].value = <<end>>
<1>1. /\ IsMessage(Data(chunk, end)) /\ IsData(Data(chunk, end))
      /\ Data(chunk, end)[2].value = chunk /\ Data(chunk, end)[3].value = <<end>>
  BY DataIsMessage
<1>2. Data(chunk, end) \in Seq(Item)
  BY <1>1 DEF IsMessage
<1> QED  BY <1>1, <1>2 DEF Messages, Carried

LEMMA HeadTailOfConcat ==
  ASSUME NEW S, NEW e \in S, NEW y \in Seq(S)
  PROVE  Head(<<e>> \o y) = e /\ Tail(<<e>> \o y) = y /\ <<e>> \o y # <<>>
<1> DEFINE s == <<e>> \o y
<1>1. <<e>> \in Seq(S) /\ Len(<<e>>) = 1 /\ <<e>>[1] = e /\ Len(y) \in Nat
  BY LenProperties
<1>2. /\ s \in Seq(S) /\ Len(s) = 1 + Len(y)
      /\ \A i \in 1 .. 1 + Len(y) : s[i] = IF i <= 1 THEN <<e>>[i] ELSE y[i - 1]
  <2>1. /\ s \in Seq(S) /\ Len(s) = Len(<<e>>) + Len(y)
        /\ \A i \in 1 .. Len(<<e>>) + Len(y) :
             s[i] = IF i <= Len(<<e>>) THEN <<e>>[i] ELSE y[i - Len(<<e>>)]
    BY <1>1, ConcatProperties
  <2> QED  BY <1>1, <2>1
<1> HIDE DEF s
<1>3. s # <<>> /\ s[1] = e
  BY <1>1, <1>2
<1>4. Head(s) = e
  BY <1>2, <1>3
<1>5. /\ s = <<Head(s)>> \o Tail(s) /\ Tail(s) \in Seq(S)
  BY <1>2, <1>3, SplitFirst
<1>6. <<e>> \o Tail(s) = <<e>> \o y
  BY <1>4, <1>5 DEF s
<1>7. Tail(s) = y
  BY <1>1, <1>5, <1>6, ConcatSimplifications
<1> QED  BY <1>3, <1>4, <1>7 DEF s

LEMMA MoveFirst ==
  ASSUME NEW S, NEW x \in Seq(S), x # <<>>, NEW z \in Seq(S), NEW y \in Seq(S)
  PROVE  (x \o z) \o y = <<Head(x)>> \o ((Tail(x) \o z) \o y)
<1>1. PICK h \in Seq(S), t \in Seq(S) : h = <<Head(x)>> /\ t = Tail(x) /\ x = h \o t
  BY SplitFirst
<1>2. \A a, b, c \in Seq(S) : (a \o b) \o c = a \o (b \o c)
  OBVIOUS
<1>3. PICK tz \in Seq(S) : tz = t \o z
  BY ConcatProperties
<1>4. (h \o t) \o z = h \o tz
  BY <1>2, <1>3
<1>5. (h \o tz) \o y = h \o (tz \o y)
  BY <1>2
<1> QED  BY <1>1, <1>3, <1>4, <1>5

LEMMA FinalAppend ==
  ASSUME NEW msgs \in Seq(Messages), NEW last \in Seq(Nat), NEW ended \in BOOLEAN,
         NEW seen \in BOOLEAN, Final(msgs, last, ended, seen), NEW msg \in Messages,
         IsData(msg) => msg[3].value = << 0 >> /\ ~ended
  PROVE  Final(Append(msgs, msg), last, ended, seen)
<1>1. CASE ~ended /\ ~seen /\ NoEnd(msgs)
  BY <1>1, EndsAppend DEF Final
<1>2. CASE ended /\ seen /\ NoData(msgs)
  BY <1>2, EndsAppend DEF Final
<1>3. CASE /\ ended /\ ~seen
           /\ \E x, y \in Seq(Messages) : /\ msgs = (x \o <<Data(last, 1)>>) \o y
                                          /\ NoEnd(x) /\ NoData(y)
  <2>1. PICK x \in Seq(Messages), y \in Seq(Messages) :
          msgs = (x \o <<Data(last, 1)>>) \o y /\ NoEnd(x) /\ NoData(y)
    BY <1>3
  <2> DEFINE z == x \o <<Data(last, 1)>>
  <2>2. z \in Seq(Messages)
    <3>1. <<Data(last, 1)>> \in Seq(Messages)
      BY DataInMessages
    <3> QED  BY <3>1, ConcatProperties
  <2>3. msgs = z \o y
    BY <2>1
  <2>4. NoData(Append(y, msg)) /\ Append(y, msg) \in Seq(Messages)
    BY <1>3, <2>1, EndsAppend
  <2> HIDE DEF z
  <2>5. Append(msgs, msg) = z \o Append(y, msg)
    <3>1. Append(msgs, msg) = (z \o y) \o <<msg>> /\ Append(y, msg) = y \o <<msg>>
      BY <2>3, AppendIsConcat
    <3>2. <<msg>> \in Seq(Messages)
      OBVIOUS
    <3>3. (z \o y) \o <<msg>> = z \o (y \o <<msg>>)
      BY <2>2, <3>2
    <3> QED  BY <3>1, <3>3
  <2>6. \E v, w \in Seq(Messages) : /\ Append(msgs, msg) = (v \o <<Data(last, 1)>>) \o w
                                    /\ NoEnd(v) /\ NoData(w)
    BY <2>1, <2>4, <2>5 DEF z
  <2> QED  BY <1>3, <2>6 DEF Final
<1> QED  BY <1>1, <1>2, <1>3 DEF Final

\* The end is sent.
LEMMA FinalSent ==
  ASSUME NEW msgs \in Seq(Messages), NEW last \in Seq(Nat), NEW seen \in BOOLEAN,
         Final(msgs, last, FALSE, seen)
  PROVE  Final(Append(msgs, Data(last, 1)), last, TRUE, seen)
<1>1. ~seen /\ NoEnd(msgs)
  BY DEF Final
<1>2. Data(last, 1) \in Messages
  BY DataInMessages
<1>3. <<>> \in Seq(Messages) /\ NoData(<<>>)
  BY EmptySeq DEF NoData
<1>4. Append(msgs, Data(last, 1)) = (msgs \o <<Data(last, 1)>>) \o <<>>
  <2>1. Append(msgs, Data(last, 1)) = msgs \o <<Data(last, 1)>>
    BY <1>2, AppendIsConcat
  <2>2. Append(msgs, Data(last, 1)) \in Seq(Messages)
    BY <1>2, AppendProperties
  <2> QED  BY <2>1, <2>2, ConcatEmptySeq
<1>5. \E x, y \in Seq(Messages) : /\ Append(msgs, Data(last, 1)) = (x \o <<Data(last, 1)>>) \o y
                                  /\ NoEnd(x) /\ NoData(y)
  BY <1>1, <1>3, <1>4
<1> QED  BY <1>1, <1>5 DEF Final

\* A message is taken, and the client has seen the end when it was the end.
LEMMA FinalTail ==
  ASSUME NEW msgs \in Seq(Messages), msgs # <<>>, NEW last \in Seq(Nat),
         NEW ended \in BOOLEAN, NEW seen \in BOOLEAN, Final(msgs, last, ended, seen),
         NEW sees \in BOOLEAN,
         IsData(Head(msgs)) => (sees <=> Head(msgs)[3].value = << 1 >>),
         ~IsData(Head(msgs)) => (sees <=> seen)
  PROVE  Final(Tail(msgs), last, ended, sees)
<1>0. <<0>> # <<1>>
  OBVIOUS
<1>1. CASE ~ended /\ ~seen /\ NoEnd(msgs)
  <2>1. NoEnd(Tail(msgs)) /\ (IsData(Head(msgs)) => Head(msgs)[3].value = <<0>>)
    BY <1>1, EndsTail
  <2>2. ~sees
    BY <1>0, <1>1, <2>1
  <2> QED  BY <1>1, <2>1, <2>2 DEF Final
<1>2. CASE ended /\ seen /\ NoData(msgs)
  BY <1>2, EndsTail DEF Final
<1>3. CASE /\ ended /\ ~seen
           /\ \E x, y \in Seq(Messages) : /\ msgs = (x \o <<Data(last, 1)>>) \o y
                                          /\ NoEnd(x) /\ NoData(y)
  <2>1. PICK x \in Seq(Messages), y \in Seq(Messages) :
          msgs = (x \o <<Data(last, 1)>>) \o y /\ NoEnd(x) /\ NoData(y)
    BY <1>3
  <2> DEFINE d == Data(last, 1)
             z == <<d>>
  <2>2. /\ d \in Messages /\ z \in Seq(Messages) /\ IsData(d) /\ d[3].value = <<1>>
    BY DataInMessages
  <2> HIDE DEF d
  <2>3. msgs = (x \o z) \o y
    BY <2>1 DEF d
  <2>4. CASE x = <<>>
    <3>1. msgs = z \o y
      <4>1. x \o z = z
        BY <2>2, <2>4, ConcatEmptySeq
      <4> QED  BY <2>3, <4>1
    <3>2. Head(msgs) = d /\ Tail(msgs) = y
      BY <3>1, <2>2, HeadTailOfConcat
    <3>3. sees
      BY <2>2, <3>2
    <3> QED  BY <1>3, <2>1, <3>2, <3>3 DEF Final
  <2>5. CASE x # <<>>
    <3>1. /\ NoEnd(Tail(x)) /\ Tail(x) \in Seq(Messages) /\ Head(x) \in Messages
          /\ (IsData(Head(x)) => Head(x)[3].value = <<0>>)
      BY <2>1, <2>5, EndsTail
    <3>2. x = <<Head(x)>> \o Tail(x)
      BY <2>5, SplitFirst
    <3>3. msgs = <<Head(x)>> \o ((Tail(x) \o z) \o y)
      <4>1. z \in Seq(Messages)
        BY <2>2
      <4> HIDE DEF z
      <4>2. (x \o z) \o y = <<Head(x)>> \o ((Tail(x) \o z) \o y)
        BY <2>5, <4>1, MoveFirst
      <4> QED  BY <2>3, <4>2
    <3>4. (Tail(x) \o z) \o y \in Seq(Messages)
      <4>1. Tail(x) \o z \in Seq(Messages)
        BY <2>2, <3>1, ConcatProperties
      <4> HIDE DEF z
      <4> QED  BY <4>1, ConcatProperties
    <3>5. Head(msgs) = Head(x) /\ Tail(msgs) = (Tail(x) \o z) \o y
      <4> DEFINE w == (Tail(x) \o z) \o y
      <4>1. w \in Seq(Messages) /\ msgs = <<Head(x)>> \o w
        BY <3>3, <3>4
      <4> HIDE DEF w
      <4>2. Head(msgs) = Head(x) /\ Tail(msgs) = w
        BY <3>1, <4>1, HeadTailOfConcat
      <4> QED  BY <4>2 DEF w
    <3>6. ~sees
      BY <1>0, <1>3, <3>1, <3>5
    <3>7. \E v, w \in Seq(Messages) : /\ Tail(msgs) = (v \o <<Data(last, 1)>>) \o w
                                      /\ NoEnd(v) /\ NoData(w)
      BY <2>1, <3>1, <3>5 DEF d
    <3> QED  BY <1>3, <3>6, <3>7 DEF Final
  <2> QED  BY <2>4, <2>5
<1> QED  BY <1>1, <1>2, <1>3 DEF Final

\* The first bytes of a sequence.
LEMMA FirstBytes ==
  ASSUME NEW S, NEW s \in Seq(S), NEW n \in 0 .. Len(s)
  PROVE  /\ SubSeq(s, 1, n) \in Seq(S) /\ Len(SubSeq(s, 1, n)) = n
         /\ \A i \in 1 .. n : SubSeq(s, 1, n)[i] = s[i]
<1>1. n \in Nat /\ Len(s) \in Nat /\ \A i \in 1 .. Len(s) : s[i] \in S
  BY LenProperties, ElementOfSeq
<1>2. 1 \in Int /\ n \in Int /\ \A i \in 1 .. n : s[i] \in S
  BY <1>1
<1>3. /\ SubSeq(s, 1, n) \in Seq(S)
      /\ Len(SubSeq(s, 1, n)) = IF 1 <= n THEN n - 1 + 1 ELSE 0
      /\ \A i \in 1 .. n - 1 + 1 : SubSeq(s, 1, n)[i] = s[1 + i - 1]
  BY <1>2, SubSeqProperties
<1>4. \A i \in 1 .. n : i \in 1 .. n - 1 + 1 /\ 1 + i - 1 = i
  BY <1>1
<1>5. (IF 1 <= n THEN n - 1 + 1 ELSE 0) = n
  BY <1>1
<1> QED  BY <1>3, <1>4, <1>5

LEMMA Associate ==
  \A s, t, u \in Seq(Nat) : (s \o t) \o u = s \o (t \o u)
<1> SUFFICES ASSUME NEW s \in Seq(Nat), NEW t \in Seq(Nat), NEW u \in Seq(Nat)
             PROVE  (s \o t) \o u = s \o (t \o u)
  OBVIOUS
<1> QED  OBVIOUS

LEMMA FlowNone ==
  ASSUME NEW sum, NEW data \in Seq(Nat), NEW pos, Flow(sum, data, pos, <<>>),
         pos \in 0 .. Len(data)
  PROVE  sum = SubSeq(data, 1, pos)
<1>1. PICK zeros \in Seq({0}) : zeros = <<>> /\ sum = SubSeq(data, 1, pos) \o zeros
  BY DEF Flow
<1>2. SubSeq(data, 1, pos) \in Seq(Nat)
  BY FirstBytes
<1> QED  BY <1>1, <1>2, ConcatEmptySeq

\* A whole chunk is sent.
LEMMA FlowChunk ==
  ASSUME NEW data \in Seq(Nat), NEW pos \in 0 .. Len(data), pos + ChunkSize <= Len(data),
         NEW sum, Flow(sum, data, pos, <<>>)
  PROVE  /\ SubSeq(data, pos + 1, pos + ChunkSize) \in Seq(Nat)
         /\ Flow(sum \o SubSeq(data, pos + 1, pos + ChunkSize), data, pos + ChunkSize, <<>>)
<1>1. ChunkSize \in Nat /\ Len(data) \in Nat /\ pos \in Nat
  BY StreamsAssumption, LenProperties
<1>2. sum = SubSeq(data, 1, pos)
  BY FlowNone
<1> DEFINE n == pos + ChunkSize
<1>3. 1 \in 1 .. Len(data) + 1 /\ pos \in 1 - 1 .. Len(data) /\ n \in pos .. Len(data)
  BY <1>1
<1>4. n \in 0 .. Len(data) /\ n \in Nat
  BY <1>1
<1> HIDE DEF n
<1>5. SubSeq(data, 1, pos) \o SubSeq(data, pos + 1, n) = SubSeq(data, 1, n)
  BY <1>3, ConcatAdjacentSubSeq
<1>6. SubSeq(data, 1, n) \in Seq(Nat)
  BY <1>4, FirstBytes
<1>7. SubSeq(data, 1, n) = SubSeq(data, 1, n) \o <<>>
  BY <1>6, ConcatEmptySeq
<1>8. <<>> \in Seq({0}) /\ Len(<<>>) < ChunkSize
  BY StreamsAssumption, EmptySeq
<1>9. Flow(sum \o SubSeq(data, pos + 1, n), data, n, <<>>)
  BY <1>2, <1>5, <1>7, <1>8 DEF Flow
<1>10. SubSeq(data, pos + 1, n) \in Seq(Nat)
  <2>1. \A i \in 1 .. Len(data) : data[i] \in Nat
    BY ElementOfSeq
  <2>2. \A i \in pos + 1 .. n : data[i] \in Nat
    BY <2>1, <1>1, <1>4
  <2>3. pos + 1 \in Int /\ n \in Int
    BY <1>1, <1>4
  <2> QED  BY <2>2, <2>3, SubSeqProperties
<1> QED  BY <1>9, <1>10 DEF n

\* The last chunk is the rest of the data, and padding.
LEMMA FlowLast ==
  ASSUME NEW data \in Seq(Nat), NEW pos \in 0 .. Len(data), pos < Len(data),
         pos + ChunkSize >= Len(data), NEW sum, Flow(sum, data, pos, <<>>)
  PROVE  LET rest == SubSeq(data, pos + 1, Len(data))
             last == rest \o [i \in 1 .. ChunkSize - Len(rest) |-> 0]
         IN  /\ last \in Seq(Nat) /\ Len(last) = ChunkSize /\ last # <<>>
             /\ Flow(sum \o last, data, Len(data), last)
<1> DEFINE n == Len(data)
           rest == SubSeq(data, pos + 1, n)
           m == ChunkSize - Len(rest)
           pad == [i \in 1 .. m |-> 0]
<1>1. ChunkSize \in Nat /\ ChunkSize >= 1 /\ n \in Nat /\ pos \in Nat /\ pos < n
      /\ pos + ChunkSize >= n
  BY StreamsAssumption, LenProperties
<1>2. sum = SubSeq(data, 1, pos)
  BY FlowNone
<1>3. rest \in Seq(Nat) /\ Len(rest) = n - pos
  <2>1. \A i \in 1 .. n : data[i] \in Nat
    BY ElementOfSeq
  <2> HIDE DEF n
  <2>2. \A i \in pos + 1 .. n : data[i] \in Nat
    BY <2>1, <1>1
  <2>3. pos + 1 \in Int /\ n \in Int
    BY <1>1
  <2>4. rest \in Seq(Nat) /\ Len(rest) = IF pos + 1 <= n THEN n - (pos + 1) + 1 ELSE 0
    BY <2>2, <2>3, SubSeqProperties
  <2>5. (IF pos + 1 <= n THEN n - (pos + 1) + 1 ELSE 0) = n - pos
    BY <1>1
  <2> QED  BY <2>4, <2>5
<1>4. SubSeq(data, 1, pos) \o rest = data
  <2>1. 1 \in 1 .. Len(data) + 1 /\ pos \in 1 - 1 .. Len(data) /\ n \in pos .. Len(data)
    BY <1>1
  <2>2. SubSeq(data, 1, pos) \o SubSeq(data, pos + 1, Len(data)) = SubSeq(data, 1, Len(data))
    BY <2>1, ConcatAdjacentSubSeq
  <2> QED  BY <2>2, SubSeqFull
<1>5. SubSeq(data, 1, n) = data
  BY SubSeqFull
<1> HIDE DEF rest
<1>6. m \in Nat /\ m < ChunkSize /\ Len(rest) + m = ChunkSize
  BY <1>1, <1>3
<1> HIDE DEF m, n
<1>7. pad \in Seq({0}) /\ pad \in Seq(Nat) /\ DOMAIN pad = 1 .. m
  <2>1. pad \in [1 .. m -> {0}] /\ pad \in [1 .. m -> Nat]
    OBVIOUS
  <2> QED  BY <2>1, <1>6
<1>8. Len(pad) = m
  <2> HIDE DEF pad
  <2> QED  BY <1>6, <1>7, LenProperties
<1> HIDE DEF pad
<1>9. SubSeq(data, 1, pos) \in Seq(Nat)
  BY FirstBytes
<1>10. (SubSeq(data, 1, pos) \o rest) \o pad = SubSeq(data, 1, pos) \o (rest \o pad)
  BY <1>3, <1>7, <1>9, Associate
<1> DEFINE last == rest \o pad
<1>11. last \in Seq(Nat) /\ Len(last) = ChunkSize
  BY <1>3, <1>6, <1>7, <1>8, ConcatProperties
<1>12. sum \o last = SubSeq(data, 1, n) \o pad
  BY <1>2, <1>4, <1>5, <1>10
<1>13. last # <<>>
  <2> HIDE DEF last
  <2> QED  BY <1>1, <1>11, EmptySeq
<1> HIDE DEF last
<1>14. Flow(sum \o last, data, n, last)
  BY <1>6, <1>7, <1>8, <1>12, <1>13 DEF Flow
<1> QED  BY <1>11, <1>13, <1>14 DEF last, pad, m, rest, n

\* When all has arrived, the client has the data and some padding.
LEMMA FlowSeen ==
  ASSUME NEW data \in Seq(Nat), NEW last, NEW g, Flow(g, data, Len(data), last)
  PROVE  /\ IsPrefix(data, g) /\ Len(g) < Len(data) + ChunkSize
         /\ \A i \in Len(data) + 1 .. Len(g) : g[i] = 0
<1>1. PICK zeros \in Seq({0}) : /\ Len(zeros) < ChunkSize
                                /\ g = SubSeq(data, 1, Len(data)) \o zeros
  BY DEF Flow
<1>2. g = data \o zeros
  BY <1>1, SubSeqFull
<1>3. /\ Len(data) \in Nat /\ Len(zeros) \in Nat /\ ChunkSize \in Nat /\ zeros \in Seq(Nat)
      /\ \A i \in 1 .. Len(zeros) : zeros[i] = 0
  <2>1. \A i \in 1 .. Len(zeros) : zeros[i] \in {0}
    BY ElementOfSeq
  <2>2. {0} \subseteq Nat
    OBVIOUS
  <2>3. zeros \in Seq(Nat)
    BY <2>2, SeqMonotonic
  <2> QED  BY <2>1, <2>3, StreamsAssumption, LenProperties
<1>4. /\ data \o zeros \in Seq(Nat) /\ Len(data \o zeros) = Len(data) + Len(zeros)
      /\ \A i \in 1 .. Len(data) + Len(zeros) :
           (data \o zeros)[i] = IF i <= Len(data) THEN data[i] ELSE zeros[i - Len(data)]
  BY <1>3, ConcatProperties
<1>5. ASSUME NEW i \in Len(data) + 1 .. Len(data) + Len(zeros)
      PROVE  (data \o zeros)[i] = 0
  <2>1. i \in 1 .. Len(data) + Len(zeros) /\ ~(i <= Len(data)) /\ i - Len(data) \in 1 .. Len(zeros)
    BY <1>3
  <2> QED  BY <2>1, <1>3, <1>4
<1>6. Len(g) = Len(data) + Len(zeros) /\ g \in Seq(Nat)
  BY <1>2, <1>4
<1>7. SubSeq(g, 1, Len(data)) = data
  <2>1. Len(data) \in 0 .. Len(g)
    BY <1>3, <1>6
  <2>2. /\ SubSeq(g, 1, Len(data)) \in Seq(Nat) /\ Len(SubSeq(g, 1, Len(data))) = Len(data)
        /\ \A i \in 1 .. Len(data) : SubSeq(g, 1, Len(data))[i] = g[i]
    BY <2>1, <1>6, FirstBytes
  <2>3. ASSUME NEW i \in 1 .. Len(data) PROVE g[i] = data[i]
    <3>1. i \in 1 .. Len(data) + Len(zeros) /\ i <= Len(data)
      BY <1>3
    <3> QED  BY <3>1, <1>2, <1>4
  <2> QED  BY <2>2, <2>3, SeqEqual
<1>8. IsPrefix(data, g)
  <2>1. Len(data) <= Len(g)
    BY <1>3, <1>6
  <2> QED  BY <2>1, <1>7, SubSeqFull DEF IsPrefix
<1>9. Len(g) < Len(data) + ChunkSize
  BY <1>1, <1>3, <1>6
<1>10. \A i \in Len(data) + 1 .. Len(g) : g[i] = 0
  BY <1>2, <1>5, <1>6
<1> QED  BY <1>8, <1>9, <1>10

\* Until then it has the beginning of the data.
LEMMA FlowPart ==
  ASSUME NEW data \in Seq(Nat), NEW pos \in 0 .. Len(data), NEW last,
         NEW g \in Seq(Nat), NEW a \in Seq(Nat), Flow(g \o a, data, pos, last),
         last = <<>> \/ Len(a) >= ChunkSize
  PROVE  IsPrefix(g, data)
<1>1. PICK zeros \in Seq({0}) : /\ Len(zeros) < ChunkSize /\ (last = <<>> => zeros = <<>>)
                                /\ g \o a = SubSeq(data, 1, pos) \o zeros
  BY DEF Flow
<1> DEFINE s == SubSeq(data, 1, pos)
<1>2. s \in Seq(Nat) /\ Len(s) = pos /\ \A i \in 1 .. pos : s[i] = data[i]
  BY FirstBytes
<1>3. /\ Len(data) \in Nat /\ Len(zeros) \in Nat /\ ChunkSize \in Nat /\ zeros \in Seq(Nat)
      /\ Len(g) \in Nat /\ Len(a) \in Nat /\ pos \in Nat
  <2>1. {0} \subseteq Nat
    OBVIOUS
  <2>2. zeros \in Seq(Nat)
    BY <2>1, SeqMonotonic
  <2> QED  BY <2>2, StreamsAssumption, LenProperties
<1> HIDE DEF s
<1>4. /\ Len(g \o a) = Len(g) + Len(a)
      /\ \A i \in 1 .. Len(g) + Len(a) :
           (g \o a)[i] = IF i <= Len(g) THEN g[i] ELSE a[i - Len(g)]
  BY ConcatProperties
<1>5. /\ Len(s \o zeros) = Len(s) + Len(zeros)
      /\ \A i \in 1 .. Len(s) + Len(zeros) :
           (s \o zeros)[i] = IF i <= Len(s) THEN s[i] ELSE zeros[i - Len(s)]
  BY <1>2, <1>3, ConcatProperties
<1>6. g \o a = s \o zeros
  BY <1>1 DEF s
<1>7. Len(g) + Len(a) = pos + Len(zeros)
  BY <1>2, <1>4, <1>5, <1>6
<1>8. Len(zeros) <= Len(a)
  <2>1. zeros = <<>> => Len(zeros) = 0
    OBVIOUS
  <2> QED  BY <2>1, <1>1, <1>3
<1>9. Len(g) <= pos /\ Len(g) <= Len(data)
  BY <1>3, <1>7, <1>8
<1>10. ASSUME NEW i \in 1 .. Len(g) PROVE g[i] = data[i]
  <2>1. i \in 1 .. Len(g) + Len(a) /\ i <= Len(g) /\ i \in 1 .. Len(s) + Len(zeros)
        /\ i <= Len(s) /\ i \in 1 .. pos
    BY <1>2, <1>3, <1>9
  <2>2. (g \o a)[i] = g[i] /\ (s \o zeros)[i] = s[i]
    BY <2>1, <1>4, <1>5
  <2> QED  BY <2>1, <2>2, <1>2, <1>6
<1>11. SubSeq(data, 1, Len(g)) = g
  <2>1. Len(g) \in 0 .. Len(data)
    BY <1>3, <1>9
  <2>2. /\ SubSeq(data, 1, Len(g)) \in Seq(Nat) /\ Len(SubSeq(data, 1, Len(g))) = Len(g)
        /\ \A i \in 1 .. Len(g) : SubSeq(data, 1, Len(g))[i] = data[i]
    BY <2>1, FirstBytes
  <2> QED  BY <2>2, <1>10, SeqEqual
<1> QED  BY <1>9, <1>11, SubSeqFull DEF IsPrefix

-----------------------------------------------------------------------------
(* The inductive invariant.                                                *)

\* The ByteBuffer that is written holds the fields, the number first.
WriteInv ==
  /\ m_position = Len(m_buffer) /\ IsBody(m_buffer, fields)
  /\ fields # <<>> => fields[1].kind = "u16" /\ ~IsData(fields) /\ written < MaxMessages
  /\ Len(fields) <= MaxFields + 1 /\ written \in 0 .. MaxMessages

WireInv == Travels(wire, sent)

\* The last chunk is kept when all data was read, and only then.
LoadInv ==
  /\ m_data \in Blob /\ position \in 0 .. Len(m_data)
  /\ finalChunk \in Seq(Nat) /\ loading \in {"no", "loop", "done"}
  /\ finalChunk # <<>> => position = Len(m_data) /\ Len(finalChunk) = ChunkSize
  /\ finalChunk = <<>> => m_data = <<>> \/ position < Len(m_data)
  /\ loading = "done" => position = Len(m_data)

Idle == stream = <<>> /\ offset = 0 /\ plan = <<>> /\ result = <<>>

\* The number is read before anything can go wrong, and all of a message is
\* read right that has no list that is too long.
ReadInv ==
  /\ StreamTyped
  /\ reader \in {"ready", "reading", "closed", "failed"}
  /\ reader = "ready" => Idle /\ message = <<>>
  /\ reader = "closed" => /\ Idle /\ message \in Seq(Item)
                          /\ wire # <<>> /\ PacketSize > MaxFrame
  /\ reader \in {"reading", "failed"} =>
       /\ message \in Messages
       /\ result = <<>> => /\ plan = Kinds(message) /\ offset = 0
                           /\ IsBody(stream, message)
       /\ result # <<>> => result[1] = message[1]
       /\ Regular(message) =>
            reader = "reading" /\ \E todo, es, done : Reading(todo, es, done)

\* What the client has not taken yet.
InTransit == (IF reader \in {"reading", "failed"} THEN <<message>> ELSE <<>>) \o sent

Held == IF loading = "done" THEN <<>> ELSE finalChunk

Ended == loading = "done" /\ finalChunk # <<>>

FlowInv == Flow((got \o DataOf(InTransit)) \o Held, m_data, position, finalChunk)

FinalInv == Final(InTransit, finalChunk, Ended, complete)

ClientInv == got \in Seq(Nat) /\ complete \in BOOLEAN /\ FlowInv /\ FinalInv

IInv == WriteInv /\ WireInv /\ LoadInv /\ ReadInv /\ ClientInv

LEMMA DataType == m_data \in Blob => m_data \in Seq(Nat)
BY StreamsAssumption

LEMMA TravelsMessages ==
  ASSUME NEW bytes, NEW msgs, Travels(bytes, msgs)
  PROVE  msgs \in Seq(Messages)
<1>1. PICK frames : Carry(frames, msgs)
  BY DEF Travels
<1>2. msgs \in Seq(Seq(Item)) /\ \A k \in 1 .. Len(msgs) : IsMessage(msgs[k])
  BY <1>1 DEF Carry
<1>3. \A k \in 1 .. Len(msgs) : msgs[k] \in Messages
  BY <1>2, ElementOfSeq DEF Messages
<1>4. msgs \in [1 .. Len(msgs) -> Messages] /\ Len(msgs) \in Nat
  BY <1>2, <1>3, LenProperties
<1> QED  BY <1>4

LEMMA InTransitType ==
  ASSUME WireInv, ReadInv
  PROVE  /\ InTransit \in Seq(Messages) /\ sent \in Seq(Messages)
         /\ reader \in {"reading", "failed"} =>
              /\ message \in Messages /\ InTransit = <<message>> \o sent
              /\ Head(InTransit) = message /\ Tail(InTransit) = sent /\ InTransit # <<>>
         /\ reader \notin {"reading", "failed"} => InTransit = sent
<1>1. sent \in Seq(Messages)
  BY TravelsMessages DEF WireInv
<1>2. CASE reader \in {"reading", "failed"}
  <2>1. message \in Messages
    BY <1>2 DEF ReadInv
  <2>2. <<message>> \in Seq(Messages)
    BY <2>1
  <2>3. InTransit = <<message>> \o sent
    BY <1>2 DEF InTransit
  <2>4. <<message>> \o sent \in Seq(Messages)
    BY <1>1, <2>2, ConcatProperties
  <2>5. /\ Head(<<message>> \o sent) = message /\ Tail(<<message>> \o sent) = sent
        /\ <<message>> \o sent # <<>>
    BY <1>1, <2>1, HeadTailOfConcat
  <2> QED  BY <1>1, <1>2, <2>1, <2>3, <2>4, <2>5
<1>3. CASE reader \notin {"reading", "failed"}
  <2>1. InTransit = <<>> \o sent
    BY <1>3 DEF InTransit
  <2>2. InTransit = sent
    BY <1>1, <2>1, ConcatEmptySeq
  <2> QED  BY <1>1, <1>3, <2>2
<1> QED  BY <1>2, <1>3

(* Before anything is written, nothing is on its way and nothing is read.   *)
THEOREM StartsRight == Init => IInv
<1> SUFFICES ASSUME Init PROVE IInv
  OBVIOUS
<1> USE DEF Init
<1>0. /\ MaxMessages \in Nat /\ MaxFields \in Nat /\ ChunkSize \in Nat /\ ChunkSize >= 1
      /\ \A S : <<>> \in Seq(S) /\ Len(<<>>) = 0
  BY StreamsAssumption, EmptySeq
<1>1. WriteInv
  <2>1. IsBody(m_buffer, fields)
    BY BodyNone
  <2> QED  BY <1>0, <2>1 DEF WriteInv
<1>2. WireInv
  BY TravelsNone DEF WireInv
<1>3. m_data \in Seq(Nat) /\ Len(m_data) \in Nat
  BY DataType, LenProperties
<1>4. LoadInv
  <2>1. finalChunk = <<>> => m_data = <<>> \/ position < Len(m_data)
    BY <1>3, EmptySeq
  <2> QED  BY <1>0, <1>3, <2>1 DEF LoadInv
<1>5. ReadInv
  BY <1>0 DEF ReadInv, StreamTyped, Idle
<1>6. InTransit = <<>>
  BY <1>0 DEF InTransit
<1>7. NoEnd(InTransit)
  BY <1>6 DEF NoEnd
<1>8. FinalInv
  BY <1>7 DEF FinalInv, Final, Ended
<1>9. FlowInv
  <2>1. DataOf(InTransit) = <<>>
    BY <1>6, FlattenEmpty DEF DataOf, Parcels
  <2>2. Held = <<>>
    BY DEF Held
  <2>3. (got \o DataOf(InTransit)) \o Held = <<>>
    BY <2>1, <2>2
  <2>4. SubSeq(m_data, 1, position) = <<>>
    BY SubSeqEmpty
  <2>5. <<>> \in Seq({0}) /\ Len(<<>>) < ChunkSize
    BY <1>0
  <2>6. <<>> = SubSeq(m_data, 1, position) \o <<>>
    BY <2>4
  <2> QED  BY <2>3, <2>5, <2>6 DEF FlowInv, Flow
<1>10. ClientInv
  BY <1>0, <1>8, <1>9 DEF ClientInv
<1> QED  BY <1>1, <1>2, <1>4, <1>5, <1>10 DEF IInv

-----------------------------------------------------------------------------
(* What leaves a part of the state alone keeps its part of the invariant.  *)

LEMMA WriteSame ==
  ASSUME WriteInv, UNCHANGED writing
  PROVE  WriteInv'
BY DEF WriteInv, writing

LEMMA LoadSame ==
  ASSUME LoadInv, UNCHANGED download
  PROVE  LoadInv'
BY DEF LoadInv, download

LEMMA WireSame ==
  ASSUME WireInv, UNCHANGED transit
  PROVE  WireInv'
BY DEF WireInv, transit

LEMMA ReadSame ==
  ASSUME ReadInv, UNCHANGED reading,
         wire # <<>> => wire' # <<>> /\ wire'[1] = wire[1]
  PROVE  ReadInv'
<1>1. /\ reader' = reader /\ stream' = stream /\ offset' = offset /\ plan' = plan
      /\ message' = message /\ result' = result
  BY DEF reading
<1>2. StreamTyped' /\ (Idle => Idle')
  BY <1>1 DEF ReadInv, StreamTyped, Idle
<1>3. PacketSize > MaxFrame /\ wire # <<>> => PacketSize' > MaxFrame
  BY DEF PacketSize
<1>4. ASSUME NEW todo, NEW es, NEW done, Reading(todo, es, done)
      PROVE  Reading(todo, es, done)'
  <2>1. Meant(message') = Meant(message)
    BY <1>1
  <2> QED  BY <1>1, <1>4, <2>1 DEF Reading, Left
<1>5. IsBody(stream, message) => IsBody(stream', message')
  BY <1>1
<1>6. Kinds(message') = Kinds(message) /\ (Regular(message') <=> Regular(message))
  BY <1>1
<1>7. ASSUME reader \in {"reading", "failed"}
      PROVE  /\ message' \in Messages
             /\ result' = <<>> => /\ plan' = Kinds(message') /\ offset' = 0
                                  /\ IsBody(stream', message')
             /\ result' # <<>> => result'[1] = message'[1]
             /\ Regular(message') =>
                  reader' = "reading" /\ \E todo, es, done : Reading(todo, es, done)'
  <2>1. /\ message \in Messages
        /\ result = <<>> => /\ plan = Kinds(message) /\ offset = 0
                            /\ IsBody(stream, message)
        /\ result # <<>> => result[1] = message[1]
        /\ Regular(message) =>
             reader = "reading" /\ \E todo, es, done : Reading(todo, es, done)
    BY <1>7 DEF ReadInv
  <2> QED  BY <1>1, <1>4, <1>5, <1>6, <2>1
<1> QED  BY <1>1, <1>2, <1>3, <1>7 DEF ReadInv

LEMMA ClientSame ==
  ASSUME ClientInv, UNCHANGED <<client, m_data, position, finalChunk>>,
         Held' = Held, Ended' = Ended, InTransit' = InTransit
  PROVE  ClientInv'
<1>1. FlowInv'
  BY DEF ClientInv, FlowInv, client
<1>2. FinalInv'
  BY DEF ClientInv, FinalInv, client
<1> QED  BY <1>1, <1>2 DEF ClientInv, client

LEMMA HeldSame ==
  ASSUME UNCHANGED download
  PROVE  Held' = Held /\ Ended' = Ended
BY DEF Held, Ended, download

LEMMA InTransitSame ==
  ASSUME UNCHANGED <<sent, reader, message>>
  PROVE  InTransit' = InTransit
BY DEF InTransit

\* Steps of the writer, and of a reader that takes nothing away.
LEMMA ClientIdle ==
  ASSUME ClientInv, UNCHANGED <<client, download, sent, reader, message>>
  PROVE  ClientInv'
BY ClientSame, HeldSame, InTransitSame DEF download

LEMMA InTransitAppend ==
  ASSUME WireInv, ReadInv, NEW msg \in Messages, UNCHANGED <<reader, message>>,
         sent' = Append(sent, msg)
  PROVE  InTransit' = Append(InTransit, msg)
<1> DEFINE first == IF reader \in {"reading", "failed"} THEN <<message>> ELSE <<>>
<1>1. first \in Seq(Messages) /\ sent \in Seq(Messages)
  BY InTransitType, EmptySeq
<1>2. InTransit = first \o sent /\ InTransit' = first \o Append(sent, msg)
  BY DEF InTransit
<1> HIDE DEF first
<1>3. Append(sent, msg) = sent \o <<msg>> /\ <<msg>> \in Seq(Messages)
  BY <1>1, AppendIsConcat
<1>4. InTransit \in Seq(Messages)
  BY InTransitType
<1>5. Append(InTransit, msg) = InTransit \o <<msg>>
  BY <1>4, AppendIsConcat
<1>6. PICK a \in Seq(Messages), b \in Seq(Messages), c \in Seq(Messages) :
        a = first /\ b = sent /\ c = <<msg>>
  BY <1>1, <1>3
<1>7. (a \o b) \o c = a \o (b \o c)
  OBVIOUS
<1> QED  BY <1>2, <1>3, <1>5, <1>6, <1>7

\* A notice carries nothing.
LEMMA ClientNotice ==
  ASSUME WireInv, ReadInv, LoadInv, ClientInv, UNCHANGED <<client, download>>,
         NEW msg \in Messages, ~IsData(msg), InTransit' = Append(InTransit, msg)
  PROVE  ClientInv'
<1>1. InTransit \in Seq(Messages)
  BY InTransitType
<1>2. DataOf(InTransit') = DataOf(InTransit)
  <2>1. DataOf(Append(InTransit, msg)) = DataOf(InTransit) \o Carried(msg)
    BY <1>1, DataOfAppend
  <2>2. Carried(msg) = <<>>
    BY DEF Carried
  <2>3. DataOf(InTransit) \in Seq(Nat)
    BY <1>1, DataOfType
  <2> QED  BY <2>1, <2>2, <2>3, ConcatEmptySeq
<1>3. Held' = Held /\ Ended' = Ended
  BY HeldSame
<1>4. FlowInv'
  BY <1>2, <1>3 DEF ClientInv, FlowInv, client, download
<1>5. Ended \in BOOLEAN /\ complete \in BOOLEAN /\ finalChunk \in Seq(Nat)
  BY DEF Ended, ClientInv, LoadInv
<1>6. Final(InTransit, finalChunk, Ended, complete)
  BY DEF ClientInv, FinalInv
<1>7. Final(Append(InTransit, msg), finalChunk, Ended, complete)
  BY <1>1, <1>5, <1>6, FinalAppend
<1>8. FinalInv'
  BY <1>3, <1>7 DEF FinalInv, client, download
<1> QED  BY <1>4, <1>8 DEF ClientInv, client

\* The first message is taken off the way, by the client or by nobody.
LEMMA ClientTail ==
  ASSUME WireInv, ReadInv, LoadInv, ClientInv, UNCHANGED download, InTransit # <<>>,
         InTransit' = Tail(InTransit),
         got' = got \o Carried(Head(InTransit)), complete' \in BOOLEAN,
         IsData(Head(InTransit)) => (complete' <=> Head(InTransit)[3].value = << 1 >>),
         ~IsData(Head(InTransit)) => (complete' <=> complete)
  PROVE  ClientInv'
<1>1. InTransit \in Seq(Messages)
  BY InTransitType
<1>2. /\ Head(InTransit) \in Messages /\ Tail(InTransit) \in Seq(Messages)
      /\ DataOf(InTransit) = Carried(Head(InTransit)) \o DataOf(Tail(InTransit))
  BY <1>1, DataOfFirst
<1>3. PICK g \in Seq(Nat), h \in Seq(Nat), t \in Seq(Nat) :
        g = got /\ h = Carried(Head(InTransit)) /\ t = DataOf(Tail(InTransit))
  BY <1>2, CarriedType, DataOfType DEF ClientInv
<1>4. (g \o h) \o t = g \o (h \o t)
  BY Associate
<1>5. got' \in Seq(Nat)
  BY <1>3, ConcatProperties
<1>6. Held' = Held /\ Ended' = Ended
  BY HeldSame
<1>7. got' \o DataOf(InTransit') = got \o DataOf(InTransit)
  BY <1>2, <1>3, <1>4
<1>8. FlowInv'
  BY <1>6, <1>7 DEF ClientInv, FlowInv, download
<1>9. Ended \in BOOLEAN /\ complete \in BOOLEAN /\ finalChunk \in Seq(Nat)
  BY DEF Ended, ClientInv, LoadInv
<1>10. Final(InTransit, finalChunk, Ended, complete)
  BY DEF ClientInv, FinalInv
<1>11. Final(Tail(InTransit), finalChunk, Ended, complete')
  BY <1>1, <1>9, <1>10, FinalTail
<1>12. FinalInv'
  BY <1>6, <1>11 DEF FinalInv, download
<1> QED  BY <1>5, <1>8, <1>12 DEF ClientInv

-----------------------------------------------------------------------------
(* Writing and sending.                                                    *)

LEMMA WriteFieldStep ==
  ASSUME IInv, NEW f \in Item, WriteField(f), written < MaxMessages,
         fields = <<>> => f.kind = "u16" /\ f # Id(DataId)
  PROVE  IInv'
<1>1. /\ Len(fields) <= MaxFields /\ fields' = Append(fields, f)
      /\ UNCHANGED <<written, transit, download, client, reading>>
  BY DEF WriteField
<1>2. PICK e \in Encodings(f) : m_buffer' = m_buffer \o e /\ m_position' = m_position + Len(e)
  BY DEF WriteField, WriteBytes
<1>3. /\ m_position = Len(m_buffer) /\ IsBody(m_buffer, fields)
      /\ fields # <<>> => fields[1].kind = "u16" /\ ~IsData(fields)
      /\ written \in 0 .. MaxMessages
  BY DEF IInv, WriteInv
<1>4. /\ IsBody(m_buffer \o e, Append(fields, f))
      /\ Len(m_buffer \o e) = Len(m_buffer) + Len(e)
      /\ Append(fields, f) \in Seq(Item) /\ Len(Append(fields, f)) = Len(fields) + 1
      /\ Append(fields, f)[1] = IF fields = <<>> THEN f ELSE fields[1]
  BY <1>3, BodyAppend
<1>5. m_position' = Len(m_buffer') /\ IsBody(m_buffer', fields')
  BY <1>1, <1>2, <1>3, <1>4
<1>6. fields'[1].kind = "u16" /\ ~IsData(fields')
  BY <1>1, <1>3, <1>4 DEF IsData
<1>7. Len(fields') <= MaxFields + 1
  <2>1. Len(fields) \in Nat /\ MaxFields \in Nat
    BY <1>3, BodyType, LenProperties, StreamsAssumption
  <2> QED  BY <2>1, <1>1, <1>4
<1>8. WriteInv'
  BY <1>1, <1>3, <1>5, <1>6, <1>7 DEF WriteInv
<1>9. WireInv' /\ LoadInv'
  BY <1>1, WireSame, LoadSame DEF IInv
<1>10. ReadInv'
  BY <1>1, ReadSame DEF IInv, transit
<1>11. ClientInv'
  BY <1>1, ClientIdle DEF IInv, transit, reading
<1> QED  BY <1>8, <1>9, <1>10, <1>11 DEF IInv

LEMMA BeginMessageStep == IInv /\ BeginMessage => IInv'
<1> SUFFICES ASSUME IInv, BeginMessage PROVE IInv'
  OBVIOUS
<1>1. PICK n \in MessageId \ {DataId} : WriteField(Id(n))
  BY DEF BeginMessage
<1>2. n \in Nat /\ written < MaxMessages
  BY StreamsAssumption DEF BeginMessage
<1>3. Id(n) \in Item /\ Id(n).kind = "u16" /\ Id(n) # Id(DataId)
  <2>1. Id(n) \in Item
    BY <1>2, IdIsItem
  <2>2. Id(n).kind = "u16" /\ Id(n).value = <<n>> /\ Id(DataId).value = <<DataId>>
    BY DEF Id
  <2>3. <<n>>[1] # <<DataId>>[1]
    BY <1>1
  <2> QED  BY <2>1, <2>2, <2>3
<1> QED  BY <1>1, <1>2, <1>3, WriteFieldStep

LEMMA WriteStep == IInv /\ Write => IInv'
<1> SUFFICES ASSUME IInv, Write PROVE IInv'
  OBVIOUS
<1>1. PICK f \in Field : WriteField(f)
  BY DEF Write
<1>2. fields # <<>> /\ written < MaxMessages
  BY DEF Write, IInv, WriteInv
<1>3. f \in Item
  BY FieldIsItem
<1> QED  BY <1>1, <1>2, <1>3, WriteFieldStep

LEMMA SendStep == IInv /\ Send => IInv'
<1> SUFFICES ASSUME IInv, Send PROVE IInv'
  OBVIOUS
<1> USE DEF IInv
<1>1. /\ fields # <<>> /\ sent' = Append(sent, fields)
      /\ wire' = wire \o Frame(m_buffer, m_position)
      /\ m_buffer' = <<>> /\ m_position' = 0 /\ fields' = <<>> /\ written' = written + 1
      /\ UNCHANGED <<download, client, reading>>
  BY DEF Send
<1>2. /\ m_position = Len(m_buffer) /\ IsBody(m_buffer, fields)
      /\ fields[1].kind = "u16" /\ ~IsData(fields) /\ written < MaxMessages
      /\ written \in 0 .. MaxMessages
  BY <1>1 DEF WriteInv
<1>3. fields \in Messages
  <2>1. fields \in Seq(Item)
    BY <1>2, BodyType
  <2> QED  BY <1>1, <1>2, <2>1 DEF Messages, IsMessage
<1>4. WriteInv'
  <2>1. IsBody(m_buffer', fields')
    BY <1>1, BodyNone
  <2>2. MaxMessages \in Nat /\ MaxFields \in Nat
    BY StreamsAssumption
  <2>3. written' \in 0 .. MaxMessages
    BY <1>1, <1>2, <2>2
  <2>4. m_position' = Len(m_buffer') /\ Len(fields') <= MaxFields + 1
    BY <1>1, <2>2, EmptySeq
  <2> QED  BY <1>1, <2>1, <2>3, <2>4 DEF WriteInv
<1>5. /\ Travels(wire \o Frame(m_buffer, Len(m_buffer)), Append(sent, fields))
      /\ wire # <<>> => /\ wire \o Frame(m_buffer, Len(m_buffer)) # <<>>
                        /\ (wire \o Frame(m_buffer, Len(m_buffer)))[1] = wire[1]
  <2>1. Travels(wire, sent) /\ IsMessage(fields)
    BY <1>3 DEF WireInv, Messages
  <2> QED  BY <1>2, <2>1, TravelsAppend
<1>6. WireInv'
  BY <1>1, <1>2, <1>5 DEF WireInv
<1>7. LoadInv'
  BY <1>1, LoadSame
<1>8. ReadInv'
  BY <1>1, <1>2, <1>5, ReadSame
<1>9. ClientInv'
  <2>1. UNCHANGED <<reader, message>>
    BY <1>1 DEF reading
  <2>2. InTransit' = Append(InTransit, fields)
    BY <1>1, <1>3, <2>1, InTransitAppend
  <2> QED  BY <1>1, <1>2, <1>3, <2>2, ClientNotice
<1> QED  BY <1>4, <1>6, <1>7, <1>8, <1>9

-----------------------------------------------------------------------------
(* Sending a character.                                                    *)

LEMMA BeginLoadStep == IInv /\ BeginLoad => IInv'
<1> SUFFICES ASSUME IInv, BeginLoad PROVE IInv'
  OBVIOUS
<1> USE DEF IInv
<1>1. /\ loading = "no" /\ loading' = "loop"
      /\ UNCHANGED <<m_data, position, finalChunk, writing, transit, client, reading>>
  BY DEF BeginLoad
<1>2. WriteInv' /\ WireInv'
  BY <1>1, WriteSame, WireSame
<1>3. LoadInv'
  BY <1>1 DEF LoadInv
<1>4. ReadInv'
  BY <1>1, ReadSame DEF transit
<1>5. Held' = Held /\ Ended' = Ended /\ InTransit' = InTransit
  BY <1>1, InTransitSame DEF Held, Ended, transit, reading
<1>6. ClientInv'
  BY <1>1, <1>5, ClientSame
<1> QED  BY <1>2, <1>3, <1>4, <1>6

\* What is said of the data before its end is read.
LEMMA Loading ==
  ASSUME LoadInv, ReadInv, WireInv, ClientInv, loading = "loop", position < Len(m_data)
  PROVE  /\ m_data \in Seq(Nat) /\ Len(m_data) \in Nat /\ position \in 0 .. Len(m_data)
         /\ finalChunk = <<>> /\ Held = <<>>
         /\ ChunkSize \in Nat /\ ChunkSize >= 1
         /\ InTransit \in Seq(Messages) /\ DataOf(InTransit) \in Seq(Nat) /\ got \in Seq(Nat)
         /\ Flow(got \o DataOf(InTransit), m_data, position, <<>>)
<1>1. /\ m_data \in Seq(Nat) /\ Len(m_data) \in Nat /\ position \in 0 .. Len(m_data)
      /\ ChunkSize \in Nat /\ ChunkSize >= 1
  BY DataType, LenProperties, StreamsAssumption DEF LoadInv
<1>2. finalChunk = <<>>
  BY <1>1 DEF LoadInv
<1>3. Held = <<>>
  BY <1>2 DEF Held
<1>4. InTransit \in Seq(Messages) /\ DataOf(InTransit) \in Seq(Nat) /\ got \in Seq(Nat)
  BY InTransitType, DataOfType DEF ClientInv
<1>5. got \o DataOf(InTransit) \in Seq(Nat)
  BY <1>4, ConcatProperties
<1>6. (got \o DataOf(InTransit)) \o <<>> = got \o DataOf(InTransit)
  BY <1>5, ConcatEmptySeq
<1>7. Flow((got \o DataOf(InTransit)) \o Held, m_data, position, finalChunk)
  BY DEF ClientInv, FlowInv
<1> QED  BY <1>1, <1>2, <1>3, <1>4, <1>6, <1>7

LEMMA KeepFinalChunkStep == IInv /\ KeepFinalChunk => IInv'
<1> SUFFICES ASSUME IInv, KeepFinalChunk PROVE IInv'
  OBVIOUS
<1> USE DEF IInv
<1>1. /\ loading = "loop" /\ position < Len(m_data) /\ position + ChunkSize >= Len(m_data)
      /\ finalChunk' = LastChunk /\ position' = Len(m_data)
      /\ UNCHANGED <<m_data, loading, writing, transit, client, reading>>
  BY DEF KeepFinalChunk, IsFinal, Advanced
<1>2. /\ m_data \in Seq(Nat) /\ Len(m_data) \in Nat /\ position \in 0 .. Len(m_data)
      /\ Flow(got \o DataOf(InTransit), m_data, position, <<>>)
  BY <1>1, Loading
<1>3. /\ LastChunk \in Seq(Nat) /\ Len(LastChunk) = ChunkSize /\ LastChunk # <<>>
      /\ Flow((got \o DataOf(InTransit)) \o LastChunk, m_data, Len(m_data), LastChunk)
  BY <1>1, <1>2, FlowLast DEF LastChunk
<1>4. WriteInv' /\ WireInv'
  BY <1>1, WriteSame, WireSame
<1>5. LoadInv'
  <2>1. position' \in 0 .. Len(m_data')
    BY <1>1, <1>2
  <2> QED  BY <1>1, <1>3, <2>1 DEF LoadInv
<1>6. ReadInv'
  BY <1>1, ReadSame DEF transit
<1>7. InTransit' = InTransit
  BY <1>1, InTransitSame DEF transit, reading
<1>8. ClientInv'
  <2>1. Held' = LastChunk /\ Ended' = Ended
    BY <1>1 DEF Held, Ended
  <2>2. FlowInv'
    BY <1>1, <1>3, <1>7, <2>1 DEF FlowInv, client
  <2>3. ~Ended
    BY <1>1 DEF Ended
  <2>4. ~complete /\ NoEnd(InTransit)
    BY <2>3 DEF ClientInv, FinalInv, Final
  <2>5. FinalInv'
    BY <1>1, <1>7, <2>1, <2>3, <2>4 DEF FinalInv, Final, client
  <2> QED  BY <1>1, <2>2, <2>5 DEF ClientInv, client
<1> QED  BY <1>4, <1>5, <1>6, <1>8

\* A chunk goes on its way.
LEMMA DataSent ==
  ASSUME IInv, NEW chunk \in Seq(Nat), NEW end \in {0, 1}, SendData(chunk, end),
         UNCHANGED reading
  PROVE  WireInv' /\ ReadInv' /\ InTransit' = Append(InTransit, Data(chunk, end))
<1> USE DEF IInv
<1> DEFINE body == Cells("u16", DataId, 2) \o Bytes(chunk) \o U32(end)
<1>1. wire' = wire \o Frame(body, Len(body)) /\ sent' = Append(sent, Data(chunk, end))
  BY DEF SendData, Data
<1>2. IsBody(body, Data(chunk, end)) /\ IsMessage(Data(chunk, end))
  BY DataBody, DataIsMessage
<1> HIDE DEF body
<1>3. /\ Travels(wire \o Frame(body, Len(body)), Append(sent, Data(chunk, end)))
      /\ wire # <<>> => /\ wire \o Frame(body, Len(body)) # <<>>
                        /\ (wire \o Frame(body, Len(body)))[1] = wire[1]
  <2>1. Travels(wire, sent)
    BY DEF WireInv
  <2> QED  BY <1>2, <2>1, TravelsAppend
<1>4. WireInv'
  BY <1>1, <1>3 DEF WireInv
<1>5. ReadInv'
  BY <1>1, <1>3, ReadSame
<1>6. InTransit' = Append(InTransit, Data(chunk, end))
  <2>1. Data(chunk, end) \in Messages
    BY DataInMessages
  <2>2. UNCHANGED <<reader, message>>
    BY DEF reading
  <2> QED  BY <1>1, <2>1, <2>2, InTransitAppend
<1> QED  BY <1>4, <1>5, <1>6

LEMMA SendChunkStep == IInv /\ SendChunk => IInv'
<1> SUFFICES ASSUME IInv, SendChunk PROVE IInv'
  OBVIOUS
<1> USE DEF IInv
<1>1. /\ loading = "loop" /\ position < Len(m_data) /\ ~(position + ChunkSize >= Len(m_data))
      /\ SendData(Chunk, 0) /\ position' = position + ChunkSize
      /\ UNCHANGED <<m_data, finalChunk, loading, writing, client, reading>>
  BY DEF SendChunk, IsFinal, Advanced
<1>2. /\ m_data \in Seq(Nat) /\ Len(m_data) \in Nat /\ position \in 0 .. Len(m_data)
      /\ finalChunk = <<>> /\ Held = <<>> /\ ChunkSize \in Nat /\ ChunkSize >= 1
      /\ InTransit \in Seq(Messages) /\ DataOf(InTransit) \in Seq(Nat) /\ got \in Seq(Nat)
      /\ Flow(got \o DataOf(InTransit), m_data, position, <<>>)
  BY <1>1, Loading
<1>3. position + ChunkSize <= Len(m_data) /\ position + ChunkSize < Len(m_data)
  BY <1>1, <1>2
<1>4. /\ Chunk \in Seq(Nat)
      /\ Flow((got \o DataOf(InTransit)) \o Chunk, m_data, position + ChunkSize, <<>>)
  BY <1>2, <1>3, FlowChunk DEF Chunk
<1>5. WireInv' /\ ReadInv' /\ InTransit' = Append(InTransit, Data(Chunk, 0))
  BY <1>1, <1>4, DataSent
<1>6. WriteInv'
  BY <1>1, WriteSame
<1>7. LoadInv'
  <2>1. position' \in 0 .. Len(m_data') /\ position' < Len(m_data')
    BY <1>1, <1>2, <1>3
  <2> QED  BY <1>1, <1>2, <2>1 DEF LoadInv
<1>8. /\ Data(Chunk, 0) \in Messages /\ Carried(Data(Chunk, 0)) = Chunk
      /\ IsData(Data(Chunk, 0)) /\ Data(Chunk, 0)[3].value = <<0>>
  BY <1>4, DataInMessages
<1>9. FlowInv'
  <2>1. DataOf(InTransit') = DataOf(InTransit) \o Chunk
    BY <1>2, <1>5, <1>8, DataOfAppend
  <2>2. PICK g \in Seq(Nat), d \in Seq(Nat), c \in Seq(Nat) :
          g = got /\ d = DataOf(InTransit) /\ c = Chunk
    BY <1>2, <1>4
  <2>3. (g \o d) \o c = g \o (d \o c)
    BY Associate
  <2>4. g \o (d \o c) \in Seq(Nat)
    <3>1. d \o c \in Seq(Nat)
      BY ConcatProperties
    <3> QED  BY <3>1, ConcatProperties
  <2>5. got' \o DataOf(InTransit') = g \o (d \o c)
    BY <1>1, <2>1, <2>2 DEF client
  <2>6. Held' = <<>>
    BY <1>1, <1>2 DEF Held
  <2>7. (got' \o DataOf(InTransit')) \o Held' = (got \o DataOf(InTransit)) \o Chunk
    <3>1. (g \o (d \o c)) \o <<>> = g \o (d \o c)
      BY <2>4, ConcatEmptySeq
    <3> QED  BY <2>2, <2>3, <2>5, <2>6, <3>1
  <2> QED  BY <1>1, <1>2, <1>4, <2>7 DEF FlowInv
<1>10. FinalInv'
  <2>1. ~Ended /\ ~Ended'
    BY <1>1, <1>2 DEF Ended
  <2>2. ~complete /\ NoEnd(InTransit)
    BY <2>1 DEF ClientInv, FinalInv, Final
  <2>3. NoEnd(Append(InTransit, Data(Chunk, 0)))
    BY <1>2, <1>8, <2>2, EndsAppend
  <2> QED  BY <1>1, <1>5, <2>1, <2>2, <2>3 DEF FinalInv, Final, client
<1>11. ClientInv'
  BY <1>1, <1>9, <1>10 DEF ClientInv, client
<1> QED  BY <1>5, <1>6, <1>7, <1>11

LEMMA AnswerStep == IInv /\ Answer => IInv'
<1> SUFFICES ASSUME IInv, Answer PROVE IInv'
  OBVIOUS
<1> USE DEF IInv
<1>1. /\ loading = "loop" /\ position >= Len(m_data) /\ loading' = "done"
      /\ UNCHANGED <<m_data, position, finalChunk, writing, client, reading>>
  BY DEF Answer
<1>2. WriteInv'
  BY <1>1, WriteSame
<1>3. m_data \in Seq(Nat) /\ Len(m_data) \in Nat /\ position \in 0 .. Len(m_data)
  BY DataType, LenProperties DEF LoadInv
<1>4. LoadInv'
  BY <1>1, <1>3 DEF LoadInv
<1>5. Held = finalChunk /\ Held' = <<>> /\ ~Ended /\ finalChunk \in Seq(Nat) /\ got \in Seq(Nat)
  BY <1>1 DEF Held, Ended, LoadInv, ClientInv
<1>6. CASE finalChunk = <<>>
  <2>1. UNCHANGED transit
    BY <1>6 DEF Answer
  <2>2. WireInv' /\ ReadInv'
    BY <1>1, <2>1, WireSame, ReadSame DEF transit
  <2>3. Held' = Held /\ Ended' = Ended /\ InTransit' = InTransit
    BY <1>1, <1>5, <1>6, <2>1, InTransitSame DEF Ended, transit, reading
  <2>4. ClientInv'
    BY <1>1, <2>3, ClientSame
  <2> QED  BY <1>2, <1>4, <2>2, <2>4
<1>7. CASE finalChunk # <<>>
  <2>1. SendData(finalChunk, 1)
    BY <1>7 DEF Answer
  <2>2. WireInv' /\ ReadInv' /\ InTransit' = Append(InTransit, Data(finalChunk, 1))
    BY <1>1, <1>5, <2>1, DataSent
  <2>3. Data(finalChunk, 1) \in Messages /\ Carried(Data(finalChunk, 1)) = finalChunk
    BY <1>5, DataInMessages
  <2>4. InTransit \in Seq(Messages) /\ DataOf(InTransit) \in Seq(Nat)
    BY InTransitType, DataOfType
  <2>5. FlowInv'
    <3>1. DataOf(InTransit') = DataOf(InTransit) \o finalChunk
      BY <2>2, <2>3, <2>4, DataOfAppend
    <3>2. PICK g \in Seq(Nat), d \in Seq(Nat), c \in Seq(Nat) :
            g = got /\ d = DataOf(InTransit) /\ c = finalChunk
      BY <1>5, <2>4
    <3>3. (g \o d) \o c = g \o (d \o c)
      BY Associate
    <3>4. g \o (d \o c) \in Seq(Nat)
      <4>1. d \o c \in Seq(Nat)
        BY ConcatProperties
      <4> QED  BY <4>1, ConcatProperties
    <3>5. got' \o DataOf(InTransit') = g \o (d \o c)
      BY <1>1, <3>1, <3>2 DEF client
    <3>6. (got' \o DataOf(InTransit')) \o Held' = (got \o DataOf(InTransit)) \o Held
      <4>1. (g \o (d \o c)) \o <<>> = g \o (d \o c)
        BY <3>4, ConcatEmptySeq
      <4> QED  BY <1>5, <3>2, <3>3, <3>5, <4>1
    <3> QED  BY <1>1, <3>6 DEF ClientInv, FlowInv
  <2>6. FinalInv'
    <3>1. Ended' /\ Ended = FALSE
      BY <1>1, <1>5, <1>7 DEF Ended
    <3>2. Final(InTransit, finalChunk, FALSE, complete) /\ complete \in BOOLEAN
      BY <3>1 DEF ClientInv, FinalInv
    <3>3. Final(Append(InTransit, Data(finalChunk, 1)), finalChunk, TRUE, complete)
      BY <1>5, <2>4, <3>2, FinalSent
    <3>4. Ended' = TRUE
      BY <3>1 DEF Ended
    <3> QED  BY <1>1, <2>2, <3>3, <3>4 DEF FinalInv, client
  <2>7. ClientInv'
    BY <1>1, <2>5, <2>6 DEF ClientInv, client
  <2> QED  BY <1>2, <1>4, <2>2, <2>7
<1> QED  BY <1>6, <1>7

-----------------------------------------------------------------------------
(* Reading a field.                                                        *)

\* The first field is the number, and it is read right whatever follows.
LEMMA NumberRead ==
  ASSUME ReadInv, reader = "reading", result = <<>>
  PROVE  /\ Head(plan) = "u16"
         /\ message[1] = [kind |-> "u16", value |-> <<IntAt("u16", offset, 2)>>]
<1>1. /\ StreamTyped /\ message \in Messages /\ plan = Kinds(message) /\ offset = 0
      /\ IsBody(stream, message)
  BY DEF ReadInv
<1>2. message \in Seq(Item) /\ message # <<>> /\ IsMessage(message)
  BY <1>1 DEF Messages, IsMessage
<1>3. PICK n \in Nat : message[1] = Id(n)
  BY <1>1, <1>2, BodyFirst
<1>4. Head(message) = Id(n)
  BY <1>2, <1>3
<1>5. Head(plan) = "u16"
  BY <1>1, <1>2, <1>4, KindsFirst DEF Id
<1>6. PICK es : Encodes(es, message) /\ stream = FlattenSeq(es)
  BY <1>1 DEF IsBody
<1>7. /\ es # <<>> /\ Head(es) \in Encodings(Head(message)) /\ Head(es) \in Seq(Byte)
      /\ es \in Seq(Seq(Byte))
  BY <1>2, <1>6, EncodesFirst DEF Encodes
<1>8. Head(es) = Cells("u16", n, 2) /\ Len(Cells("u16", n, 2)) = 2
  BY <1>4, <1>7, IdIsItem
<1>9. FlattenSeq(Tail(es)) \in Seq(Byte)
  <2>1. Tail(es) \in Seq(Seq(Byte))
    BY <1>7
  <2> QED  BY <2>1, FlattenType
<1>10. stream = Head(es) \o FlattenSeq(Tail(es))
  BY <1>6, <1>7, FlattenFirst
<1>11. Here(Cells("u16", n, 2))
  <2>1. stream \in Seq(Byte) /\ offset = 0
    BY <1>1 DEF StreamTyped
  <2>2. /\ Len(stream) = Len(Head(es)) + Len(FlattenSeq(Tail(es)))
        /\ \A i \in 1 .. Len(Head(es)) : stream[i] = Head(es)[i]
        /\ Len(FlattenSeq(Tail(es))) \in Nat /\ Len(Head(es)) \in Nat
    BY <1>7, <1>9, <1>10, ConcatProperties, LenProperties
  <2>3. \A i \in 1 .. 2 : stream[offset + i] = Cells("u16", n, 2)[i]
    BY <1>8, <2>1, <2>2
  <2> QED  BY <1>7, <1>8, <2>1, <2>2, <2>3 DEF Here
<1>12. IntAt("u16", offset, 2) = n
  BY <1>11, U16Here
<1> QED  BY <1>3, <1>5, <1>12 DEF Id

\* The next field of a regular message, and its encoding.
NextField(todo, es, done) ==
  /\ Left(todo, es, done) /\ plan = Kinds(todo) /\ todo # <<>> /\ Head(todo) \in Item
  /\ Head(plan) = Head(todo).kind /\ Tail(plan) = Kinds(Tail(todo))
  /\ Head(es) \in Encodings(Head(todo)) /\ Here(Head(es))

LEMMA FieldAtHand ==
  ASSUME ReadInv, reader \in {"reading", "failed"}, plan # <<>>, Regular(message)
  PROVE  \E todo, es, done : NextField(todo, es, done)
<1>1. StreamTyped /\ \E todo, es, done : Reading(todo, es, done)
  BY DEF ReadInv
<1>2. PICK todo, es, done : Reading(todo, es, done)
  BY <1>1
<1>3. Left(todo, es, done) /\ plan = Kinds(todo)
  BY <1>2 DEF Reading
<1>4. todo \in Seq(Item)
  BY <1>3 DEF Left, Encodes
<1>5. todo # <<>>
  <2>1. Kinds(<<>>) = <<>>
    BY DEF Kinds
  <2> QED  BY <1>3, <2>1
<1>6. Head(plan) = Head(todo).kind /\ Tail(plan) = Kinds(Tail(todo))
  BY <1>3, <1>4, <1>5, KindsFirst
<1>7. /\ Head(todo) \in Item /\ Head(es) \in Encodings(Head(todo)) /\ Head(es) \in Seq(Byte)
      /\ Len(Head(es)) \in Nat /\ offset + Len(Head(es)) \in 0 .. Len(stream)
      /\ \A i \in 1 .. Len(Head(es)) : stream[offset + i] = Head(es)[i]
  BY <1>1, <1>3, <1>5, NextLeft
<1>8. Here(Head(es))
  <2>1. stream \in Seq(Byte) /\ offset \in 0 .. Len(stream) /\ Len(stream) \in Nat
    BY <1>1, LenProperties DEF StreamTyped
  <2> QED  BY <1>7, <2>1 DEF Here
<1> QED  BY <1>3, <1>5, <1>6, <1>7, <1>8 DEF NextField

\* It is read, and what is left of the message is left in the stream.
LEMMA NextFieldRead ==
  ASSUME StreamTyped, NEW todo, NEW es, NEW done, NextField(todo, es, done),
         Head(plan) # "meta", NEW r \in Value, Same(r, Head(todo)),
         result' = Append(result, r), offset' = offset + Len(Head(es)),
         plan' = Tail(plan), UNCHANGED <<stream, message>>
  PROVE  \E t, e, d : Reading(t, e, d)'
<1>1. /\ Left(todo, es, done) /\ todo # <<>> /\ Head(todo).kind # "meta"
      /\ plan' = Kinds(Tail(todo)) /\ result \in Seq(Value)
  BY DEF NextField, StreamTyped
<1>2. Left(Tail(todo), Tail(es), Append(done, Head(todo)))'
  BY <1>1, PartRead
<1>3. Reading(Tail(todo), Tail(es), Append(done, Head(todo)))'
  BY <1>1, <1>2 DEF Reading
<1> QED  BY <1>3

\* What a step that reads a field has to do.
LEMMA FieldRead ==
  ASSUME IInv, reader = "reading", plan # <<>>,
         UNCHANGED <<writing, transit, download, client, reader, stream, message>>,
         NEW r \in Value, result' = Append(result, r),
         offset' \in Nat, offset' <= Len(stream), plan' \in Seq(Kind),
         result = <<>> => r = message[1],
         Regular(message) => \E todo, es, done : Reading(todo, es, done)'
  PROVE  IInv'
<1> USE DEF IInv
<1>1. WriteInv' /\ WireInv' /\ LoadInv'
  BY WriteSame, WireSame, LoadSame
<1>2. ClientInv'
  BY ClientIdle DEF transit
<1>3. /\ StreamTyped /\ message \in Messages /\ (result # <<>> => result[1] = message[1])
      /\ result \in Seq(Value) /\ stream \in Seq(Byte)
  BY DEF ReadInv, StreamTyped
<1>4. result' \in Seq(Value) /\ result' # <<>> /\ result'[1] = message[1]
  <2>1. /\ Append(result, r) \in Seq(Value) /\ Append(result, r) # <<>>
        /\ Len(Append(result, r)) = Len(result) + 1 /\ Len(result) \in Nat
    BY <1>3, AppendProperties, LenProperties
  <2>2. result = <<>> => Append(result, r)[1] = r
    BY <1>3
  <2>3. result # <<>> => Append(result, r)[1] = result[1]
    BY <1>3
  <2> QED  BY <1>3, <2>1, <2>2, <2>3
<1>5. StreamTyped'
  <2>1. Len(stream) \in Nat
    BY <1>3, LenProperties
  <2> QED  BY <1>3, <1>4, <2>1 DEF StreamTyped
<1>6. ReadInv'
  <2>1. Regular(message') <=> Regular(message)
    OBVIOUS
  <2> QED  BY <1>3, <1>4, <1>5, <2>1 DEF ReadInv
<1> QED  BY <1>1, <1>2, <1>6

LEMMA ReadsFacts ==
  ASSUME IInv, NEW kind, Reads(kind)
  PROVE  /\ reader = "reading" /\ plan # <<>> /\ Head(plan) = kind /\ Readable(kind)
         /\ UNCHANGED <<writing, transit, download, client, reader, stream, message>>
         /\ ReadInv /\ StreamTyped /\ plan \in Seq(Kind) /\ Tail(plan) \in Seq(Kind)
         /\ stream \in Seq(Byte) /\ Len(stream) \in Nat /\ offset \in Nat
         /\ kind # "u16" => result # <<>>
<1>1. /\ reader = "reading" /\ plan # <<>> /\ Head(plan) = kind /\ Readable(kind)
      /\ UNCHANGED <<writing, transit, download, client, reader, stream, message>>
  BY DEF Reads
<1>2. ReadInv /\ StreamTyped
  BY DEF IInv, ReadInv
<1>3. plan \in Seq(Kind) /\ stream \in Seq(Byte) /\ offset \in 0 .. Len(stream)
  BY <1>2 DEF StreamTyped
<1>4. Tail(plan) \in Seq(Kind) /\ Len(stream) \in Nat /\ offset \in Nat
  BY <1>1, <1>3, HeadTailProperties, LenProperties
<1>5. kind # "u16" => result # <<>>
  BY <1>1, <1>2, NumberRead
<1> QED  BY <1>1, <1>2, <1>3, <1>4, <1>5

LEMMA NumberValue ==
  ASSUME NEW kind \in Kind, NEW n \in Nat \cup {Junk}
  PROVE  [kind |-> kind, value |-> <<n>>] \in Value
<1>1. n \in Int
  BY DEF Junk
<1>2. <<n>> \in Seq(Int)
  BY <1>1
<1> QED  BY <1>2 DEF Value

LEMMA ReadU16Step == IInv /\ ReadU16 => IInv'
<1> SUFFICES ASSUME IInv, ReadU16 PROVE IInv'
  OBVIOUS
<1> DEFINE r == [kind |-> "u16", value |-> <<IntAt("u16", offset, 2)>>]
<1>1. /\ Reads("u16") /\ result' = Append(result, r) /\ offset' = After(offset, 2)
      /\ plan' = Tail(plan)
  BY DEF ReadU16, Gives
<1>2. /\ reader = "reading" /\ plan # <<>> /\ Head(plan) = "u16" /\ Readable("u16")
      /\ UNCHANGED <<writing, transit, download, client, reader, stream, message>>
      /\ ReadInv /\ StreamTyped /\ Tail(plan) \in Seq(Kind)
      /\ stream \in Seq(Byte) /\ Len(stream) \in Nat /\ offset \in Nat
  BY <1>1, ReadsFacts
<1>3. 2 \in Nat /\ 2 >= 1 /\ "u16" \in {"u16", "u32"} /\ "u16" \in Kind
  BY DEF Kind
<1>4. IntAt("u16", offset, 2) \in Nat \cup {Junk} /\ After(offset, 2) \in Nat
  BY <1>2, <1>3, IntAtType
<1>5. r \in Value
  BY <1>3, <1>4, NumberValue
<1>6. After(offset, 2) <= Len(stream)
  BY <1>2 DEF Readable
<1>7. result = <<>> => r = message[1]
  BY <1>2, NumberRead
<1>8. ASSUME Regular(message)
      PROVE  \E todo, es, done : Reading(todo, es, done)'
  <2>1. PICK todo, es, done : NextField(todo, es, done)
    BY <1>2, <1>8, FieldAtHand
  <2>2. /\ Head(todo) \in Item /\ Head(todo).kind = "u16"
        /\ Head(es) \in Encodings(Head(todo)) /\ Here(Head(es))
    BY <1>2, <2>1 DEF NextField
  <2>3. PICK n \in Nat : Head(todo) = Id(n)
    BY <2>2, NumberItem
  <2>4. Head(es) = Cells("u16", n, 2)
    BY <2>2, <2>3, IdIsItem
  <2>5. IntAt("u16", offset, 2) = n /\ After(offset, 2) = offset + Len(Head(es))
    BY <2>2, <2>4, U16Here
  <2>6. Same(r, Head(todo))
    BY <2>3, <2>5 DEF Same, Id
  <2>7. offset' = offset + Len(Head(es))
    BY <1>1, <2>5
  <2> HIDE DEF r
  <2> QED  BY <1>1, <1>2, <1>5, <2>1, <2>6, <2>7, NextFieldRead
<1> HIDE DEF r
<1>9. offset' \in Nat /\ offset' <= Len(stream) /\ plan' \in Seq(Kind)
  BY <1>1, <1>2, <1>4, <1>6
<1> QED  BY <1>1, <1>2, <1>5, <1>7, <1>8, <1>9, FieldRead

\* A 32-bit number that is at the offset, or junk.
LEMMA BodyTyped ==
  ASSUME stream \in Seq(Byte), offset \in Nat
  PROVE  U32At(offset) \in Nat \cup {Junk} /\ Body \in Nat
<1>1. 4 \in Nat /\ 4 >= 1 /\ "u32" \in {"u16", "u32"}
  OBVIOUS
<1> QED  BY <1>1, IntAtType DEF U32At, Body

LEMMA NumberEncoding ==
  ASSUME NEW f \in Item, f.kind = "u32"
  PROVE  \E n \in Nat : f = [kind |-> "u32", value |-> <<n>>] /\ Encodings(f) = {U32(n)}
<1>1. PICK n \in Nat : f = [kind |-> "u32", value |-> <<n>>]
  BY ItemCases
<1> QED  BY <1>1 DEF Encodings

LEMMA ReadU32Step == IInv /\ ReadU32 => IInv'
<1> SUFFICES ASSUME IInv, ReadU32 PROVE IInv'
  OBVIOUS
<1> DEFINE r == [kind |-> "u32", value |-> <<U32At(offset)>>]
<1>1. /\ Reads("u32") /\ result' = Append(result, r) /\ offset' = Body /\ plan' = Tail(plan)
  BY DEF ReadU32, Gives
<1>2. /\ reader = "reading" /\ plan # <<>> /\ Head(plan) = "u32" /\ Readable("u32")
      /\ UNCHANGED <<writing, transit, download, client, reader, stream, message>>
      /\ ReadInv /\ StreamTyped /\ Tail(plan) \in Seq(Kind)
      /\ stream \in Seq(Byte) /\ offset \in Nat /\ result # <<>>
  BY <1>1, ReadsFacts
<1>3. U32At(offset) \in Nat \cup {Junk} /\ Body \in Nat
  BY <1>2, BodyTyped
<1>4. r \in Value
  <2>1. "u32" \in Kind
    BY DEF Kind
  <2> QED  BY <1>3, <2>1, NumberValue
<1>5. Body <= Len(stream)
  BY <1>2 DEF Readable
<1>6. ASSUME Regular(message)
      PROVE  \E todo, es, done : Reading(todo, es, done)'
  <2>1. PICK todo, es, done : NextField(todo, es, done)
    BY <1>2, <1>6, FieldAtHand
  <2>2. /\ Head(todo) \in Item /\ Head(todo).kind = "u32"
        /\ Head(es) \in Encodings(Head(todo)) /\ Here(Head(es))
    BY <1>2, <2>1 DEF NextField
  <2>3. PICK n \in Nat : Head(todo) = [kind |-> "u32", value |-> <<n>>] /\ Head(es) = U32(n)
    BY <2>2, NumberEncoding
  <2>4. /\ Len(Head(es)) = 4
        /\ \A i \in 1 .. 4 : Head(es)[i] = [of |-> "u32", value |-> n, at |-> i]
    BY <2>3, U32Properties
  <2>5. Len(Head(es)) >= 4
    BY <2>4
  <2>6. U32At(offset) = n /\ Body = offset + 4
    BY <2>2, <2>4, <2>5, U32Here
  <2>7. Same(r, Head(todo))
    BY <2>3, <2>6 DEF Same
  <2>8. offset' = offset + Len(Head(es))
    BY <1>1, <2>4, <2>6
  <2> HIDE DEF r
  <2> QED  BY <1>1, <1>2, <1>4, <2>1, <2>7, <2>8, NextFieldRead
<1> HIDE DEF r
<1>7. offset' \in Nat /\ offset' <= Len(stream) /\ plan' \in Seq(Kind)
  BY <1>1, <1>2, <1>3, <1>5
<1> QED  BY <1>1, <1>2, <1>4, <1>6, <1>7, FieldRead

\* Where no text comes of what was read, the outcome is junk.
LEMMA TextOfType ==
  ASSUME NEW of, NEW n, NEW cells
  PROVE  TextOf(of, n, cells) \in Nat \cup {Junk}
<1> DEFINE texts == {t \in Text : TextLength[t] = n /\ cells = Cells(of, t, Len(cells))}
<1>1. texts # {} => (CHOOSE t \in texts : TRUE) \in Text
  OBVIOUS
<1>2. Text \subseteq Nat
  BY StreamsAssumption
<1> QED  BY <1>1, <1>2 DEF TextOf

LEMMA ReadUtfStep == IInv /\ ReadUtf => IInv'
<1> SUFFICES ASSUME IInv, ReadUtf PROVE IInv'
  OBVIOUS
<1>0. DOMAIN Width = {"utf8", "utf16"}
  BY DEF Width
<1>1. PICK kind \in {"utf8", "utf16"} :
        LET n == U32At(offset)
            size == Width[kind] * n
        IN  /\ Reads(kind)
            /\ Gives(kind, <<TextOf(kind, n, At(Body, size))>>, Body + size)
            /\ plan' = Tail(plan)
  BY <1>0 DEF ReadUtf
<1> DEFINE size == Width[kind] * U32At(offset)
           value == TextOf(kind, U32At(offset), At(Body, size))
           r == [kind |-> kind, value |-> <<value>>]
<1>2. /\ Reads(kind) /\ result' = Append(result, r) /\ offset' = Body + size
      /\ plan' = Tail(plan)
  BY <1>1 DEF Gives
<1>3. /\ reader = "reading" /\ plan # <<>> /\ Head(plan) = kind /\ Readable(kind)
      /\ UNCHANGED <<writing, transit, download, client, reader, stream, message>>
      /\ ReadInv /\ StreamTyped /\ Tail(plan) \in Seq(Kind)
      /\ stream \in Seq(Byte) /\ offset \in Nat /\ result # <<>>
  BY <1>2, ReadsFacts
<1>4. U32At(offset) # Junk /\ Body + size <= Len(stream)
  BY <1>3 DEF Readable
<1>5. U32At(offset) \in Nat /\ Body \in Nat
  BY <1>3, <1>4, BodyTyped
<1>6. Body + size \in Nat
  <2>1. Width[kind] \in {1, 2}
    BY DEF Width
  <2> QED  BY <1>5, <2>1
<1>7. r \in Value
  <2>1. kind \in Kind
    BY DEF Kind
  <2>2. value \in Nat \cup {Junk}
    BY TextOfType
  <2> HIDE DEF value
  <2> QED  BY <2>1, <2>2, NumberValue
<1>8. ASSUME Regular(message)
      PROVE  \E todo, es, done : Reading(todo, es, done)'
  <2>1. PICK todo, es, done : NextField(todo, es, done)
    BY <1>3, <1>8, FieldAtHand
  <2>2. /\ Head(todo) \in Item /\ Head(todo).kind = kind
        /\ Head(es) \in Encodings(Head(todo)) /\ Here(Head(es))
    BY <1>3, <2>1 DEF NextField
  <2>3. PICK t \in Text : Head(todo) = [kind |-> kind, value |-> <<t>>]
    BY <2>2, ItemCases
  <2>4. Head(es) = Utf(kind, t)
    BY <2>2, <2>3 DEF Encodings
  <2>5. value = t /\ Body + size = offset + Len(Head(es))
    BY <2>2, <2>4, UtfHere
  <2>6. Same(r, Head(todo))
    BY <2>3, <2>5 DEF Same
  <2>7. offset' = offset + Len(Head(es))
    BY <1>2, <2>5
  <2>8. Head(plan) # "meta"
    BY <1>3
  <2> HIDE DEF r, size, value
  <2> QED  BY <1>2, <1>3, <1>7, <2>1, <2>6, <2>7, <2>8, NextFieldRead
<1> HIDE DEF r, size, value
<1>9. offset' \in Nat /\ offset' <= Len(stream) /\ plan' \in Seq(Kind)
  BY <1>2, <1>3, <1>4, <1>6
<1> QED  BY <1>2, <1>3, <1>7, <1>8, <1>9, FieldRead

LEMMA ReadTerminatedStep == IInv /\ ReadTerminated => IInv'
<1> SUFFICES ASSUME IInv, ReadTerminated PROVE IInv'
  OBVIOUS
<1> DEFINE n == Min(Ends) - 1 - offset
           value == TextOf("utf8", n, At(offset, n))
           r == [kind |-> "sz_utf8", value |-> <<value>>]
<1>1. /\ Reads("sz_utf8") /\ result' = Append(result, r) /\ offset' = Min(Ends)
      /\ plan' = Tail(plan)
  BY DEF ReadTerminated, Gives
<1>2. /\ reader = "reading" /\ plan # <<>> /\ Head(plan) = "sz_utf8" /\ Readable("sz_utf8")
      /\ UNCHANGED <<writing, transit, download, client, reader, stream, message>>
      /\ ReadInv /\ StreamTyped /\ Tail(plan) \in Seq(Kind)
      /\ stream \in Seq(Byte) /\ Len(stream) \in Nat /\ offset \in Nat /\ result # <<>>
  BY <1>1, ReadsFacts
<1>3. Min(Ends) \in Nat /\ Min(Ends) <= Len(stream)
  <2>1. Ends # {}
    BY <1>2 DEF Readable
  <2>2. Ends \in SUBSET Nat /\ \A k \in Ends : k <= Len(stream)
    BY <1>2 DEF Ends
  <2>3. Min(Ends) \in Ends
    BY <2>1, <2>2, MinProperties
  <2> QED  BY <2>2, <2>3
<1>4. r \in Value
  <2>1. "sz_utf8" \in Kind
    BY DEF Kind
  <2>2. value \in Nat \cup {Junk}
    BY TextOfType
  <2> HIDE DEF value
  <2> QED  BY <2>1, <2>2, NumberValue
<1>5. ASSUME Regular(message)
      PROVE  \E todo, es, done : Reading(todo, es, done)'
  <2>1. PICK todo, es, done : NextField(todo, es, done)
    BY <1>2, <1>5, FieldAtHand
  <2>2. /\ Head(todo) \in Item /\ Head(todo).kind = "sz_utf8"
        /\ Head(es) \in Encodings(Head(todo)) /\ Here(Head(es))
    BY <1>2, <2>1 DEF NextField
  <2>3. PICK t \in Text : Head(todo) = [kind |-> "sz_utf8", value |-> <<t>>]
    BY <2>2, ItemCases
  <2>4. Head(es) = Terminated(t)
    BY <2>2, <2>3 DEF Encodings
  <2>5. value = t /\ Min(Ends) = offset + Len(Head(es))
    BY <2>2, <2>4, TerminatedHere
  <2>6. Same(r, Head(todo))
    BY <2>3, <2>5 DEF Same
  <2>7. offset' = offset + Len(Head(es)) /\ Head(plan) # "meta"
    BY <1>1, <1>2, <2>5
  <2> HIDE DEF r, n, value
  <2> QED  BY <1>1, <1>2, <1>4, <2>1, <2>6, <2>7, NextFieldRead
<1> HIDE DEF r, n, value
<1>6. offset' \in Nat /\ offset' <= Len(stream) /\ plan' \in Seq(Kind)
  BY <1>1, <1>2, <1>3
<1> QED  BY <1>1, <1>2, <1>4, <1>5, <1>6, FieldRead

LEMMA ReadEncryptedStep == IInv /\ ReadEncrypted => IInv'
<1> SUFFICES ASSUME IInv, ReadEncrypted PROVE IInv'
  OBVIOUS
<1> DEFINE value == TextOf("cipher", U32At(Body) \div 2, At(Cipher, EncryptedSize))
           r == [kind |-> "encrypted", value |-> <<value>>]
<1>1. /\ Reads("encrypted") /\ result' = Append(result, r)
      /\ offset' = Cipher + EncryptedSize /\ plan' = Tail(plan)
  BY DEF ReadEncrypted, Gives
<1>2. /\ reader = "reading" /\ plan # <<>> /\ Head(plan) = "encrypted" /\ Readable("encrypted")
      /\ UNCHANGED <<writing, transit, download, client, reader, stream, message>>
      /\ ReadInv /\ StreamTyped /\ Tail(plan) \in Seq(Kind)
      /\ stream \in Seq(Byte) /\ offset \in Nat /\ result # <<>>
  BY <1>1, ReadsFacts
<1>3. Cipher + EncryptedSize \in Nat /\ Cipher + EncryptedSize <= Len(stream)
  <2>1. /\ U32At(offset) # Junk /\ U32At(Body) # Junk
        /\ EncryptedSize >= U32At(Body) /\ Cipher + EncryptedSize <= Len(stream)
    BY <1>2 DEF Readable
  <2>2. U32At(offset) \in Nat /\ Body \in Nat
    BY <1>2, <2>1, BodyTyped
  <2>3. U32At(Body) \in Nat /\ Cipher \in Nat
    <3>1. 4 \in Nat /\ 4 >= 1 /\ "u32" \in {"u16", "u32"}
      OBVIOUS
    <3>2. IntAt("u32", Body, 4) \in Nat \cup {Junk} /\ After(Body, 4) \in Nat
      BY <1>2, <2>2, <3>1, IntAtType
    <3> QED  BY <2>1, <3>2 DEF U32At, Cipher
  <2>4. EncryptedSize \in Int
    BY <2>2 DEF EncryptedSize
  <2> QED  BY <2>1, <2>3, <2>4
<1>4. r \in Value
  <2>1. "encrypted" \in Kind
    BY DEF Kind
  <2>2. value \in Nat \cup {Junk}
    BY TextOfType
  <2> HIDE DEF value
  <2> QED  BY <2>1, <2>2, NumberValue
<1>5. ASSUME Regular(message)
      PROVE  \E todo, es, done : Reading(todo, es, done)'
  <2>1. PICK todo, es, done : NextField(todo, es, done)
    BY <1>2, <1>5, FieldAtHand
  <2>2. /\ Head(todo) \in Item /\ Head(todo).kind = "encrypted"
        /\ Head(es) \in Encodings(Head(todo)) /\ Here(Head(es))
    BY <1>2, <2>1 DEF NextField
  <2>3. PICK t \in Text : Head(todo) = [kind |-> "encrypted", value |-> <<t>>]
    BY <2>2, ItemCases
  <2>4. Head(es) \in Encrypted(t)
    BY <2>2, <2>3 DEF Encodings
  <2>5. /\ value = t \/ (~Aligned(t) /\ value = Junk)
        /\ Cipher + EncryptedSize = offset + Len(Head(es))
    BY <2>2, <2>4, EncryptedHere
  <2>6. Same(r, Head(todo))
    BY <2>3, <2>5 DEF Same
  <2>7. offset' = offset + Len(Head(es)) /\ Head(plan) # "meta"
    BY <1>1, <1>2, <2>5
  <2> HIDE DEF r, value
  <2> QED  BY <1>1, <1>2, <1>4, <2>1, <2>6, <2>7, NextFieldRead
<1> HIDE DEF r, value
<1>6. offset' \in Nat /\ offset' <= Len(stream) /\ plan' \in Seq(Kind)
  BY <1>1, <1>2, <1>3
<1> QED  BY <1>1, <1>2, <1>4, <1>5, <1>6, FieldRead

LEMMA ReadBytesStep == IInv /\ ReadBytes => IInv'
<1> SUFFICES ASSUME IInv, ReadBytes PROVE IInv'
  OBVIOUS
<1> DEFINE n == U32At(offset)
           byte(c) == IF c.of = "byte" THEN c.value ELSE Junk
           value == [i \in 1 .. n |-> byte(stream[Body + i])]
           r == [kind |-> "bytes", value |-> value]
<1>1. /\ Reads("bytes") /\ result' = Append(result, r) /\ offset' = Body + n
      /\ plan' = Tail(plan)
  BY DEF ReadBytes, Gives
<1>2. /\ reader = "reading" /\ plan # <<>> /\ Head(plan) = "bytes" /\ Readable("bytes")
      /\ UNCHANGED <<writing, transit, download, client, reader, stream, message>>
      /\ ReadInv /\ StreamTyped /\ Tail(plan) \in Seq(Kind)
      /\ stream \in Seq(Byte) /\ offset \in Nat /\ result # <<>>
  BY <1>1, ReadsFacts
<1>3. n # Junk /\ Body + n <= Len(stream)
  BY <1>2 DEF Readable
<1>4. n \in Nat /\ Body \in Nat
  BY <1>2, <1>3, BodyTyped
<1>5. r \in Value
  <2>1. /\ Len(stream) \in Nat
        /\ \A i \in 1 .. Len(stream) : /\ stream[i] \in Cell
                                       /\ stream[i].of # "cipher" => stream[i].value \in Nat
    BY <1>2, ElementTypes
  <2> HIDE DEF n
  <2>2. ASSUME NEW i \in 1 .. n PROVE byte(stream[Body + i]) \in Int
    <3>1. Body + i \in 1 .. Len(stream)
      BY <1>3, <1>4, <2>1
    <3>2. stream[Body + i].of = "byte" => stream[Body + i].value \in Nat
      BY <2>1, <3>1
    <3> QED  BY <3>2 DEF Junk
  <2> HIDE DEF byte
  <2>3. value \in [1 .. n -> Int]
    BY <2>2
  <2>4. value \in Seq(Int)
    BY <1>4, <2>3
  <2>5. "bytes" \in Kind
    BY DEF Kind
  <2> HIDE DEF value
  <2> QED  BY <2>4, <2>5 DEF Value
<1>6. ASSUME Regular(message)
      PROVE  \E todo, es, done : Reading(todo, es, done)'
  <2>1. PICK todo, es, done : NextField(todo, es, done)
    BY <1>2, <1>6, FieldAtHand
  <2>2. /\ Head(todo) \in Item /\ Head(todo).kind = "bytes"
        /\ Head(es) \in Encodings(Head(todo)) /\ Here(Head(es))
    BY <1>2, <2>1 DEF NextField
  <2>3. PICK d \in Seq(Nat) : Head(todo) = [kind |-> "bytes", value |-> d]
    BY <2>2, ItemCases
  <2>4. Head(es) = Bytes(d)
    BY <2>2, <2>3 DEF Encodings
  <2>5. /\ n = Len(d) /\ Body + Len(d) = offset + Len(Head(es))
        /\ \A i \in 1 .. Len(d) : /\ stream[Body + i].of = "byte"
                                  /\ stream[Body + i].value = d[i]
    BY <2>2, <2>4, BytesHere
  <2>6. value = d
    <3> HIDE DEF n
    <3>1. \A i \in 1 .. Len(d) : byte(stream[Body + i]) = d[i]
      BY <2>5
    <3> HIDE DEF byte
    <3>2. value = [i \in 1 .. Len(d) |-> d[i]]
      BY <2>5, <3>1
    <3>3. d = [i \in 1 .. Len(d) |-> d[i]]
      OBVIOUS
    <3> QED  BY <3>2, <3>3
  <2> HIDE DEF value
  <2>7. Same(r, Head(todo))
    BY <2>3, <2>6 DEF Same
  <2>8. offset' = offset + Len(Head(es)) /\ Head(plan) # "meta"
    BY <1>1, <1>2, <2>5
  <2> HIDE DEF r, n
  <2> QED  BY <1>1, <1>2, <1>5, <2>1, <2>7, <2>8, NextFieldRead
<1> HIDE DEF value, byte
<1> HIDE DEF r, n
<1>7. offset' \in Nat /\ offset' <= Len(stream) /\ plan' \in Seq(Kind)
  BY <1>1, <1>2, <1>3, <1>4
<1> QED  BY <1>1, <1>2, <1>5, <1>6, <1>7, FieldRead

\* A list of keys and values: its count is read, and its texts are next.
LEMMA ReadMetaStep == IInv /\ ReadMeta => IInv'
<1> SUFFICES ASSUME IInv, ReadMeta PROVE IInv'
  OBVIOUS
<1> DEFINE n == U32At(offset)
           strings == [i \in 1 .. n |-> "utf16"]
           r == [kind |-> "u32", value |-> <<n>>]
           columns == strings \o <<"u32">> \o strings
<1>1. /\ Reads("meta") /\ result' = Append(result, r) /\ offset' = Body
      /\ plan' = (IF n <= MaxKeys THEN columns ELSE <<>>) \o Tail(plan)
  BY DEF ReadMeta, Gives, InRange
<1>2. /\ reader = "reading" /\ plan # <<>> /\ Head(plan) = "meta" /\ Readable("meta")
      /\ UNCHANGED <<writing, transit, download, client, reader, stream, message>>
      /\ ReadInv /\ StreamTyped /\ Tail(plan) \in Seq(Kind)
      /\ stream \in Seq(Byte) /\ offset \in Nat /\ result # <<>> /\ result \in Seq(Value)
  BY <1>1, ReadsFacts DEF StreamTyped
<1>3. n # Junk /\ Body <= Len(stream)
  BY <1>2 DEF Readable
<1>4. n \in Nat /\ Body \in Nat
  BY <1>2, <1>3, BodyTyped
<1>5. r \in Value
  <2>1. "u32" \in Kind
    BY DEF Kind
  <2> HIDE DEF n
  <2> QED  BY <1>4, <2>1, NumberValue
<1>6. plan' \in Seq(Kind)
  <2> HIDE DEF n
  <2>1. "utf16" \in Kind /\ "u32" \in Kind
    BY DEF Kind
  <2>2. strings \in [1 .. n -> Kind]
    BY <2>1
  <2>3. strings \in Seq(Kind) /\ <<"u32">> \in Seq(Kind)
    BY <1>4, <2>1, <2>2
  <2> HIDE DEF strings
  <2>4. strings \o <<"u32">> \in Seq(Kind)
    BY <2>3, ConcatProperties
  <2>5. columns \in Seq(Kind) /\ <<>> \in Seq(Kind)
    BY <2>3, <2>4, ConcatProperties, EmptySeq
  <2> HIDE DEF columns
  <2>6. (IF n <= MaxKeys THEN columns ELSE <<>>) \in Seq(Kind)
    BY <2>5
  <2> QED  BY <1>1, <1>2, <2>6, ConcatProperties
<1>7. ASSUME Regular(message)
      PROVE  \E todo, es, done : Reading(todo, es, done)'
  <2>1. PICK todo, es, done : NextField(todo, es, done)
    BY <1>2, <1>7, FieldAtHand
  <2>2. /\ Left(todo, es, done) /\ todo # <<>> /\ Head(todo) \in Item
        /\ Head(todo).kind = "meta" /\ Tail(plan) = Kinds(Tail(todo))
    BY <1>2, <2>1 DEF NextField
  <2>3. PICK kv \in Seq(Text \X Text) : Head(todo) = MetaField(kv)
    BY <2>2, MetaItem
  <2> DEFINE texts == [i \in 1 .. Len(kv) |-> "utf16"]
  <2>4. PICK rest, er :
          /\ Left(rest, er, done) /\ rest # <<>>
          /\ Head(rest) = Count(kv) /\ Head(er) = U32(Len(kv))
          /\ Kinds(Tail(rest)) = (texts \o <<"u32">> \o texts) \o Kinds(Tail(todo))
          /\ Len(kv) <= MaxKeys
    BY <1>2, <2>2, <2>3, MetaLeft
  <2>5. /\ Len(kv) \in Nat /\ Len(U32(Len(kv))) = 4 /\ U32(Len(kv)) \in Seq(Byte)
        /\ \A i \in 1 .. 4 : U32(Len(kv))[i] = [of |-> "u32", value |-> Len(kv), at |-> i]
    BY U32Properties, LenProperties
  <2>6. Here(U32(Len(kv)))
    <3>1. /\ offset + Len(U32(Len(kv))) \in 0 .. Len(stream)
          /\ \A i \in 1 .. Len(U32(Len(kv))) : stream[offset + i] = U32(Len(kv))[i]
      BY <1>2, <2>4, NextLeft
    <3>2. Len(stream) \in Nat
      BY <1>2, LenProperties
    <3> QED  BY <1>2, <2>5, <3>1, <3>2 DEF Here
  <2>7. n = Len(kv) /\ Body = offset + 4
    <3>1. Len(U32(Len(kv))) >= 4
      BY <2>5
    <3> QED  BY <2>5, <2>6, <3>1, U32Here
  <2>8. r = Count(kv) /\ Head(rest).kind = "u32"
    BY <2>4, <2>7 DEF Count
  <2>9. Same(r, Head(rest)) /\ Head(rest).kind # "meta"
    BY <2>4, <2>8 DEF Same
  <2>10. offset' = offset + Len(Head(er))
    BY <1>1, <2>4, <2>5, <2>7
  <2>11. plan' = Kinds(Tail(rest))
    BY <1>1, <2>2, <2>4, <2>7
  <2> HIDE DEF n, strings, columns, texts
  <2> HIDE DEF r
  <2>12. Left(Tail(rest), Tail(er), Append(done, Head(rest)))'
    BY <1>1, <1>2, <1>5, <2>4, <2>9, <2>10, PartRead
  <2>13. Reading(Tail(rest), Tail(er), Append(done, Head(rest)))'
    BY <2>11, <2>12 DEF Reading
  <2> QED  BY <2>13
<1> HIDE DEF columns
<1> HIDE DEF r, n, strings
<1>8. offset' \in Nat /\ offset' <= Len(stream)
  BY <1>1, <1>3, <1>4
<1> QED  BY <1>1, <1>2, <1>5, <1>6, <1>7, <1>8, FieldRead

\* What is left of a regular message can always be read.
LEMMA NextReadable ==
  ASSUME StreamTyped, NEW todo, NEW es, NEW done, NextField(todo, es, done)
  PROVE  Readable(Head(plan))
<1>1. /\ Left(todo, es, done) /\ todo # <<>> /\ Head(todo) \in Item
      /\ Head(plan) = Head(todo).kind
      /\ Head(es) \in Encodings(Head(todo)) /\ Here(Head(es))
  BY DEF NextField
<1>2. CASE Head(todo).kind = "u16"
  <2>1. PICK n \in Nat : Head(todo) = Id(n)
    BY <1>1, <1>2, NumberItem
  <2>2. Here(Cells("u16", n, 2))
    BY <1>1, <2>1, IdIsItem
  <2> QED  BY <1>1, <1>2, <2>2, U16Here
<1>3. CASE Head(todo).kind = "u32"
  <2>1. PICK n \in Nat : Head(es) = U32(n)
    BY <1>1, <1>3, NumberEncoding
  <2>2. /\ Len(Head(es)) >= 4
        /\ \A i \in 1 .. 4 : Head(es)[i] = [of |-> "u32", value |-> n, at |-> i]
    BY <2>1, U32Properties
  <2>3. U32At(offset) # Junk /\ Body <= Len(stream)
    BY <1>1, <2>2, U32Here
  <2> QED  BY <1>1, <1>3, <2>3 DEF Readable
<1>4. CASE Head(todo).kind \in {"utf8", "utf16"}
  <2>1. PICK t \in Text : Head(todo) = [kind |-> Head(todo).kind, value |-> <<t>>]
    BY <1>1, <1>4, ItemCases
  <2>2. Here(Utf(Head(todo).kind, t))
    <3>1. CASE Head(todo).kind = "utf8"
      <4>1. Head(todo) = [kind |-> "utf8", value |-> <<t>>]
        BY <2>1, <3>1
      <4> QED  BY <1>1, <3>1, <4>1 DEF Encodings
    <3>2. CASE Head(todo).kind = "utf16"
      <4>1. Head(todo) = [kind |-> "utf16", value |-> <<t>>]
        BY <2>1, <3>2
      <4> QED  BY <1>1, <3>2, <4>1 DEF Encodings
    <3> QED  BY <1>4, <3>1, <3>2
  <2> QED  BY <1>1, <1>4, <2>2, UtfHere
<1>5. CASE Head(todo).kind = "sz_utf8"
  <2>1. PICK t \in Text : Head(todo) = [kind |-> "sz_utf8", value |-> <<t>>]
    BY <1>1, <1>5, ItemCases
  <2>2. Here(Terminated(t))
    BY <1>1, <2>1 DEF Encodings
  <2> QED  BY <1>1, <1>5, <2>2, TerminatedHere
<1>6. CASE Head(todo).kind = "encrypted"
  <2>1. PICK t \in Text : Head(todo) = [kind |-> "encrypted", value |-> <<t>>]
    BY <1>1, <1>6, ItemCases
  <2>2. Head(es) \in Encrypted(t)
    BY <1>1, <2>1 DEF Encodings
  <2> QED  BY <1>1, <1>6, <2>2, EncryptedHere
<1>7. CASE Head(todo).kind = "bytes"
  <2>1. PICK d \in Seq(Nat) : Head(todo) = [kind |-> "bytes", value |-> d]
    BY <1>1, <1>7, ItemCases
  <2>2. Here(Bytes(d))
    BY <1>1, <2>1 DEF Encodings
  <2> QED  BY <1>1, <1>7, <2>2, BytesHere
<1>8. CASE Head(todo).kind = "meta"
  <2>1. PICK kv \in Seq(Text \X Text) : Head(todo) = MetaField(kv)
    BY <1>1, <1>8, MetaItem
  <2>2. PICK rest, er :
          LET strings == [i \in 1 .. Len(kv) |-> "utf16"]
          IN  /\ Left(rest, er, done) /\ rest # <<>>
              /\ Head(rest) = Count(kv) /\ Head(er) = U32(Len(kv))
              /\ Kinds(Tail(rest)) = (strings \o <<"u32">> \o strings) \o Kinds(Tail(todo))
              /\ Len(kv) <= MaxKeys
    BY <1>1, <2>1, MetaLeft
  <2>3. /\ Len(kv) \in Nat /\ Len(U32(Len(kv))) = 4 /\ U32(Len(kv)) \in Seq(Byte)
        /\ \A i \in 1 .. 4 : U32(Len(kv))[i] = [of |-> "u32", value |-> Len(kv), at |-> i]
    BY U32Properties, LenProperties
  <2>4. Here(U32(Len(kv)))
    <3>1. /\ offset + Len(U32(Len(kv))) \in 0 .. Len(stream)
          /\ \A i \in 1 .. Len(U32(Len(kv))) : stream[offset + i] = U32(Len(kv))[i]
      BY <2>2, NextLeft
    <3>2. stream \in Seq(Byte) /\ offset \in Nat /\ Len(stream) \in Nat
      BY LenProperties DEF StreamTyped
    <3> QED  BY <2>3, <3>1, <3>2 DEF Here
  <2>5. U32At(offset) # Junk /\ Body <= Len(stream)
    <3>1. Len(U32(Len(kv))) >= 4
      BY <2>3
    <3> QED  BY <2>3, <2>4, <3>1, U32Here
  <2> QED  BY <1>1, <1>8, <2>5 DEF Readable
<1> QED  BY <1>1, <1>2, <1>3, <1>4, <1>5, <1>6, <1>7, <1>8, ItemCases

LEMMA ReadFailsStep == IInv /\ ReadFails => IInv'
<1> SUFFICES ASSUME IInv, ReadFails PROVE IInv'
  OBVIOUS
<1> USE DEF IInv
<1>1. /\ reader = "reading" /\ plan # <<>> /\ ~Readable(Head(plan)) /\ reader' = "failed"
      /\ UNCHANGED <<writing, transit, download, client, stream, offset, plan, message, result>>
  BY DEF ReadFails
<1>2. WriteInv' /\ WireInv' /\ LoadInv'
  BY <1>1, WriteSame, WireSame, LoadSame
<1>3. ~Regular(message)
  <2>1. SUFFICES ASSUME Regular(message) PROVE FALSE
    OBVIOUS
  <2>2. PICK todo, es, done : NextField(todo, es, done)
    BY <1>1, <2>1, FieldAtHand
  <2> QED  BY <1>1, <2>2, NextReadable DEF ReadInv
<1>4. ReadInv'
  BY <1>1, <1>3 DEF ReadInv, StreamTyped
<1>5. ClientInv'
  <2>1. InTransit' = InTransit
    BY <1>1 DEF InTransit, transit
  <2> QED  BY <1>1, <2>1, HeldSame, ClientSame DEF download
<1> QED  BY <1>2, <1>4, <1>5

-----------------------------------------------------------------------------
(* Taking a frame, and being through with a message.                       *)

LEMMA RefuseFrameStep == IInv /\ RefuseFrame => IInv'
<1> SUFFICES ASSUME IInv, RefuseFrame PROVE IInv'
  OBVIOUS
<1> USE DEF IInv
<1>1. /\ reader = "ready" /\ wire # <<>> /\ ~MayRead /\ reader' = "closed"
      /\ message' = Head(sent)
      /\ UNCHANGED <<writing, transit, download, client, stream, offset, plan, result>>
  BY DEF RefuseFrame
<1>2. WriteInv' /\ WireInv' /\ LoadInv'
  BY <1>1, WriteSame, WireSame, LoadSame
<1>3. IsMessage(Head(sent)) /\ PacketSize \in Nat /\ PacketSize >= 6
  BY <1>1, TravelsFirst DEF WireInv, PacketSize
<1>4. PacketSize > MaxFrame
  <2>1. MaxFrame \in Nat
    BY StreamsAssumption
  <2> QED  BY <1>1, <1>3, <2>1 DEF MayRead
<1>5. ReadInv'
  <2>1. PacketSize' = PacketSize /\ wire' = wire
    BY <1>1 DEF PacketSize, transit
  <2>2. message' \in Seq(Item)
    BY <1>1, <1>3 DEF IsMessage
  <2>3. Idle' /\ StreamTyped'
    BY <1>1 DEF ReadInv, Idle, StreamTyped
  <2> QED  BY <1>1, <1>4, <2>1, <2>2, <2>3 DEF ReadInv
<1>6. ClientInv'
  <2>1. InTransit' = InTransit
    BY <1>1 DEF InTransit, transit
  <2> QED  BY <1>1, <2>1, HeldSame, ClientSame DEF download
<1> QED  BY <1>2, <1>5, <1>6

\* All of a message is still to be read.
LEMMA MessageTaken ==
  ASSUME NEW body, NEW msg \in Messages, IsBody(body, msg),
         reader' = "reading", stream' = body, offset' = 0, message' = msg,
         plan' = Kinds(msg), result' = <<>>
  PROVE  ReadInv'
<1>1. msg \in Seq(Item) /\ body \in Seq(Byte) /\ Len(body) \in Nat
  BY BodyType
<1>2. PICK es : Encodes(es, msg) /\ body = FlattenSeq(es)
  BY DEF IsBody
<1>3. StreamTyped'
  BY <1>1, KindsType, EmptySeq DEF StreamTyped
<1>4. ASSUME Regular(msg)
      PROVE  Reading(msg, es, <<>>)'
  <2>1. Rest(body, 0) = body
    <3>1. \A i \in 1 .. Len(body) : body[i] = body[i + 0]
      BY <1>1
    <3> QED  BY <1>1 DEF Rest
  <2>2. Meant(msg) = <<>> \o Meant(msg)
    BY <1>1, MeantType, ConcatEmptySeq
  <2>3. <<>> \in Seq(Item)
    OBVIOUS
  <2>4. Rest(stream', offset') = FlattenSeq(es)
    BY <1>2, <2>1
  <2>5. Meant(message') = <<>> \o Meant(msg)
    BY <2>2
  <2> QED  BY <1>2, <1>4, <2>3, <2>4, <2>5 DEF Reading, Left
<1>5. Regular(message') => \E todo, es2, done : Reading(todo, es2, done)'
  BY <1>4
<1> QED  BY <1>3, <1>5 DEF ReadInv

LEMMA TakeFrameStep == IInv /\ TakeFrame => IInv'
<1> SUFFICES ASSUME IInv, TakeFrame PROVE IInv'
  OBVIOUS
<1> USE DEF IInv
<1> DEFINE body == SubSeq(wire, 5, PacketSize)
<1>1. /\ reader = "ready" /\ wire # <<>>
      /\ wire' = SubSeq(wire, PacketSize + 1, Len(wire)) /\ sent' = Tail(sent)
      /\ UNCHANGED <<writing, download, client>>
  BY DEF TakeFrame
<1>2. /\ sent # <<>> /\ IsMessage(Head(sent)) /\ IsBody(body, Head(sent))
      /\ Head(sent)[1] = Id(wire[5].value)
      /\ Travels(SubSeq(wire, PacketSize + 1, Len(wire)), Tail(sent))
  BY <1>1, TravelsFirst DEF WireInv, PacketSize
<1>3. sent \in Seq(Messages) /\ InTransit = sent
  BY <1>1, InTransitType
<1>4. Head(sent) \in Messages /\ Tail(sent) \in Seq(Messages) /\ sent = <<Head(sent)>> \o Tail(sent)
  BY <1>2, <1>3, SplitFirst
<1> HIDE DEF body
<1>5. WriteInv' /\ LoadInv' /\ WireInv'
  BY <1>1, <1>2, WriteSame, LoadSame DEF WireInv
<1>6. CASE wire[5].value \in Requests
  <2>1. /\ reader' = "reading" /\ stream' = body /\ offset' = 0 /\ message' = Head(sent)
        /\ plan' = Kinds(Head(sent)) /\ result' = <<>>
    BY <1>6 DEF TakeFrame, body, Rewound, Kinds
  <2>2. ReadInv'
    BY <1>2, <1>4, <2>1, MessageTaken
  <2>3. InTransit' = InTransit
    BY <1>1, <1>3, <1>4, <2>1 DEF InTransit
  <2>4. ClientInv'
    BY <1>1, <2>3, HeldSame, ClientSame DEF download
  <2> QED  BY <1>5, <2>2, <2>4
<1>7. CASE wire[5].value \notin Requests
  <2>1. UNCHANGED reading
    BY <1>7 DEF TakeFrame
  <2>2. ReadInv'
    BY <1>1, <2>1 DEF ReadInv, StreamTyped, Idle, reading
  <2>3. InTransit' = Tail(InTransit)
    <3>1. InTransit' = <<>> \o Tail(sent)
      BY <1>1, <2>1 DEF InTransit, reading
    <3> QED  BY <1>3, <1>4, <3>1, ConcatEmptySeq
  <2>4. ~IsData(Head(InTransit))
    <3>1. DataId \in Requests
      BY StreamsAssumption
    <3>2. <<wire[5].value>>[1] # <<DataId>>[1]
      BY <1>7, <3>1
    <3>3. Id(wire[5].value) # Id(DataId)
      BY <3>2 DEF Id
    <3> QED  BY <1>2, <1>3, <3>3 DEF IsData
  <2>5. got' = got \o Carried(Head(InTransit)) /\ complete' = complete
    <3>1. Carried(Head(InTransit)) = <<>>
      BY <2>4 DEF Carried
    <3>2. got \o <<>> = got
      BY ConcatEmptySeq DEF ClientInv
    <3> QED  BY <1>1, <3>1, <3>2 DEF client
  <2>6. InTransit # <<>> /\ complete' \in BOOLEAN
    BY <1>2, <1>3, <2>5 DEF ClientInv
  <2>7. ClientInv'
    BY <1>1, <2>3, <2>4, <2>5, <2>6, ClientTail
  <2> QED  BY <1>5, <2>2, <2>7
<1> QED  BY <1>6, <1>7

\* Of a chunk the client takes the data, of a notice nothing.
LEMMA EndMessageStep == IInv /\ EndMessage => IInv'
<1> SUFFICES ASSUME IInv, EndMessage PROVE IInv'
  OBVIOUS
<1> USE DEF IInv
<1>1. /\ reader = "reading" /\ plan = <<>> /\ ClientTakes
      /\ reader' = "ready" /\ stream' = <<>> /\ offset' = 0 /\ message' = <<>> /\ result' = <<>>
      /\ UNCHANGED <<plan, writing, transit, download>>
  BY DEF EndMessage
<1>2. WriteInv' /\ WireInv' /\ LoadInv'
  BY <1>1, WriteSame, WireSame, LoadSame
<1>3. ReadInv'
  BY <1>1, EmptySeq DEF ReadInv, StreamTyped, Idle
<1>4. /\ message \in Messages /\ (result = <<>> => plan = Kinds(message))
      /\ (result # <<>> => result[1] = message[1])
  BY <1>1 DEF ReadInv
<1>5. message \in Seq(Item) /\ message # <<>> /\ IsMessage(message)
  BY <1>4 DEF Messages, IsMessage
<1>6. result[1] = message[1]
  BY <1>1, <1>4, <1>5, KindsFirst
<1>7. /\ InTransit = <<message>> \o sent /\ Head(InTransit) = message
      /\ Tail(InTransit) = sent /\ InTransit # <<>> /\ sent \in Seq(Messages)
  BY <1>1, InTransitType
<1>8. InTransit' = Tail(InTransit)
  <2>1. InTransit' = <<>> \o sent
    BY <1>1 DEF InTransit, transit
  <2> QED  BY <1>7, <2>1, ConcatEmptySeq
<1>9. CASE IsData(message)
  <2>1. PICK chunk \in Seq(Nat), end \in {0, 1} : message = Data(chunk, end)
    BY <1>5, <1>9 DEF IsMessage
  <2>2. /\ Regular(message) /\ Plain(message) /\ Len(message) = 3
        /\ message[2].value = chunk /\ message[3].value = <<end>>
    BY <2>1, DataIsMessage
  <2>3. message[2].kind = "bytes" /\ message[3].kind = "u32"
    BY <2>1 DEF Data
  <2>4. PICK todo, es, done : Reading(todo, es, done)
    BY <1>1, <2>2 DEF ReadInv
  <2>5. /\ todo \in Seq(Item) /\ Kinds(todo) = <<>> /\ done \in Seq(Item)
        /\ Len(result) = Len(done) /\ \A i \in 1 .. Len(done) : Same(result[i], done[i])
        /\ Meant(message) = done \o Meant(todo)
    BY <1>1, <2>4 DEF Reading, Left, Encodes
  <2>6. todo = <<>>
    BY <2>5, KindsFirst
  <2>7. done = message
    <3>1. Meant(<<>>) = <<>>
      BY FlattenEmpty DEF Meant, PartsOf
    <3>2. Meant(message) = done
      BY <2>5, <2>6, <3>1, ConcatEmptySeq
    <3> QED  BY <1>5, <2>2, <3>2, MeantPlain
  <2>8. Same(result[2], message[2]) /\ Same(result[3], message[3])
    <3>1. 2 \in 1 .. 3 /\ 3 \in 1 .. 3
      OBVIOUS
    <3> QED  BY <2>2, <2>5, <2>7, <3>1
  <2>9. result[2] = message[2] /\ result[3] = message[3]
    BY <2>3, <2>8 DEF Same
  <2>10. got' = got \o result[2].value /\ complete' = (result[3].value = <<1>>)
    <3>1. result[1].value = <<DataId>>
      BY <1>6, <1>9 DEF IsData, Id
    <3> QED  BY <1>1, <3>1 DEF ClientTakes
  <2>11. got' = got \o Carried(Head(InTransit))
    BY <1>7, <1>9, <2>9, <2>10 DEF Carried
  <2>12. complete' \in BOOLEAN /\ (complete' <=> Head(InTransit)[3].value = <<1>>)
    BY <1>7, <2>9, <2>10
  <2>13. ClientInv'
    BY <1>1, <1>7, <1>8, <1>9, <2>11, <2>12, ClientTail
  <2> QED  BY <1>2, <1>3, <2>13
<1>10. CASE ~IsData(message)
  <2>1. PICK n \in Nat : message[1] = Id(n)
    <3>1. message[1] \in Item /\ message[1].kind = "u16"
      BY <1>5, SplitFirst DEF IsMessage
    <3> QED  BY <3>1, NumberItem
  <2>2. result[1].value # <<DataId>>
    <3>1. result[1].value = <<n>>
      BY <1>6, <2>1 DEF Id
    <3>2. <<n>> # <<DataId>>
      BY <1>10, <2>1 DEF IsData
    <3> QED  BY <3>1, <3>2
  <2>3. UNCHANGED client
    BY <1>1, <2>2 DEF ClientTakes
  <2>4. got' = got \o Carried(Head(InTransit)) /\ complete' = complete
    <3>1. Carried(Head(InTransit)) = <<>>
      BY <1>7, <1>10 DEF Carried
    <3>2. got \o <<>> = got
      BY ConcatEmptySeq DEF ClientInv
    <3> QED  BY <2>3, <3>1, <3>2 DEF client
  <2>5. complete' \in BOOLEAN
    BY <2>4 DEF ClientInv
  <2>6. ClientInv'
    BY <1>1, <1>7, <1>8, <1>10, <2>4, <2>5, ClientTail
  <2> QED  BY <1>2, <1>3, <2>6
<1> QED  BY <1>9, <1>10

LEMMA Stutters == IInv /\ UNCHANGED vars => IInv'
<1> SUFFICES ASSUME IInv, UNCHANGED vars PROVE IInv'
  OBVIOUS
<1> USE DEF IInv
<1>1. UNCHANGED <<writing, transit, download, client, reading>>
  BY DEF vars
<1>2. WriteInv' /\ WireInv' /\ LoadInv'
  BY <1>1, WriteSame, WireSame, LoadSame
<1>3. ReadInv'
  BY <1>1, ReadSame DEF transit
<1>4. ClientInv'
  BY <1>1, ClientIdle DEF transit, reading
<1> QED  BY <1>2, <1>3, <1>4

(* Each step of the writer, of the load of a character and of the reader    *)
(* keeps IInv: what ByteBuffer writes, what send and ReadSocket do with     *)
(* frames, and what the requests read.                                      *)
THEOREM StepsKeepRight == IInv /\ [Next]_vars => IInv'
<1> SUFFICES ASSUME IInv, [Next]_vars PROVE IInv'
  OBVIOUS
<1> QED
  BY BeginMessageStep, WriteStep, SendStep, BeginLoadStep, KeepFinalChunkStep, SendChunkStep,
     AnswerStep, TakeFrameStep, RefuseFrameStep, ReadU16Step, ReadU32Step, ReadUtfStep,
     ReadTerminatedStep, ReadEncryptedStep, ReadBytesStep, ReadMetaStep, ReadFailsStep,
     EndMessageStep, Stutters DEF Next

(* Every reachable state satisfies the inductive invariant.                 *)
THEOREM AlwaysRight == Spec => []IInv
BY StartsRight, StepsKeepRight, PTL DEF Spec

-----------------------------------------------------------------------------
(* What follows.                                                           *)

LEMMA CellsOfBytes ==
  ASSUME NEW bytes \in Seq(Byte)
  PROVE  bytes \in Seq(Cell)
<1>1. \A i \in 1 .. Len(bytes) : bytes[i] \in Cell
  BY DEF Byte
<1>2. bytes \in [1 .. Len(bytes) -> Cell] /\ Len(bytes) \in Nat
  BY <1>1, LenProperties
<1> QED  BY <1>2

LEMMA RightIsTyped == IInv => TypeOK
<1> SUFFICES ASSUME IInv PROVE TypeOK
  OBVIOUS
<1> USE DEF IInv
<1>1. m_buffer \in Seq(Cell) /\ wire \in Seq(Cell) /\ stream \in Seq(Cell)
  <2>1. m_buffer \in Seq(Byte) /\ wire \in Seq(Byte) /\ stream \in Seq(Byte)
    BY BodyType, TravelsType DEF WriteInv, WireInv, ReadInv, StreamTyped
  <2> QED  BY <2>1, CellsOfBytes
<1>2. /\ m_position = Len(m_buffer)
      /\ Len(fields) <= MaxFields + 1 /\ written \in 0 .. MaxMessages
  BY DEF WriteInv
<1>3. /\ m_data \in Blob /\ position \in 0 .. Len(m_data)
      /\ finalChunk \in Seq(Nat) /\ loading \in {"no", "loop", "done"}
  BY DEF LoadInv
<1>4. got \in Seq(Int) /\ complete \in BOOLEAN
  <2>1. got \in Seq(Nat)
    BY DEF ClientInv
  <2>2. got \in [1 .. Len(got) -> Int] /\ Len(got) \in Nat
    BY <2>1, LenProperties
  <2> QED  BY <2>2 DEF ClientInv
<1>5. /\ reader \in {"ready", "reading", "closed", "failed"}
      /\ offset \in 0 .. Len(stream) /\ plan \in Seq(Kind) /\ result \in Seq(Value)
  BY DEF ReadInv, StreamTyped
<1> QED  BY <1>1, <1>2, <1>3, <1>4, <1>5 DEF TypeOK

LEMMA RightReadsBack == IInv => ReadsBack
<1> SUFFICES ASSUME IInv PROVE ReadsBack
  OBVIOUS
<1> DEFINE meant == Meant(message)
<1>1. ReadInv
  BY DEF IInv
<1>2. meant = FlattenSeq([i \in DOMAIN message |-> Parts(message[i])])
  BY DEF Meant, PartsOf
<1>3. reader = "closed" => PacketSize > MaxFrame
  BY <1>1 DEF ReadInv
<1>4. CASE reader \in {"ready", "closed"}
  <2>1. result = <<>> /\ message \in Seq(Item)
    BY <1>1, <1>4, EmptySeq DEF ReadInv, Idle
  <2>2. Len(meant) \in Nat
    BY <2>1, MeantType, LenProperties
  <2>3. Len(result) = 0 /\ DOMAIN result = {}
    BY <2>1
  <2> HIDE DEF meant
  <2>4. Len(result) <= Len(meant)
    BY <2>2, <2>3
  <2> QED  BY <1>2, <1>3, <1>4, <2>3, <2>4 DEF ReadsBack
<1>5. CASE reader \in {"reading", "failed"} /\ ~Regular(message)
  BY <1>3, <1>5 DEF ReadsBack
<1>6. CASE reader \in {"reading", "failed"} /\ Regular(message)
  <2>1. reader = "reading" /\ StreamTyped /\ \E todo, es, done : Reading(todo, es, done)
    BY <1>1, <1>6 DEF ReadInv
  <2>2. PICK todo, es, done : Reading(todo, es, done)
    BY <2>1
  <2>3. /\ Encodes(es, todo) /\ done \in Seq(Item) /\ plan = Kinds(todo)
        /\ Rest(stream, offset) = FlattenSeq(es)
        /\ Len(result) = Len(done) /\ \A i \in 1 .. Len(done) : Same(result[i], done[i])
        /\ meant = done \o Meant(todo)
    BY <2>2 DEF Reading, Left
  <2>4. todo \in Seq(Item) /\ Meant(todo) \in Seq(Item) /\ es \in Seq(Seq(Byte))
    BY <2>3, MeantType DEF Encodes
  <2> HIDE DEF meant
  <2>5. /\ Len(meant) = Len(done) + Len(Meant(todo)) /\ Len(done) \in Nat
        /\ Len(Meant(todo)) \in Nat /\ \A i \in 1 .. Len(done) : meant[i] = done[i]
    BY <2>3, <2>4, ConcatProperties, LenProperties
  <2>6. Len(result) <= Len(meant) /\ \A i \in 1 .. Len(done) : Same(result[i], meant[i])
    BY <2>3, <2>5
  <2>7. DOMAIN result = 1 .. Len(done)
    BY <2>1, <2>3 DEF StreamTyped
  <2>8. ASSUME plan = <<>>
        PROVE  Len(result) = Len(meant) /\ offset = Len(stream)
    <3>1. todo = <<>>
      BY <2>3, <2>4, <2>8, KindsFirst
    <3>2. Meant(<<>>) = <<>> /\ Len(<<>>) = 0
      BY FlattenEmpty DEF Meant, PartsOf
    <3>3. es = <<>>
      BY <2>3, <2>4, <3>1, EmptySeq DEF Encodes
    <3>4. Rest(stream, offset) = <<>>
      BY <2>3, <3>3, FlattenEmpty
    <3>5. offset \in 0 .. Len(stream) /\ stream \in Seq(Byte) /\ Len(stream) \in Nat
      BY <2>1, LenProperties DEF StreamTyped
    <3>6. Len(Rest(stream, offset)) = Len(stream) - offset
      BY <3>5 DEF Rest
    <3>7. offset = Len(stream)
      BY <3>2, <3>4, <3>5, <3>6
    <3> QED  BY <2>3, <2>5, <3>1, <3>2, <3>7
  <2> QED  BY <1>2, <1>3, <2>1, <2>6, <2>7, <2>8 DEF ReadsBack
<1> QED  BY <1>1, <1>4, <1>5, <1>6 DEF ReadInv

\* What is still on its way when the end is: at least the last chunk.
LEMMA EndInTransit ==
  ASSUME NEW msgs \in Seq(Messages), NEW last \in Seq(Nat),
         NEW x \in Seq(Messages), NEW y \in Seq(Messages),
         msgs = (x \o <<Data(last, 1)>>) \o y
  PROVE  DataOf(msgs) \in Seq(Nat) /\ Len(DataOf(msgs)) >= Len(last)
<1>1. Data(last, 1) \in Messages /\ Carried(Data(last, 1)) = last
  BY DataInMessages
<1>2. <<Data(last, 1)>> \in Seq(Messages) /\ DataOf(<<Data(last, 1)>>) = last
  BY <1>1, DataOfOne
<1>3. /\ x \o <<Data(last, 1)>> \in Seq(Messages)
      /\ DataOf(x \o <<Data(last, 1)>>) = DataOf(x) \o last
  BY <1>2, DataOfConcat, ConcatProperties
<1>4. DataOf(msgs) = (DataOf(x) \o last) \o DataOf(y)
  BY <1>3, DataOfConcat
<1>5. PICK a \in Seq(Nat), b \in Seq(Nat) : a = DataOf(x) /\ b = DataOf(y)
  BY DataOfType
<1>6. /\ a \o last \in Seq(Nat) /\ Len(a \o last) = Len(a) + Len(last)
      /\ Len(a) \in Nat /\ Len(b) \in Nat /\ Len(last) \in Nat
  BY ConcatProperties, LenProperties
<1>7. (a \o last) \o b \in Seq(Nat) /\ Len((a \o last) \o b) = Len(a \o last) + Len(b)
  BY <1>6, ConcatProperties
<1>8. DataOf(msgs) = (a \o last) \o b
  BY <1>4, <1>5
<1>9. Len((a \o last) \o b) >= Len(last)
  BY <1>6, <1>7
<1> QED  BY <1>7, <1>8, <1>9

LEMMA RightArrives == IInv => DataArrives
<1> SUFFICES ASSUME IInv PROVE DataArrives
  OBVIOUS
<1> USE DEF IInv
<1>1. /\ m_data \in Seq(Nat) /\ Len(m_data) \in Nat /\ position \in 0 .. Len(m_data)
      /\ finalChunk \in Seq(Nat) /\ got \in Seq(Nat) /\ complete \in BOOLEAN
      /\ ChunkSize \in Nat
  BY DataType, LenProperties, StreamsAssumption DEF LoadInv, ClientInv
<1>2. InTransit \in Seq(Messages) /\ DataOf(InTransit) \in Seq(Nat)
  BY InTransitType, DataOfType
<1>3. PICK g \in Seq(Nat), d \in Seq(Nat), h \in Seq(Nat) :
        g = got /\ d = DataOf(InTransit) /\ h = Held
  <2>1. Held \in Seq(Nat)
    BY <1>1 DEF Held
  <2> QED  BY <1>1, <1>2, <2>1
<1>4. (g \o d) \o h = g \o (d \o h)
  BY Associate
<1>5. Flow((g \o d) \o h, m_data, position, finalChunk)
  BY <1>3 DEF ClientInv, FlowInv
<1>6. Final(InTransit, finalChunk, Ended, complete)
  BY DEF ClientInv, FinalInv
<1>7. ASSUME complete
      PROVE  /\ IsPrefix(m_data, got) /\ Len(got) < Len(m_data) + ChunkSize
             /\ \A i \in Len(m_data) + 1 .. Len(got) : got[i] = 0
  <2>1. Ended /\ NoData(InTransit)
    BY <1>6, <1>7 DEF Final
  <2>2. position = Len(m_data) /\ h = <<>>
    BY <1>3, <2>1 DEF Ended, Held, LoadInv
  <2>3. d = <<>>
    BY <1>2, <1>3, <2>1, DataOfNone
  <2>4. (g \o d) \o h = g
    <3>1. g \o <<>> = g
      BY ConcatEmptySeq
    <3> QED  BY <2>2, <2>3, <3>1
  <2>5. Flow(got, m_data, Len(m_data), finalChunk)
    BY <1>3, <1>5, <2>2, <2>4
  <2> QED  BY <1>1, <2>5, FlowSeen
<1>8. ASSUME ~complete
      PROVE  IsPrefix(got, m_data)
  <2>1. finalChunk # <<>> => Len(finalChunk) = ChunkSize
    BY DEF LoadInv
  <2>2. d \o h \in Seq(Nat) /\ Len(d \o h) = Len(d) + Len(h) /\ Len(d) \in Nat /\ Len(h) \in Nat
    BY ConcatProperties, LenProperties
  <2>3. CASE finalChunk = <<>>
    BY <1>1, <1>3, <1>4, <1>5, <2>2, <2>3, FlowPart
  <2>4. CASE finalChunk # <<>> /\ loading # "done"
    <3>1. h = finalChunk
      BY <1>3, <2>4 DEF Held
    <3>2. Len(d \o h) >= ChunkSize
      BY <1>1, <2>1, <2>2, <2>4, <3>1
    <3> QED  BY <1>1, <1>3, <1>4, <1>5, <2>2, <3>2, FlowPart
  <2>5. CASE finalChunk # <<>> /\ loading = "done"
    <3>1. Ended
      BY <2>5 DEF Ended
    <3>2. PICK x \in Seq(Messages), y \in Seq(Messages) :
            InTransit = (x \o <<Data(finalChunk, 1)>>) \o y
      BY <1>6, <1>8, <3>1 DEF Final
    <3>3. Len(d) >= ChunkSize
      BY <1>1, <1>2, <1>3, <2>1, <2>5, <3>2, EndInTransit
    <3>4. Len(d \o h) >= ChunkSize
      BY <1>1, <2>2, <3>3
    <3> QED  BY <1>1, <1>3, <1>4, <1>5, <2>2, <3>4, FlowPart
  <2> QED  BY <2>3, <2>4, <2>5
<1>9. ASSUME loading = "done", m_data # <<>>, wire = <<>>, reader = "ready"
      PROVE  complete
  <2>1. Ended
    BY <1>1, <1>9 DEF LoadInv, Ended
  <2>2. InTransit = <<>>
    <3>1. InTransit = sent
      BY <1>9, InTransitType
    <3>2. sent = <<>>
      BY <1>9, TravelsEmpty DEF WireInv
    <3> QED  BY <3>1, <3>2
  <2>3. ~\E x, y \in Seq(Messages) : InTransit = (x \o <<Data(finalChunk, 1)>>) \o y
    <3>1. SUFFICES ASSUME NEW x \in Seq(Messages), NEW y \in Seq(Messages),
                          InTransit = (x \o <<Data(finalChunk, 1)>>) \o y
                   PROVE  FALSE
      OBVIOUS
    <3>2. Data(finalChunk, 1) \in Messages
      BY <1>1, DataInMessages
    <3>3. /\ <<Data(finalChunk, 1)>> \in Seq(Messages) /\ Len(<<Data(finalChunk, 1)>>) = 1
          /\ Len(x) \in Nat /\ Len(y) \in Nat
      BY <3>2, LenProperties
    <3>4. /\ x \o <<Data(finalChunk, 1)>> \in Seq(Messages)
          /\ Len(x \o <<Data(finalChunk, 1)>>) = Len(x) + 1
      BY <3>3, ConcatProperties
    <3>5. Len(InTransit) = (Len(x) + 1) + Len(y)
      BY <3>1, <3>4, ConcatProperties
    <3>6. Len(InTransit) = 0
      BY <2>2
    <3>7. Len(x) \in Nat /\ Len(y) \in Nat /\ 0 = (Len(x) + 1) + Len(y)
      BY <3>3, <3>5, <3>6
    <3> QED  BY <3>7
  <2>4. ASSUME ~complete PROVE FALSE
    <3>1. PICK x \in Seq(Messages), y \in Seq(Messages) :
            InTransit = (x \o <<Data(finalChunk, 1)>>) \o y
      BY <1>6, <2>1, <2>4 DEF Final
    <3> QED  BY <2>3, <3>1
  <2> QED  BY <2>4
<1> QED  BY <1>1, <1>7, <1>8, <1>9 DEF DataArrives

(* The buffers, their positions and what is read of them keep their types;  *)
(* m_position is within the buffer, whatever is in it.                      *)
THEOREM TypeCorrect == Spec => []TypeOK
BY AlwaysRight, RightIsTyped, PTL

(* What one end writes with ByteBuffer the other reads back, field by       *)
(* field, to the end of the stream, where no list has more keys than        *)
(* CharacterSlotData reads; only a frame that is too long is refused.       *)
THEOREM FieldsReadBack == Spec => []ReadsBack
BY AlwaysRight, RightReadsBack, PTL

(* The client puts a character together from the chunks that                *)
(* RequestGetNetCharacterData_RTA sends, whatever notices come between.     *)
THEOREM DataPutTogether == Spec => []DataArrives
BY AlwaysRight, RightArrives, PTL
=============================================================================
