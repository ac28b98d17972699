--------------------------- MODULE WsTunnelProofs ---------------------------
(***************************************************************************)
(* Proofs about module WsTunnel: what the peers of a tunnel receive, and   *)
(* what is recorded of it, for all answers, sizes of sockets and reads,    *)
(* and faults.                                                             *)
(***************************************************************************)
EXTENDS WsTunnel, SequenceTheorems, WellFoundedInduction, TLAPS

-----------------------------------------------------------------------------
(***************************************************************************)
(* Pieces of a byte stream.                                                *)
(***************************************************************************)
\* s is what stands in w behind its first k elements.
Piece(s, w, k) == k + Len(s) <= Len(w) /\ s = SubSeq(w, k + 1, k + Len(s))

LEMMA PieceIsSeq ==
  ASSUME NEW S, NEW w \in Seq(S), NEW s \in Seq(S), NEW k \in Nat, Piece(s, w, k)
  PROVE  \A i \in 1..Len(s) : s[i] = w[k + i]
<1>1. Len(w) \in Nat /\ Len(s) \in Nat
  BY LenProperties
<1>2. \A i \in (k + 1)..(k + Len(s)) : w[i] \in S
  <2>1. \A i \in 1..Len(w) : w[i] \in S
    BY ElementOfSeq
  <2>2. QED BY <1>1, <2>1 DEF Piece
<1>3. \A i \in 1..((k + Len(s)) - (k + 1) + 1) : SubSeq(w, k + 1, k + Len(s))[i] = w[(k + 1) + i - 1]
  BY <1>1, <1>2, SubSeqProperties
<1>4. QED BY <1>1, <1>3 DEF Piece

LEMMA PieceFrom ==
  ASSUME NEW S, NEW w \in Seq(S), NEW s \in Seq(S), NEW k \in Nat,
         k + Len(s) <= Len(w), \A i \in 1..Len(s) : s[i] = w[k + i]
  PROVE  Piece(s, w, k)
<1>1. Len(w) \in Nat /\ Len(s) \in Nat
  BY LenProperties
<1> DEFINE t == SubSeq(w, k + 1, k + Len(s))
<1>2. \A i \in (k + 1)..(k + Len(s)) : w[i] \in S
  <2>1. \A i \in 1..Len(w) : w[i] \in S
    BY ElementOfSeq
  <2>2. QED BY <1>1, <2>1
<1>3. /\ t \in Seq(S)
      /\ Len(t) = IF k + 1 <= k + Len(s) THEN (k + Len(s)) - (k + 1) + 1 ELSE 0
      /\ \A i \in 1..((k + Len(s)) - (k + 1) + 1) : t[i] = w[(k + 1) + i - 1]
  BY <1>1, <1>2, SubSeqProperties
<1>4. Len(t) = Len(s)
  BY <1>1, <1>3
<1>5. \A i \in 1..Len(s) : s[i] = t[i]
  BY <1>1, <1>3
<1> HIDE DEF t
<1>6. s = t
  BY <1>3, <1>4, <1>5, SeqEqual
<1>7. QED BY <1>6 DEF Piece, t

\* The two ends of a cut.
LEMMA PieceCut ==
  ASSUME NEW S, NEW w \in Seq(S), NEW s \in Seq(S), NEW k \in Nat, Piece(s, w, k),
         NEW n \in 0..Len(s)
  PROVE  /\ SubSeq(s, 1, n) \in Seq(S) /\ Len(SubSeq(s, 1, n)) = n
         /\ SubSeq(s, n + 1, Len(s)) \in Seq(S) /\ Len(SubSeq(s, n + 1, Len(s))) = Len(s) - n
         /\ Piece(SubSeq(s, 1, n), w, k)
         /\ Piece(SubSeq(s, n + 1, Len(s)), w, k + n)
<1>1. Len(w) \in Nat /\ Len(s) \in Nat /\ n \in Nat /\ k + Len(s) <= Len(w)
  BY LenProperties DEF Piece
<1>2. \A i \in 1..Len(s) : s[i] = w[k + i]
  BY PieceIsSeq
<1>3. \A i \in 1..Len(s) : s[i] \in S
  BY ElementOfSeq
<1> DEFINE a == SubSeq(s, 1, n)
           b == SubSeq(s, n + 1, Len(s))
<1>4. a \in Seq(S) /\ Len(a) = n /\ \A i \in 1..n : a[i] = s[i]
  <2>1. \A i \in 1..n : s[i] \in S
    BY <1>1, <1>3
  <2>2. /\ a \in Seq(S) /\ Len(a) = (IF 1 <= n THEN n - 1 + 1 ELSE 0)
        /\ \A i \in 1..(n - 1 + 1) : a[i] = s[1 + i - 1]
    BY <1>1, <2>1, SubSeqProperties
  <2>3. QED BY <1>1, <2>2
<1>5. b \in Seq(S) /\ Len(b) = Len(s) - n /\ \A i \in 1..(Len(s) - n) : b[i] = s[n + i]
  <2>1. \A i \in (n + 1)..Len(s) : s[i] \in S
    BY <1>1, <1>3
  <2>2. /\ b \in Seq(S) /\ Len(b) = (IF n + 1 <= Len(s) THEN Len(s) - (n + 1) + 1 ELSE 0)
        /\ \A i \in 1..(Len(s) - (n + 1) + 1) : b[i] = s[(n + 1) + i - 1]
    BY <1>1, <2>1, SubSeqProperties
  <2>3. QED BY <1>1, <2>2
<1> HIDE DEF a, b
<1>6. Piece(a, w, k)
  <2>1. ASSUME NEW i \in 1..Len(a) PROVE a[i] = w[k + i]
    <3>1. i \in 1..n /\ i \in 1..Len(s)
      BY <1>1, <1>4
    <3>2. QED BY <1>2, <1>4, <3>1
  <2>2. k + Len(a) <= Len(w)
    BY <1>1, <1>4
  <2>3. QED BY <1>4, <2>1, <2>2, PieceFrom
<1>7. Piece(b, w, k + n)
  <2>1. \A i \in 1..Len(b) : b[i] = w[(k + n) + i]
    BY <1>1, <1>2, <1>5
  <2>2. k + n \in Nat /\ (k + n) + Len(b) <= Len(w)
    BY <1>1, <1>5
  <2>3. QED BY <1>5, <2>1, <2>2, PieceFrom
<1>8. QED BY <1>4, <1>5, <1>6, <1>7 DEF a, b

\* One element off the front, or onto the end.
LEMMA PieceTail ==
  ASSUME NEW S, NEW w \in Seq(S), NEW s \in Seq(S), NEW k \in Nat, Piece(s, w, k), s # <<>>
  PROVE  /\ Head(s) = w[k + 1] /\ Head(s) \in S
         /\ Tail(s) \in Seq(S) /\ Len(Tail(s)) = Len(s) - 1
         /\ Piece(Tail(s), w, k + 1)
<1>1. /\ Len(w) \in Nat /\ Len(s) \in Nat /\ Len(s) # 0 /\ k + Len(s) <= Len(w)
  BY LenProperties, EmptySeq DEF Piece
<1>2. \A i \in 1..Len(s) : s[i] = w[k + i]
  BY PieceIsSeq
<1>3. /\ Head(s) \in S /\ Tail(s) \in Seq(S) /\ Len(Tail(s)) = Len(s) - 1
      /\ \A i \in 1..Len(Tail(s)) : Tail(s)[i] = s[i + 1]
  BY HeadTailProperties
<1>4. Head(s) = s[1]
  OBVIOUS
<1>5. Piece(Tail(s), w, k + 1)
  <2> DEFINE t == Tail(s)
  <2>1. \A i \in 1..Len(t) : t[i] = w[(k + 1) + i]
    BY <1>1, <1>2, <1>3
  <2>2. t \in Seq(S) /\ k + 1 \in Nat /\ (k + 1) + Len(t) <= Len(w)
    BY <1>1, <1>3
  <2> HIDE DEF t
  <2>3. Piece(t, w, k + 1)
    BY <2>1, <2>2, PieceFrom
  <2>4. QED BY <2>3 DEF t
<1>6. QED BY <1>1, <1>2, <1>3, <1>4, <1>5

LEMMA PieceAppend ==
  ASSUME NEW S, NEW w \in Seq(S), NEW s \in Seq(S), NEW k \in Nat, Piece(s, w, k),
         k + Len(s) < Len(w)
  PROVE  /\ w[k + Len(s) + 1] \in S
         /\ Append(s, w[k + Len(s) + 1]) \in Seq(S)
         /\ Len(Append(s, w[k + Len(s) + 1])) = Len(s) + 1
         /\ Piece(Append(s, w[k + Len(s) + 1]), w, k)
<1>1. Len(w) \in Nat /\ Len(s) \in Nat
  BY LenProperties
<1>2. \A i \in 1..Len(s) : s[i] = w[k + i]
  BY PieceIsSeq
<1>3. w[k + Len(s) + 1] \in S
  BY <1>1, ElementOfSeq
<1> DEFINE t == Append(s, w[k + Len(s) + 1])
<1>4. /\ t \in Seq(S) /\ Len(t) = Len(s) + 1
      /\ \A i \in 1..Len(s) : t[i] = s[i]
      /\ t[Len(s) + 1] = w[k + Len(s) + 1]
  BY <1>3, AppendProperties
<1> HIDE DEF t
<1>5. \A i \in 1..Len(t) : t[i] = w[k + i]
  BY <1>1, <1>2, <1>4
<1>6. Piece(t, w, k)
  BY <1>1, <1>4, <1>5, PieceFrom, SMTT(40)
<1>7. QED BY <1>3, <1>4, <1>6 DEF t

LEMMA PieceJoin ==
  ASSUME NEW S, NEW w \in Seq(S), NEW a \in Seq(S), NEW b \in Seq(S), NEW k \in Nat,
         Piece(a, w, k), Piece(b, w, k + Len(a))
  PROVE  a \o b \in Seq(S) /\ Len(a \o b) = Len(a) + Len(b) /\ Piece(a \o b, w, k)
<1>1. Len(w) \in Nat /\ Len(a) \in Nat /\ Len(b) \in Nat /\ k + Len(a) \in Nat
  BY LenProperties
<1>2. \A i \in 1..Len(a) : a[i] = w[k + i]
  BY PieceIsSeq
<1>3. \A i \in 1..Len(b) : b[i] = w[(k + Len(a)) + i]
  BY <1>1, PieceIsSeq
<1> DEFINE c == a \o b
<1>4. /\ c \in Seq(S) /\ Len(c) = Len(a) + Len(b)
      /\ \A i \in 1..Len(a) + Len(b) : c[i] = IF i <= Len(a) THEN a[i] ELSE b[i - Len(a)]
  BY ConcatProperties
<1> HIDE DEF c
<1>5. k + Len(c) <= Len(w)
  BY <1>1, <1>4 DEF Piece
<1>6. ASSUME NEW i \in 1..Len(c) PROVE c[i] = w[k + i]
  <2>1. CASE i <= Len(a)
    BY <1>1, <1>2, <1>4, <2>1, SMTT(40)
  <2>2. CASE ~(i <= Len(a))
    <3>1. i - Len(a) \in 1..Len(b) /\ (k + Len(a)) + (i - Len(a)) = k + i
      BY <1>1, <1>4, <2>2
    <3>2. c[i] = b[i - Len(a)]
      BY <1>1, <1>4, <2>2
    <3>3. QED BY <1>3, <3>1, <3>2
  <2>3. QED BY <2>1, <2>2
<1>7. Piece(c, w, k)
  BY <1>4, <1>5, <1>6, PieceFrom
<1>8. QED BY <1>4, <1>7 DEF c

LEMMA JoinFront ==
  ASSUME NEW S, NEW w \in Seq(S), NEW a \in Seq(S), NEW b \in Seq(S),
         Piece(a, w, 0), Piece(b, w, Len(a))
  PROVE  a \o b \in Seq(S) /\ Len(a \o b) = Len(a) + Len(b) /\ Piece(a \o b, w, 0)
<1>1. Len(a) \in Nat
  BY LenProperties
<1>2. 0 + Len(a) = Len(a) /\ 0 \in Nat
  BY <1>1
<1>3. Piece(b, w, 0 + Len(a))
  BY <1>2
<1>4. QED BY <1>2, <1>3, PieceJoin

LEMMA PieceEmpty ==
  ASSUME NEW S, NEW w \in Seq(S), NEW k \in 0..Len(w)
  PROVE  Piece(<<>>, w, k)
<1>1. Len(w) \in Nat /\ <<>> \in Seq(S) /\ Len(<<>>) = 0 /\ k \in Nat
  BY LenProperties, EmptySeq
<1> DEFINE e == <<>>
<1>2. /\ e \in Seq(S) /\ k \in Nat /\ k + Len(e) <= Len(w)
      /\ \A i \in 1..Len(e) : e[i] = w[k + i]
  BY <1>1
<1> HIDE DEF e
<1>3. Piece(e, w, k)
  BY <1>2, PieceFrom
<1>4. QED BY <1>3 DEF e

\* A piece of the second part of a stream.
LEMMA PieceBehind ==
  ASSUME NEW S, NEW h \in Seq(S), NEW w \in Seq(S), NEW s \in Seq(S), NEW k \in Nat,
         Piece(s, h \o w, Len(h) + k)
  PROVE  Piece(s, w, k)
<1>1. Len(h) \in Nat /\ Len(w) \in Nat /\ Len(s) \in Nat /\ Len(h) + k \in Nat
  BY LenProperties
<1> DEFINE c == h \o w
<1>2. /\ c \in Seq(S) /\ Len(c) = Len(h) + Len(w)
      /\ \A i \in 1..Len(h) + Len(w) : c[i] = IF i <= Len(h) THEN h[i] ELSE w[i - Len(h)]
  BY ConcatProperties
<1> HIDE DEF c
<1>3. Piece(s, c, Len(h) + k)
  BY DEF c
<1>4. Len(h) + k + Len(s) <= Len(c)
  BY <1>3 DEF Piece
<1>5. \A i \in 1..Len(s) : s[i] = c[(Len(h) + k) + i]
  BY <1>1, <1>2, <1>3, PieceIsSeq
<1>6. ASSUME NEW i \in 1..Len(s) PROVE s[i] = w[k + i]
  <2>1. (Len(h) + k) + i \in 1..Len(h) + Len(w) /\ ~((Len(h) + k) + i <= Len(h))
    BY <1>1, <1>2, <1>4
  <2>2. c[(Len(h) + k) + i] = w[((Len(h) + k) + i) - Len(h)]
    BY <1>2, <2>1
  <2>3. ((Len(h) + k) + i) - Len(h) = k + i
    BY <1>1
  <2>4. QED BY <1>5, <2>2, <2>3
<1>7. k + Len(s) <= Len(w)
  BY <1>1, <1>2, <1>4
<1>8. QED BY <1>6, <1>7, PieceFrom

LEMMA PieceIsPrefix ==
  ASSUME NEW S, NEW w \in Seq(S), NEW s \in Seq(S), Piece(s, w, 0)
  PROVE  IsPrefix(s, w)
<1>1. Len(s) \in Nat /\ Len(w) \in Nat
  BY LenProperties
<1>2. SubSeq(s, 1, Len(s)) = s
  BY SubSeqFull
<1>3. QED BY <1>1, <1>2 DEF Piece, IsPrefix

\* What is received is taken from what is in the socket.
LEMMA Received ==
  ASSUME NEW S, NEW a \in Seq(S), NEW b \in Seq(S), b # <<>>
  PROVE  /\ Append(a, Head(b)) \in Seq(S) /\ Tail(b) \in Seq(S)
         /\ Append(a, Head(b)) \o Tail(b) = a \o b
<1>1. Len(a) \in Nat /\ Len(b) \in Nat /\ Len(b) # 0
  BY LenProperties, EmptySeq
<1>2. /\ Head(b) \in S /\ Tail(b) \in Seq(S) /\ Len(Tail(b)) = Len(b) - 1
      /\ \A i \in 1..Len(Tail(b)) : Tail(b)[i] = b[i + 1]
  BY HeadTailProperties
<1>3. Head(b) = b[1]
  OBVIOUS
<1> DEFINE c == Append(a, Head(b))
           d == Tail(b)
<1>4. /\ c \in Seq(S) /\ Len(c) = Len(a) + 1 /\ \A i \in 1..Len(a) : c[i] = a[i]
      /\ c[Len(a) + 1] = b[1]
  BY <1>2, <1>3, AppendProperties
<1>5. d \in Seq(S) /\ Len(d) = Len(b) - 1 /\ \A i \in 1..(Len(b) - 1) : d[i] = b[i + 1]
  BY <1>2
<1> HIDE DEF c, d
<1>6. /\ c \o d \in Seq(S) /\ Len(c \o d) = Len(c) + Len(d)
      /\ \A i \in 1..Len(c) + Len(d) : (c \o d)[i] = IF i <= Len(c) THEN c[i] ELSE d[i - Len(c)]
  BY <1>4, <1>5, ConcatProperties
<1>7. /\ a \o b \in Seq(S) /\ Len(a \o b) = Len(a) + Len(b)
      /\ \A i \in 1..Len(a) + Len(b) : (a \o b)[i] = IF i <= Len(a) THEN a[i] ELSE b[i - Len(a)]
  BY ConcatProperties
<1>8. Len(c \o d) = Len(a \o b)
  BY <1>1, <1>4, <1>5, <1>6, <1>7
<1>9. ASSUME NEW i \in 1..Len(a) + Len(b) PROVE (c \o d)[i] = (a \o b)[i]
  <2>1. CASE i <= Len(a)
    BY <1>1, <1>4, <1>5, <1>6, <1>7, <2>1
  <2>2. CASE i = Len(a) + 1
    BY <1>1, <1>4, <1>5, <1>6, <1>7, <2>2
  <2>3. CASE i > Len(a) + 1
    <3>1. (c \o d)[i] = d[i - Len(c)] /\ (a \o b)[i] = b[i - Len(a)]
      BY <1>1, <1>4, <1>5, <1>6, <1>7, <2>3
    <3>2. i - Len(c) \in 1..(Len(b) - 1) /\ (i - Len(c)) + 1 = i - Len(a)
      BY <1>1, <1>4, <2>3
    <3>3. QED BY <1>5, <3>1, <3>2
  <2>4. i <= Len(a) \/ i = Len(a) + 1 \/ i > Len(a) + 1
    BY <1>1
  <2>5. QED BY <2>1, <2>2, <2>3, <2>4
<1>10. c \o d = a \o b
  BY <1>6, <1>7, <1>8, <1>9, SeqEqual
<1>11. QED BY <1>4, <1>5, <1>10 DEF c, d

\* What is written goes behind what is in the socket.
LEMMA Written ==
  ASSUME NEW S, NEW a \in Seq(S), NEW b \in Seq(S), NEW c \in Seq(S)
  PROVE  b \o c \in Seq(S) /\ a \o (b \o c) = (a \o b) \o c
BY ConcatAssociative, ConcatProperties

-----------------------------------------------------------------------------
(***************************************************************************)
(* The bytes of an answer are a sequence.                                  *)
(***************************************************************************)
LEMMA NatLeast ==
  ASSUME NEW T \in SUBSET Nat, T # {}
  PROVE  \E m \in T : \A k \in T : m <= k
<1>1. \E m \in T : \A k \in T : ~ (<<k, m>> \in OpToRel(<, Nat))
  BY WFMin, NatLessThanWellFounded
<1>2. PICK m \in T : \A k \in T : ~ (<<k, m>> \in OpToRel(<, Nat))
  BY <1>1
<1>3. \A k \in T : ~ (k < m)
  BY <1>2 DEF OpToRel
<1>4. QED BY <1>3

LEMMA NatInd ==
  ASSUME NEW T \in SUBSET Nat, 0 \in T, \A k \in T : k + 1 \in T
  PROVE  \A k \in Nat : k \in T
<1>1. SUFFICES ASSUME Nat \ T # {} PROVE FALSE
  OBVIOUS
<1>2. PICK m \in Nat \ T : \A k \in Nat \ T : m <= k
  BY <1>1, NatLeast
<1>3. m # 0 /\ m - 1 \in Nat
  BY <1>2
<1>4. m - 1 \in T
  BY <1>2, <1>3
<1>5. QED BY <1>2, <1>4

\* g joins the first n of seqs, one after the other.
Joins(g, seqs, n) ==
  g = [i \in 1..n |-> IF i = 1 THEN seqs[i] ELSE g[i-1] \o seqs[i]]

LEMMA JoinsExist ==
  ASSUME NEW S, NEW seqs \in Seq(Seq(S))
  PROVE  \E g \in [1..Len(seqs) -> Seq(S)] : Joins(g, seqs, Len(seqs))
<1>1. Len(seqs) \in Nat /\ \A i \in 1..Len(seqs) : seqs[i] \in Seq(S)
  BY LenProperties, ElementOfSeq
<1> DEFINE T == {n \in Nat : n <= Len(seqs) => \E g \in [1..n -> Seq(S)] : Joins(g, seqs, n)}
<1>2. 0 \in T
  <2> DEFINE g == [i \in 1..0 |-> seqs[i]]
  <2>1. g \in [1..0 -> Seq(S)] /\ Joins(g, seqs, 0)
    BY DEF Joins
  <2>2. QED BY <2>1
<1>3. ASSUME NEW n \in T PROVE n + 1 \in T
  <2>1. n \in Nat
    OBVIOUS
  <2>2. SUFFICES ASSUME n + 1 <= Len(seqs)
                 PROVE  \E g \in [1..(n + 1) -> Seq(S)] : Joins(g, seqs, n + 1)
    BY <2>1
  <2>3. PICK g \in [1..n -> Seq(S)] : Joins(g, seqs, n)
    BY <1>1, <2>1, <2>2
  <2> DEFINE last == IF n = 0 THEN seqs[1] ELSE g[n] \o seqs[n + 1]
             h == [i \in 1..(n + 1) |-> IF i <= n THEN g[i] ELSE last]
  <2>4. seqs[n + 1] \in Seq(S)
    BY <1>1, <2>1, <2>2
  <2>5. last \in Seq(S)
    <3>1. CASE n = 0
      BY <2>4, <3>1
    <3>2. CASE n # 0
      <4>1. g[n] \in Seq(S)
        BY <2>1, <3>2
      <4>2. QED BY <2>4, <3>2, <4>1, ConcatProperties
    <3>3. QED BY <3>1, <3>2
  <2> HIDE DEF last
  <2>6. h \in [1..(n + 1) -> Seq(S)]
    BY <2>1, <2>5
  <2>7. ASSUME NEW i \in 1..(n + 1)
        PROVE  h[i] = IF i = 1 THEN seqs[i] ELSE h[i-1] \o seqs[i]
    <3>1. CASE i <= n
      <4>0. i \in 1..n
        BY <2>1, <3>1
      <4>1. g[i] = IF i = 1 THEN seqs[i] ELSE g[i-1] \o seqs[i]
        <5>1. \A j \in 1..n : g[j] = IF j = 1 THEN seqs[j] ELSE g[j-1] \o seqs[j]
          BY <2>3, Zenon DEF Joins
        <5>2. QED BY <4>0, <5>1
      <4>2. h[i] = g[i] /\ (i # 1 => h[i-1] = g[i-1])
        BY <2>1, <3>1
      <4>3. QED BY <4>1, <4>2
    <3>2. CASE ~(i <= n)
      <4>1. i = n + 1 /\ h[i] = last /\ (n # 0 => h[n] = g[n])
        BY <2>1, <3>2
      <4>2. QED BY <2>1, <4>1 DEF last
    <3>3. QED BY <3>1, <3>2
  <2>8. Joins(h, seqs, n + 1)
    BY <2>7 DEF Joins
  <2>9. QED BY <2>6, <2>8
<1>4. Len(seqs) \in T
  <2> HIDE DEF T
  <2>1. T \in SUBSET Nat
    BY DEF T
  <2>2. QED BY <1>1, <1>2, <1>3, <2>1, NatInd
<1>5. QED BY <1>1, <1>4

LEMMA FlattenIsSeq ==
  ASSUME NEW S, NEW seqs \in Seq(Seq(S))
  PROVE  FlattenSeq(seqs) \in Seq(S)
<1>1. Len(seqs) \in Nat
  BY LenProperties
<1>2. CASE Len(seqs) = 0
  <2>1. seqs = <<>>
    BY <1>2, EmptySeq
  <2>2. <<>> \in Seq(S)
    BY EmptySeq
  <2>3. QED BY <1>2, <2>1, <2>2 DEF FlattenSeq
<1>3. CASE Len(seqs) # 0
  <2> DEFINE n == Len(seqs)
             f == CHOOSE g : Joins(g, seqs, n)
  <2>1. Joins(f, seqs, n)
    BY JoinsExist
  <2>2. FlattenSeq(seqs) = f[n]
    BY <1>3 DEF FlattenSeq, Joins
  <2>3. \A i \in 1..n : f[i] = IF i = 1 THEN seqs[i] ELSE f[i-1] \o seqs[i]
    <3> HIDE DEF f
    <3>1. QED BY <2>1 DEF Joins
  <2>4. \A i \in 1..n : seqs[i] \in Seq(S)
    BY ElementOfSeq
  <2> HIDE DEF f
  <2> DEFINE T == {i \in Nat : i + 1 <= n => f[i + 1] \in Seq(S)}
  <2>5. 0 \in T
    BY <1>1, <1>3, <2>3, <2>4
  <2>6. ASSUME NEW i \in T PROVE i + 1 \in T
    <3>1. SUFFICES ASSUME i + 2 <= n PROVE f[i + 2] \in Seq(S)
      BY <1>1
    <3>2. f[i + 1] \in Seq(S) /\ seqs[i + 2] \in Seq(S)
      BY <1>1, <2>4, <3>1
    <3>3. i + 2 \in 1..n /\ i + 2 # 1 /\ (i + 2) - 1 = i + 1
      BY <1>1, <3>1
    <3>4. f[i + 2] = f[i + 1] \o seqs[i + 2]
      BY <2>3, <3>3
    <3>5. QED BY <3>2, <3>4, ConcatProperties
  <2>7. n - 1 \in T
    <3> HIDE DEF T
    <3>1. T \in SUBSET Nat
      BY DEF T
    <3>2. \A k \in Nat : k \in T
      BY <2>5, <2>6, <3>1, NatInd
    <3>3. QED BY <1>1, <1>3, <3>2
  <2>8. f[n] \in Seq(S)
    BY <1>1, <1>3, <2>7
  <2>9. QED BY <2>2, <2>8
<1>4. QED BY <1>2, <1>3
LEMMA FunctionIsSeq ==
  ASSUME NEW n \in Nat, NEW S, NEW s \in [1..n -> S]
  PROVE  s \in Seq(S) /\ Len(s) = n
BY SeqDef

LEMMA SeqOwnElements ==
  ASSUME NEW S, NEW s \in Seq(S)
  PROVE  IsSequence(s)
<1>1. Len(s) \in Nat /\ DOMAIN s = 1..Len(s) /\ s \in [1..Len(s) -> S]
  BY LenProperties
<1>2. s \in [1..Len(s) -> ToSet(s)]
  BY <1>1 DEF ToSet
<1>3. QED BY <1>1, <1>2, FunctionIsSeq DEF IsSequence

LEMMA EncodeIsSeq ==
  ASSUME NEW f, f.ext \in {0, 2, 8}, IsSequence(f.payload)
  PROVE  IsSequence(Encode(f))
<1> DEFINE p1 == Header(f)
           p2 == [k \in 1..f.ext |-> [b |-> "len", len |-> Len(f.payload)]]
           p3 == [k \in 1..(IF f.masked THEN 4 ELSE 0) |-> [b |-> "mask"]]
           p4 == [k \in DOMAIN f.payload |-> [b |-> "data", masked |-> f.masked,
                                              data |-> f.payload[k]]]
           n == IF f.masked THEN 4 ELSE 0
           S == {p1[1], p1[2]} \cup ToSet(p2) \cup ToSet(p3) \cup ToSet(p4)
<1>1. n \in Nat /\ f.ext \in Nat
  OBVIOUS
<1>2. DOMAIN f.payload = 1..Len(f.payload) /\ Len(f.payload) \in Nat
  BY LenProperties DEF IsSequence
<1>3. p1 \in Seq(S)
  <2> DEFINE u == [b |-> "b0", opcode |-> f.opcode]
             v == [b |-> "b1", masked |-> f.masked,
                   len |-> CASE f.ext = 0 -> Len(f.payload) [] f.ext = 2 -> 126 [] f.ext = 8 -> 127]
  <2>1. p1 = <<u, v>>
    BY Zenon DEF Header
  <2> HIDE DEF u, v, p1
  <2>2. p1[1] = u /\ p1[2] = v
    BY <2>1
  <2>3. QED BY <2>1, <2>2
<1>4. p2 \in Seq(S)
  <2>1. p2 \in [1..f.ext -> S]
    BY DEF ToSet
  <2> HIDE DEF p2, S
  <2>2. QED BY <1>1, <2>1, FunctionIsSeq
<1>5. p3 \in Seq(S)
  <2>1. p3 \in [1..n -> S]
    BY DEF ToSet
  <2> HIDE DEF p3, S, n
  <2>2. QED BY <1>1, <2>1, FunctionIsSeq
<1>6. p4 \in Seq(S)
  <2>1. p4 \in [1..Len(f.payload) -> S]
    BY <1>2 DEF ToSet
  <2> HIDE DEF p4, S
  <2>2. QED BY <1>2, <2>1, FunctionIsSeq
<1>7. Encode(f) = ((p1 \o p2) \o p3) \o p4
  BY Zenon DEF Encode
<1> HIDE DEF p1, p2, p3, p4, S
<1>8. Encode(f) \in Seq(S)
  <2>1. p1 \o p2 \in Seq(S)
    BY <1>3, <1>4, ConcatProperties
  <2>2. (p1 \o p2) \o p3 \in Seq(S)
    BY <1>5, <2>1, ConcatProperties
  <2>3. QED BY <1>6, <1>7, <2>2, ConcatProperties
<1>9. QED BY <1>8, SeqOwnElements

FrameBytes(a) == UNION {ToSet(Encode(a.frames[j])) : j \in DOMAIN a.frames}

\* Everything that is ever in a socket of the tunnel.
Symbols ==
  (UNION {ToSet(a.head) : a \in Answers}) \cup ToSet(ClientBytes)
    \cup (UNION {FrameBytes(a) : a \in Answers})

\* What the upstream sends, its head and its frames.
Upstream == answer.head \o Stream

LEMMA ClientIsSeq == ClientBytes \in Seq(Symbols)
<1>1. ToSet(ClientBytes) \subseteq Symbols
  BY Zenon DEF Symbols
<1>2. QED BY <1>1, TunnelAssumption, SeqMonotonic DEF IsSequence

LEMMA HeadIsSeq ==
  ASSUME answer \in Answers
  PROVE  answer.head \in Seq(Symbols)
<1>1. ToSet(answer.head) \subseteq Symbols
  <2>1. ToSet(answer.head) \in {ToSet(a.head) : a \in Answers}
    OBVIOUS
  <2>2. QED BY <2>1, Zenon DEF Symbols
<1>2. answer.head \in Seq(ToSet(answer.head))
  BY TunnelAssumption DEF IsSequence
<1>3. QED BY <1>1, <1>2, SeqMonotonic

LEMMA StreamIsSeq ==
  ASSUME answer \in Answers
  PROVE  Stream \in Seq(Symbols)
<1> DEFINE n == Len(answer.frames)
           seqs == [j \in 1..n |-> Encode(answer.frames[j])]
<1>1. n \in Nat /\ DOMAIN answer.frames = 1..n
  <2>1. answer.frames \in Seq(ToSet(answer.frames))
    BY TunnelAssumption DEF IsSequence
  <2>2. QED BY <2>1, LenProperties
<1>2. ASSUME NEW j \in 1..n PROVE Encode(answer.frames[j]) \in Seq(Symbols)
  <2>1. IsSequence(Encode(answer.frames[j]))
    BY <1>1, TunnelAssumption, EncodeIsSeq
  <2>2. ToSet(Encode(answer.frames[j])) \subseteq Symbols
    <3>1. ToSet(Encode(answer.frames[j])) \subseteq FrameBytes(answer)
      BY <1>1 DEF FrameBytes
    <3>2. FrameBytes(answer) \subseteq Symbols
      BY Zenon DEF Symbols
    <3>3. QED BY <3>1, <3>2
  <2>3. QED BY <2>1, <2>2, SeqMonotonic DEF IsSequence
<1>3. seqs \in Seq(Seq(Symbols))
  <2>1. seqs \in [1..n -> Seq(Symbols)]
    BY <1>2
  <2> HIDE DEF seqs, n
  <2>2. QED BY <1>1, <2>1, FunctionIsSeq
<1>4. Stream = FlattenSeq(seqs)
  BY <1>1 DEF Stream, Encoded
<1>5. QED
  <2> HIDE DEF seqs
  <2>1. QED BY <1>3, <1>4, FlattenIsSeq

LEMMA UpstreamFacts ==
  ASSUME answer \in Answers
  PROVE  /\ answer.head \in Seq(Symbols) /\ Len(answer.head) \in Nat \ {0}
         /\ Stream \in Seq(Symbols) /\ Len(Stream) \in Nat
         /\ Upstream \in Seq(Symbols) /\ Len(Upstream) = Len(answer.head) + Len(Stream)
         /\ UpstreamLen = Len(Upstream)
         /\ \A n \in 1..UpstreamLen : UpstreamByte(n) = Upstream[n]
         /\ \A n \in 1..Len(answer.head) :
              Upstream[n] = answer.head[n] /\ ((Upstream[n].b = "end") <=> (n = Len(answer.head)))
<1>1. answer.head \in Seq(Symbols) /\ Stream \in Seq(Symbols)
  BY HeadIsSeq, StreamIsSeq
<1>2. Len(answer.head) \in Nat \ {0} /\ Len(Stream) \in Nat /\ DOMAIN answer.head = 1..Len(answer.head)
  BY <1>1, LenProperties, EmptySeq, TunnelAssumption
<1>3. /\ Upstream \in Seq(Symbols) /\ Len(Upstream) = Len(answer.head) + Len(Stream)
      /\ \A n \in 1..Len(answer.head) + Len(Stream) :
           Upstream[n] = IF n <= Len(answer.head) THEN answer.head[n]
                         ELSE Stream[n - Len(answer.head)]
  BY <1>1, ConcatProperties DEF Upstream
<1>4. UpstreamLen = Len(Upstream)
  BY <1>3 DEF UpstreamLen
<1>5. \A n \in 1..UpstreamLen : UpstreamByte(n) = Upstream[n]
  BY <1>3, <1>4 DEF UpstreamByte
<1>6. \A n \in 1..Len(answer.head) :
        Upstream[n] = answer.head[n] /\ ((Upstream[n].b = "end") <=> (n = Len(answer.head)))
  <2>1. \A n \in 1..Len(answer.head) : Upstream[n] = answer.head[n]
    BY <1>2, <1>3
  <2>2. QED BY <1>2, <2>1, TunnelAssumption
<1>7. QED BY <1>1, <1>2, <1>3, <1>4, <1>5, <1>6
-----------------------------------------------------------------------------
(***************************************************************************)
(* The inductive invariant: every buffer holds a piece of one of the two   *)
(* streams, and the pieces meet as long as nobody has gone.                *)
(***************************************************************************)
\* How many bytes the proxy has taken from the upstream, and from the client.
Taken == Len(head) + nread
Heard == csent - Len(cin)

\* What has been handed to the client, and to the upstream.
ToClient == cgot \o cout
ToUpstream == ugot \o uout

Buffers ==
  /\ answer \in Answers
  /\ {head, chunk, uin, uout, cin, cout, ugot, cgot} \subseteq Seq(Symbols)
  /\ usent \in Nat /\ csent \in Nat /\ nread \in Nat
  /\ uopen \in BOOLEAN /\ copen \in BOOLEAN /\ crossed \in BOOLEAN

\* The socket of the upstream has what follows what was taken from it, all that
\* was sent unless a reset discarded it.
FromUpstream ==
  /\ Piece(head, Upstream, 0) /\ Len(head) <= Len(answer.head)
  /\ Piece(uin, Upstream, Taken) /\ Taken + Len(uin) <= usent /\ usent <= UpstreamLen
  /\ uopen \/ ~crossed => Taken + Len(uin) = usent

FromClient == csent <= Len(ClientBytes) /\ Len(cin) <= csent /\ Piece(cin, ClientBytes, Heard)

Phases ==
  /\ phase \in {"head", "upgrading", "select", "to_upstream", "to_client", "ended"}
  /\ phase = "head" => Len(head) < Len(answer.head) /\ csent = 0
  /\ phase \in {"head", "upgrading"} => nread = 0 /\ ToClient = <<>> /\ ToUpstream = <<>>
  /\ phase \notin {"head", "ended"} \/ nread > 0 => Len(head) = Len(answer.head)

Downward ==
  /\ Piece(ToClient, Stream, 0) /\ Len(ToClient) <= nread
  /\ phase = "to_client" => Len(chunk) <= nread /\ Piece(chunk, Stream, nread - Len(chunk))
  /\ copen /\ phase # "ended"
       => Len(ToClient) + (IF phase = "to_client" THEN Len(chunk) ELSE 0) = nread

Upward ==
  /\ Piece(ToUpstream, ClientBytes, 0) /\ Len(ToUpstream) <= Heard
  /\ phase = "to_upstream" => Len(chunk) <= Heard /\ Piece(chunk, ClientBytes, Heard - Len(chunk))
  /\ uopen /\ phase # "ended"
       => Len(ToUpstream) + (IF phase = "to_upstream" THEN Len(chunk) ELSE 0) = Heard

\* How a tunnel ends that neither the client nor a reset cuts short.
Endings ==
  phase = "ended" /\ record # None /\ nread > 0 /\ copen /\ ~crossed
    => ~uopen /\ uin = <<>> /\ (cin = <<>> => Len(ToClient) = nread)

TunnelInv ==
  Buffers /\ FromUpstream /\ FromClient /\ Phases /\ Downward /\ Upward /\ Endings

LEMMA PieceFront ==
  ASSUME NEW S, NEW w \in Seq(S), NEW a \in Seq(S), NEW b \in Seq(S), NEW k \in Nat,
         Piece(a \o b, w, k)
  PROVE  Piece(a, w, k) /\ Len(a) <= Len(a \o b)
<1>1. Len(w) \in Nat /\ Len(a) \in Nat /\ Len(b) \in Nat
  BY LenProperties
<1> DEFINE c == a \o b
<1>2. /\ c \in Seq(S) /\ Len(c) = Len(a) + Len(b)
      /\ \A i \in 1..Len(a) + Len(b) : c[i] = IF i <= Len(a) THEN a[i] ELSE b[i - Len(a)]
  BY ConcatProperties
<1> HIDE DEF c
<1>3. Piece(c, w, k)
  BY DEF c
<1>4. k + Len(a) <= Len(w)
  BY <1>1, <1>2, <1>3 DEF Piece
<1>5. ASSUME NEW i \in 1..Len(a) PROVE a[i] = w[k + i]
  <2> c \in Seq(S)
    BY <1>2
  <2>1. \A j \in 1..Len(c) : c[j] = w[k + j]
    BY <1>3, PieceIsSeq
  <2>0. i \in 1..Len(c) /\ i \in 1..Len(a) + Len(b) /\ i <= Len(a)
    BY <1>1, <1>2
  <2>2. i \in 1..Len(c) /\ c[i] = a[i]
    BY <1>2, <2>0
  <2>3. QED BY <2>1, <2>2
<1>6. Piece(a, w, k)
  BY <1>4, <1>5, PieceFrom
<1>7. QED BY <1>1, <1>2, <1>6 DEF c

LEMMA LeastOfTwo ==
  ASSUME NEW a \in Int, NEW b \in Int
  PROVE  Min({a, b}) \in Int /\ Min({a, b}) <= a /\ Min({a, b}) <= b /\ Min({a, b}) \in {a, b}
<1>1. \E x \in {a, b} : \A y \in {a, b} : x <= y
  OBVIOUS
<1>2. Min({a, b}) \in {a, b} /\ \A y \in {a, b} : Min({a, b}) <= y
  BY <1>1 DEF Min
<1>3. QED BY <1>2

LEMMA CutFacts ==
  ASSUME NEW S, NEW s \in Seq(S)
  PROVE  Cut(s) \in 0..Len(s)
<1>1. Len(s) \in Nat /\ ChunkSize \in Nat \ {0}
  BY LenProperties, TunnelAssumption
<1>2. /\ Cut(s) \in Int /\ Cut(s) <= ChunkSize /\ Cut(s) <= Len(s)
      /\ Cut(s) \in {ChunkSize, Len(s)}
  BY <1>1, LeastOfTwo DEF Cut
<1>3. QED BY <1>1, <1>2

\* What follows from the invariant about the two streams.
LEMMA StreamFacts ==
  ASSUME Buffers
  PROVE  /\ Upstream \in Seq(Symbols) /\ Stream \in Seq(Symbols) /\ ClientBytes \in Seq(Symbols)
         /\ Len(answer.head) \in Nat \ {0} /\ Len(Stream) \in Nat /\ Len(ClientBytes) \in Nat
         /\ UpstreamLen = Len(Upstream) /\ Len(Upstream) = Len(answer.head) + Len(Stream)
         /\ Len(head) \in Nat /\ Len(chunk) \in Nat /\ Len(uin) \in Nat /\ Len(cin) \in Nat
         /\ ToClient \in Seq(Symbols) /\ Len(ToClient) \in Nat
         /\ ToUpstream \in Seq(Symbols) /\ Len(ToUpstream) \in Nat
<1>1. answer \in Answers
  BY DEF Buffers
<1>2. /\ head \in Seq(Symbols) /\ chunk \in Seq(Symbols) /\ uin \in Seq(Symbols)
      /\ cin \in Seq(Symbols) /\ cgot \in Seq(Symbols) /\ cout \in Seq(Symbols)
      /\ ugot \in Seq(Symbols) /\ uout \in Seq(Symbols)
  BY DEF Buffers
<1>3. ToClient \in Seq(Symbols) /\ ToUpstream \in Seq(Symbols)
  BY <1>2, ConcatProperties DEF ToClient, ToUpstream
<1>4. ClientBytes \in Seq(Symbols)
  BY ClientIsSeq
<1>5. QED BY <1>1, <1>2, <1>3, <1>4, UpstreamFacts, LenProperties

LEMMA AnswerStays ==
  ASSUME Next \/ UNCHANGED vars
  PROVE  /\ answer' = answer /\ Stream' = Stream /\ Upstream' = Upstream
         /\ UpstreamLen' = UpstreamLen
<1>1. answer' = answer
  BY DEF Next, Relay, vars, UpstreamSends, ClientSends, UpstreamReads, ClientReads,
     UpstreamCloses, ClientCloses, UpstreamReset, ClientReset, HandshakeFails, ReadHead,
     Upgrade, SelectClient, SelectUpstream, SelectEof, WriteClient, WriteUpstream, WriteToClosed
<1>2. Stream' = Stream
  BY <1>1 DEF Stream
<1>3. QED BY <1>1, <1>2 DEF Upstream, UpstreamLen

LEMMA TunnelInit == Init => TunnelInv
<1> SUFFICES ASSUME Init PROVE TunnelInv
  OBVIOUS
<1> USE DEF Init
<1>1. <<>> \in Seq(Symbols) /\ Len(<<>>) = 0
  BY EmptySeq
<1>2. Buffers
  BY <1>1 DEF Buffers
<1>3. ToClient = <<>> /\ ToUpstream = <<>>
  BY <1>1, ConcatEmptySeq DEF ToClient, ToUpstream
<1>4. Piece(<<>>, Upstream, 0) /\ Piece(<<>>, Stream, 0) /\ Piece(<<>>, ClientBytes, 0)
  BY <1>2, StreamFacts, PieceEmpty
<1>5. FromUpstream
  <2>1. UpstreamLen \in Nat /\ Len(answer.head) \in Nat
    BY <1>2, StreamFacts
  <2>2. Taken = 0
    BY <1>1 DEF Taken
  <2>3. QED BY <1>1, <1>4, <2>1, <2>2 DEF FromUpstream
<1>6. FromClient
  BY <1>1, <1>2, <1>4, StreamFacts DEF FromClient, Heard
<1>7. Phases
  BY <1>1, <1>2, <1>3, StreamFacts DEF Phases
<1>8. Downward
  BY <1>1, <1>3, <1>4 DEF Downward
<1>9. Upward
  <2>0. csent = 0 /\ Len(cin) = 0
    BY <1>1
  <2>1. Heard = 0
    <3> HIDE DEF Init
    <3>1. QED BY <2>0 DEF Heard
  <2>2. QED BY <1>1, <1>3, <1>4, <2>1 DEF Upward
<1>10. Endings
  BY DEF Endings
<1>11. QED BY <1>2, <1>5, <1>6, <1>7, <1>8, <1>9, <1>10 DEF TunnelInv

-----------------------------------------------------------------------------
(***************************************************************************)
(* What an action leaves alone.                                            *)
(***************************************************************************)
LEMMA SameFromUpstream ==
  ASSUME FromUpstream, Next, UNCHANGED <<head, nread, uin, usent, uopen, crossed>>
  PROVE  FromUpstream'
BY AnswerStays DEF FromUpstream, Taken

LEMMA SameFromClient ==
  ASSUME FromClient, UNCHANGED <<csent, cin>>
  PROVE  FromClient'
BY DEF FromClient, Heard

LEMMA SameDownward ==
  ASSUME Downward, Next, UNCHANGED <<ToClient, nread, chunk, copen, phase>>
  PROVE  Downward'
BY AnswerStays DEF Downward

LEMMA SameUpward ==
  ASSUME Upward, UNCHANGED <<ToUpstream, Heard, chunk, uopen, phase>>
  PROVE  Upward'
BY DEF Upward

\* When the tunnel is neither writing to the client nor still open ...
LEMMA QuietDownward ==
  ASSUME Buffers, Downward, Next, UNCHANGED <<ToClient, nread>>, phase' # "to_client",
         copen' /\ phase' # "ended" => Len(ToClient) = nread
  PROVE  Downward'
<1>1. Len(ToClient) \in Nat /\ nread \in Nat
  BY StreamFacts DEF Buffers
<1>2. QED BY <1>1, AnswerStays DEF Downward

LEMMA QuietUpward ==
  ASSUME Buffers, Buffers', Upward, UNCHANGED <<ToUpstream, Heard>>, phase' # "to_upstream",
         uopen' /\ phase' # "ended" => Len(ToUpstream) = Heard
  PROVE  Upward'
<1>1. Len(ToUpstream) \in Nat /\ Heard \in Int
  BY StreamFacts DEF Buffers, Heard
<1>2. QED BY <1>1 DEF Upward

LEMMA UpstreamSendsInv ==
  ASSUME TunnelInv, UpstreamSends
  PROVE  TunnelInv'
<1>1. Buffers /\ FromUpstream /\ FromClient /\ Phases /\ Downward /\ Upward /\ Endings
  BY DEF TunnelInv
<1>2. Next
  BY DEF Next
<1>3. /\ UNCHANGED <<head, nread, uopen, crossed, csent, cin, chunk, copen, phase, record>>
      /\ UNCHANGED <<cgot, cout, ugot, uout, answer>>
      /\ uopen /\ phase # "ended" /\ usent < UpstreamLen /\ usent' = usent + 1
      /\ uin' = Append(uin, UpstreamByte(usent + 1))
  BY DEF UpstreamSends, relay
<1>4. UNCHANGED <<ToClient, ToUpstream, Heard>>
  BY <1>3 DEF ToClient, ToUpstream, Heard
<1>5. /\ Taken + Len(uin) = usent /\ Piece(uin, Upstream, Taken)
      /\ Taken \in Nat /\ usent \in Nat /\ UpstreamLen \in Nat /\ uin \in Seq(Symbols)
      /\ Upstream \in Seq(Symbols) /\ UpstreamLen = Len(Upstream) /\ Len(uin) \in Nat
  <2>1. Len(head) \in Nat /\ nread \in Nat
    BY <1>1, StreamFacts DEF Buffers
  <2>2. Taken \in Nat
    BY <2>1 DEF Taken
  <2>3. QED BY <1>1, <1>3, <2>2, StreamFacts DEF FromUpstream, Buffers
<1>6. UpstreamByte(usent + 1) = Upstream[Taken + Len(uin) + 1]
  <2>1. usent + 1 \in 1..UpstreamLen
    BY <1>3, <1>5
  <2>2. answer \in Answers
    BY <1>1 DEF Buffers
  <2>3. QED BY <1>5, <2>1, <2>2, UpstreamFacts
<1>7. uin' \in Seq(Symbols) /\ Len(uin') = Len(uin) + 1 /\ Piece(uin', Upstream, Taken)
  <2>1. Taken + Len(uin) < Len(Upstream)
    BY <1>3, <1>5
  <2>2. QED BY <1>3, <1>5, <1>6, <2>1, PieceAppend
<1>8. Buffers'
  BY <1>1, <1>3, <1>5, <1>7 DEF Buffers
<1>9. FromUpstream'
  <2>1. Taken' = Taken
    BY <1>3 DEF Taken
  <2>2. usent + 1 <= UpstreamLen
    BY <1>3, <1>5
  <2>3. Upstream' = Upstream /\ UpstreamLen' = UpstreamLen /\ Taken + Len(uin') = usent'
    BY <1>2, <1>3, <1>5, <1>7, AnswerStays
  <2>4. QED BY <1>1, <1>3, <1>5, <1>7, <2>1, <2>2, <2>3 DEF FromUpstream
<1>10. FromClient'
  BY <1>1, <1>3, SameFromClient
<1>11. Phases'
  BY <1>1, <1>3, <1>4 DEF Phases
<1>12. Downward' /\ Upward'
  BY <1>1, <1>2, <1>3, <1>4, SameDownward, SameUpward
<1>13. Endings'
  BY <1>3 DEF Endings
<1>14. QED BY <1>8, <1>9, <1>10, <1>11, <1>12, <1>13 DEF TunnelInv

LEMMA ClientSendsInv ==
  ASSUME TunnelInv, ClientSends
  PROVE  TunnelInv'
<1>1. Buffers /\ FromUpstream /\ FromClient /\ Phases /\ Downward /\ Upward /\ Endings
  BY DEF TunnelInv
<1>2. Next
  BY DEF Next
<1>3. /\ UNCHANGED <<head, nread, uin, usent, uopen, crossed, chunk, copen, phase, record>>
      /\ UNCHANGED <<cgot, cout, ugot, uout, answer>>
      /\ phase \notin {"head", "ended"} /\ csent < Len(ClientBytes) /\ csent' = csent + 1
      /\ cin' = Append(cin, ClientBytes[csent + 1])
  BY DEF ClientSends, relay
<1>4. /\ Len(cin) \in Nat /\ csent \in Nat /\ cin \in Seq(Symbols) /\ Len(cin) <= csent
      /\ ClientBytes \in Seq(Symbols) /\ Len(ClientBytes) \in Nat
  BY <1>1, StreamFacts DEF Buffers, FromClient
<1>5. Heard \in Nat /\ Heard + Len(cin) = csent /\ Piece(cin, ClientBytes, Heard)
  BY <1>1, <1>4 DEF Heard, FromClient
<1>6. cin' \in Seq(Symbols) /\ Len(cin') = Len(cin) + 1 /\ Piece(cin', ClientBytes, Heard)
  BY <1>3, <1>4, <1>5, PieceAppend
<1>7. Heard' = Heard
  BY <1>3, <1>4, <1>6 DEF Heard
<1>8. UNCHANGED <<ToClient, ToUpstream, Heard>>
  BY <1>3, <1>7 DEF ToClient, ToUpstream
<1>9. Buffers'
  BY <1>1, <1>3, <1>4, <1>6 DEF Buffers
<1>10. FromClient'
  <2>1. csent' <= Len(ClientBytes) /\ Len(cin') <= csent'
    BY <1>3, <1>4, <1>6
  <2>2. QED BY <1>6, <1>7, <2>1 DEF FromClient
<1>11. FromUpstream'
  BY <1>1, <1>2, <1>3, SameFromUpstream
<1>12. Phases'
  BY <1>1, <1>3, <1>8 DEF Phases
<1>13. Downward' /\ Upward'
  BY <1>1, <1>2, <1>3, <1>8, SameDownward, SameUpward
<1>14. Endings'
  BY <1>3 DEF Endings
<1>15. QED BY <1>9, <1>10, <1>11, <1>12, <1>13, <1>14 DEF TunnelInv

LEMMA ReadsInv ==
  ASSUME TunnelInv, UpstreamReads \/ ClientReads
  PROVE  TunnelInv'
<1>1. Buffers /\ FromUpstream /\ FromClient /\ Phases /\ Downward /\ Upward /\ Endings
  BY DEF TunnelInv
<1>2. Next
  BY DEF Next
<1>3. /\ UNCHANGED <<head, nread, uin, usent, uopen, crossed, chunk, copen, phase, record>>
      /\ UNCHANGED <<csent, cin, answer>>
  BY DEF UpstreamReads, ClientReads, relay
<1>4. /\ {cgot', cout', ugot', uout'} \subseteq Seq(Symbols)
      /\ UNCHANGED <<ToClient, ToUpstream, Heard>>
  <2>0. /\ cgot \in Seq(Symbols) /\ cout \in Seq(Symbols)
        /\ ugot \in Seq(Symbols) /\ uout \in Seq(Symbols)
    BY <1>1 DEF Buffers
  <2>1. CASE UpstreamReads
    <3>1. uout # <<>> /\ ugot' = Append(ugot, Head(uout)) /\ uout' = Tail(uout)
      BY <2>1 DEF UpstreamReads
    <3>2. UNCHANGED <<cgot, cout>>
      BY <2>1 DEF UpstreamReads
    <3>3. /\ ugot' \in Seq(Symbols) /\ uout' \in Seq(Symbols)
          /\ ugot' \o uout' = ugot \o uout
      <4>1. /\ Append(ugot, Head(uout)) \in Seq(Symbols) /\ Tail(uout) \in Seq(Symbols)
            /\ Append(ugot, Head(uout)) \o Tail(uout) = ugot \o uout
        BY <2>0, <3>1, Received, SMTT(40)
      <4>2. QED BY <3>1, <4>1
    <3>4. QED BY <1>3, <2>0, <3>2, <3>3 DEF ToClient, ToUpstream, Heard
  <2>2. CASE ClientReads
    <3>1. cout # <<>> /\ cgot' = Append(cgot, Head(cout)) /\ cout' = Tail(cout)
      BY <2>2 DEF ClientReads
    <3>2. UNCHANGED <<ugot, uout>>
      BY <2>2 DEF ClientReads
    <3>3. /\ cgot' \in Seq(Symbols) /\ cout' \in Seq(Symbols)
          /\ cgot' \o cout' = cgot \o cout
      <4>1. /\ Append(cgot, Head(cout)) \in Seq(Symbols) /\ Tail(cout) \in Seq(Symbols)
            /\ Append(cgot, Head(cout)) \o Tail(cout) = cgot \o cout
        BY <2>0, <3>1, Received
      <4>2. QED BY <3>1, <4>1
    <3>4. QED BY <1>3, <2>0, <3>2, <3>3 DEF ToClient, ToUpstream, Heard
  <2>3. QED BY <2>1, <2>2
<1>5. Buffers'
  BY <1>1, <1>3, <1>4 DEF Buffers
<1>6. FromUpstream' /\ FromClient'
  BY <1>1, <1>2, <1>3, SameFromUpstream, SameFromClient
<1>7. Phases'
  BY <1>1, <1>3, <1>4 DEF Phases
<1>8. Downward' /\ Upward'
  BY <1>1, <1>2, <1>3, <1>4, SameDownward, SameUpward
<1>9. Endings'
  BY <1>1, <1>3, <1>4 DEF Endings
<1>10. QED BY <1>5, <1>6, <1>7, <1>8, <1>9 DEF TunnelInv

LEMMA ClosesInv ==
  ASSUME TunnelInv, UpstreamCloses \/ ClientCloses
  PROVE  TunnelInv'
<1>1. Buffers /\ FromUpstream /\ FromClient /\ Phases /\ Downward /\ Upward /\ Endings
  BY DEF TunnelInv
<1>2. Next
  BY DEF Next
<1>3. /\ UNCHANGED <<head, nread, uin, usent, crossed, chunk, phase, record>>
      /\ UNCHANGED <<csent, cin, answer, cgot, cout, ugot, uout>>
      /\ uopen' \in BOOLEAN /\ copen' \in BOOLEAN /\ (uopen' => uopen) /\ (copen' => copen)
      /\ (uopen' = uopen) \/ (uopen /\ ~uopen')
  <2>1. uopen \in BOOLEAN /\ copen \in BOOLEAN
    BY <1>1 DEF Buffers
  <2>2. CASE UpstreamCloses
    BY <2>1, <2>2 DEF UpstreamCloses, relay
  <2>3. CASE ClientCloses
    BY <2>1, <2>3 DEF ClientCloses, relay
  <2>4. QED BY <2>2, <2>3
<1>4. UNCHANGED <<ToClient, ToUpstream, Heard>>
  BY <1>3 DEF ToClient, ToUpstream, Heard
<1>5. Buffers'
  BY <1>1, <1>3 DEF Buffers
<1>6. FromUpstream'
  BY <1>1, <1>2, <1>3, AnswerStays DEF FromUpstream, Taken
<1>7. FromClient' /\ Phases'
  BY <1>1, <1>2, <1>3, <1>4, SameFromClient DEF Phases
<1>8. Downward' /\ Upward'
  BY <1>1, <1>2, <1>3, <1>4, AnswerStays DEF Downward, Upward
<1>9. Endings'
  BY <1>1, <1>3, <1>4 DEF Endings
<1>10. QED BY <1>5, <1>6, <1>7, <1>8, <1>9 DEF TunnelInv

LEMMA UpstreamResetInv ==
  ASSUME TunnelInv, UpstreamReset
  PROVE  TunnelInv'
<1>1. Buffers /\ FromUpstream /\ FromClient /\ Phases /\ Downward /\ Upward /\ Endings
  BY DEF TunnelInv
<1>2. Next
  BY DEF Next
<1>3. /\ UNCHANGED <<head, nread, usent, uopen, copen, crossed, chunk, phase, record>>
      /\ UNCHANGED <<csent, cin, answer, cgot, cout, ugot, uout>>
      /\ crossed /\ ~uopen /\ uin' = <<>>
  BY DEF UpstreamReset, relay, peers
<1>4. UNCHANGED <<ToClient, ToUpstream, Heard>>
  BY <1>3 DEF ToClient, ToUpstream, Heard
<1>5. <<>> \in Seq(Symbols) /\ Len(<<>>) = 0
  BY EmptySeq
<1>6. Buffers'
  BY <1>1, <1>3, <1>5 DEF Buffers
<1>7. FromUpstream'
  <2>1. Len(head) \in Nat /\ nread \in Nat /\ Len(uin) \in Nat /\ usent \in Nat
    BY <1>1, StreamFacts DEF Buffers
  <2>2. Taken \in Nat /\ Taken' = Taken
    BY <1>3, <2>1 DEF Taken
  <2>3. UpstreamLen = Len(Upstream) /\ Upstream \in Seq(Symbols) /\ Len(Upstream) \in Nat
    BY <1>1, StreamFacts, LenProperties
  <2>4. Taken <= usent /\ usent <= UpstreamLen
    BY <1>1, <2>1, <2>2, <2>3 DEF FromUpstream
  <2>5. Taken \in 0..Len(Upstream)
    BY <2>1, <2>2, <2>3, <2>4
  <2>6. Piece(<<>>, Upstream, Taken)
    BY <2>3, <2>5, PieceEmpty
  <2>7. Upstream' = Upstream /\ UpstreamLen' = UpstreamLen
    BY <1>2, AnswerStays
  <2>8. Piece(uin', Upstream', Taken') /\ Taken' + Len(uin') <= usent'
    BY <1>3, <1>5, <2>2, <2>4, <2>6, <2>7
  <2>9. QED BY <1>1, <1>3, <2>4, <2>7, <2>8 DEF FromUpstream
<1>8. FromClient' /\ Phases'
  BY <1>1, <1>2, <1>3, <1>4, SameFromClient DEF Phases
<1>9. Downward' /\ Upward'
  BY <1>1, <1>2, <1>3, <1>4, SameDownward, SameUpward
<1>10. Endings'
  BY <1>3 DEF Endings
<1>11. QED BY <1>6, <1>7, <1>8, <1>9, <1>10 DEF TunnelInv

LEMMA ClientResetInv ==
  ASSUME TunnelInv, ClientReset
  PROVE  TunnelInv'
<1>1. Buffers /\ FromUpstream /\ FromClient /\ Phases /\ Downward /\ Upward /\ Endings
  BY DEF TunnelInv
<1>2. Next
  BY DEF Next
<1>3. /\ UNCHANGED <<head, nread, uin, usent, uopen, copen, crossed, chunk, phase, record>>
      /\ UNCHANGED <<csent, cin, answer, cgot, ugot, uout>>
      /\ phase = "ended" /\ cin # <<>> /\ cout' = <<>>
  BY DEF ClientReset, relay, peers
<1>4. UNCHANGED <<ToUpstream, Heard>>
  BY <1>3 DEF ToUpstream, Heard
<1>5. cgot \in Seq(Symbols) /\ cout \in Seq(Symbols) /\ <<>> \in Seq(Symbols)
  BY <1>1, EmptySeq DEF Buffers
<1>6. Buffers'
  BY <1>1, <1>3, <1>5 DEF Buffers
<1>7. ToClient' = cgot
  BY <1>3, <1>5, ConcatEmptySeq DEF ToClient
<1>8. Downward'
  <2>1. Stream \in Seq(Symbols) /\ Piece(cgot \o cout, Stream, 0)
    BY <1>1, StreamFacts DEF Downward, ToClient
  <2>2. Piece(cgot, Stream, 0) /\ Len(cgot) <= Len(cgot \o cout)
    BY <1>5, <2>1, PieceFront
  <2>3. Len(cgot) \in Nat /\ Len(ToClient) \in Nat /\ nread \in Nat /\ Len(ToClient) <= nread
    BY <1>1, <1>5, StreamFacts, LenProperties DEF Buffers, Downward
  <2>4. Len(cgot) <= nread
    BY <2>2, <2>3 DEF ToClient
  <2>5. Stream' = Stream
    BY <1>2, AnswerStays
  <2>6. QED BY <1>3, <1>7, <2>2, <2>4, <2>5 DEF Downward
<1>9. FromUpstream' /\ FromClient'
  BY <1>1, <1>2, <1>3, SameFromUpstream, SameFromClient
<1>10. Phases'
  BY <1>1, <1>2, <1>3, AnswerStays DEF Phases
<1>11. Upward'
  BY <1>1, <1>3, <1>4, SameUpward
<1>12. Endings'
  BY <1>1, <1>3 DEF Endings
<1>13. QED BY <1>6, <1>8, <1>9, <1>10, <1>11, <1>12 DEF TunnelInv

\* The handshake is over, or the tunnel is: no byte moves.
LEMMA StillInv ==
  ASSUME TunnelInv, HandshakeFails \/ Upgrade \/ SelectEof \/ WriteToClosed
  PROVE  TunnelInv'
<1>1. Buffers /\ FromUpstream /\ FromClient /\ Phases /\ Downward /\ Upward /\ Endings
  BY DEF TunnelInv
<1>2. Next
  BY DEF Next, Relay
<1>3. /\ UNCHANGED <<head, nread, uin, usent, uopen, copen, csent, cin, answer>>
      /\ UNCHANGED <<cgot, cout, ugot, uout>>
  BY DEF HandshakeFails, Upgrade, SelectEof, WriteToClosed, peers
<1>4. UNCHANGED <<ToClient, ToUpstream, Heard>>
  BY <1>3 DEF ToClient, ToUpstream, Heard
<1>5. phase' \in {"select", "ended"} /\ (chunk' = chunk \/ chunk' = <<>>)
  BY DEF HandshakeFails, Upgrade, SelectEof, WriteToClosed, End
<1>6. crossed' = crossed \/ (crossed' = TRUE /\ ~uopen)
  BY DEF HandshakeFails, Upgrade, SelectEof, WriteToClosed
<1>7. phase' = "select" => phase \notin {"head", "ended"}
  BY DEF HandshakeFails, Upgrade, SelectEof, WriteToClosed, End
<1>8. Buffers'
  <2>1. <<>> \in Seq(Symbols)
    BY EmptySeq
  <2>2. QED BY <1>1, <1>3, <1>5, <1>6, <2>1 DEF Buffers
<1>9. FromUpstream'
  BY <1>1, <1>2, <1>3, <1>6, AnswerStays DEF FromUpstream, Taken
<1>10. FromClient'
  BY <1>1, <1>3, SameFromClient
<1>11. Phases'
  BY <1>1, <1>2, <1>3, <1>4, <1>5, <1>7, AnswerStays DEF Phases
<1>12. Downward'
  <2>1. ASSUME copen', phase' # "ended" PROVE Len(ToClient) = nread
    <3>1. copen /\ (Upgrade \/ WriteToClosed) /\ phase \in {"upgrading", "to_upstream"}
      BY <1>3, <2>1 DEF HandshakeFails, Upgrade, SelectEof, WriteToClosed, End
    <3>2. Len(ToClient) \in Nat /\ Len(ToClient) + 0 = nread
      BY <1>1, <3>1, StreamFacts DEF Downward
    <3>3. QED BY <3>2
  <2>2. QED BY <1>1, <1>2, <1>3, <1>4, <1>5, <2>1, QuietDownward
<1>13. Upward'
  <2>1. ASSUME uopen', phase' # "ended" PROVE Len(ToUpstream) = Heard
    <3>1. uopen /\ (Upgrade \/ WriteToClosed) /\ phase \in {"upgrading", "to_client"}
      BY <1>3, <2>1 DEF HandshakeFails, Upgrade, SelectEof, WriteToClosed, End
    <3>2. Len(ToUpstream) \in Nat /\ Len(ToUpstream) + 0 = Heard
      BY <1>1, <3>1, StreamFacts DEF Upward
    <3>3. QED BY <3>2
  <2>2. QED BY <1>1, <1>4, <1>5, <1>8, <2>1, QuietUpward
<1>14. Endings'
  <2>1. CASE HandshakeFails \/ Upgrade
    <3>1. nread = 0
      BY <1>1, <2>1 DEF HandshakeFails, Upgrade, Phases
    <3>2. QED BY <1>3, <3>1 DEF Endings
  <2>2. CASE SelectEof
    <3>1. SUFFICES ASSUME copen', ~crossed'
                   PROVE  ~uopen /\ uin = <<>> /\ Len(ToClient) = nread
      BY <1>3, <1>4 DEF Endings
    <3>2. phase = "select" /\ AtEof /\ copen
      BY <1>3, <2>2, <3>1 DEF SelectEof
    <3>3. Len(ToClient) \in Nat /\ Len(ToClient) + 0 = nread
      BY <1>1, <3>2, StreamFacts DEF Downward
    <3>4. QED BY <3>2, <3>3 DEF AtEof
  <2>3. CASE WriteToClosed
    <3>1. ~copen \/ crossed'
      BY <2>3 DEF WriteToClosed
    <3>2. QED BY <1>3, <3>1 DEF Endings
  <2>4. QED BY <2>1, <2>2, <2>3
<1>15. QED BY <1>8, <1>9, <1>10, <1>11, <1>12, <1>13, <1>14 DEF TunnelInv

LEMMA ReadHeadInv ==
  ASSUME TunnelInv, ReadHead
  PROVE  TunnelInv'
<1>1. Buffers /\ FromUpstream /\ FromClient /\ Phases /\ Downward /\ Upward /\ Endings
  BY DEF TunnelInv
<1>2. Next
  BY DEF Next, Relay
<1>3. /\ UNCHANGED <<nread, usent, uopen, copen, csent, cin, answer, chunk, crossed>>
      /\ UNCHANGED <<cgot, cout, ugot, uout>>
      /\ phase = "head" /\ uin # <<>> /\ head' = Append(head, Head(uin)) /\ uin' = Tail(uin)
  BY DEF ReadHead, peers
<1>4. UNCHANGED <<ToClient, ToUpstream, Heard>>
  BY <1>3 DEF ToClient, ToUpstream, Heard
<1>5. nread = 0 /\ Len(head) < Len(answer.head) /\ ToClient = <<>> /\ ToUpstream = <<>>
  BY <1>1, <1>3 DEF Phases
<1>6. /\ head \in Seq(Symbols) /\ uin \in Seq(Symbols) /\ Upstream \in Seq(Symbols)
      /\ Len(head) \in Nat /\ Len(uin) \in Nat /\ usent \in Nat /\ answer \in Answers
      /\ Len(answer.head) \in Nat /\ Len(Upstream) = Len(answer.head) + Len(Stream)
      /\ Len(Stream) \in Nat
  BY <1>1, StreamFacts DEF Buffers
<1>7. Taken = Len(head)
  BY <1>5, <1>6 DEF Taken
<1>8. /\ Head(uin) = Upstream[Len(head) + 1]
      /\ uin' \in Seq(Symbols) /\ Len(uin') = Len(uin) - 1 /\ Piece(uin', Upstream, Len(head) + 1)
  <2>1. Piece(uin, Upstream, Len(head))
    BY <1>1, <1>7 DEF FromUpstream
  <2>2. /\ Head(uin) = Upstream[Len(head) + 1]
        /\ Tail(uin) \in Seq(Symbols) /\ Len(Tail(uin)) = Len(uin) - 1
        /\ Piece(Tail(uin), Upstream, Len(head) + 1)
    BY <1>3, <1>6, <2>1, PieceTail
  <2>3. QED BY <1>3, <2>2
<1>9. head' \in Seq(Symbols) /\ Len(head') = Len(head) + 1 /\ Piece(head', Upstream, 0)
  <2>1. Piece(head, Upstream, 0) /\ 0 + Len(head) < Len(Upstream)
    BY <1>1, <1>5, <1>6 DEF FromUpstream
  <2>2. 0 + Len(head) + 1 = Len(head) + 1
    BY <1>6
  <2>3. head' = Append(head, Upstream[0 + Len(head) + 1])
    BY <1>3, <1>8, <2>2
  <2>4. QED BY <1>6, <2>1, <2>3, PieceAppend
<1>10. (Head(uin).b = "end") <=> (Len(head) + 1 = Len(answer.head))
  <2>1. Len(head) + 1 \in 1..Len(answer.head)
    BY <1>5, <1>6
  <2>2. QED BY <1>6, <1>8, <2>1, UpstreamFacts
<1>11. \/ phase' = "head" /\ Len(head') < Len(answer.head)
       \/ phase' \in {"upgrading", "ended"} /\ Len(head') = Len(answer.head)
  <2>1. CASE Head(uin).b # "end"
    <3>1. phase' = "head"
      BY <1>3, <2>1 DEF ReadHead
    <3>2. QED BY <1>5, <1>6, <1>9, <1>10, <2>1, <3>1
  <2>2. CASE Head(uin).b = "end"
    <3>1. phase' \in {"upgrading", "ended"}
      BY <2>2 DEF ReadHead
    <3>2. QED BY <1>9, <1>10, <2>2, <3>1
  <2>3. QED BY <2>1, <2>2
<1>12. Buffers'
  BY <1>1, <1>3, <1>8, <1>9 DEF Buffers
<1>13. FromUpstream'
  <2>1. Taken' = Len(head) + 1
    BY <1>3, <1>5, <1>6, <1>9 DEF Taken
  <2>2. Taken' + Len(uin') = Taken + Len(uin)
    BY <1>6, <1>7, <1>8, <2>1
  <2>3. Upstream' = Upstream /\ UpstreamLen' = UpstreamLen
    BY <1>2, AnswerStays
  <2>4. Len(head') <= Len(answer.head)
    BY <1>6, <1>9, <1>11
  <2>5. QED BY <1>1, <1>3, <1>8, <1>9, <2>1, <2>2, <2>3, <2>4 DEF FromUpstream
<1>14. FromClient'
  BY <1>1, <1>3, SameFromClient
<1>15. Phases'
  BY <1>1, <1>3, <1>4, <1>5, <1>11 DEF Phases
<1>16. Downward' /\ Upward'
  <2>1. Len(ToClient) = nread /\ (uopen => Len(ToUpstream) = Heard)
    <3>1. Len(<<>>) = 0
      BY EmptySeq
    <3>2. uopen => Len(ToUpstream) + 0 = Heard
      BY <1>1, <1>3 DEF Upward
    <3>3. Len(ToUpstream) \in Nat
      BY <1>1, StreamFacts
    <3>4. QED BY <1>5, <3>1, <3>2, <3>3
  <2>2. phase' \notin {"to_client", "to_upstream"}
    BY <1>11
  <2>3. QED BY <1>1, <1>2, <1>3, <1>4, <1>12, <2>1, <2>2, QuietDownward, QuietUpward
<1>17. Endings'
  BY <1>3, <1>5 DEF Endings
<1>18. QED BY <1>12, <1>13, <1>14, <1>15, <1>16, <1>17 DEF TunnelInv

LEMMA SelectClientInv ==
  ASSUME TunnelInv, SelectClient
  PROVE  TunnelInv'
<1>1. Buffers /\ FromUpstream /\ FromClient /\ Phases /\ Downward /\ Upward /\ Endings
  BY DEF TunnelInv
<1>2. Next
  BY DEF Next, Relay
<1> DEFINE n == Cut(cin)
<1>3. /\ UNCHANGED <<head, nread, uin, usent, uopen, copen, csent, answer, crossed, record>>
      /\ UNCHANGED <<cgot, cout, ugot, uout>>
      /\ phase = "select" /\ phase' = "to_upstream"
      /\ chunk' = SubSeq(cin, 1, n) /\ cin' = SubSeq(cin, n + 1, Len(cin))
  BY DEF SelectClient, peers
<1>4. /\ cin \in Seq(Symbols) /\ ClientBytes \in Seq(Symbols) /\ Len(cin) \in Nat /\ csent \in Nat
      /\ Len(cin) <= csent /\ csent <= Len(ClientBytes) /\ Len(ClientBytes) \in Nat
  BY <1>1, StreamFacts DEF Buffers, FromClient
<1>5. n \in 0..Len(cin)
  BY <1>4, CutFacts
<1> HIDE DEF n
<1>6. Heard \in Nat /\ Heard + Len(cin) = csent /\ Piece(cin, ClientBytes, Heard)
  BY <1>1, <1>4 DEF Heard, FromClient
<1>7. /\ chunk' \in Seq(Symbols) /\ Len(chunk') = n /\ Piece(chunk', ClientBytes, Heard)
      /\ cin' \in Seq(Symbols) /\ Len(cin') = Len(cin) - n /\ Piece(cin', ClientBytes, Heard + n)
  BY <1>3, <1>4, <1>5, <1>6, PieceCut
<1>8. Heard' = Heard + n /\ n \in Nat
  <2>1. n \in Nat
    BY <1>4, <1>5
  <2>2. Heard' = csent - (Len(cin) - n)
    BY <1>3, <1>7 DEF Heard
  <2>3. csent - (Len(cin) - n) = Heard + n
    BY <1>4, <2>1 DEF Heard
  <2>4. QED BY <2>1, <2>2, <2>3
<1>9. UNCHANGED <<ToClient, ToUpstream>>
  BY <1>3 DEF ToClient, ToUpstream
<1>10. Buffers'
  BY <1>1, <1>3, <1>7 DEF Buffers
<1>11. FromUpstream'
  BY <1>1, <1>2, <1>3, SameFromUpstream
<1>12. FromClient'
  <2>1. Len(cin') <= csent'
    BY <1>3, <1>4, <1>5, <1>7
  <2>2. QED BY <1>3, <1>4, <1>7, <1>8, <2>1 DEF FromClient
<1>13. Phases'
  BY <1>1, <1>3 DEF Phases
<1>14. Downward'
  <2>1. copen => Len(ToClient) = nread
    BY <1>1, <1>3, StreamFacts DEF Downward
  <2>2. QED BY <1>1, <1>2, <1>3, <1>9, <2>1, QuietDownward
<1>15. Upward'
  <2>1. Len(ToUpstream) \in Nat /\ Len(ToUpstream) <= Heard
    BY <1>1, StreamFacts DEF Upward
  <2>2. uopen => Len(ToUpstream) = Heard
    BY <1>1, <1>3, <2>1 DEF Upward
  <2>3. Len(ToUpstream) <= Heard + n /\ n <= Heard + n /\ (Heard + n) - n = Heard
    BY <1>6, <1>8, <2>1
  <2>4. uopen' => Len(ToUpstream') + Len(chunk') = Heard'
    BY <1>3, <1>7, <1>8, <1>9, <2>2
  <2>5. Piece(ToUpstream', ClientBytes, 0) /\ Len(ToUpstream') <= Heard'
    BY <1>1, <1>8, <1>9, <2>3 DEF Upward
  <2>6. Len(chunk') <= Heard' /\ Piece(chunk', ClientBytes, Heard' - Len(chunk'))
    BY <1>7, <1>8, <2>3
  <2>7. QED BY <1>3, <2>4, <2>5, <2>6 DEF Upward
<1>16. Endings'
  BY <1>3 DEF Endings
<1>17. QED BY <1>10, <1>11, <1>12, <1>13, <1>14, <1>15, <1>16 DEF TunnelInv

LEMMA SelectUpstreamInv ==
  ASSUME TunnelInv, SelectUpstream
  PROVE  TunnelInv'
<1>1. Buffers /\ FromUpstream /\ FromClient /\ Phases /\ Downward /\ Upward /\ Endings
  BY DEF TunnelInv
<1>2. Next
  BY DEF Next, Relay
<1> DEFINE n == Cut(uin)
<1>3. /\ UNCHANGED <<head, usent, uopen, copen, csent, cin, answer, crossed, record>>
      /\ UNCHANGED <<cgot, cout, ugot, uout>>
      /\ phase = "select" /\ phase' = "to_client" /\ nread' = nread + n
      /\ chunk' = SubSeq(uin, 1, n) /\ uin' = SubSeq(uin, n + 1, Len(uin))
  BY DEF SelectUpstream, peers
<1>4. /\ uin \in Seq(Symbols) /\ Upstream \in Seq(Symbols) /\ Len(uin) \in Nat /\ usent \in Nat
      /\ Len(head) \in Nat /\ nread \in Nat /\ Stream \in Seq(Symbols) /\ answer \in Answers
      /\ Len(head) = Len(answer.head) /\ answer.head \in Seq(Symbols)
  BY <1>1, <1>3, StreamFacts, UpstreamFacts DEF Buffers, Phases
<1>5. n \in 0..Len(uin)
  BY <1>4, CutFacts
<1> HIDE DEF n
<1>6. Taken \in Nat /\ Taken = Len(answer.head) + nread /\ Piece(uin, Upstream, Taken)
  BY <1>1, <1>4 DEF Taken, FromUpstream
<1>7. /\ chunk' \in Seq(Symbols) /\ Len(chunk') = n /\ Piece(chunk', Upstream, Taken)
      /\ uin' \in Seq(Symbols) /\ Len(uin') = Len(uin) - n /\ Piece(uin', Upstream, Taken + n)
  BY <1>3, <1>4, <1>5, <1>6, PieceCut, SMTT(40)
<1>8. Taken' = Taken + n /\ n \in Nat /\ nread' \in Nat
  <2>1. n \in Nat
    BY <1>4, <1>5
  <2>2. Taken' = Len(head) + (nread + n)
    BY <1>3 DEF Taken
  <2>3. Len(head) + (nread + n) = Taken + n /\ nread + n \in Nat
    <3>1. Len(head) \in Nat /\ nread \in Nat
      BY <1>4
    <3>2. QED BY <2>1, <3>1 DEF Taken
  <2>4. QED BY <1>3, <2>1, <2>2, <2>3
<1>9. UNCHANGED <<ToClient, ToUpstream, Heard>>
  BY <1>3 DEF ToClient, ToUpstream, Heard
<1>10. Buffers'
  BY <1>1, <1>3, <1>7, <1>8 DEF Buffers
<1>11. FromUpstream'
  <2>1. Taken' + Len(uin') = Taken + Len(uin)
    BY <1>4, <1>6, <1>7, <1>8
  <2>2. Upstream' = Upstream /\ UpstreamLen' = UpstreamLen
    BY <1>2, AnswerStays
  <2>3. QED BY <1>1, <1>3, <1>7, <1>8, <2>1, <2>2 DEF FromUpstream
<1>12. FromClient'
  BY <1>1, <1>3, SameFromClient
<1>13. Phases'
  BY <1>1, <1>3 DEF Phases
<1>14. Downward'
  <2>1. Len(ToClient) \in Nat /\ Len(ToClient) <= nread
    BY <1>1, StreamFacts DEF Downward
  <2>2. copen => Len(ToClient) = nread
    BY <1>1, <1>3, <2>1 DEF Downward
  <2>3. Piece(chunk', Stream, nread)
    <3>1. Piece(chunk', answer.head \o Stream, Len(answer.head) + nread)
      BY <1>6, <1>7 DEF Upstream
    <3>2. QED BY <1>4, <1>7, <3>1, PieceBehind
  <2>4. Len(ToClient) <= nread + n /\ n <= nread + n /\ (nread + n) - n = nread
    BY <1>4, <1>8, <2>1
  <2>5. copen' => Len(ToClient') + Len(chunk') = nread'
    BY <1>3, <1>7, <1>9, <2>2
  <2>6. Stream' = Stream
    BY <1>2, AnswerStays
  <2>7. Piece(ToClient', Stream', 0) /\ Len(ToClient') <= nread'
    BY <1>1, <1>3, <1>9, <2>4, <2>6 DEF Downward
  <2>8. Len(chunk') <= nread' /\ Piece(chunk', Stream', nread' - Len(chunk'))
    BY <1>3, <1>7, <2>3, <2>4, <2>6
  <2>9. QED BY <1>3, <2>5, <2>7, <2>8 DEF Downward
<1>15. Upward'
  <2>1. uopen => Len(ToUpstream) = Heard
    BY <1>1, <1>3, StreamFacts DEF Upward
  <2>2. QED BY <1>1, <1>3, <1>9, <1>10, <2>1, QuietUpward
<1>16. Endings'
  BY <1>3 DEF Endings
<1>17. QED BY <1>10, <1>11, <1>12, <1>13, <1>14, <1>15, <1>16 DEF TunnelInv

LEMMA WriteClientInv ==
  ASSUME TunnelInv, WriteClient
  PROVE  TunnelInv'
<1>1. Buffers /\ FromUpstream /\ FromClient /\ Phases /\ Downward /\ Upward /\ Endings
  BY DEF TunnelInv
<1>2. Next
  BY DEF Next, Relay
<1> DEFINE n == Min({Capacity - Len(cout), Len(chunk)})
<1>3. /\ UNCHANGED <<head, nread, uin, usent, uopen, copen, csent, cin, answer, crossed, record>>
      /\ UNCHANGED <<cgot, ugot, uout>>
      /\ phase = "to_client" /\ copen /\ n > 0
      /\ phase' = IF n = Len(chunk) THEN "select" ELSE phase
      /\ cout' = cout \o SubSeq(chunk, 1, n) /\ chunk' = SubSeq(chunk, n + 1, Len(chunk))
  BY DEF WriteClient, peers
<1>4. /\ chunk \in Seq(Symbols) /\ cgot \in Seq(Symbols) /\ cout \in Seq(Symbols)
      /\ Stream \in Seq(Symbols) /\ ToClient \in Seq(Symbols) /\ Len(ToClient) \in Nat
      /\ Len(chunk) \in Nat /\ nread \in Nat
  BY <1>1, StreamFacts DEF Buffers
<1>5. n \in 0..Len(chunk) /\ n \in Nat /\ n <= Len(chunk)
  <2> DEFINE room == Capacity - Len(cout)
  <2>1. room \in Int
    BY <1>4, LenProperties, TunnelAssumption
  <2> HIDE DEF room
  <2>2. n \in Int /\ n <= Len(chunk)
    <3>1. /\ Min({room, Len(chunk)}) \in Int /\ Min({room, Len(chunk)}) <= Len(chunk)
      <4>1. Len(chunk) \in Int
        BY <1>4
      <4>2. QED BY <2>1, <4>1, LeastOfTwo
    <3>2. QED BY <3>1 DEF room
  <2> HIDE DEF n
  <2>3. QED BY <1>3, <1>4, <2>2
<1> HIDE DEF n
<1> DEFINE k == nread - Len(chunk)
           part == SubSeq(chunk, 1, n)
<1>6. k \in Nat /\ Len(ToClient) = k /\ Piece(chunk, Stream, k)
  BY <1>1, <1>3, <1>4 DEF Downward
<1> HIDE DEF k
<1>7. /\ part \in Seq(Symbols) /\ Len(part) = n /\ Piece(part, Stream, k)
      /\ chunk' \in Seq(Symbols) /\ Len(chunk') = Len(chunk) - n /\ Piece(chunk', Stream, k + n)
  BY <1>3, <1>4, <1>5, <1>6, PieceCut, SMTT(40)
<1>8. cout' \in Seq(Symbols) /\ ToClient' = ToClient \o part
  <2>1. cout' = cout \o part /\ cgot' = cgot
    BY <1>3
  <2> HIDE DEF part
  <2>2. cout \o part \in Seq(Symbols) /\ cgot \o (cout \o part) = (cgot \o cout) \o part
    <3>1. cgot \in Seq(Symbols) /\ cout \in Seq(Symbols) /\ part \in Seq(Symbols)
      BY <1>4, <1>7
    <3>2. QED BY <3>1, Written, SMTT(40)
  <2>3. QED BY <2>1, <2>2 DEF ToClient
<1> HIDE DEF part
<1>9. Len(ToClient') = k + n /\ Piece(ToClient', Stream, 0)
  <2>1. Piece(ToClient, Stream, 0)
    BY <1>1 DEF Downward
  <2>2. Piece(part, Stream, Len(ToClient))
    BY <1>6, <1>7
  <2>3. Len(ToClient \o part) = Len(ToClient) + Len(part) /\ Piece(ToClient \o part, Stream, 0)
    BY <1>4, <1>7, <2>1, <2>2, JoinFront, ZenonT(60)
  <2>4. QED BY <1>6, <1>7, <1>8, <2>3
<1>10. Buffers'
  BY <1>1, <1>3, <1>7, <1>8, ZenonT(60) DEF Buffers
<1>11. FromUpstream' /\ FromClient'
  BY <1>1, <1>2, <1>3, SameFromUpstream, SameFromClient
<1>12. Phases'
  BY <1>1, <1>3 DEF Phases
<1>13. Downward'
  <2>1. Stream' = Stream
    BY <1>2, AnswerStays
  <2>2. k + n <= nread /\ k + n = nread - Len(chunk') /\ Len(chunk') <= nread
    BY <1>4, <1>5, <1>6, <1>7 DEF k
  <2>3. (k + n) + (IF phase' = "to_client" THEN Len(chunk') ELSE 0) = nread
    <3>1. CASE n = Len(chunk)
      BY <1>3, <1>4, <1>5, <1>6, <3>1 DEF k
    <3>2. CASE n # Len(chunk)
      <4>1. phase' = "to_client"
        BY <1>3, <3>2
      <4>2. (k + n) + (Len(chunk) - n) = nread
        BY <1>4, <1>5, <1>6 DEF k
      <4>3. QED BY <1>7, <4>1, <4>2
    <3>3. QED BY <3>1, <3>2
  <2>4. QED BY <1>3, <1>7, <1>9, <2>1, <2>2, <2>3 DEF Downward
<1>14. Upward'
  <2>1. UNCHANGED <<ToUpstream, Heard>>
    BY <1>3 DEF ToUpstream, Heard
  <2>2. uopen => Len(ToUpstream) = Heard
    BY <1>1, <1>3, StreamFacts DEF Upward
  <2>3. QED BY <1>1, <1>3, <1>10, <2>1, <2>2, QuietUpward
<1>15. Endings'
  BY <1>3 DEF Endings
<1>16. QED BY <1>10, <1>11, <1>12, <1>13, <1>14, <1>15 DEF TunnelInv

LEMMA WriteUpstreamInv ==
  ASSUME TunnelInv, WriteUpstream
  PROVE  TunnelInv'
<1>1. Buffers /\ FromUpstream /\ FromClient /\ Phases /\ Downward /\ Upward /\ Endings
  BY DEF TunnelInv
<1>2. Next
  BY DEF Next, Relay
<1> DEFINE n == Min({Capacity - Len(uout), Len(chunk)})
<1>3. /\ UNCHANGED <<head, nread, uin, usent, uopen, copen, csent, cin, answer, crossed, record>>
      /\ UNCHANGED <<ugot, cgot, cout>>
      /\ phase = "to_upstream" /\ uopen /\ n > 0
      /\ phase' = IF n = Len(chunk) THEN "select" ELSE phase
      /\ uout' = uout \o SubSeq(chunk, 1, n) /\ chunk' = SubSeq(chunk, n + 1, Len(chunk))
  BY DEF WriteUpstream, peers
<1>4. /\ chunk \in Seq(Symbols) /\ ugot \in Seq(Symbols) /\ uout \in Seq(Symbols)
      /\ ClientBytes \in Seq(Symbols) /\ ToUpstream \in Seq(Symbols) /\ Len(ToUpstream) \in Nat
      /\ Len(chunk) \in Nat /\ csent \in Nat /\ Len(cin) \in Nat
  BY <1>1, StreamFacts DEF Buffers
<1>5. n \in 0..Len(chunk) /\ n \in Nat /\ n <= Len(chunk)
  <2> DEFINE room == Capacity - Len(uout)
  <2>1. room \in Int
    BY <1>4, LenProperties, TunnelAssumption
  <2> HIDE DEF room
  <2>2. n \in Int /\ n <= Len(chunk)
    <3>1. /\ Min({room, Len(chunk)}) \in Int /\ Min({room, Len(chunk)}) <= Len(chunk)
      <4>1. Len(chunk) \in Int
        BY <1>4
      <4>2. QED BY <2>1, <4>1, LeastOfTwo
    <3>2. QED BY <3>1 DEF room
  <2> HIDE DEF n
  <2>3. QED BY <1>3, <1>4, <2>2
<1> HIDE DEF n
<1> DEFINE k == Heard - Len(chunk)
           part == SubSeq(chunk, 1, n)
<1>6. Heard \in Nat /\ k \in Nat /\ Len(ToUpstream) = k /\ Piece(chunk, ClientBytes, k)
  <2>1. Heard \in Nat
    BY <1>1, <1>4 DEF Heard, FromClient
  <2>2. QED BY <1>1, <1>3, <1>4, <2>1 DEF Upward
<1> HIDE DEF k
<1>7. /\ part \in Seq(Symbols) /\ Len(part) = n /\ Piece(part, ClientBytes, k)
      /\ chunk' \in Seq(Symbols) /\ Len(chunk') = Len(chunk) - n
      /\ Piece(chunk', ClientBytes, k + n)
  BY <1>3, <1>4, <1>5, <1>6, PieceCut, SMTT(40)
<1>8. uout' \in Seq(Symbols) /\ ToUpstream' = ToUpstream \o part
  <2>1. uout' = uout \o part /\ ugot' = ugot
    BY <1>3
  <2> HIDE DEF part
  <2>2. uout \o part \in Seq(Symbols) /\ ugot \o (uout \o part) = (ugot \o uout) \o part
    <3>1. ugot \in Seq(Symbols) /\ uout \in Seq(Symbols) /\ part \in Seq(Symbols)
      BY <1>4, <1>7
    <3>2. QED BY <3>1, Written
  <2>3. QED BY <2>1, <2>2 DEF ToUpstream
<1> HIDE DEF part
<1>9. Len(ToUpstream') = k + n /\ Piece(ToUpstream', ClientBytes, 0)
  <2>1. Piece(ToUpstream, ClientBytes, 0)
    BY <1>1 DEF Upward
  <2>2. Piece(part, ClientBytes, Len(ToUpstream))
    BY <1>6, <1>7
  <2>3. /\ Len(ToUpstream \o part) = Len(ToUpstream) + Len(part)
        /\ Piece(ToUpstream \o part, ClientBytes, 0)
    BY <1>4, <1>7, <2>1, <2>2, JoinFront, ZenonT(60)
  <2>4. QED BY <1>6, <1>7, <1>8, <2>3
<1>10. Buffers'
  BY <1>1, <1>3, <1>7, <1>8, ZenonT(60) DEF Buffers
<1>11. FromUpstream' /\ FromClient'
  BY <1>1, <1>2, <1>3, SameFromUpstream, SameFromClient
<1>12. Phases'
  BY <1>1, <1>3 DEF Phases
<1>13. Upward'
  <2>1. Heard' = Heard
    BY <1>3 DEF Heard
  <2>2. k + n <= Heard /\ k + n = Heard - Len(chunk') /\ Len(chunk') <= Heard
    BY <1>4, <1>5, <1>6, <1>7 DEF k
  <2>3. (k + n) + (IF phase' = "to_upstream" THEN Len(chunk') ELSE 0) = Heard
    <3>1. CASE n = Len(chunk)
      BY <1>3, <1>4, <1>5, <1>6, <3>1 DEF k
    <3>2. CASE n # Len(chunk)
      <4>1. phase' = "to_upstream"
        BY <1>3, <3>2
      <4>2. (k + n) + (Len(chunk) - n) = Heard
        BY <1>4, <1>5, <1>6 DEF k
      <4>3. QED BY <1>7, <4>1, <4>2
    <3>3. QED BY <3>1, <3>2
  <2>4. QED BY <1>3, <1>7, <1>9, <2>1, <2>2, <2>3 DEF Upward
<1>14. Downward'
  <2>1. UNCHANGED <<ToClient, nread>>
    BY <1>3 DEF ToClient
  <2>2. copen => Len(ToClient) = nread
    BY <1>1, <1>3, StreamFacts DEF Downward
  <2>3. QED BY <1>1, <1>2, <1>3, <2>1, <2>2, QuietDownward
<1>15. Endings'
  BY <1>3 DEF Endings
<1>16. QED BY <1>10, <1>11, <1>12, <1>13, <1>14, <1>15 DEF TunnelInv

LEMMA TunnelStays ==
  ASSUME TunnelInv, UNCHANGED vars
  PROVE  TunnelInv'
<1>1. /\ UNCHANGED <<answer, phase, head, chunk, mt, record, nread, crossed, uin, uout, cin, cout>>
      /\ UNCHANGED <<usent, csent, uopen, copen, ugot, cgot>>
  BY DEF vars, relay, peers
<1>2. UNCHANGED <<Stream, Upstream, UpstreamLen, ToClient, ToUpstream, Heard, Taken>>
  BY <1>1, AnswerStays DEF ToClient, ToUpstream, Heard, Taken
<1>3. Buffers' /\ FromUpstream' /\ FromClient' /\ Phases'
  BY <1>1, <1>2 DEF TunnelInv, Buffers, FromUpstream, FromClient, Phases
<1>4. Downward' /\ Upward' /\ Endings'
  BY <1>1, <1>2 DEF TunnelInv, Downward, Upward, Endings
<1>5. QED BY <1>3, <1>4 DEF TunnelInv

-----------------------------------------------------------------------------
(***************************************************************************)
(* The folds of the meter's side, one element at a time.                   *)
(***************************************************************************)
\* f sees the first n payloads of s.
Sees(f, dialect, m, s, n) ==
  f = [i \in 0..n |-> IF i = 0 THEN m ELSE SeePayload(dialect, f[i-1], s[i])]

LEMMA SeesUpTo ==
  ASSUME NEW dialect, NEW m, NEW s
  PROVE  \A n \in Nat : \E f : Sees(f, dialect, m, s, n)
<1> DEFINE T == {n \in Nat : \E f : Sees(f, dialect, m, s, n)}
<1>1. 0 \in T
  <2>1. Sees([i \in 0..0 |-> m], dialect, m, s, 0)
    BY DEF Sees
  <2>2. QED BY <2>1
<1>2. ASSUME NEW n \in T PROVE n + 1 \in T
  <2>0. n \in Nat
    OBVIOUS
  <2>1. PICK f : Sees(f, dialect, m, s, n)
    BY <1>2
  <2>2. \A i \in 0..n : f[i] = IF i = 0 THEN m ELSE SeePayload(dialect, f[i-1], s[i])
    BY <2>1, Zenon DEF Sees
  <2> DEFINE g == [i \in 0..(n+1) |-> IF i = 0 THEN m ELSE SeePayload(dialect, f[i-1], s[i])]
  <2>3. ASSUME NEW i \in 0..(n+1), i # 0 PROVE g[i-1] = f[i-1]
    <3>1. i - 1 \in 0..n /\ i - 1 \in 0..(n+1)
      BY <2>0, <2>3
    <3>2. f[i-1] = IF i - 1 = 0 THEN m ELSE SeePayload(dialect, f[(i-1)-1], s[i-1])
      BY <2>2, <3>1
    <3>3. g[i-1] = IF i - 1 = 0 THEN m ELSE SeePayload(dialect, f[(i-1)-1], s[i-1])
      BY <3>1
    <3>4. QED BY <3>2, <3>3
  <2>4. \A i \in 0..(n+1) : g[i] = IF i = 0 THEN m ELSE SeePayload(dialect, f[i-1], s[i])
    OBVIOUS
  <2>5. g = [i \in 0..(n+1) |-> g[i]]
    OBVIOUS
  <2> HIDE DEF g
  <2>6. \A i \in 0..(n+1) : g[i] = IF i = 0 THEN m ELSE SeePayload(dialect, g[i-1], s[i])
    BY <2>3, <2>4
  <2>7. Sees(g, dialect, m, s, n+1)
    BY <2>5, <2>6 DEF Sees
  <2>8. QED BY <2>0, <2>7
<1>3. \A n \in Nat : n \in T
  <2> HIDE DEF T
  <2>1. T \in SUBSET Nat
    BY DEF T
  <2>2. QED BY <1>1, <1>2, <2>1, NatInd
<1>4. QED BY <1>3

LEMMA SeesSteps ==
  ASSUME NEW dialect, NEW m, NEW s, Len(s) \in Nat
  PROVE  \E f : /\ f[0] = m
                /\ \A i \in 1..Len(s) : f[i] = SeePayload(dialect, f[i-1], s[i])
                /\ SeeAll(dialect, m, s) = f[Len(s)]
<1> DEFINE f == CHOOSE g : Sees(g, dialect, m, s, Len(s))
<1>1. Sees(f, dialect, m, s, Len(s))
  BY SeesUpTo
<1>2. SeeAll(dialect, m, s) = f[Len(s)]
  BY DEF SeeAll, Sees
<1> HIDE DEF f
<1>3. \A i \in 0..Len(s) : f[i] = IF i = 0 THEN m ELSE SeePayload(dialect, f[i-1], s[i])
  BY <1>1, Zenon DEF Sees
<1>4. f[0] = m
  BY <1>3
<1>5. ASSUME NEW i \in 1..Len(s) PROVE f[i] = SeePayload(dialect, f[i-1], s[i])
  <2>1. i \in 0..Len(s) /\ i # 0
    OBVIOUS
  <2>2. QED BY <1>3, <2>1
<1>6. QED BY <1>2, <1>4, <1>5

LEMMA SeeAllEmpty ==
  ASSUME NEW dialect, NEW m
  PROVE  SeeAll(dialect, m, <<>>) = m
<1> DEFINE s == <<>>
<1>1. Len(s) = 0
  OBVIOUS
<1> HIDE DEF s
<1>2. PICK f : f[0] = m /\ SeeAll(dialect, m, s) = f[Len(s)]
  BY <1>1, SeesSteps
<1>3. QED BY <1>1, <1>2 DEF s

LEMMA SeeAllAppend ==
  ASSUME NEW dialect, NEW m, NEW S, NEW s \in Seq(S), NEW e \in S
  PROVE  SeeAll(dialect, m, Append(s, e)) = SeePayload(dialect, SeeAll(dialect, m, s), e)
<1> DEFINE more == Append(s, e)
<1>1. /\ Len(s) \in Nat /\ Len(more) = Len(s) + 1 /\ more[Len(s) + 1] = e
      /\ \A i \in 1..Len(s) : more[i] = s[i]
  BY AppendProperties, LenProperties
<1> HIDE DEF more
<1>2. PICK f : /\ f[0] = m
               /\ \A i \in 1..Len(s) : f[i] = SeePayload(dialect, f[i-1], s[i])
               /\ SeeAll(dialect, m, s) = f[Len(s)]
  BY <1>1, SeesSteps
<1>3. Len(more) \in Nat
  BY <1>1
<1>4. PICK g : /\ g[0] = m
               /\ \A i \in 1..Len(more) : g[i] = SeePayload(dialect, g[i-1], more[i])
               /\ SeeAll(dialect, m, more) = g[Len(more)]
  BY <1>3, SeesSteps
<1> DEFINE T == {i \in Nat : i <= Len(s) => g[i] = f[i]}
<1>5. 0 \in T
  BY <1>2, <1>4
<1>6. ASSUME NEW i \in T PROVE i + 1 \in T
  <2>1. SUFFICES ASSUME i + 1 <= Len(s) PROVE g[i+1] = f[i+1]
    OBVIOUS
  <2>2. i \in Nat /\ i + 1 \in 1..Len(s) /\ i + 1 \in 1..Len(more) /\ (i + 1) - 1 = i
        /\ g[i] = f[i]
    BY <1>1, <2>1
  <2>3. /\ f[i+1] = SeePayload(dialect, f[i], s[i+1])
        /\ g[i+1] = SeePayload(dialect, g[i], more[i+1])
    BY <1>2, <1>4, <2>2
  <2>4. QED BY <1>1, <2>2, <2>3
<1>7. g[Len(s)] = f[Len(s)]
  <2> HIDE DEF T
  <2>1. T \in SUBSET Nat
    BY DEF T
  <2>2. Len(s) \in T
    BY <1>1, <1>5, <1>6, <2>1, NatInd
  <2>3. QED BY <1>1, <2>2 DEF T
<1>8. Len(s) + 1 \in 1..Len(more) /\ (Len(s) + 1) - 1 = Len(s)
  BY <1>1
<1>9. g[Len(s) + 1] = SeePayload(dialect, g[Len(s)], more[Len(s) + 1])
  BY <1>4, <1>8
<1>10. QED
  BY <1>1, <1>2, <1>4, <1>7, <1>9 DEF more

\* The loop of WsTextDecoder::push before its first round, and f its first n rounds.
Pushed(all) == [out |-> <<>>, buf |-> all, more |-> TRUE]
Takes(f, all, n) == f = [i \in 0..n |-> IF i = 0 THEN Pushed(all) ELSE TakeFrame(f[i-1])]

LEMMA TakesUpTo ==
  ASSUME NEW all
  PROVE  \A n \in Nat : \E f : Takes(f, all, n)
<1> DEFINE T == {n \in Nat : \E f : Takes(f, all, n)}
<1>1. 0 \in T
  <2>1. Takes([i \in 0..0 |-> Pushed(all)], all, 0)
    BY DEF Takes
  <2>2. QED BY <2>1
<1>2. ASSUME NEW n \in T PROVE n + 1 \in T
  <2>0. n \in Nat
    OBVIOUS
  <2>1. PICK f : Takes(f, all, n)
    BY <1>2
  <2>2. \A i \in 0..n : f[i] = IF i = 0 THEN Pushed(all) ELSE TakeFrame(f[i-1])
    BY <2>1, Zenon DEF Takes
  <2> DEFINE g == [i \in 0..(n+1) |-> IF i = 0 THEN Pushed(all) ELSE TakeFrame(f[i-1])]
  <2>3. ASSUME NEW i \in 0..(n+1), i # 0 PROVE g[i-1] = f[i-1]
    <3>1. i - 1 \in 0..n /\ i - 1 \in 0..(n+1)
      BY <2>0, <2>3
    <3>2. f[i-1] = IF i - 1 = 0 THEN Pushed(all) ELSE TakeFrame(f[(i-1)-1])
      BY <2>2, <3>1
    <3>3. g[i-1] = IF i - 1 = 0 THEN Pushed(all) ELSE TakeFrame(f[(i-1)-1])
      BY <3>1
    <3>4. QED BY <3>2, <3>3
  <2>4. \A i \in 0..(n+1) : g[i] = IF i = 0 THEN Pushed(all) ELSE TakeFrame(f[i-1])
    OBVIOUS
  <2>5. g = [i \in 0..(n+1) |-> g[i]]
    OBVIOUS
  <2> HIDE DEF g
  <2>6. \A i \in 0..(n+1) : g[i] = IF i = 0 THEN Pushed(all) ELSE TakeFrame(g[i-1])
    BY <2>3, <2>4
  <2>7. Takes(g, all, n+1)
    BY <2>5, <2>6 DEF Takes
  <2>8. QED BY <2>0, <2>7
<1>3. \A n \in Nat : n \in T
  <2> HIDE DEF T
  <2>1. T \in SUBSET Nat
    BY DEF T
  <2>2. QED BY <1>1, <1>2, <2>1, NatInd
<1>4. QED BY <1>3

LEMMA TakesSteps ==
  ASSUME NEW buf, NEW bytes, Len(buf \o bytes) \in Nat
  PROVE  \E f : /\ f[0] = Pushed(buf \o bytes)
                /\ \A i \in 1..Len(buf \o bytes) : f[i] = TakeFrame(f[i-1])
                /\ WsPush(buf, bytes) = f[Len(buf \o bytes)]
<1> DEFINE f == CHOOSE g : Takes(g, buf \o bytes, Len(buf \o bytes))
<1>1. Takes(f, buf \o bytes, Len(buf \o bytes))
  BY TakesUpTo
<1>2. WsPush(buf, bytes) = f[Len(buf \o bytes)]
  BY DEF WsPush, Takes, Pushed
<1> HIDE DEF f
<1>3. \A i \in 0..Len(buf \o bytes) : f[i] = IF i = 0 THEN Pushed(buf \o bytes) ELSE TakeFrame(f[i-1])
  BY <1>1, Zenon DEF Takes
<1>4. f[0] = Pushed(buf \o bytes)
  BY <1>3
<1>5. ASSUME NEW i \in 1..Len(buf \o bytes) PROVE f[i] = TakeFrame(f[i-1])
  <2>1. i \in 0..Len(buf \o bytes) /\ i # 0
    OBVIOUS
  <2>2. QED BY <1>3, <2>1
<1>6. QED BY <1>2, <1>4, <1>5

\* f meters the first n frames of a.
Meters(f, a, n) == f = [i \in 0..n |-> IF i = 0 THEN NewMt ELSE FrameSeen(a, f[i-1], i)]

LEMMA MetersUpTo ==
  ASSUME NEW a
  PROVE  \A n \in Nat : \E f : Meters(f, a, n)
<1> DEFINE T == {n \in Nat : \E f : Meters(f, a, n)}
<1>1. 0 \in T
  <2>1. Meters([i \in 0..0 |-> NewMt], a, 0)
    BY DEF Meters
  <2>2. QED BY <2>1
<1>2. ASSUME NEW n \in T PROVE n + 1 \in T
  <2>0. n \in Nat
    OBVIOUS
  <2>1. PICK f : Meters(f, a, n)
    BY <1>2
  <2>2. \A i \in 0..n : f[i] = IF i = 0 THEN NewMt ELSE FrameSeen(a, f[i-1], i)
    BY <2>1, Zenon DEF Meters
  <2> DEFINE g == [i \in 0..(n+1) |-> IF i = 0 THEN NewMt ELSE FrameSeen(a, f[i-1], i)]
  <2>3. ASSUME NEW i \in 0..(n+1), i # 0 PROVE g[i-1] = f[i-1]
    <3>1. i - 1 \in 0..n /\ i - 1 \in 0..(n+1)
      BY <2>0, <2>3
    <3>2. f[i-1] = IF i - 1 = 0 THEN NewMt ELSE FrameSeen(a, f[(i-1)-1], i-1)
      BY <2>2, <3>1
    <3>3. g[i-1] = IF i - 1 = 0 THEN NewMt ELSE FrameSeen(a, f[(i-1)-1], i-1)
      BY <3>1
    <3>4. QED BY <3>2, <3>3
  <2>4. \A i \in 0..(n+1) : g[i] = IF i = 0 THEN NewMt ELSE FrameSeen(a, f[i-1], i)
    OBVIOUS
  <2>5. g = [i \in 0..(n+1) |-> g[i]]
    OBVIOUS
  <2> HIDE DEF g
  <2>6. \A i \in 0..(n+1) : g[i] = IF i = 0 THEN NewMt ELSE FrameSeen(a, g[i-1], i)
    BY <2>3, <2>4
  <2>7. Meters(g, a, n+1)
    BY <2>5, <2>6 DEF Meters
  <2>8. QED BY <2>0, <2>7
<1>3. \A n \in Nat : n \in T
  <2> HIDE DEF T
  <2>1. T \in SUBSET Nat
    BY DEF T
  <2>2. QED BY <1>1, <1>2, <2>1, NatInd
<1>4. QED BY <1>3

LEMMA MetersSteps ==
  ASSUME NEW a, Len(a.frames) \in Nat
  PROVE  \E f : /\ f[0] = NewMt
                /\ \A i \in 1..Len(a.frames) : f[i] = FrameSeen(a, f[i-1], i)
                /\ FramesMetered(a) = f
<1> DEFINE f == CHOOSE g : Meters(g, a, Len(a.frames))
<1>1. Meters(f, a, Len(a.frames))
  BY MetersUpTo
<1>2. FramesMetered(a) = f
  BY DEF FramesMetered, Meters
<1> HIDE DEF f
<1>3. \A i \in 0..Len(a.frames) : f[i] = IF i = 0 THEN NewMt ELSE FrameSeen(a, f[i-1], i)
  BY <1>1, Zenon DEF Meters
<1>4. f[0] = NewMt
  BY <1>3
<1>5. ASSUME NEW i \in 1..Len(a.frames) PROVE f[i] = FrameSeen(a, f[i-1], i)
  <2>1. i \in 0..Len(a.frames) /\ i # 0
    OBVIOUS
  <2>2. QED BY <1>3, <2>1
<1>6. QED BY <1>2, <1>4, <1>5

-----------------------------------------------------------------------------
(***************************************************************************)
(* A frame at the front of the decoder's buffer.                           *)
(***************************************************************************)
FrameOK(f) ==
  /\ f.ext \in {0, 2, 8} /\ IsSequence(f.payload) /\ f.masked \in BOOLEAN
  /\ f.ext = 0 => Len(f.payload) < 126

\* What stands before the payload of a frame.
Skip(f) == 2 + f.ext + (IF f.masked THEN 4 ELSE 0)

LEMMA ConcatAt ==
  ASSUME NEW S, NEW u \in Seq(S), NEW v \in Seq(S), NEW w, w = u \o v
  PROVE  /\ w \in Seq(S) /\ Len(u) \in Nat /\ Len(v) \in Nat
         /\ Len(w) = Len(u) + Len(v)
         /\ \A i \in 1..Len(u) : w[i] = u[i]
         /\ \A i \in 1..Len(v) : w[Len(u) + i] = v[i]
<1>1. Len(u) \in Nat /\ Len(v) \in Nat
  BY LenProperties
<1>2. /\ w \in Seq(S) /\ Len(w) = Len(u) + Len(v)
      /\ \A i \in 1..Len(u) + Len(v) : w[i] = IF i <= Len(u) THEN u[i] ELSE v[i - Len(u)]
  BY ConcatProperties
<1>3. \A i \in 1..Len(u) : w[i] = u[i]
  BY <1>1, <1>2
<1>4. ASSUME NEW i \in 1..Len(v) PROVE w[Len(u) + i] = v[i]
  <2>1. Len(u) + i \in 1..Len(u) + Len(v) /\ ~(Len(u) + i <= Len(u)) /\ (Len(u) + i) - Len(u) = i
    BY <1>1
  <2>2. QED BY <1>2, <2>1
<1>5. QED BY <1>1, <1>2, <1>3, <1>4

LEMMA EncodeFacts ==
  ASSUME NEW f, FrameOK(f)
  PROVE  /\ Len(f.payload) \in Nat /\ Skip(f) \in Nat /\ Skip(f) >= 2 + f.ext
         /\ Len(Encode(f)) = Skip(f) + Len(f.payload)
         /\ Encode(f)[1].opcode = f.opcode
         /\ Encode(f)[2].masked = f.masked
         /\ f.ext = 0 => Encode(f)[2].len = Len(f.payload)
         /\ f.ext = 2 => Encode(f)[2].len = 126
         /\ f.ext = 8 => Encode(f)[2].len = 127
         /\ f.ext # 0 => Encode(f)[3].len = Len(f.payload)
         /\ \A k \in 1..Len(f.payload) : Encode(f)[Skip(f) + k].data = f.payload[k]
<1> DEFINE p1 == Header(f)
           p2 == [k \in 1..f.ext |-> [b |-> "len", len |-> Len(f.payload)]]
           p3 == [k \in 1..(IF f.masked THEN 4 ELSE 0) |-> [b |-> "mask"]]
           p4 == [k \in DOMAIN f.payload |-> [b |-> "data", masked |-> f.masked,
                                              data |-> f.payload[k]]]
           n == IF f.masked THEN 4 ELSE 0
           S == {p1[1], p1[2]} \cup ToSet(p2) \cup ToSet(p3) \cup ToSet(p4)
<1>1. n \in Nat /\ f.ext \in Nat /\ Skip(f) = 2 + f.ext + n
  BY DEF Skip, FrameOK
<1>2. DOMAIN f.payload = 1..Len(f.payload) /\ Len(f.payload) \in Nat
  BY LenProperties DEF IsSequence, FrameOK
<1>3. /\ p1 \in Seq(S) /\ Len(p1) = 2 /\ p1[1].opcode = f.opcode /\ p1[2].masked = f.masked
      /\ f.ext = 0 => p1[2].len = Len(f.payload)
      /\ f.ext = 2 => p1[2].len = 126
      /\ f.ext = 8 => p1[2].len = 127
  <2> DEFINE u == [b |-> "b0", opcode |-> f.opcode]
             v == [b |-> "b1", masked |-> f.masked,
                   len |-> CASE f.ext = 0 -> Len(f.payload) [] f.ext = 2 -> 126 [] f.ext = 8 -> 127]
  <2>1. p1 = <<u, v>>
    BY Zenon DEF Header
  <2>2. /\ u.opcode = f.opcode /\ v.masked = f.masked
        /\ f.ext = 0 => v.len = Len(f.payload)
        /\ f.ext = 2 => v.len = 126
        /\ f.ext = 8 => v.len = 127
    OBVIOUS
  <2> HIDE DEF u, v, p1
  <2>3. p1[1] = u /\ p1[2] = v /\ Len(p1) = 2
    BY <2>1
  <2>4. p1 \in Seq(S)
    BY <2>1, <2>3
  <2>5. QED BY <2>2, <2>3, <2>4
<1>4. p2 \in Seq(S) /\ Len(p2) = f.ext /\ (f.ext # 0 => p2[1].len = Len(f.payload))
  <2>1. p2 \in [1..f.ext -> S]
    BY DEF ToSet
  <2>2. f.ext # 0 => p2[1].len = Len(f.payload)
    BY <1>1
  <2> HIDE DEF p2, S
  <2>3. QED BY <1>1, <2>1, <2>2, FunctionIsSeq
<1>5. p3 \in Seq(S) /\ Len(p3) = n
  <2>1. p3 \in [1..n -> S]
    BY DEF ToSet
  <2> HIDE DEF p3, S, n
  <2>2. QED BY <1>1, <2>1, FunctionIsSeq
<1>6. p4 \in Seq(S) /\ Len(p4) = Len(f.payload)
      /\ \A k \in 1..Len(f.payload) : p4[k].data = f.payload[k]
  <2>1. p4 \in [1..Len(f.payload) -> S]
    BY <1>2 DEF ToSet
  <2>2. \A k \in 1..Len(f.payload) : p4[k].data = f.payload[k]
    BY <1>2
  <2> HIDE DEF p4, S
  <2>3. QED BY <1>2, <2>1, <2>2, FunctionIsSeq
<1> DEFINE q2 == p1 \o p2
           q3 == q2 \o p3
<1>7. Encode(f) = q3 \o p4
  BY Zenon DEF Encode
<1> HIDE DEF p1, p2, p3, p4, S, n
<1>8. /\ q2 \in Seq(S) /\ Len(q2) = 2 + f.ext
      /\ \A i \in 1..2 : q2[i] = p1[i]
      /\ \A i \in 1..f.ext : q2[2 + i] = p2[i]
  <2>0. q2 = p1 \o p2
    OBVIOUS
  <2> HIDE DEF q2
  <2>1. /\ q2 \in Seq(S) /\ Len(q2) = Len(p1) + Len(p2)
        /\ \A i \in 1..Len(p1) : q2[i] = p1[i]
        /\ \A i \in 1..Len(p2) : q2[Len(p1) + i] = p2[i]
    <3>1. p1 \in Seq(S) /\ p2 \in Seq(S)
      BY <1>3, <1>4
    <3>2. QED BY <2>0, <3>1, ConcatAt
  <2>2. Len(p1) = 2 /\ Len(p2) = f.ext
    BY <1>3, <1>4
  <2>3. QED BY <2>1, <2>2
<1> HIDE DEF q2
<1>9. /\ q3 \in Seq(S) /\ Len(q3) = Skip(f)
      /\ \A i \in 1..(2 + f.ext) : q3[i] = q2[i]
  <2>0. q3 = q2 \o p3
    OBVIOUS
  <2> HIDE DEF q3
  <2>1. /\ q3 \in Seq(S) /\ Len(q3) = Len(q2) + Len(p3)
        /\ \A i \in 1..Len(q2) : q3[i] = q2[i]
    <3>1. q2 \in Seq(S) /\ p3 \in Seq(S)
      BY <1>5, <1>8
    <3>2. QED BY <2>0, <3>1, ConcatAt
  <2>2. Len(q2) = 2 + f.ext /\ Len(p3) = n
    BY <1>5, <1>8
  <2>3. QED BY <1>1, <2>1, <2>2
<1> HIDE DEF q3
<1>10. /\ Len(Encode(f)) = Skip(f) + Len(f.payload)
       /\ \A i \in 1..Skip(f) : Encode(f)[i] = q3[i]
       /\ \A i \in 1..Len(f.payload) : Encode(f)[Skip(f) + i] = p4[i]
  <2> DEFINE q4 == q3 \o p4
  <2>0. q4 = q3 \o p4
    OBVIOUS
  <2> HIDE DEF q4
  <2>1. /\ Len(q4) = Len(q3) + Len(p4)
        /\ \A i \in 1..Len(q3) : q4[i] = q3[i]
        /\ \A i \in 1..Len(p4) : q4[Len(q3) + i] = p4[i]
    <3>1. q3 \in Seq(S) /\ p4 \in Seq(S)
      BY <1>6, <1>9
    <3>2. QED BY <2>0, <3>1, ConcatAt
  <2>2. Encode(f) = q4
    BY <1>7, <2>0
  <2>3. Len(q3) = Skip(f) /\ Len(p4) = Len(f.payload)
    BY <1>6, <1>9
  <2>4. QED BY <2>1, <2>2, <2>3
<1>11. Encode(f)[1] = p1[1] /\ Encode(f)[2] = p1[2]
  <2>1. \A i \in 1..2 : i \in 1..(2 + f.ext) /\ i \in 1..Skip(f)
    BY <1>1
  <2>2. \A i \in 1..2 : Encode(f)[i] = p1[i]
    BY <1>8, <1>9, <1>10, <2>1
  <2>3. QED BY <2>2
<1>12. f.ext # 0 => Encode(f)[3] = p2[1]
  <2>1. SUFFICES ASSUME f.ext # 0 PROVE Encode(f)[3] = p2[1]
    OBVIOUS
  <2>2. 1 \in 1..f.ext /\ 3 \in 1..(2 + f.ext) /\ 3 \in 1..Skip(f) /\ 2 + 1 = 3
    BY <1>1, <2>1
  <2>3. QED BY <1>8, <1>9, <1>10, <2>2
<1>13. Skip(f) \in Nat /\ Skip(f) >= 2 + f.ext
  BY <1>1
<1>14. \A k \in 1..Len(f.payload) : Encode(f)[Skip(f) + k].data = f.payload[k]
  BY <1>6, <1>10
<1>15. Encode(f)[1].opcode = f.opcode /\ Encode(f)[2].masked = f.masked
  BY <1>3, <1>11
<1>16. /\ f.ext = 0 => Encode(f)[2].len = Len(f.payload)
       /\ f.ext = 2 => Encode(f)[2].len = 126
       /\ f.ext = 8 => Encode(f)[2].len = 127
  BY <1>3, <1>11
<1>17. f.ext # 0 => Encode(f)[3].len = Len(f.payload)
  BY <1>4, <1>12
<1>18. Len(f.payload) \in Nat /\ Len(Encode(f)) = Skip(f) + Len(f.payload)
  BY <1>2, <1>10
<1>19. QED
  BY <1>13, <1>14, <1>15, <1>16, <1>17, <1>18, Zenon

\* The decoder finds a frame at the front of its buffer when all of it is there,
\* and nothing before.
LEMMA FrontFrame ==
  ASSUME NEW f, FrameOK(f), NEW S, NEW buf \in Seq(S),
         \A q \in 1..Len(buf) : q <= Len(Encode(f)) => buf[q] = Encode(f)[q]
  PROVE  /\ Len(buf) < Len(Encode(f)) => FrameLen(buf) = 0
         /\ Len(buf) >= Len(Encode(f)) =>
              /\ FrameLen(buf) = Len(Encode(f))
              /\ buf[1].opcode = f.opcode /\ PayloadOf(buf) = f.payload
<1> DEFINE n == IF f.masked THEN 4 ELSE 0
           size == Len(Encode(f))
           body == Len(f.payload)
           have == Len(buf)
<1>1. /\ have \in Nat /\ body \in Nat /\ n \in {0, 4} /\ f.ext \in {0, 2, 8}
      /\ Skip(f) = 2 + f.ext + n /\ size = Skip(f) + body
  BY EncodeFacts, LenProperties DEF Skip, FrameOK
<1>2. /\ Encode(f)[1].opcode = f.opcode /\ Encode(f)[2].masked = f.masked
      /\ f.ext = 0 => Encode(f)[2].len = body /\ body < 126
      /\ f.ext = 2 => Encode(f)[2].len = 126
      /\ f.ext = 8 => Encode(f)[2].len = 127
      /\ f.ext # 0 => Encode(f)[3].len = body
      /\ \A k \in 1..body : Encode(f)[Skip(f) + k].data = f.payload[k]
  BY EncodeFacts DEF FrameOK
<1> HIDE DEF n, size, body, have
<1>3. ASSUME have >= 2
      PROVE  /\ buf[1] = Encode(f)[1] /\ buf[2] = Encode(f)[2]
             /\ HeaderLen(buf[2]) = 2 + f.ext /\ MaskLen(buf[2]) = n
  <2>1. 1 \in 1..have /\ 1 <= size /\ 2 \in 1..have /\ 2 <= size
    BY <1>1, <1>3
  <2>2. buf[1] = Encode(f)[1] /\ buf[2] = Encode(f)[2]
    BY <2>1 DEF have, size
  <2>3. HeaderLen(buf[2]) = 2 + f.ext
    <3>1. CASE f.ext = 0
      BY <1>1, <1>2, <2>2, <3>1 DEF HeaderLen
    <3>2. CASE f.ext = 2
      BY <1>2, <2>2, <3>2 DEF HeaderLen
    <3>3. CASE f.ext = 8
      BY <1>2, <2>2, <3>3 DEF HeaderLen
    <3>4. QED BY <1>1, <3>1, <3>2, <3>3
  <2>4. MaskLen(buf[2]) = n
    BY <1>2, <2>2 DEF MaskLen, n
  <2>5. QED BY <2>2, <2>3, <2>4
<1> DEFINE b1 == buf[2]
           len == HeaderLen(b1) + MaskLen(b1) + (IF HeaderLen(b1) = 2 THEN b1.len ELSE buf[3].len)
<1>4. FrameLen(buf) = IF have < 2 \/ have < HeaderLen(b1) \/ have < len THEN 0 ELSE len
  BY DEF FrameLen, have
<1>5. ASSUME have >= 2 + f.ext PROVE len = size
  <2>1. have >= 2
    BY <1>1, <1>5
  <2>2. CASE f.ext = 0
    BY <1>1, <1>2, <1>3, <2>1, <2>2
  <2>3. CASE f.ext # 0
    <3>1. 3 \in 1..have /\ 3 <= size
      BY <1>1, <1>5, <2>3
    <3>2. buf[3] = Encode(f)[3]
      BY <3>1 DEF have, size
    <3>3. HeaderLen(b1) = 2 + f.ext /\ HeaderLen(b1) # 2 /\ MaskLen(b1) = n /\ buf[3].len = body
      BY <1>1, <1>2, <1>3, <2>1, <2>3, <3>2
    <3>4. len = (2 + f.ext) + n + body
      BY <3>3
    <3> HIDE DEF len
    <3>5. QED BY <1>1, <3>4
  <2>4. QED BY <2>2, <2>3
<1> HIDE DEF len, b1
<1>6. ASSUME have < size PROVE FrameLen(buf) = 0
  <2>1. CASE have < 2
    BY <1>4, <2>1
  <2>2. CASE have >= 2 /\ have < 2 + f.ext
    BY <1>3, <1>4, <2>2 DEF b1
  <2>3. CASE have >= 2 + f.ext
    BY <1>4, <1>5, <1>6, <2>3
  <2>4. QED BY <1>1, <2>1, <2>2, <2>3
<1>7. ASSUME have >= size
      PROVE  FrameLen(buf) = size /\ buf[1].opcode = f.opcode /\ PayloadOf(buf) = f.payload
  <2>1. have >= 2 /\ have >= 2 + f.ext
    BY <1>1, <1>7
  <2>2. HeaderLen(b1) = 2 + f.ext /\ MaskLen(b1) = n /\ len = size
    BY <1>3, <1>5, <2>1 DEF b1
  <2>3. FrameLen(buf) = size
    BY <1>1, <1>4, <1>7, <2>1, <2>2
  <2>4. buf[1].opcode = f.opcode
    BY <1>2, <1>3, <2>1
  <2>5. HeaderLen(b1) + MaskLen(b1) = Skip(f) /\ FrameLen(buf) - Skip(f) = body
    BY <1>1, <2>2, <2>3
  <2>6. PayloadOf(buf) = [k \in 1..body |-> buf[Skip(f) + k].data]
    BY <2>5 DEF PayloadOf, b1
  <2>7. \A k \in 1..body : buf[Skip(f) + k].data = f.payload[k]
    <3>1. ASSUME NEW k \in 1..body PROVE buf[Skip(f) + k].data = f.payload[k]
      <4>0. have \in Nat /\ body \in Nat /\ size = Skip(f) + body /\ Skip(f) \in Nat
        BY <1>1
      <4>1. Skip(f) + k \in 1..have /\ Skip(f) + k <= size
        <5> HIDE DEF have, size, body
        <5>1. QED BY <1>7, <4>0
      <4>2. buf[Skip(f) + k] = Encode(f)[Skip(f) + k]
        BY <4>1 DEF have, size
      <4>3. QED BY <1>2, <4>2
    <3>2. QED BY <3>1
  <2>8. f.payload = [k \in 1..body |-> f.payload[k]]
    <3>1. f.payload \in Seq(ToSet(f.payload))
      BY DEF FrameOK, IsSequence
    <3>2. DOMAIN f.payload = 1..body /\ f.payload \in [1..body -> ToSet(f.payload)]
      BY <3>1, LenProperties DEF body
    <3>3. QED BY <3>2
  <2>9. PayloadOf(buf) = f.payload
    BY <2>6, <2>7, <2>8
  <2>10. QED BY <2>3, <2>4, <2>9
<1>8. QED
  BY <1>6, <1>7 DEF have, size

-----------------------------------------------------------------------------
(***************************************************************************)
(* Where the frames of an answer stand in its bytes.                       *)
(***************************************************************************)
Enc(a, k) == Encoded[a][k]
Bound(a, k) == Len(Enc(a, k))
Coded(a, k) == [j \in 1..k |-> Encode(a.frames[j])]

LEMMA FramesAre ==
  ASSUME NEW a \in Answers
  PROVE  /\ Len(a.frames) \in Nat /\ DOMAIN a.frames = 1..Len(a.frames)
         /\ \A j \in 1..Len(a.frames) : Encode(a.frames[j]) \in Seq(Symbols)
         /\ \A k \in 0..Len(a.frames) : Enc(a, k) = FlattenSeq(Coded(a, k))
         /\ \A k \in 0..Len(a.frames) : Coded(a, k) \in Seq(Seq(Symbols)) /\ Len(Coded(a, k)) = k
<1> DEFINE n == Len(a.frames)
<1>1. n \in Nat /\ DOMAIN a.frames = 1..n
  <2>1. a.frames \in Seq(ToSet(a.frames))
    BY TunnelAssumption DEF IsSequence
  <2>2. QED BY <2>1, LenProperties
<1>2. ASSUME NEW j \in 1..n PROVE Encode(a.frames[j]) \in Seq(Symbols)
  <2>1. IsSequence(Encode(a.frames[j]))
    BY <1>1, TunnelAssumption, EncodeIsSeq
  <2>2. ToSet(Encode(a.frames[j])) \subseteq Symbols
    <3>1. ToSet(Encode(a.frames[j])) \subseteq FrameBytes(a)
      BY <1>1 DEF FrameBytes
    <3>2. FrameBytes(a) \subseteq Symbols
      BY Zenon DEF Symbols
    <3>3. QED BY <3>1, <3>2
  <2>3. QED BY <2>1, <2>2, SeqMonotonic DEF IsSequence
<1>3. \A k \in 0..n : Enc(a, k) = FlattenSeq(Coded(a, k))
  BY DEF Enc, Encoded, Coded
<1>4. ASSUME NEW k \in 0..n PROVE Coded(a, k) \in Seq(Seq(Symbols)) /\ Len(Coded(a, k)) = k
  <2>1. Coded(a, k) \in [1..k -> Seq(Symbols)]
    BY <1>1, <1>2 DEF Coded
  <2>2. k \in Nat
    BY <1>1
  <2>3. QED BY <2>1, <2>2, FunctionIsSeq
<1>5. QED BY <1>1, <1>2, <1>3, <1>4

LEMMA JoinsAgree ==
  ASSUME NEW s, NEW u, NEW n \in Nat, NEW m \in Nat, n <= m, NEW g, NEW h,
         Joins(g, s, n), Joins(h, u, m), \A i \in 1..n : s[i] = u[i]
  PROVE  \A i \in 1..n : g[i] = h[i]
<1>1. \A i \in 1..n : g[i] = IF i = 1 THEN s[i] ELSE g[i-1] \o s[i]
  BY Zenon DEF Joins
<1>2. \A i \in 1..m : h[i] = IF i = 1 THEN u[i] ELSE h[i-1] \o u[i]
  BY Zenon DEF Joins
<1> DEFINE T == {i \in Nat : i \in 1..n => g[i] = h[i]}
<1>3. 0 \in T
  OBVIOUS
<1>4. ASSUME NEW i \in T PROVE i + 1 \in T
  <2>1. SUFFICES ASSUME i + 1 \in 1..n PROVE g[i + 1] = h[i + 1]
    OBVIOUS
  <2>2. i \in Nat /\ i + 1 \in 1..m /\ (i + 1) - 1 = i
    BY <2>1
  <2>3. CASE i = 0
    BY <1>1, <1>2, <2>1, <2>2, <2>3
  <2>4. CASE i # 0
    <3>1. i \in 1..n /\ i + 1 # 1
      BY <2>1, <2>2, <2>4
    <3>2. g[i] = h[i]
      BY <3>1
    <3>3. g[i + 1] = g[i] \o s[i + 1] /\ h[i + 1] = h[i] \o u[i + 1]
      BY <1>1, <1>2, <2>1, <2>2, <3>1
    <3>4. QED BY <2>1, <3>2, <3>3
  <2>5. QED BY <2>3, <2>4
<1>5. \A i \in Nat : i \in T
  <2> HIDE DEF T
  <2>1. T \in SUBSET Nat
    BY DEF T
  <2>2. QED BY <1>3, <1>4, <2>1, NatInd
<1>6. QED BY <1>5

LEMMA FlattenJoins ==
  ASSUME NEW S, NEW seqs \in Seq(Seq(S)), Len(seqs) # 0
  PROVE  \E f : Joins(f, seqs, Len(seqs)) /\ FlattenSeq(seqs) = f[Len(seqs)]
<1> DEFINE f == CHOOSE g : Joins(g, seqs, Len(seqs))
<1>1. Joins(f, seqs, Len(seqs))
  BY JoinsExist
<1>2. FlattenSeq(seqs) = f[Len(seqs)]
  BY DEF FlattenSeq, Joins
<1>3. QED BY <1>1, <1>2

LEMMA EncodedStep ==
  ASSUME NEW a \in Answers
  PROVE  /\ Enc(a, 0) = <<>>
         /\ \A k \in 0..Len(a.frames) : Enc(a, k) \in Seq(Symbols)
         /\ \A k \in 0..(Len(a.frames) - 1) : Enc(a, k + 1) = Enc(a, k) \o Encode(a.frames[k + 1])
<1> DEFINE n == Len(a.frames)
<1>1. /\ n \in Nat /\ \A j \in 1..n : Encode(a.frames[j]) \in Seq(Symbols)
      /\ \A k \in 0..n : Enc(a, k) = FlattenSeq(Coded(a, k))
      /\ \A k \in 0..n : Coded(a, k) \in Seq(Seq(Symbols)) /\ Len(Coded(a, k)) = k
  BY FramesAre
<1>2. Enc(a, 0) = <<>>
  <2>1. 0 \in 0..n
    BY <1>1
  <2>2. Coded(a, 0) \in Seq(Seq(Symbols)) /\ Len(Coded(a, 0)) = 0
        /\ Enc(a, 0) = FlattenSeq(Coded(a, 0))
    BY <1>1, <2>1
  <2>3. Coded(a, 0) = <<>>
    BY <2>2, EmptySeq
  <2>4. QED BY <2>2, <2>3 DEF FlattenSeq
<1>3. \A k \in 0..n : Enc(a, k) \in Seq(Symbols)
  BY <1>1, FlattenIsSeq
<1>4. ASSUME NEW k \in 0..(n - 1) PROVE Enc(a, k + 1) = Enc(a, k) \o Encode(a.frames[k + 1])
  <2>1. k \in Nat /\ k + 1 \in Nat /\ k \in 0..n /\ k + 1 \in 0..n /\ k + 1 \in 1..n /\ k <= k + 1
    BY <1>1, <1>4
  <2> DEFINE u == Coded(a, k + 1)
             s == Coded(a, k)
  <2>2. /\ u \in Seq(Seq(Symbols)) /\ Len(u) = k + 1 /\ Enc(a, k + 1) = FlattenSeq(u)
        /\ s \in Seq(Seq(Symbols)) /\ Len(s) = k /\ Enc(a, k) = FlattenSeq(s)
    BY <1>1, <2>1
  <2>3. u[k + 1] = Encode(a.frames[k + 1]) /\ \A i \in 1..k : s[i] = u[i]
    BY <2>1 DEF Coded
  <2> HIDE DEF u, s
  <2>4. k + 1 # 0
    BY <2>1
  <2>5. PICK h : Joins(h, u, k + 1) /\ FlattenSeq(u) = h[k + 1]
    BY <2>2, <2>4, FlattenJoins
  <2>6. \A i \in 1..(k + 1) : h[i] = IF i = 1 THEN u[i] ELSE h[i-1] \o u[i]
    BY <2>5, Zenon DEF Joins
  <2>7. CASE k = 0
    <3>1. h[1] = u[1]
      BY <2>6, <2>7
    <3>2. Encode(a.frames[1]) \in Seq(Symbols)
      BY <1>1, <2>1, <2>7
    <3>3. <<>> \o Encode(a.frames[1]) = Encode(a.frames[1])
      BY <3>2, ConcatEmptySeq
    <3>4. QED BY <1>2, <2>2, <2>3, <2>5, <2>7, <3>1, <3>3
  <2>8. CASE k # 0
    <3>1. PICK g : Joins(g, s, k) /\ FlattenSeq(s) = g[k]
      BY <2>2, <2>8, FlattenJoins
    <3>2. g[k] = h[k]
      <4>1. \A i \in 1..k : g[i] = h[i]
        <5>1. k \in Nat /\ k + 1 \in Nat /\ k <= k + 1
          BY <2>1
        <5>2. Joins(g, s, k) /\ Joins(h, u, k + 1) /\ \A i \in 1..k : s[i] = u[i]
          BY <2>3, <2>5, <3>1
        <5>3. QED BY <5>1, <5>2, JoinsAgree, SMTT(40)
      <4>2. k \in 1..k
        BY <2>1, <2>8
      <4>3. QED BY <4>1, <4>2
    <3>3. k + 1 \in 1..(k + 1) /\ k + 1 # 1 /\ (k + 1) - 1 = k
      BY <2>1, <2>8
    <3>4. h[k + 1] = h[k] \o u[k + 1]
      BY <2>6, <3>3
    <3>5. QED BY <2>2, <2>3, <2>5, <3>1, <3>2, <3>4
  <2>9. QED BY <2>7, <2>8
<1>5. QED BY <1>2, <1>3, <1>4

\* The frames follow on each other in the bytes of an answer.
LEMMA AnswerPlaces ==
  ASSUME NEW a \in Answers
  PROVE  /\ Len(a.frames) \in Nat /\ Enc(a, Len(a.frames)) \in Seq(Symbols) /\ Bound(a, 0) = 0
         /\ \A k \in 0..Len(a.frames) :
              Bound(a, k) \in Nat /\ Bound(a, k) <= Len(Enc(a, Len(a.frames)))
         /\ \A k \in 0..(Len(a.frames) - 1) :
              /\ Bound(a, k + 1) = Bound(a, k) + Len(Encode(a.frames[k + 1]))
              /\ \A q \in 1..Len(Encode(a.frames[k + 1])) :
                   Enc(a, Len(a.frames))[Bound(a, k) + q] = Encode(a.frames[k + 1])[q]
<1> DEFINE N == Len(a.frames)
           w == Enc(a, N)
<1>0. N = Len(a.frames) /\ w = Enc(a, N)
  OBVIOUS
<1> HIDE DEF N, w
<1>1. /\ N \in Nat /\ Enc(a, 0) = <<>> /\ \A k \in 0..N : Enc(a, k) \in Seq(Symbols)
      /\ \A k \in 0..(N - 1) : Enc(a, k + 1) = Enc(a, k) \o Encode(a.frames[k + 1])
      /\ \A j \in 1..N : Encode(a.frames[j]) \in Seq(Symbols)
  BY <1>0, FramesAre, EncodedStep
<1>2. Bound(a, 0) = 0
  BY <1>1, EmptySeq DEF Bound
<1>3. \A k \in 0..N : Bound(a, k) \in Nat
  BY <1>1, LenProperties DEF Bound
<1>4. ASSUME NEW k \in 0..(N - 1)
      PROVE  /\ k \in 0..N /\ k + 1 \in 0..N /\ Len(Encode(a.frames[k + 1])) \in Nat
             /\ Bound(a, k + 1) = Bound(a, k) + Len(Encode(a.frames[k + 1]))
             /\ \A i \in 1..Bound(a, k) : Enc(a, k + 1)[i] = Enc(a, k)[i]
             /\ \A i \in 1..Len(Encode(a.frames[k + 1])) :
                  Enc(a, k + 1)[Bound(a, k) + i] = Encode(a.frames[k + 1])[i]
  <2>1. k \in 0..N /\ k + 1 \in 0..N /\ k + 1 \in 1..N
    BY <1>1, <1>4
  <2>2. /\ Enc(a, k) \in Seq(Symbols) /\ Encode(a.frames[k + 1]) \in Seq(Symbols)
        /\ Enc(a, k + 1) = Enc(a, k) \o Encode(a.frames[k + 1])
    BY <1>1, <1>4, <2>1
  <2>3. QED BY <2>1, <2>2, ConcatAt DEF Bound
\* What a prefix has, all longer ones have.
<1> DEFINE Kept(k, j) == Bound(a, k) <= Bound(a, j)
                         /\ \A i \in 1..Bound(a, k) : Enc(a, j)[i] = Enc(a, k)[i]
<1>5. ASSUME NEW k \in 0..N PROVE Kept(k, N)
  <2> DEFINE T == {d \in Nat : k + d <= N => Kept(k, k + d)}
  <2>1. k \in Nat
    BY <1>1
  <2>2. 0 \in T
    BY <1>3, <2>1
  <2>3. ASSUME NEW d \in T PROVE d + 1 \in T
    <3>1. SUFFICES ASSUME k + (d + 1) <= N PROVE Kept(k, k + (d + 1))
      OBVIOUS
    <3>2. d \in Nat /\ k + d \in 0..(N - 1) /\ k + (d + 1) = (k + d) + 1
      BY <1>1, <2>1, <3>1
    <3>3. Kept(k, k + d)
      BY <1>1, <2>1, <3>2
    <3> DEFINE j == k + d
    <3>4. /\ Bound(a, j) \in Nat /\ Bound(a, k) \in Nat /\ Len(Encode(a.frames[j + 1])) \in Nat
          /\ Bound(a, j + 1) = Bound(a, j) + Len(Encode(a.frames[j + 1]))
          /\ \A i \in 1..Bound(a, j) : Enc(a, j + 1)[i] = Enc(a, j)[i]
      BY <1>3, <1>4, <3>2
    <3>5. /\ Bound(a, k) <= Bound(a, j)
          /\ \A i \in 1..Bound(a, k) : Enc(a, j)[i] = Enc(a, k)[i]
      BY <3>3
    <3> HIDE DEF j
    <3>6. Kept(k, j + 1)
      BY <3>4, <3>5
    <3>7. QED BY <3>2, <3>6 DEF j
  <2>4. \A d \in Nat : d \in T
    <3> HIDE DEF T
    <3>1. T \in SUBSET Nat
      BY DEF T
    <3>2. QED BY <2>2, <2>3, <3>1, NatInd
  <2>5. N - k \in Nat /\ k + (N - k) = N
    BY <1>1, <1>5
  <2>6. N - k \in T
    BY <2>4, <2>5
  <2> HIDE DEF Kept
  <2>7. QED BY <1>1, <2>5, <2>6
<1>6. \A k \in 0..N : Bound(a, k) <= Len(w)
  BY <1>0, <1>5 DEF Bound
<1>7. ASSUME NEW k \in 0..(N - 1), NEW q \in 1..Len(Encode(a.frames[k + 1]))
      PROVE  w[Bound(a, k) + q] = Encode(a.frames[k + 1])[q]
  <2>1. /\ k + 1 \in 0..N /\ Bound(a, k) \in Nat /\ Len(Encode(a.frames[k + 1])) \in Nat
        /\ Bound(a, k + 1) = Bound(a, k) + Len(Encode(a.frames[k + 1]))
        /\ Enc(a, k + 1)[Bound(a, k) + q] = Encode(a.frames[k + 1])[q]
    BY <1>3, <1>4, <1>7
  <2>2. \A i \in 1..Bound(a, k + 1) : w[i] = Enc(a, k + 1)[i]
    BY <1>0, <1>5, <2>1
  <2>3. Bound(a, k) + q \in 1..Bound(a, k + 1)
    BY <1>7, <2>1
  <2>4. QED BY <2>1, <2>2, <2>3
<1>8. w \in Seq(Symbols)
  BY <1>0, <1>1
<1>9. /\ N \in Nat /\ w \in Seq(Symbols) /\ Bound(a, 0) = 0
      /\ \A k \in 0..N : Bound(a, k) \in Nat /\ Bound(a, k) <= Len(w)
      /\ \A k \in 0..(N - 1) : /\ Bound(a, k + 1) = Bound(a, k) + Len(Encode(a.frames[k + 1]))
                               /\ \A q \in 1..Len(Encode(a.frames[k + 1])) :
                                    w[Bound(a, k) + q] = Encode(a.frames[k + 1])[q]
  BY <1>1, <1>2, <1>3, <1>4, <1>6, <1>7, <1>8
<1>10. QED BY <1>0, <1>9, Zenon

-----------------------------------------------------------------------------
(***************************************************************************)
(* WsTextDecoder::push does not depend on how the stream is cut: it stands *)
(* behind the last frame that is whole, and has handed the meter just the  *)
(* frames up to it.                                                        *)
(***************************************************************************)
Mt(ws, dec, m) == [ws |-> ws, dec |-> dec, m |-> m]
IsMt(t) == t = Mt(t.ws, t.dec, t.m)
On(t, ws) == [t EXCEPT !.ws = ws]

LEMMA TwoSet ==
  ASSUME NEW t, IsMt(t), NEW d, NEW m
  PROVE  [t EXCEPT !.dec = d, !.m = m] = Mt(t.ws, d, m)
<1> DEFINE u == [t EXCEPT !.dec = d]
<1>1. DOMAIN t = {"ws", "dec", "m"}
  BY DEF IsMt, Mt
<1>2. u = Mt(t.ws, d, t.m)
  BY DEF IsMt, Mt
<1>3. [t EXCEPT !.dec = d, !.m = m] = [u EXCEPT !.m = m]
  OBVIOUS
<1> HIDE DEF u
<1>4. [u EXCEPT !.m = m] = Mt(t.ws, d, m)
  BY <1>2 DEF Mt
<1>5. QED BY <1>3, <1>4

LEMMA SeeOn ==
  ASSUME NEW dialect, NEW t, IsMt(t), NEW p, NEW b
  PROVE  /\ IsMt(SeePayload(dialect, t, p))
         /\ SeePayload(dialect, On(t, b), p) = On(SeePayload(dialect, t, p), b)
<1> DEFINE D == Push(t.dec, p)
           O == ObserveAll(dialect, t.m, D.out)
           M == IF p # <<>> /\ Field(p) = "raw"
                THEN Observe(dialect, O, [event |-> None, data |-> Value(p)]) ELSE O
<1>1. On(t, b).dec = t.dec /\ On(t, b).m = t.m
  BY DEF On, IsMt, Mt
<1>2. SeePayload(dialect, t, p) = [t EXCEPT !.dec = D, !.m = M]
  BY Zenon DEF SeePayload
<1>3. SeePayload(dialect, On(t, b), p) = [On(t, b) EXCEPT !.dec = D, !.m = M]
  <2> DEFINE u == On(t, b)
  <2>1. u.dec = t.dec /\ u.m = t.m
    BY <1>1
  <2> HIDE DEF u
  <2>2. SeePayload(dialect, u, p) = [u EXCEPT !.dec = D, !.m = M]
    BY <2>1, Zenon DEF SeePayload
  <2>3. QED BY <2>2 DEF u
<1> HIDE DEF D, M
<1>4. [t EXCEPT !.dec = D, !.m = M] = Mt(t.ws, D, M)
  BY TwoSet
<1>5. [On(t, b) EXCEPT !.dec = D, !.m = M] = Mt(b, D, M)
  <2> DEFINE u == On(t, b)
  <2>1. u.ws = b /\ IsMt(u)
    BY DEF On, IsMt, Mt
  <2> HIDE DEF u
  <2>2. [u EXCEPT !.dec = D, !.m = M] = Mt(u.ws, D, M)
    BY <2>1, TwoSet
  <2>3. QED BY <2>1, <2>2 DEF u
<1>6. On(Mt(t.ws, D, M), b) = Mt(b, D, M) /\ IsMt(Mt(t.ws, D, M))
  BY DEF On, Mt, IsMt
<1>7. QED BY <1>2, <1>3, <1>4, <1>5, <1>6

LEMMA MeteredSteps ==
  ASSUME NEW a \in Answers
  PROVE  /\ FramesMetered(a)[0] = NewMt
         /\ \A k \in 0..Len(a.frames) : IsMt(FramesMetered(a)[k])
         /\ \A k \in 0..(Len(a.frames) - 1) : \A b :
              FrameSeen(a, On(FramesMetered(a)[k], b), k + 1) = On(FramesMetered(a)[k + 1], b)
<1> DEFINE N == Len(a.frames)
           F == FramesMetered(a)
<1>1. N \in Nat
  BY FramesAre
<1>2. F[0] = NewMt /\ \A i \in 1..N : F[i] = FrameSeen(a, F[i-1], i)
  BY <1>1, MetersSteps
<1> HIDE DEF F
<1> DEFINE T == {k \in Nat : k <= N => IsMt(F[k])}
<1>3. 0 \in T
  BY <1>2 DEF IsMt, Mt, NewMt
<1>4. ASSUME NEW k \in T PROVE k + 1 \in T
  <2>1. SUFFICES ASSUME k + 1 <= N PROVE IsMt(F[k + 1])
    OBVIOUS
  <2>2. k \in Nat /\ IsMt(F[k]) /\ k + 1 \in 1..N /\ (k + 1) - 1 = k
    BY <1>1, <2>1
  <2>3. F[k + 1] = FrameSeen(a, F[k], k + 1)
    BY <1>2, <2>2
  <2>4. QED BY <2>2, <2>3, SeeOn DEF FrameSeen
<1>5. \A k \in 0..N : IsMt(F[k])
  <2> HIDE DEF T
  <2>1. T \in SUBSET Nat
    BY DEF T
  <2>2. \A k \in Nat : k \in T
    BY <1>3, <1>4, <2>1, NatInd
  <2>3. QED BY <1>1, <2>2 DEF T
<1>6. ASSUME NEW k \in 0..(N - 1), NEW b
      PROVE  FrameSeen(a, On(F[k], b), k + 1) = On(F[k + 1], b)
  <2>1. k \in 0..N /\ k + 1 \in 1..N /\ (k + 1) - 1 = k
    BY <1>1, <1>6
  <2>2. F[k + 1] = FrameSeen(a, F[k], k + 1) /\ IsMt(F[k])
    BY <1>2, <1>5, <2>1
  <2>3. QED BY <2>2, SeeOn DEF FrameSeen
<1>7. QED BY <1>2, <1>5, <1>6 DEF F

\* The buffer has what stands behind frame i in the first `top` bytes.
Behind(a, i, top, buf) ==
  /\ buf \in Seq(Symbols) /\ Piece(buf, Enc(a, Len(a.frames)), Bound(a, i))
  /\ Bound(a, i) + Len(buf) = top

\* Frame i is the last that is whole in the first `top` bytes.
IsLast(a, i, top) == i < Len(a.frames) => top < Bound(a, i + 1)

Payloads(a) == {a.frames[j].payload : j \in 1..Len(a.frames)}

\* The loop of push, entered behind frame k, stands behind frame i.
Stands(a, k, i, top, s) ==
  /\ s = [out |-> s.out, buf |-> s.buf, more |-> s.more] /\ s.more \in BOOLEAN
  /\ Behind(a, i, top, s.buf) /\ s.out \in Seq(Payloads(a))
  /\ \A b : SeeAll(a.dialect, On(FramesMetered(a)[k], b), s.out) = On(FramesMetered(a)[i], b)

\* Every frame has two bytes at least.
LEMMA BoundsGrow ==
  ASSUME NEW a \in Answers, Framed(Answers), NEW k \in 0..Len(a.frames),
         NEW i \in k..Len(a.frames)
  PROVE  Bound(a, i) >= Bound(a, k) + (i - k)
<1> DEFINE N == Len(a.frames)
           T == {d \in Nat : k + d <= N => Bound(a, k + d) >= Bound(a, k) + d}
<1>1. /\ N \in Nat /\ k \in Nat /\ \A j \in 0..N : Bound(a, j) \in Nat
      /\ \A j \in 0..(N - 1) : Bound(a, j + 1) = Bound(a, j) + Len(Encode(a.frames[j + 1]))
  BY AnswerPlaces
<1>2. ASSUME NEW j \in 0..(N - 1)
      PROVE  FrameOK(a.frames[j + 1]) /\ (a.frames[j + 1].opcode = 8 => j + 1 = N)
  <2>1. j + 1 \in DOMAIN a.frames
    BY <1>1, FramesAre
  <2>2. QED BY <2>1, TunnelAssumption DEF Framed, FrameOK
<1>3. ASSUME NEW j \in 0..(N - 1)
      PROVE  Len(Encode(a.frames[j + 1])) \in Nat /\ Len(Encode(a.frames[j + 1])) >= 2
  <2> DEFINE f == a.frames[j + 1]
  <2>1. FrameOK(f)
    BY <1>2
  <2> HIDE DEF f
  <2>2. f.ext \in Nat
    BY <2>1 DEF FrameOK
  <2>3. /\ Len(f.payload) \in Nat /\ Skip(f) \in Nat /\ Skip(f) >= 2 + f.ext
        /\ Len(Encode(f)) = Skip(f) + Len(f.payload)
    BY <2>1, EncodeFacts
  <2>4. Len(Encode(f)) \in Nat /\ Len(Encode(f)) >= 2
    BY <2>2, <2>3
  <2>5. QED BY <2>4 DEF f
<1>4. 0 \in T
  BY <1>1
<1>5. ASSUME NEW d \in T PROVE d + 1 \in T
  <2>1. SUFFICES ASSUME k + (d + 1) <= N PROVE Bound(a, k + (d + 1)) >= Bound(a, k) + (d + 1)
    OBVIOUS
  <2>2. d \in Nat /\ k + d \in 0..(N - 1) /\ k + (d + 1) = (k + d) + 1 /\ k + d \in 0..N
    BY <1>1, <2>1
  <2>3. Bound(a, k + d) >= Bound(a, k) + d
    BY <1>1, <2>2
  <2>4. Bound(a, (k + d) + 1) = Bound(a, k + d) + Len(Encode(a.frames[(k + d) + 1]))
    BY <1>1, <2>2
  <2>5. Len(Encode(a.frames[(k + d) + 1])) \in Nat /\ Len(Encode(a.frames[(k + d) + 1])) >= 2
    BY <1>3, <2>2
  <2>6. Bound(a, k + d) \in Nat /\ Bound(a, k) \in Nat
    BY <1>1, <2>2
  <2>7. QED BY <2>2, <2>3, <2>4, <2>5, <2>6
<1>6. i - k \in Nat /\ k + (i - k) = i /\ i <= N
  BY <1>1
<1>7. i - k \in T
  <2> HIDE DEF T
  <2>1. T \in SUBSET Nat
    BY DEF T
  <2>2. QED BY <1>4, <1>5, <1>6, <2>1, NatInd
<1>8. QED BY <1>6, <1>7

LEMMA RoundOfPush ==
  ASSUME NEW a \in Answers, Framed(Answers), NEW k, NEW i \in 0..Len(a.frames), NEW top \in Nat,
         NEW s, Stands(a, k, i, top, s), s.more
  PROVE  \/ TakeFrame(s) = [s EXCEPT !.more = FALSE] /\ IsLast(a, i, top)
         \/ /\ i < Len(a.frames) /\ Stands(a, k, i + 1, top, TakeFrame(s))
            /\ TakeFrame(s).more \/ IsLast(a, i + 1, top)
<1> DEFINE N == Len(a.frames)
           w == Enc(a, N)
           buf == s.buf
           t == TakeFrame(s)
<1>1. /\ N \in Nat /\ w \in Seq(Symbols) /\ i \in Nat
      /\ \A j \in 0..N : Bound(a, j) \in Nat /\ Bound(a, j) <= Len(w)
      /\ \A j \in 0..(N - 1) : /\ Bound(a, j + 1) = Bound(a, j) + Len(Encode(a.frames[j + 1]))
                               /\ \A q \in 1..Len(Encode(a.frames[j + 1])) :
                                    w[Bound(a, j) + q] = Encode(a.frames[j + 1])[q]
  <2>1. i \in Nat
    BY FramesAre
  <2>2. QED BY <2>1, AnswerPlaces, Zenon
<1>2. /\ buf \in Seq(Symbols) /\ Piece(buf, w, Bound(a, i)) /\ Bound(a, i) + Len(buf) = top
      /\ Len(buf) \in Nat /\ Bound(a, i) \in Nat /\ Len(w) \in Nat
  BY <1>1, LenProperties DEF Stands, Behind
<1>3. Bound(a, i) + Len(buf) <= Len(w)
  BY <1>2 DEF Piece
<1>4. CASE i = N
  <2>1. Len(buf) = 0
    <3>1. Bound(a, i) = Len(w)
      BY <1>4 DEF Bound
    <3> HIDE DEF w, buf
    <3>2. QED BY <1>2, <1>3, <3>1
  <2>2. FrameLen(buf) = 0
    BY <2>1 DEF FrameLen
  <2>3. t = [s EXCEPT !.more = FALSE]
    BY <2>2 DEF TakeFrame
  <2>4. QED BY <1>1, <1>4, <2>3 DEF IsLast
<1>5. CASE i # N
  <2> DEFINE f == a.frames[i + 1]
             size == Len(Encode(f))
  <2>1. i \in 0..(N - 1) /\ i + 1 \in 1..N /\ i < N
    BY <1>1, <1>5
  <2>2. FrameOK(f) /\ (f.opcode = 8 => i + 1 = N)
    <3>1. i + 1 \in DOMAIN a.frames
      BY <2>1, FramesAre
    <3>2. QED BY <3>1, TunnelAssumption DEF Framed, FrameOK
  <2>3. /\ size \in Nat /\ size >= 2 /\ Bound(a, i + 1) = Bound(a, i) + size
        /\ \A q \in 1..size : w[Bound(a, i) + q] = Encode(f)[q]
    <3>1. Len(f.payload) \in Nat /\ Skip(f) \in Nat /\ Skip(f) >= 2
          /\ size = Skip(f) + Len(f.payload)
      <4>1. f.ext \in Nat
        BY <2>2 DEF FrameOK
      <4>2. /\ Len(f.payload) \in Nat /\ Skip(f) \in Nat /\ Skip(f) >= 2 + f.ext
            /\ size = Skip(f) + Len(f.payload)
        BY <2>2, EncodeFacts
      <4>3. QED BY <4>1, <4>2
    <3>2. /\ Bound(a, i + 1) = Bound(a, i) + Len(Encode(a.frames[i + 1]))
          /\ \A q \in 1..Len(Encode(a.frames[i + 1])) :
               w[Bound(a, i) + q] = Encode(a.frames[i + 1])[q]
      <4> HIDE DEF w
      <4>1. QED BY <1>1, <2>1
    <3>3. size \in Nat /\ size >= 2
      <4> HIDE DEF size, f
      <4>1. QED BY <3>1
    <3>4. QED BY <3>2, <3>3, Zenon DEF size, f
  <2> HIDE DEF f, size
  <2>4. \A q \in 1..Len(buf) : q <= size => buf[q] = Encode(f)[q]
    <3>1. \A q \in 1..Len(buf) : buf[q] = w[Bound(a, i) + q]
      BY <1>1, <1>2, PieceIsSeq
    <3>2. \A q \in 1..Len(buf) : q <= size => q \in 1..size
      BY <1>2, <2>3
    <3>3. QED BY <2>3, <3>1, <3>2
  <2>5. CASE Len(buf) < size
    <3>1. FrameLen(buf) = 0
      BY <1>2, <2>2, <2>4, <2>5, FrontFrame DEF size
    <3>2. t = [s EXCEPT !.more = FALSE]
      BY <3>1 DEF TakeFrame
    <3>3. top < Bound(a, i + 1)
      BY <1>2, <2>3, <2>5
    <3>4. QED BY <3>2, <3>3 DEF IsLast
  <2>6. CASE Len(buf) >= size
    <3> DEFINE rest == SubSeq(buf, size + 1, Len(buf))
               out == IF f.opcode \in {1, 2} THEN Append(s.out, f.payload) ELSE s.out
               more == f.opcode # 8
    <3>1. FrameLen(buf) = size /\ buf[1].opcode = f.opcode /\ PayloadOf(buf) = f.payload
      <4> HIDE DEF buf
      <4>1. \A q \in 1..Len(buf) : q <= Len(Encode(f)) => buf[q] = Encode(f)[q]
        BY <2>4 DEF size
      <4>2. Len(buf) >= Len(Encode(f))
        BY <2>6 DEF size
      <4>3. QED BY <1>2, <2>2, <4>1, <4>2, FrontFrame DEF size
    <3>2. t = [out |-> out, buf |-> rest, more |-> more]
      <4>1. size # 0
        BY <2>3
      <4>2. QED BY <3>1, <4>1 DEF TakeFrame
    <3>3. t.out = out /\ t.buf = rest /\ t.more = more /\ more \in BOOLEAN
          /\ t = [out |-> t.out, buf |-> t.buf, more |-> t.more]
      <4>1. more \in BOOLEAN
        OBVIOUS
      <4> HIDE DEF t, out, rest, more
      <4>2. QED BY <3>2, <4>1
    <3>4. Behind(a, i + 1, top, rest)
      <4>1. size \in 0..Len(buf)
        BY <1>2, <2>3, <2>6
      <4>2. /\ rest \in Seq(Symbols) /\ Len(rest) = Len(buf) - size
            /\ Piece(rest, w, Bound(a, i) + size)
        <5> HIDE DEF buf, w
        <5>1. w \in Seq(Symbols) /\ buf \in Seq(Symbols) /\ Piece(buf, w, Bound(a, i))
              /\ Bound(a, i) \in Nat
          BY <1>1, <1>2
        <5>2. QED BY <5>1, <4>1, PieceCut
      <4>3. Bound(a, i + 1) + Len(rest) = top
        <5> HIDE DEF rest
        <5>1. QED BY <1>2, <2>3, <4>2
      <4>4. Piece(rest, w, Bound(a, i + 1))
        BY <2>3, <4>2
      <4>5. QED BY <4>2, <4>3, <4>4 DEF Behind
    <3>5. f.payload \in Payloads(a) /\ s.out \in Seq(Payloads(a))
      BY <2>1 DEF Payloads, Stands, f
    <3>6. out \in Seq(Payloads(a))
      BY <3>5, AppendProperties
    <3>7. ASSUME NEW b
          PROVE  SeeAll(a.dialect, On(FramesMetered(a)[k], b), out) = On(FramesMetered(a)[i + 1], b)
      <4> DEFINE base == On(FramesMetered(a)[k], b)
                 here == On(FramesMetered(a)[i], b)
      <4>1. SeeAll(a.dialect, base, s.out) = here
        BY DEF Stands
      <4>2. FrameSeen(a, here, i + 1) = On(FramesMetered(a)[i + 1], b)
        BY <2>1, MeteredSteps
      <4> HIDE DEF base, here
      <4>3. SeeAll(a.dialect, base, out) = FrameSeen(a, here, i + 1)
        <5>1. CASE f.opcode \in {1, 2}
          <6>1. SeeAll(a.dialect, base, Append(s.out, f.payload))
                  = SeePayload(a.dialect, SeeAll(a.dialect, base, s.out), f.payload)
            BY <3>5, SeeAllAppend
          <6>2. QED BY <4>1, <5>1, <6>1 DEF FrameSeen, f
        <5>2. CASE f.opcode \notin {1, 2}
          BY <4>1, <5>2 DEF FrameSeen, f
        <5>3. QED BY <5>1, <5>2
      <4>4. QED BY <4>2, <4>3 DEF base
    <3>8. Stands(a, k, i + 1, top, t)
      <4> HIDE DEF t, out, rest, more
      <4>1. QED BY <3>3, <3>4, <3>6, <3>7 DEF Stands
    <3>9. t.more \/ IsLast(a, i + 1, top)
      <4>1. CASE f.opcode = 8
        <5>1. i + 1 = Len(a.frames)
          BY <2>2, <4>1
        <5>2. QED BY <1>1, <5>1 DEF IsLast
      <4>2. CASE f.opcode # 8
        <5>1. t.more = TRUE
          BY <3>3, <4>2
        <5>2. QED BY <5>1
      <4>3. QED BY <4>1, <4>2
    <3>10. QED BY <2>1, <3>8, <3>9
  <2>7. QED BY <1>2, <2>3, <2>5, <2>6
<1>6. QED BY <1>4, <1>5

LEMMA PushStands ==
  ASSUME NEW a \in Answers, Framed(Answers), NEW k \in 0..Len(a.frames), NEW top \in Nat,
         NEW buf, NEW bytes, NEW all, all = buf \o bytes, Behind(a, k, top, all)
  PROVE  \E i \in 0..Len(a.frames) :
           /\ Stands(a, k, i, top, WsPush(buf, bytes)) /\ IsLast(a, i, top)
<1> DEFINE N == Len(a.frames)
<1>1. N \in Nat /\ k \in Nat
  BY FramesAre
<1>2. all \in Seq(Symbols) /\ Len(all) \in Nat
  BY LenProperties DEF Behind
<1>3. PICK f : /\ f[0] = Pushed(all)
               /\ \A j \in 1..Len(all) : f[j] = TakeFrame(f[j-1])
               /\ WsPush(buf, bytes) = f[Len(all)]
  <2>1. Len(buf \o bytes) \in Nat
    BY <1>2
  <2>2. \E f : /\ f[0] = Pushed(buf \o bytes)
               /\ \A j \in 1..Len(buf \o bytes) : f[j] = TakeFrame(f[j-1])
               /\ WsPush(buf, bytes) = f[Len(buf \o bytes)]
    BY <2>1, TakesSteps
  <2>3. QED BY <2>2
<1> DEFINE Round(j) == \E i \in 0..N : /\ Stands(a, k, i, top, f[j])
                                       /\ f[j].more => i = k + j
                                       /\ ~f[j].more => IsLast(a, i, top)
           T == {j \in Nat : j <= Len(all) => Round(j)}
<1>4. 0 \in T
  <2>1. Stands(a, k, k, top, Pushed(all))
    <3> DEFINE s == Pushed(all)
    <3>1. /\ s = [out |-> s.out, buf |-> s.buf, more |-> s.more] /\ s.more \in BOOLEAN
          /\ s.buf = all /\ s.out = <<>>
      BY DEF Pushed
    <3>2. \A b : SeeAll(a.dialect, On(FramesMetered(a)[k], b), <<>>) = On(FramesMetered(a)[k], b)
      BY SeeAllEmpty
    <3>3. <<>> \in Seq(Payloads(a))
      BY EmptySeq
    <3> HIDE DEF s
    <3>4. Stands(a, k, k, top, s)
      BY <3>1, <3>2, <3>3 DEF Stands
    <3>5. QED BY <3>4 DEF s
  <2>2. Pushed(all).more = TRUE /\ k = k + 0
    BY <1>1 DEF Pushed
  <2>3. QED BY <1>3, <2>1, <2>2
<1>5. ASSUME NEW j \in T PROVE j + 1 \in T
  <2>1. SUFFICES ASSUME j + 1 <= Len(all) PROVE Round(j + 1)
    OBVIOUS
  <2>2. j \in Nat /\ j + 1 \in 1..Len(all) /\ (j + 1) - 1 = j
    BY <1>2, <2>1
  <2>3. Round(j)
    BY <1>2, <2>1, <2>2
  <2>4. f[j + 1] = TakeFrame(f[j])
    BY <1>3, <2>2
  <2>5. PICK i \in 0..N : /\ Stands(a, k, i, top, f[j])
                          /\ f[j].more => i = k + j
                          /\ ~f[j].more => IsLast(a, i, top)
    BY <2>3
  <2> DEFINE s == f[j]
  <2>6. s = [out |-> s.out, buf |-> s.buf, more |-> s.more] /\ s.more \in BOOLEAN
    BY <2>5 DEF Stands
  <2> HIDE DEF s
  <2>7. ASSUME TakeFrame(s) = [s EXCEPT !.more = FALSE], IsLast(a, i, top) PROVE Round(j + 1)
    <3>1. LET t == TakeFrame(s) IN
            /\ t = [out |-> t.out, buf |-> t.buf, more |-> t.more] /\ t.more = FALSE
            /\ t.out = s.out /\ t.buf = s.buf
      BY <2>6, <2>7
    <3>2. Stands(a, k, i, top, TakeFrame(s))
      BY <2>5, <3>1 DEF Stands, s
    <3>3. QED BY <2>4, <2>7, <3>1, <3>2 DEF s
  <2>8. CASE ~s.more
    <3>1. TakeFrame(s) = [s EXCEPT !.more = FALSE]
      BY <2>8 DEF TakeFrame
    <3>2. QED BY <2>5, <2>7, <2>8, <3>1 DEF s
  <2>9. CASE s.more
    <3>1. \/ TakeFrame(s) = [s EXCEPT !.more = FALSE] /\ IsLast(a, i, top)
          \/ /\ i < N /\ Stands(a, k, i + 1, top, TakeFrame(s))
             /\ TakeFrame(s).more \/ IsLast(a, i + 1, top)
      BY <2>5, <2>9, RoundOfPush DEF s
    <3>2. CASE i < N /\ Stands(a, k, i + 1, top, TakeFrame(s))
               /\ (TakeFrame(s).more \/ IsLast(a, i + 1, top))
      <4>1. i = k + j /\ i + 1 = k + (j + 1) /\ i + 1 \in 0..N
        BY <1>1, <2>2, <2>5, <2>9, <3>2 DEF s
      <4>2. QED BY <2>4, <3>2, <4>1 DEF s
    <3>3. QED BY <2>7, <3>1, <3>2
  <2>10. QED BY <2>6, <2>8, <2>9
<1>6. Round(Len(all))
  <2> HIDE DEF T, Round
  <2>1. T \in SUBSET Nat
    BY DEF T
  <2>2. Len(all) \in T
    BY <1>2, <1>4, <1>5, <2>1, NatInd
  <2>3. QED BY <1>2, <2>2 DEF T
<1>7. PICK i \in 0..N : /\ Stands(a, k, i, top, f[Len(all)])
                        /\ f[Len(all)].more => i = k + Len(all)
                        /\ ~f[Len(all)].more => IsLast(a, i, top)
  BY <1>6
<1>8. ASSUME f[Len(all)].more PROVE IsLast(a, i, top)
  \* Every frame has two bytes at least.
  <2>1. i = k + Len(all)
    BY <1>7, <1>8
  <2>2. SUFFICES ASSUME i < N PROVE top < Bound(a, i + 1)
    BY DEF IsLast
  <2>3. Bound(a, i + 1) > top
    <3>1. Bound(a, k) + Len(all) = top
      BY DEF Behind
    <3>2. Bound(a, i + 1) >= Bound(a, k) + ((i + 1) - k)
      BY <1>1, <2>1, <2>2, <1>2, BoundsGrow
    <3>3. Bound(a, k) \in Nat /\ Bound(a, i + 1) \in Nat
      BY <1>1, <2>2, AnswerPlaces
    <3>4. QED BY <1>1, <1>2, <2>1, <3>1, <3>2, <3>3
  <2>4. Bound(a, i + 1) \in Nat
    BY <1>1, <2>2, AnswerPlaces
  <2>5. QED BY <2>3, <2>4
<1>9. QED BY <1>3, <1>7, <1>8

-----------------------------------------------------------------------------
(***************************************************************************)
(* What is recorded of a tunnel: the meter has been handed the frames that *)
(* are whole in what was read, and the record is what it then said.        *)
(***************************************************************************)
MeteredUpTo(k) ==
  /\ IsLast(answer, k, nread) /\ Behind(answer, k, nread, mt.ws)
  /\ mt = On(FramesMetered(answer)[k], mt.ws)
MeterInv == answer.dialect # None => \E k \in 0..Len(answer.frames) : MeteredUpTo(k)

RecordInv ==
  record # None => /\ phase = "ended"
                   /\ \/ record = Finished(answer.dialect, mt)
                      \/ record = NewMeter /\ nread = 0

LEMMA WholeIs ==
  ASSUME answer \in Answers, Framed(Answers), NEW n \in Nat, NEW k \in 0..Len(answer.frames),
         Bound(answer, k) <= n, IsLast(answer, k, n)
  PROVE  Whole(n) = k
<1> DEFINE N == Len(answer.frames)
           S == {j \in 0..N : Bound(answer, j) <= n}
<1>1. N \in Nat /\ \A j \in 0..N : Bound(answer, j) \in Nat
  BY AnswerPlaces
<1>2. k \in S
  OBVIOUS
<1>3. ASSUME NEW j \in S PROVE j <= k
  <2>1. SUFFICES ASSUME j > k PROVE FALSE
    BY <1>1
  <2>2. j \in 0..N /\ j \in Nat /\ k \in Nat /\ Bound(answer, j) <= n
    BY <1>1
  <2>3. k < N /\ k + 1 \in 0..N /\ j \in (k + 1)..N /\ j - (k + 1) >= 0
    BY <1>1, <2>1, <2>2
  <2>4. Bound(answer, j) >= Bound(answer, k + 1) + (j - (k + 1))
    BY <2>3, BoundsGrow
  <2>5. n < Bound(answer, k + 1)
    BY <2>3 DEF IsLast
  <2>6. Bound(answer, j) \in Nat /\ Bound(answer, k + 1) \in Nat /\ j - (k + 1) \in Nat
    BY <1>1, <2>2, <2>3
  <2>7. QED BY <2>2, <2>3, <2>4, <2>5, <2>6
<1>4. S \subseteq Nat
  BY <1>1
<1>5. Whole(n) = Max(S)
  BY DEF Whole, Bound, Enc
<1> HIDE DEF S
<1>6. \A y \in S : k >= y
  BY <1>2, <1>3, <1>4
<1>7. Max(S) \in S /\ \A y \in S : Max(S) >= y
  BY <1>2, <1>6 DEF Max
<1>8. Max(S) >= k /\ k >= Max(S)
  BY <1>2, <1>6, <1>7
<1>9. Max(S) \in Nat /\ k \in Nat
  BY <1>2, <1>4, <1>7
<1>10. Max(S) = k
  BY <1>8, <1>9
<1>11. QED BY <1>5, <1>10

\* Nothing is whole in no bytes, and nothing is owed for it.
LEMMA NothingYet ==
  ASSUME NEW a \in Answers, Framed(Answers)
  PROVE  0 \in 0..Len(a.frames) /\ IsLast(a, 0, 0) /\ Bound(a, 0) = 0 /\ BillOf(a, 0) = NewMeter
<1>1. Len(a.frames) \in Nat /\ Bound(a, 0) = 0
  BY AnswerPlaces
<1>2. IsLast(a, 0, 0)
  <2>1. SUFFICES ASSUME 0 < Len(a.frames) PROVE 0 < Bound(a, 0 + 1)
    BY DEF IsLast
  <2>2. 0 \in 0..Len(a.frames) /\ 1 \in 0..Len(a.frames)
    BY <1>1, <2>1
  <2>3. Bound(a, 1) >= Bound(a, 0) + (1 - 0) /\ Bound(a, 1) \in Nat
    BY <2>2, BoundsGrow, AnswerPlaces
  <2>4. QED BY <1>1, <2>3
<1>3. Counted(a, 0) = {}
  BY DEF Counted
<1>4. BillOf(a, 0) = NewMeter
  BY <1>3 DEF BillOf
<1>5. QED BY <1>1, <1>2, <1>4

LEMMA MeterInit ==
  ASSUME Init, Framed(Answers)
  PROVE  MeterInv /\ RecordInv
<1>1. answer \in Answers /\ mt = NewMt /\ nread = 0 /\ record = None
  BY DEF Init
<1>2. 0 \in 0..Len(answer.frames) /\ IsLast(answer, 0, 0) /\ Bound(answer, 0) = 0
  BY <1>1, NothingYet
<1>3. mt.ws = <<>> /\ On(NewMt, <<>>) = NewMt
  BY <1>1 DEF NewMt, On
<1>4. Behind(answer, 0, 0, <<>>)
  <2> DEFINE w == Enc(answer, Len(answer.frames))
  <2>1. w \in Seq(Symbols)
    BY <1>1, AnswerPlaces
  <2>2. 0 \in 0..Len(w) /\ <<>> \in Seq(Symbols) /\ Len(<<>>) = 0
    BY <2>1, LenProperties, EmptySeq
  <2> HIDE DEF w
  <2>3. Piece(<<>>, w, 0)
    BY <2>1, <2>2, PieceEmpty
  <2>4. QED BY <1>2, <2>2, <2>3 DEF Behind, w
<1>5. FramesMetered(answer)[0] = NewMt
  BY <1>1, MeteredSteps
<1>6. MeteredUpTo(0)
  BY <1>1, <1>2, <1>3, <1>4, <1>5 DEF MeteredUpTo
<1>7. QED BY <1>1, <1>2, <1>6 DEF MeterInv, RecordInv

\* on_upstream, with whatever read returned.
LEMMA SelectUpstreamMeters ==
  ASSUME TunnelInv, MeterInv, SelectUpstream, Framed(Answers)
  PROVE  MeterInv'
<1>1. SUFFICES ASSUME answer.dialect # None
               PROVE  \E i \in 0..Len(answer.frames) : MeteredUpTo(i)'
  <2>1. answer' = answer
    BY DEF SelectUpstream
  <2>2. QED BY <2>1 DEF MeterInv
<1> DEFINE N == Len(answer.frames)
           w == Enc(answer, N)
           F == FramesMetered(answer)
           n == Cut(uin)
           bytes == SubSeq(uin, 1, n)
           top == nread + n
           st == WsPush(mt.ws, bytes)
<1>2. answer' = answer /\ nread' = top /\ mt' = OnUpstream(mt, bytes) /\ chunk' = bytes
      /\ phase' = "to_client"
  BY DEF SelectUpstream
<1>3. PICK k \in 0..N : MeteredUpTo(k)
  BY <1>1 DEF MeterInv
<1>4. IsLast(answer, k, nread) /\ Behind(answer, k, nread, mt.ws) /\ mt = On(F[k], mt.ws)
  BY <1>3 DEF MeteredUpTo
<1>5. answer \in Answers /\ nread \in Nat /\ uin \in Seq(Symbols) /\ N \in Nat /\ w \in Seq(Symbols)
      /\ Stream = w
  BY AnswerPlaces DEF TunnelInv, Buffers, Stream, Enc
<1>6. n \in Nat /\ top \in Nat
  <2>1. n \in 0..Len(uin) /\ Len(uin) \in Nat
    BY <1>5, CutFacts, LenProperties
  <2> HIDE DEF n
  <2>2. n \in Nat
    BY <2>1
  <2>3. QED BY <1>5, <2>2
<1>7. bytes \in Seq(Symbols) /\ Len(bytes) = n /\ Piece(bytes, w, nread)
  <2>1. TunnelInv'
    BY SelectUpstreamInv
  <2>2. Len(bytes) = n
    BY <1>5, CutFacts
  <2>3. chunk' \in Seq(Symbols)
    BY <2>1 DEF TunnelInv, Buffers
  <2>4. Piece(chunk', Stream', nread' - Len(chunk'))
    BY <1>2, <2>1 DEF TunnelInv, Downward
  <2>5. Stream' = Stream
    BY <1>2 DEF Stream
  <2> HIDE DEF bytes, n, w
  <2>6. nread' - Len(chunk') = nread
    BY <1>2, <1>5, <1>6, <2>2
  <2>7. QED BY <1>2, <1>5, <2>2, <2>3, <2>4, <2>5, <2>6
<1> DEFINE all == mt.ws \o bytes
<1>8. Behind(answer, k, top, all)
  <2>1. mt.ws \in Seq(Symbols) /\ Piece(mt.ws, w, Bound(answer, k))
        /\ Bound(answer, k) + Len(mt.ws) = nread
    BY <1>4 DEF Behind
  <2>2. Bound(answer, k) \in Nat
    BY <1>5, AnswerPlaces
  <2> HIDE DEF w, bytes, n
  <2>3. Piece(bytes, w, Bound(answer, k) + Len(mt.ws))
    BY <1>7, <2>1
  <2>4. all \in Seq(Symbols) /\ Len(all) = Len(mt.ws) + Len(bytes)
        /\ Piece(all, w, Bound(answer, k))
    BY <1>5, <1>7, <2>1, <2>2, <2>3, PieceJoin
  <2>5. Bound(answer, k) + Len(all) = top
    <3>1. Len(mt.ws) \in Nat
      BY <2>1, LenProperties
    <3> HIDE DEF all
    <3>2. QED BY <1>6, <1>7, <2>1, <2>2, <2>4, <3>1
  <2>6. QED BY <2>4, <2>5 DEF Behind, w
<1>9. PICK i \in 0..N : Stands(answer, k, i, top, st) /\ IsLast(answer, i, top)
  <2>1. all = mt.ws \o bytes
    OBVIOUS
  <2> HIDE DEF all, bytes, top
  <2>2. QED BY <1>5, <1>6, <1>8, <2>1, PushStands
<1> HIDE DEF bytes, top, n
<1>10. mt' = On(F[i], st.buf) /\ mt'.ws = st.buf
  <2>1. mt' = SeeAll(answer.dialect, [mt EXCEPT !.ws = st.buf], st.out)
    BY <1>1, <1>2 DEF OnUpstream
  <2>2. [mt EXCEPT !.ws = st.buf] = On(F[k], st.buf)
    <3> DEFINE t == F[k]
    <3>1. IsMt(t)
      BY <1>5, MeteredSteps
    <3> HIDE DEF t, st
    <3>2. mt = On(t, mt.ws)
      BY <1>4 DEF t
    <3>3. \A b, c : On(On(t, b), c) = On(t, c)
      BY <3>1 DEF On, IsMt, Mt
    <3>4. On(mt, st.buf) = On(t, st.buf)
      BY <3>2, <3>3
    <3>5. QED BY <3>4 DEF On, t
  <2>3. \A b : SeeAll(answer.dialect, On(F[k], b), st.out) = On(F[i], b)
    BY <1>9 DEF Stands
  <2>4. mt' = On(F[i], st.buf)
    BY <2>1, <2>2, <2>3
  <2>5. IsMt(F[i])
    BY <1>5, MeteredSteps
  <2> HIDE DEF st, F
  <2>6. QED BY <2>4, <2>5 DEF On, IsMt, Mt
<1>11. Behind(answer, i, top, st.buf)
  BY <1>9 DEF Stands
<1>12. IsLast(answer', i, nread') /\ Behind(answer', i, nread', mt'.ws)
       /\ mt' = On(FramesMetered(answer')[i], mt'.ws)
  <2> HIDE DEF st
  <2>1. QED BY <1>2, <1>9, <1>10, <1>11
<1>13. QED BY <1>12 DEF MeteredUpTo

\* Nothing else touches the meter.
LEMMA MeterStays ==
  ASSUME TunnelInv, MeterInv, [Next]_vars, Framed(Answers)
  PROVE  MeterInv'
<1>1. CASE SelectUpstream
  BY <1>1, SelectUpstreamMeters
<1>2. CASE ~SelectUpstream
  <2>1. UNCHANGED <<answer, mt, nread>>
    BY <1>2 DEF Next, Relay, vars, relay, UpstreamSends, ClientSends, UpstreamReads, ClientReads,
       UpstreamCloses, ClientCloses, UpstreamReset, ClientReset, HandshakeFails, ReadHead,
       Upgrade, SelectClient, SelectEof, WriteClient, WriteUpstream, WriteToClosed, End
  <2>2. \A k : MeteredUpTo(k)' <=> MeteredUpTo(k)
    BY <2>1 DEF MeteredUpTo
  <2>3. QED BY <2>1, <2>2 DEF MeterInv
<1>3. QED BY <1>1, <1>2

LEMMA RecordStays ==
  ASSUME TunnelInv, RecordInv, [Next]_vars
  PROVE  RecordInv'
<1>1. phase \in {"head", "upgrading"} => nread = 0
  BY DEF TunnelInv, Phases
<1>2. CASE phase = "ended"
  <2>1. UNCHANGED <<answer, phase, mt, record, nread>>
    BY <1>2 DEF Next, Relay, vars, relay, UpstreamSends, ClientSends, UpstreamReads, ClientReads,
       UpstreamCloses, ClientCloses, UpstreamReset, ClientReset, HandshakeFails, ReadHead,
       Upgrade, SelectClient, SelectUpstream, SelectEof, WriteClient, WriteUpstream, WriteToClosed
  <2>2. QED BY <2>1 DEF RecordInv
<1>3. CASE phase # "ended"
  <2>1. record = None
    BY <1>3 DEF RecordInv
  <2>2. CASE SelectEof \/ WriteToClosed
    <3>1. \/ record' = record
          \/ answer' = answer /\ phase' = "ended" /\ record' = Finished(answer.dialect, mt)
             /\ mt' = mt
      BY <2>2 DEF SelectEof, WriteToClosed, End
    <3>2. QED BY <2>1, <3>1 DEF RecordInv
  <2>3. CASE ReadHead \/ Upgrade
    <3>1. \/ record' = record \/ record' = None
          \/ phase' = "ended" /\ record' = NewMeter /\ nread' = nread
             /\ phase \in {"head", "upgrading"}
      BY <2>3 DEF ReadHead, Upgrade
    <3>2. QED BY <1>1, <2>1, <3>1 DEF RecordInv
  <2>4. CASE ~(SelectEof \/ WriteToClosed \/ ReadHead \/ Upgrade)
    <3>1. record' = record
      BY <2>4 DEF Next, Relay, vars, relay, UpstreamSends, ClientSends, UpstreamReads, ClientReads,
         UpstreamCloses, ClientCloses, UpstreamReset, ClientReset, HandshakeFails,
         SelectClient, SelectUpstream, WriteClient, WriteUpstream
    <3>2. QED BY <2>1, <3>1 DEF RecordInv
  <2>5. QED BY <2>2, <2>3, <2>4
<1>4. QED BY <1>2, <1>3

\* The buffer of the frame decoder is not in what the meter says at the end.
LEMMA FinishedOn ==
  ASSUME NEW dialect, NEW t, IsMt(t), NEW b
  PROVE  Finished(dialect, On(t, b)) = Finished(dialect, t)
<1>1. On(t, b).dec = t.dec /\ On(t, b).m = t.m
  BY DEF On, IsMt, Mt
<1>2. QED BY <1>1 DEF Finished

LEMMA BillFollows ==
  ASSUME TunnelInv, MeterInv, RecordInv, Framed(Answers), BilledByFrame(Answers)
  PROVE  RecordIsTheBill
<1>1. SUFFICES ASSUME record # None PROVE record = BillOf(answer, Whole(nread))
  BY DEF RecordIsTheBill, Bill
<1>2. answer \in Answers /\ nread \in Nat
  BY DEF TunnelInv, Buffers
<1>3. record = Finished(answer.dialect, mt) \/ (record = NewMeter /\ nread = 0)
  BY <1>1 DEF RecordInv
<1>4. CASE nread = 0 /\ record = NewMeter
  <2>1. /\ 0 \in 0..Len(answer.frames) /\ IsLast(answer, 0, 0) /\ Bound(answer, 0) = 0
        /\ BillOf(answer, 0) = NewMeter
    BY <1>2, NothingYet
  <2>2. Bound(answer, 0) <= 0 /\ 0 \in Nat
    BY <2>1
  <2>3. Whole(0) = 0
    BY <1>2, <2>1, <2>2, WholeIs
  <2>4. QED BY <1>4, <2>1, <2>3
<1>5. CASE record = Finished(answer.dialect, mt) /\ answer.dialect = None
  BY <1>5 DEF Finished, BillOf
<1>6. CASE record = Finished(answer.dialect, mt) /\ answer.dialect # None
  <2>1. PICK k \in 0..Len(answer.frames) : MeteredUpTo(k)
    BY <1>6 DEF MeterInv
  <2>2. IsLast(answer, k, nread) /\ Behind(answer, k, nread, mt.ws)
        /\ mt = On(FramesMetered(answer)[k], mt.ws)
    BY <2>1 DEF MeteredUpTo
  <2>3. Bound(answer, k) <= nread
    <3>1. Bound(answer, k) + Len(mt.ws) = nread /\ Len(mt.ws) \in Nat /\ Bound(answer, k) \in Nat
      BY <1>2, <2>2, LenProperties, AnswerPlaces DEF Behind
    <3>2. QED BY <1>2, <3>1
  <2>4. Whole(nread) = k
    BY <1>2, <2>2, <2>3, WholeIs
  <2>5. IsMt(FramesMetered(answer)[k])
    BY <1>2, MeteredSteps
  <2>6. Finished(answer.dialect, mt) = Finished(answer.dialect, FramesMetered(answer)[k])
    BY <2>2, <2>5, FinishedOn
  <2>7. Finished(answer.dialect, FramesMetered(answer)[k]) = BillOf(answer, k)
    BY <1>2, <1>6 DEF BilledByFrame
  <2>8. QED BY <1>6, <2>4, <2>6, <2>7
<1>7. QED BY <1>3, <1>4, <1>5, <1>6

-----------------------------------------------------------------------------
(***************************************************************************)
(* Theorems.                                                               *)
(***************************************************************************)
\* The invariant of a tunnel (http_handshake, splice_tcp): every buffer holds a
\* piece of what one peer sent, and the pieces follow on each other, for all
\* answers, sizes of sockets and reads, and ways to end.
THEOREM TunnelInvariant == Spec => []TunnelInv
<1>1. TunnelInv /\ [Next]_vars => TunnelInv'
  <2> SUFFICES ASSUME TunnelInv, [Next]_vars PROVE TunnelInv'
    OBVIOUS
  <2>1. CASE UpstreamSends
    BY <2>1, UpstreamSendsInv
  <2>2. CASE ClientSends
    BY <2>2, ClientSendsInv
  <2>3. CASE UpstreamReads \/ ClientReads
    BY <2>3, ReadsInv
  <2>4. CASE UpstreamCloses \/ ClientCloses
    BY <2>4, ClosesInv
  <2>5. CASE UpstreamReset
    BY <2>5, UpstreamResetInv
  <2>6. CASE ClientReset
    BY <2>6, ClientResetInv
  <2>7. CASE HandshakeFails \/ Upgrade \/ SelectEof \/ WriteToClosed
    BY <2>7, StillInv
  <2>8. CASE ReadHead
    BY <2>8, ReadHeadInv
  <2>9. CASE SelectClient
    BY <2>9, SelectClientInv
  <2>10. CASE SelectUpstream
    BY <2>10, SelectUpstreamInv
  <2>11. CASE WriteClient
    BY <2>11, WriteClientInv
  <2>12. CASE WriteUpstream
    BY <2>12, WriteUpstreamInv
  <2>13. CASE UNCHANGED vars
    BY <2>13, TunnelStays
  <2>14. QED BY <2>1, <2>2, <2>3, <2>4, <2>5, <2>6, <2>7, <2>8, <2>9, <2>10, <2>11, <2>12, <2>13
              DEF Next, Relay
<1>2. QED BY <1>1, TunnelInit, PTL DEF Spec

\* splice_tcp: each peer gets what the other sent, in order and without a gap,
\* from the first byte behind the head on.
THEOREM CopiesInOrder == Spec => []InOrder
<1>1. TunnelInv => InOrder
  <2> SUFFICES ASSUME TunnelInv PROVE InOrder
    OBVIOUS
  <2>1. /\ Stream \in Seq(Symbols) /\ ClientBytes \in Seq(Symbols)
        /\ ToClient \in Seq(Symbols) /\ ToUpstream \in Seq(Symbols)
    BY StreamFacts DEF TunnelInv
  <2>2. Piece(ToClient, Stream, 0) /\ Piece(ToUpstream, ClientBytes, 0)
    BY DEF TunnelInv, Downward, Upward
  <2>3. IsPrefix(ToClient, Stream) /\ IsPrefix(ToUpstream, ClientBytes)
    BY <2>1, <2>2, PieceIsPrefix
  <2>4. QED BY <2>3 DEF InOrder, ToClient, ToUpstream
<1>2. QED BY <1>1, TunnelInvariant, PTL

\* The first half of AnswerIsWhole: a tunnel that the upstream ends after its
\* answer gives the client all of it, however full the sockets were, unless the
\* client went first or crossed it (splice_tcp, select).
ClientHasAll ==
  phase = "ended" /\ record # None /\ nread > 0 /\ usent = UpstreamLen /\ copen /\ ~crossed
    => nread = Len(Stream) /\ (cin = <<>> => cgot \o cout = Stream)

\* The client of such a tunnel has the whole answer (splice_tcp).
THEOREM AnswerArrives == Spec => []ClientHasAll
<1>1. TunnelInv => ClientHasAll
  <2> SUFFICES ASSUME TunnelInv, phase = "ended", record # None, nread > 0,
                      usent = UpstreamLen, copen, ~crossed
               PROVE  nread = Len(Stream) /\ (cin = <<>> => ToClient = Stream)
    BY DEF ClientHasAll, ToClient
  <2>1. Buffers /\ FromUpstream /\ Phases /\ Downward /\ Endings
    BY DEF TunnelInv
  <2>2. /\ Len(Stream) \in Nat /\ Len(answer.head) \in Nat /\ nread \in Nat
        /\ UpstreamLen = Len(answer.head) + Len(Stream)
        /\ Stream \in Seq(Symbols) /\ ToClient \in Seq(Symbols)
    BY <2>1, StreamFacts DEF Buffers
  <2>3. uin = <<>> /\ (cin = <<>> => Len(ToClient) = nread)
    BY <2>1 DEF Endings
  <2>4. Len(uin) = 0
    BY <2>3, EmptySeq
  <2>5. Len(head) = Len(answer.head)
    BY <2>1 DEF Phases
  <2>6. nread = Len(Stream)
    <3>1. Taken + Len(uin) = usent
      BY <2>1 DEF FromUpstream
    <3>2. (Len(answer.head) + nread) + 0 = Len(answer.head) + Len(Stream)
      BY <2>2, <2>4, <2>5, <3>1 DEF Taken
    <3>3. QED BY <2>2, <3>2
  <2>7. ASSUME cin = <<>> PROVE ToClient = Stream
    <3>1. Len(ToClient) = Len(Stream) /\ Piece(ToClient, Stream, 0)
      BY <2>1, <2>3, <2>6, <2>7 DEF Downward
    <3>2. \A i \in 1..Len(ToClient) : ToClient[i] = Stream[0 + i]
      BY <2>2, <3>1, PieceIsSeq
    <3>3. \A i \in 1..Len(ToClient) : ToClient[i] = Stream[i]
      BY <2>2, <3>1, <3>2
    <3>4. QED BY <2>2, <3>1, <3>3, SeqEqual
  <2>8. QED BY <2>6, <2>7
<1>2. QED BY <1>1, TunnelInvariant, PTL

\* hop.rs: an upgrade passes the filters and nothing else that is meant for one
\* hop does, for all headers whatsoever.
THEOREM UpgradesPass == Spec => []UpgradeSurvives
<1>1. UpgradeSurvives
  BY DEF UpgradeSurvives, IsWebsocketUpgrade, StripHopKeepingUpgrade, StripHopByHop, HOP_BY_HOP
<1>2. QED BY <1>1, PTL

\* If the meter makes of every answer, handed over frame by frame, what it
\* costs, then the ledger has what the frames cost that were read, for every
\* size of read and of socket and every way to end (WsTextDecoder, on_upstream).
THEOREM RecordsTheBill ==
  ASSUME Framed(Answers), BilledByFrame(Answers)
  PROVE  Spec => []RecordIsTheBill
<1>1. Init => MeterInv /\ RecordInv
  BY MeterInit
<1>2. TunnelInv /\ MeterInv /\ RecordInv /\ [Next]_vars => MeterInv' /\ RecordInv'
  BY MeterStays, RecordStays
<1>3. TunnelInv /\ MeterInv /\ RecordInv => RecordIsTheBill
  BY BillFollows
<1>4. QED BY <1>1, <1>2, <1>3, TunnelInvariant, PTL DEF Spec

\* A tunnel that the upstream ends after its answer gives the client all of the
\* answer and the ledger all of its bill (splice_tcp, select, on_upstream).
THEOREM AnswersAreWhole ==
  ASSUME Framed(Answers), BilledByFrame(Answers)
  PROVE  Spec => []AnswerIsWhole
<1>1. ClientHasAll /\ RecordIsTheBill => AnswerIsWhole
  BY DEF ClientHasAll, RecordIsTheBill, AnswerIsWhole
<1>2. QED BY <1>1, AnswerArrives, RecordsTheBill, PTL
=============================================================================
