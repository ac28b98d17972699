-------------------------- MODULE StreamMeterProofs -------------------------
(***************************************************************************)
(* Proofs about StreamMeter, for every answer of events with usage in it,  *)
(* every capacity of the channel, every size of the chunks and all faults. *)
(***************************************************************************)
EXTENDS StreamMeter, SequenceTheorems, WellFoundedInduction, TLAPS

-----------------------------------------------------------------------------
(***************************************************************************)
(* Induction.                                                              *)
(***************************************************************************)
LEMMA NatLeast ==
  ASSUME NEW T \in SUBSET Nat, T # {}
  PROVE  \E m \in T : \A k \in T : m <= k
<1>1. \E m \in T : \A k \in T : ~ (<<k, m>> \in OpToRel(<, Nat))
  BY WFMin, NatLessThanWellFounded
<1>2. PICK m \in T : \A k \in T : ~ (<<k, m>> \in OpToRel(<, Nat))
  BY <1>1
<1>3. \A k \in T : ~ (k < m)
  BY <1>2 DEF OpToRel
<1>4. QED BY <1>3

LEMMA NatInd ==
  ASSUME NEW T \in SUBSET Nat, 0 \in T, \A k \in T : k + 1 \in T
  PROVE  \A k \in Nat : k \in T
<1>1. SUFFICES ASSUME Nat \ T # {} PROVE FALSE
  OBVIOUS
<1>2. PICK m \in Nat \ T : \A k \in Nat \ T : m <= k
  BY <1>1, NatLeast
<1>3. m # 0 /\ m - 1 \in Nat
  BY <1>2
<1>4. m - 1 \in T
  BY <1>2, <1>3
<1>5. QED BY <1>2, <1>4

\* A set that has the empty sequence, and with a sequence every longer one by
\* one element, has all sequences.
LEMMA SnocInd ==
  ASSUME NEW S, NEW T \in SUBSET Seq(S), <<>> \in T,
         \A s \in T : \A e \in S : Append(s, e) \in T
  PROVE  \A s \in Seq(S) : s \in T
<1> DEFINE N == {n \in Nat : \A s \in Seq(S) : Len(s) = n => s \in T}
<1>1. 0 \in N
  BY EmptySeq
<1>2. ASSUME NEW n \in N PROVE n + 1 \in N
  <2>1. SUFFICES ASSUME NEW s \in Seq(S), Len(s) = n + 1 PROVE s \in T
    OBVIOUS
  <2>2. n \in Nat /\ \A u \in Seq(S) : Len(u) = n => u \in T
    OBVIOUS
  <2>3. s # <<>>
    BY <2>1, <2>2
  <2>4. PICK u \in Seq(S), e \in S : s = Append(u, e)
    BY <2>3, SequenceEmptyOrAppend
  <2>5. Len(u) \in Nat /\ Len(s) = Len(u) + 1
    BY <2>4, AppendProperties, LenProperties
  <2>6. u \in T
    BY <2>1, <2>2, <2>5
  <2>7. QED BY <2>4, <2>6
<1>3. \A n \in Nat : n \in N
  <2> HIDE DEF N
  <2>1. N \in SUBSET Nat
    BY DEF N
  <2>2. QED BY <1>1, <1>2, <2>1, NatInd
<1>4. \A s \in Seq(S) : Len(s) \in Nat
  BY LenProperties
<1>5. QED BY <1>3, <1>4

-----------------------------------------------------------------------------
(***************************************************************************)
(* The folds of SseWire, one element at a time.                            *)
(***************************************************************************)
\* f splits the first n bytes of s.
Splits(f, s, n) ==
  f = [i \in 0..n |-> IF i = 0 THEN [lines |-> <<>>, rest |-> <<>>] ELSE SplitByte(f[i-1], s[i])]

LEMMA SplitsUpTo ==
  ASSUME NEW s
  PROVE  \A n \in Nat : \E f : Splits(f, s, n)
<1> DEFINE T == {n \in Nat : \E f : Splits(f, s, n)}
<1>1. 0 \in T
  <2>1. Splits([i \in 0..0 |-> [lines |-> <<>>, rest |-> <<>>]], s, 0)
    BY DEF Splits
  <2>2. QED BY <2>1
<1>2. ASSUME NEW n \in T PROVE n + 1 \in T
  <2>0. n \in Nat
    OBVIOUS
  <2>1. PICK f : Splits(f, s, n)
    BY <1>2
  <2>2. \A i \in 0..n : f[i] = IF i = 0 THEN [lines |-> <<>>, rest |-> <<>>] ELSE SplitByte(f[i-1], s[i])
    BY <2>1, Zenon DEF Splits
  <2> DEFINE g == [i \in 0..(n+1) |-> IF i = 0 THEN [lines |-> <<>>, rest |-> <<>>] ELSE SplitByte(f[i-1], s[i])]
  <2>3. ASSUME NEW i \in 0..(n+1), i # 0 PROVE g[i-1] = f[i-1]
    <3>1. i - 1 \in 0..n /\ i - 1 \in 0..(n+1)
      BY <2>0, <2>3
    <3>2. f[i-1] = IF i - 1 = 0 THEN [lines |-> <<>>, rest |-> <<>>] ELSE SplitByte(f[(i-1)-1], s[i-1])
      BY <2>2, <3>1
    <3>3. g[i-1] = IF i - 1 = 0 THEN [lines |-> <<>>, rest |-> <<>>] ELSE SplitByte(f[(i-1)-1], s[i-1])
      BY <3>1
    <3>4. QED BY <3>2, <3>3
  <2>4. \A i \in 0..(n+1) : g[i] = IF i = 0 THEN [lines |-> <<>>, rest |-> <<>>] ELSE SplitByte(f[i-1], s[i])
    OBVIOUS
  <2>5. g = [i \in 0..(n+1) |-> g[i]]
    OBVIOUS
  <2> HIDE DEF g
  <2>6. \A i \in 0..(n+1) : g[i] = IF i = 0 THEN [lines |-> <<>>, rest |-> <<>>] ELSE SplitByte(g[i-1], s[i])
    BY <2>3, <2>4
  <2>7. Splits(g, s, n+1)
    BY <2>5, <2>6 DEF Splits
  <2>8. QED BY <2>0, <2>7
<1>3. \A n \in Nat : n \in T
  <2> HIDE DEF T
  <2>1. T \in SUBSET Nat
    BY DEF T
  <2>2. QED BY <1>1, <1>2, <2>1, NatInd
<1>4. QED BY <1>3

LEMMA SplitsSteps ==
  ASSUME NEW s, Len(s) \in Nat
  PROVE  \E f : /\ f[0] = [lines |-> <<>>, rest |-> <<>>]
                /\ \A i \in 1..Len(s) : f[i] = SplitByte(f[i-1], s[i])
                /\ Split(s) = f[Len(s)]
<1> DEFINE f == CHOOSE g : Splits(g, s, Len(s))
<1>1. Splits(f, s, Len(s))
  BY SplitsUpTo
<1>2. Split(s) = f[Len(s)]
  BY DEF Split, Splits
<1> HIDE DEF f
<1>3. \A i \in 0..Len(s) : f[i] = IF i = 0 THEN [lines |-> <<>>, rest |-> <<>>] ELSE SplitByte(f[i-1], s[i])
  BY <1>1, Zenon DEF Splits
<1>4. f[0] = [lines |-> <<>>, rest |-> <<>>]
  BY <1>3
<1>5. ASSUME NEW i \in 1..Len(s) PROVE f[i] = SplitByte(f[i-1], s[i])
  <2>1. i \in 0..Len(s) /\ i # 0
    OBVIOUS
  <2>2. QED BY <1>3, <2>1
<1>6. QED BY <1>2, <1>4, <1>5

LEMMA SplitEmpty == Split(<<>>) = [lines |-> <<>>, rest |-> <<>>]
<1> DEFINE s == <<>>
<1>1. Len(s) = 0
  OBVIOUS
<1> HIDE DEF s
<1>2. PICK f : f[0] = [lines |-> <<>>, rest |-> <<>>] /\ Split(s) = f[Len(s)]
  BY <1>1, SplitsSteps
<1>3. QED BY <1>1, <1>2 DEF s

LEMMA SplitAppend ==
  ASSUME NEW S, NEW s \in Seq(S), NEW e \in S
  PROVE  Split(Append(s, e)) = SplitByte(Split(s), e)
<1> DEFINE more == Append(s, e)
<1>1. /\ Len(s) \in Nat /\ Len(more) = Len(s) + 1 /\ more[Len(s) + 1] = e
      /\ \A i \in 1..Len(s) : more[i] = s[i]
  BY AppendProperties, LenProperties
<1> HIDE DEF more
<1>2. PICK f : /\ f[0] = [lines |-> <<>>, rest |-> <<>>]
               /\ \A i \in 1..Len(s) : f[i] = SplitByte(f[i-1], s[i])
               /\ Split(s) = f[Len(s)]
  BY <1>1, SplitsSteps
<1>3. Len(more) \in Nat
  BY <1>1
<1>4. PICK g : /\ g[0] = [lines |-> <<>>, rest |-> <<>>]
               /\ \A i \in 1..Len(more) : g[i] = SplitByte(g[i-1], more[i])
               /\ Split(more) = g[Len(more)]
  BY <1>3, SplitsSteps
<1> DEFINE T == {i \in Nat : i <= Len(s) => g[i] = f[i]}
<1>5. 0 \in T
  BY <1>2, <1>4
<1>6. ASSUME NEW i \in T PROVE i + 1 \in T
  <2>1. SUFFICES ASSUME i + 1 <= Len(s) PROVE g[i+1] = f[i+1]
    OBVIOUS
  <2>2. i \in Nat /\ i + 1 \in 1..Len(s) /\ i + 1 \in 1..Len(more) /\ (i + 1) - 1 = i
        /\ g[i] = f[i]
    BY <1>1, <2>1
  <2>3. /\ f[i+1] = SplitByte(f[i], s[i+1])
        /\ g[i+1] = SplitByte(g[i], more[i+1])
    BY <1>2, <1>4, <2>2
  <2>4. QED BY <1>1, <2>2, <2>3
<1>7. g[Len(s)] = f[Len(s)]
  <2> HIDE DEF T
  <2>1. T \in SUBSET Nat
    BY DEF T
  <2>2. Len(s) \in T
    BY <1>1, <1>5, <1>6, <2>1, NatInd
  <2>3. QED BY <1>1, <2>2 DEF T
<1>8. Len(s) + 1 \in 1..Len(more) /\ (Len(s) + 1) - 1 = Len(s)
  BY <1>1
<1>9. g[Len(s) + 1] = SplitByte(g[Len(s)], more[Len(s) + 1])
  BY <1>4, <1>8
<1>10. QED
  BY <1>1, <1>2, <1>4, <1>7, <1>9 DEF more

\* f decodes the first n lines of s.
Decodes(f, dec, s, n) == f = [i \in 0..n |-> IF i = 0 THEN dec ELSE DecodeLine(f[i-1], s[i])]

LEMMA DecodesUpTo ==
  ASSUME NEW dec, NEW s
  PROVE  \A n \in Nat : \E f : Decodes(f, dec, s, n)
<1> DEFINE T == {n \in Nat : \E f : Decodes(f, dec, s, n)}
<1>1. 0 \in T
  <2>1. Decodes([i \in 0..0 |-> dec], dec, s, 0)
    BY DEF Decodes
  <2>2. QED BY <2>1
<1>2. ASSUME NEW n \in T PROVE n + 1 \in T
  <2>0. n \in Nat
    OBVIOUS
  <2>1. PICK f : Decodes(f, dec, s, n)
    BY <1>2
  <2>2. \A i \in 0..n : f[i] = IF i = 0 THEN dec ELSE DecodeLine(f[i-1], s[i])
    BY <2>1, Zenon DEF Decodes
  <2> DEFINE g == [i \in 0..(n+1) |-> IF i = 0 THEN dec ELSE DecodeLine(f[i-1], s[i])]
  <2>3. ASSUME NEW i \in 0..(n+1), i # 0 PROVE g[i-1] = f[i-1]
    <3>1. i - 1 \in 0..n /\ i - 1 \in 0..(n+1)
      BY <2>0, <2>3
    <3>2. f[i-1] = IF i - 1 = 0 THEN dec ELSE DecodeLine(f[(i-1)-1], s[i-1])
      BY <2>2, <3>1
    <3>3. g[i-1] = IF i - 1 = 0 THEN dec ELSE DecodeLine(f[(i-1)-1], s[i-1])
      BY <3>1
    <3>4. QED BY <3>2, <3>3
  <2>4. \A i \in 0..(n+1) : g[i] = IF i = 0 THEN dec ELSE DecodeLine(f[i-1], s[i])
    OBVIOUS
  <2>5. g = [i \in 0..(n+1) |-> g[i]]
    OBVIOUS
  <2> HIDE DEF g
  <2>6. \A i \in 0..(n+1) : g[i] = IF i = 0 THEN dec ELSE DecodeLine(g[i-1], s[i])
    BY <2>3, <2>4
  <2>7. Decodes(g, dec, s, n+1)
    BY <2>5, <2>6 DEF Decodes
  <2>8. QED BY <2>0, <2>7
<1>3. \A n \in Nat : n \in T
  <2> HIDE DEF T
  <2>1. T \in SUBSET Nat
    BY DEF T
  <2>2. QED BY <1>1, <1>2, <2>1, NatInd
<1>4. QED BY <1>3

LEMMA DecodesSteps ==
  ASSUME NEW dec, NEW s, Len(s) \in Nat
  PROVE  \E f : /\ f[0] = dec
                /\ \A i \in 1..Len(s) : f[i] = DecodeLine(f[i-1], s[i])
                /\ DecodeLines(dec, s) = f[Len(s)]
<1> DEFINE f == CHOOSE g : Decodes(g, dec, s, Len(s))
<1>1. Decodes(f, dec, s, Len(s))
  BY DecodesUpTo
<1>2. DecodeLines(dec, s) = f[Len(s)]
  BY DEF DecodeLines, Decodes
<1> HIDE DEF f
<1>3. \A i \in 0..Len(s) : f[i] = IF i = 0 THEN dec ELSE DecodeLine(f[i-1], s[i])
  BY <1>1, Zenon DEF Decodes
<1>4. f[0] = dec
  BY <1>3
<1>5. ASSUME NEW i \in 1..Len(s) PROVE f[i] = DecodeLine(f[i-1], s[i])
  <2>1. i \in 0..Len(s) /\ i # 0
    OBVIOUS
  <2>2. QED BY <1>3, <2>1
<1>6. QED BY <1>2, <1>4, <1>5

LEMMA DecodeLinesEmpty ==
  ASSUME NEW dec
  PROVE  DecodeLines(dec, <<>>) = dec
<1> DEFINE s == <<>>
<1>1. Len(s) = 0
  OBVIOUS
<1> HIDE DEF s
<1>2. PICK f : f[0] = dec /\ DecodeLines(dec, s) = f[Len(s)]
  BY <1>1, DecodesSteps
<1>3. QED BY <1>1, <1>2 DEF s

LEMMA DecodeLinesAppend ==
  ASSUME NEW dec, NEW S, NEW s \in Seq(S), NEW e \in S
  PROVE  DecodeLines(dec, Append(s, e)) = DecodeLine(DecodeLines(dec, s), e)
<1> DEFINE more == Append(s, e)
<1>1. /\ Len(s) \in Nat /\ Len(more) = Len(s) + 1 /\ more[Len(s) + 1] = e
      /\ \A i \in 1..Len(s) : more[i] = s[i]
  BY AppendProperties, LenProperties
<1> HIDE DEF more
<1>2. PICK f : /\ f[0] = dec
               /\ \A i \in 1..Len(s) : f[i] = DecodeLine(f[i-1], s[i])
               /\ DecodeLines(dec, s) = f[Len(s)]
  BY <1>1, DecodesSteps
<1>3. Len(more) \in Nat
  BY <1>1
<1>4. PICK g : /\ g[0] = dec
               /\ \A i \in 1..Len(more) : g[i] = DecodeLine(g[i-1], more[i])
               /\ DecodeLines(dec, more) = g[Len(more)]
  BY <1>3, DecodesSteps
<1> DEFINE T == {i \in Nat : i <= Len(s) => g[i] = f[i]}
<1>5. 0 \in T
  BY <1>2, <1>4
<1>6. ASSUME NEW i \in T PROVE i + 1 \in T
  <2>1. SUFFICES ASSUME i + 1 <= Len(s) PROVE g[i+1] = f[i+1]
    OBVIOUS
  <2>2. i \in Nat /\ i + 1 \in 1..Len(s) /\ i + 1 \in 1..Len(more) /\ (i + 1) - 1 = i
        /\ g[i] = f[i]
    BY <1>1, <2>1
  <2>3. /\ f[i+1] = DecodeLine(f[i], s[i+1])
        /\ g[i+1] = DecodeLine(g[i], more[i+1])
    BY <1>2, <1>4, <2>2
  <2>4. QED BY <1>1, <2>2, <2>3
<1>7. g[Len(s)] = f[Len(s)]
  <2> HIDE DEF T
  <2>1. T \in SUBSET Nat
    BY DEF T
  <2>2. Len(s) \in T
    BY <1>1, <1>5, <1>6, <2>1, NatInd
  <2>3. QED BY <1>1, <2>2 DEF T
<1>8. Len(s) + 1 \in 1..Len(more) /\ (Len(s) + 1) - 1 = Len(s)
  BY <1>1
<1>9. g[Len(s) + 1] = DecodeLine(g[Len(s)], more[Len(s) + 1])
  BY <1>4, <1>8
<1>10. QED
  BY <1>1, <1>2, <1>4, <1>7, <1>9 DEF more

\* f observes the first n frames of s.
Observes(f, dialect, m, s, n) == f = [i \in 0..n |-> IF i = 0 THEN m ELSE Observe(dialect, f[i-1], s[i])]

LEMMA ObservesUpTo ==
  ASSUME NEW dialect, NEW m, NEW s
  PROVE  \A n \in Nat : \E f : Observes(f, dialect, m, s, n)
<1> DEFINE T == {n \in Nat : \E f : Observes(f, dialect, m, s, n)}
<1>1. 0 \in T
  <2>1. Observes([i \in 0..0 |-> m], dialect, m, s, 0)
    BY DEF Observes
  <2>2. QED BY <2>1
<1>2. ASSUME NEW n \in T PROVE n + 1 \in T
  <2>0. n \in Nat
    OBVIOUS
  <2>1. PICK f : Observes(f, dialect, m, s, n)
    BY <1>2
  <2>2. \A i \in 0..n : f[i] = IF i = 0 THEN m ELSE Observe(dialect, f[i-1], s[i])
    BY <2>1, Zenon DEF Observes
  <2> DEFINE g == [i \in 0..(n+1) |-> IF i = 0 THEN m ELSE Observe(dialect, f[i-1], s[i])]
  <2>3. ASSUME NEW i \in 0..(n+1), i # 0 PROVE g[i-1] = f[i-1]
    <3>1. i - 1 \in 0..n /\ i - 1 \in 0..(n+1)
      BY <2>0, <2>3
    <3>2. f[i-1] = IF i - 1 = 0 THEN m ELSE Observe(dialect, f[(i-1)-1], s[i-1])
      BY <2>2, <3>1
    <3>3. g[i-1] = IF i - 1 = 0 THEN m ELSE Observe(dialect, f[(i-1)-1], s[i-1])
      BY <3>1
    <3>4. QED BY <3>2, <3>3
  <2>4. \A i \in 0..(n+1) : g[i] = IF i = 0 THEN m ELSE Observe(dialect, f[i-1], s[i])
    OBVIOUS
  <2>5. g = [i \in 0..(n+1) |-> g[i]]
    OBVIOUS
  <2> HIDE DEF g
  <2>6. \A i \in 0..(n+1) : g[i] = IF i = 0 THEN m ELSE Observe(dialect, g[i-1], s[i])
    BY <2>3, <2>4
  <2>7. Observes(g, dialect, m, s, n+1)
    BY <2>5, <2>6 DEF Observes
  <2>8. QED BY <2>0, <2>7
<1>3. \A n \in Nat : n \in T
  <2> HIDE DEF T
  <2>1. T \in SUBSET Nat
    BY DEF T
  <2>2. QED BY <1>1, <1>2, <2>1, NatInd
<1>4. QED BY <1>3

LEMMA ObservesSteps ==
  ASSUME NEW dialect, NEW m, NEW s, Len(s) \in Nat
  PROVE  \E f : /\ f[0] = m
                /\ \A i \in 1..Len(s) : f[i] = Observe(dialect, f[i-1], s[i])
                /\ ObserveAll(dialect, m, s) = f[Len(s)]
<1> DEFINE f == CHOOSE g : Observes(g, dialect, m, s, Len(s))
<1>1. Observes(f, dialect, m, s, Len(s))
  BY ObservesUpTo
<1>2. ObserveAll(dialect, m, s) = f[Len(s)]
  BY DEF ObserveAll, Observes
<1> HIDE DEF f
<1>3. \A i \in 0..Len(s) : f[i] = IF i = 0 THEN m ELSE Observe(dialect, f[i-1], s[i])
  BY <1>1, Zenon DEF Observes
<1>4. f[0] = m
  BY <1>3
<1>5. ASSUME NEW i \in 1..Len(s) PROVE f[i] = Observe(dialect, f[i-1], s[i])
  <2>1. i \in 0..Len(s) /\ i # 0
    OBVIOUS
  <2>2. QED BY <1>3, <2>1
<1>6. QED BY <1>2, <1>4, <1>5

LEMMA ObserveAllEmpty ==
  ASSUME NEW dialect, NEW m
  PROVE  ObserveAll(dialect, m, <<>>) = m
<1> DEFINE s == <<>>
<1>1. Len(s) = 0
  OBVIOUS
<1> HIDE DEF s
<1>2. PICK f : f[0] = m /\ ObserveAll(dialect, m, s) = f[Len(s)]
  BY <1>1, ObservesSteps
<1>3. QED BY <1>1, <1>2 DEF s

LEMMA ObserveAllAppend ==
  ASSUME NEW dialect, NEW m, NEW S, NEW s \in Seq(S), NEW e \in S
  PROVE  ObserveAll(dialect, m, Append(s, e)) = Observe(dialect, ObserveAll(dialect, m, s), e)
<1> DEFINE more == Append(s, e)
<1>1. /\ Len(s) \in Nat /\ Len(more) = Len(s) + 1 /\ more[Len(s) + 1] = e
      /\ \A i \in 1..Len(s) : more[i] = s[i]
  BY AppendProperties, LenProperties
<1> HIDE DEF more
<1>2. PICK f : /\ f[0] = m
               /\ \A i \in 1..Len(s) : f[i] = Observe(dialect, f[i-1], s[i])
               /\ ObserveAll(dialect, m, s) = f[Len(s)]
  BY <1>1, ObservesSteps
<1>3. Len(more) \in Nat
  BY <1>1
<1>4. PICK g : /\ g[0] = m
               /\ \A i \in 1..Len(more) : g[i] = Observe(dialect, g[i-1], more[i])
               /\ ObserveAll(dialect, m, more) = g[Len(more)]
  BY <1>3, ObservesSteps
<1> DEFINE T == {i \in Nat : i <= Len(s) => g[i] = f[i]}
<1>5. 0 \in T
  BY <1>2, <1>4
<1>6. ASSUME NEW i \in T PROVE i + 1 \in T
  <2>1. SUFFICES ASSUME i + 1 <= Len(s) PROVE g[i+1] = f[i+1]
    OBVIOUS
  <2>2. i \in Nat /\ i + 1 \in 1..Len(s) /\ i + 1 \in 1..Len(more) /\ (i + 1) - 1 = i
        /\ g[i] = f[i]
    BY <1>1, <2>1
  <2>3. /\ f[i+1] = Observe(dialect, f[i], s[i+1])
        /\ g[i+1] = Observe(dialect, g[i], more[i+1])
    BY <1>2, <1>4, <2>2
  <2>4. QED BY <1>1, <2>2, <2>3
<1>7. g[Len(s)] = f[Len(s)]
  <2> HIDE DEF T
  <2>1. T \in SUBSET Nat
    BY DEF T
  <2>2. Len(s) \in T
    BY <1>1, <1>5, <1>6, <2>1, NatInd
  <2>3. QED BY <1>1, <2>2 DEF T
<1>8. Len(s) + 1 \in 1..Len(more) /\ (Len(s) + 1) - 1 = Len(s)
  BY <1>1
<1>9. g[Len(s) + 1] = Observe(dialect, g[Len(s)], more[Len(s) + 1])
  BY <1>4, <1>8
<1>10. QED
  BY <1>1, <1>2, <1>4, <1>7, <1>9 DEF more

LEMMA AppendToConcat ==
  ASSUME NEW S, NEW a \in Seq(S), NEW b \in Seq(S), NEW e \in S
  PROVE  /\ a \o Append(b, e) = Append(a \o b, e)
         /\ a \o b \in Seq(S) /\ Append(b, e) \in Seq(S)
OBVIOUS

LEMMA DecodeLinesConcat ==
  ASSUME NEW dec, NEW S, NEW a \in Seq(S)
  PROVE  \A b \in Seq(S) : DecodeLines(dec, a \o b) = DecodeLines(DecodeLines(dec, a), b)
<1> DEFINE mid == DecodeLines(dec, a)
           T == {b \in Seq(S) : DecodeLines(dec, a \o b) = DecodeLines(mid, b)}
<1> HIDE DEF mid
<1>1. <<>> \in T
  <2>1. a \o <<>> = a /\ <<>> \in Seq(S)
    BY ConcatEmptySeq, EmptySeq
  <2>2. QED BY <2>1, DecodeLinesEmpty DEF mid
<1>2. ASSUME NEW b \in T, NEW e \in S PROVE Append(b, e) \in T
  <2>1. b \in Seq(S) /\ DecodeLines(dec, a \o b) = DecodeLines(mid, b)
    OBVIOUS
  <2> DEFINE ab == a \o b
  <2>2. a \o Append(b, e) = Append(ab, e) /\ ab \in Seq(S) /\ Append(b, e) \in Seq(S)
    BY <2>1, AppendToConcat
  <2> HIDE DEF ab
  <2>3. DecodeLines(dec, Append(ab, e)) = DecodeLine(DecodeLines(dec, ab), e)
    BY <2>2, DecodeLinesAppend
  <2>4. DecodeLines(mid, Append(b, e)) = DecodeLine(DecodeLines(mid, b), e)
    BY <2>1, DecodeLinesAppend
  <2>5. QED BY <2>1, <2>2, <2>3, <2>4 DEF ab
<1>3. T \in SUBSET Seq(S)
  OBVIOUS
<1>4. \A b \in Seq(S) : b \in T
  <2> HIDE DEF T
  <2> QED BY <1>1, <1>2, <1>3, SnocInd
<1>5. QED BY <1>4 DEF mid

LEMMA ObserveAllConcat ==
  ASSUME NEW dialect, NEW m, NEW S, NEW a \in Seq(S)
  PROVE  \A b \in Seq(S) :
           ObserveAll(dialect, m, a \o b) = ObserveAll(dialect, ObserveAll(dialect, m, a), b)
<1> DEFINE mid == ObserveAll(dialect, m, a)
           T == {b \in Seq(S) : ObserveAll(dialect, m, a \o b) = ObserveAll(dialect, mid, b)}
<1> HIDE DEF mid
<1>1. <<>> \in T
  <2>1. a \o <<>> = a /\ <<>> \in Seq(S)
    BY ConcatEmptySeq, EmptySeq
  <2>2. QED BY <2>1, ObserveAllEmpty DEF mid
<1>2. ASSUME NEW b \in T, NEW e \in S PROVE Append(b, e) \in T
  <2>1. b \in Seq(S) /\ ObserveAll(dialect, m, a \o b) = ObserveAll(dialect, mid, b)
    OBVIOUS
  <2> DEFINE ab == a \o b
  <2>2. a \o Append(b, e) = Append(ab, e) /\ ab \in Seq(S) /\ Append(b, e) \in Seq(S)
    BY <2>1, AppendToConcat
  <2> HIDE DEF ab
  <2>3. ObserveAll(dialect, m, Append(ab, e)) = Observe(dialect, ObserveAll(dialect, m, ab), e)
    BY <2>2, ObserveAllAppend
  <2>4. ObserveAll(dialect, mid, Append(b, e)) = Observe(dialect, ObserveAll(dialect, mid, b), e)
    BY <2>1, ObserveAllAppend
  <2>5. QED BY <2>1, <2>2, <2>3, <2>4 DEF ab
<1>3. T \in SUBSET Seq(S)
  OBVIOUS
<1>4. \A b \in Seq(S) : b \in T
  <2> HIDE DEF T
  <2> QED BY <1>1, <1>2, <1>3, SnocInd
<1>5. QED BY <1>4 DEF mid

-----------------------------------------------------------------------------
(***************************************************************************)
(* Lines.                                                                  *)
(***************************************************************************)
LEMMA SplitLines ==
  ASSUME NEW X
  PROVE  \A s \in Seq(X) :
           /\ Split(s) = [lines |-> Split(s).lines, rest |-> Split(s).rest]
           /\ Split(s).lines \in Seq(Seq(X \ {NL})) /\ Split(s).rest \in Seq(X \ {NL})
<1> DEFINE P == X \ {NL}
           Q == Seq(P)
           Typed(b) == b = [lines |-> b.lines, rest |-> b.rest] /\ b.lines \in Seq(Q) /\ b.rest \in Q
           T == {s \in Seq(X) : Typed(Split(s))}
<1>0. /\ <<>> \in Q /\ <<>> \in Seq(Q) /\ <<>> \in Seq(X)
      /\ \A q \in Q, e \in X : e # NL => Append(q, e) \in Q
  BY EmptySeq, AppendProperties
<1> HIDE DEF P, Q
<1>1. <<>> \in T
  <2>1. PICK b : b = Split(<<>>)
    OBVIOUS
  <2>2. b = [lines |-> <<>>, rest |-> <<>>]
    BY <2>1, SplitEmpty
  <2>3. Typed(b)
    BY <1>0, <2>2
  <2>4. QED BY <1>0, <2>1, <2>3
<1>2. ASSUME NEW s \in T, NEW e \in X PROVE Append(s, e) \in T
  <2>1. s \in Seq(X) /\ Typed(Split(s)) /\ Append(s, e) \in Seq(X)
    BY AppendProperties
  <2>2. Split(Append(s, e)) = SplitByte(Split(s), e)
    BY <2>1, SplitAppend
  <2> DEFINE b == Split(s)
  <2>3. Typed(b)
    BY <2>1
  <2> HIDE DEF b
  <2>4. CASE e = NL
    <3>1. SplitByte(b, e) = [lines |-> Append(b.lines, b.rest), rest |-> <<>>]
      BY <2>4 DEF SplitByte
    <3>2. Append(b.lines, b.rest) \in Seq(Q) /\ <<>> \in Q
      BY <1>0, <2>3, AppendProperties
    <3>3. Typed(SplitByte(b, e))
      BY <3>1, <3>2
    <3>4. QED BY <2>1, <2>2, <3>3 DEF b
  <2>5. CASE e # NL
    <3>1. SplitByte(b, e) = [lines |-> b.lines, rest |-> Append(b.rest, e)]
      BY <2>3, <2>5 DEF SplitByte
    <3>2. Append(b.rest, e) \in Q
      BY <1>0, <2>3, <2>5
    <3>3. Typed(SplitByte(b, e))
      BY <2>3, <3>1, <3>2
    <3>4. QED BY <2>1, <2>2, <3>3 DEF b
  <2>6. QED BY <2>4, <2>5
<1>3. T \in SUBSET Seq(X)
  OBVIOUS
<1>4. \A s \in Seq(X) : s \in T
  <2> HIDE DEF T
  <2> QED BY <1>1, <1>2, <1>3, SnocInd
<1>5. QED BY <1>4 DEF P, Q

\* What has no newline is no line yet.
LEMMA SplitPlain ==
  ASSUME NEW X
  PROVE  \A s \in Seq(X \ {NL}) : Split(s) = [lines |-> <<>>, rest |-> s]
<1> DEFINE P == X \ {NL}
           T == {s \in Seq(P) : Split(s) = [lines |-> <<>>, rest |-> s]}
<1>0. \A e \in P : e # NL
  OBVIOUS
<1> HIDE DEF P
<1>1. <<>> \in T
  BY SplitEmpty, EmptySeq
<1>2. ASSUME NEW s \in T, NEW e \in P PROVE Append(s, e) \in T
  <2>1. s \in Seq(P) /\ Split(s) = [lines |-> <<>>, rest |-> s] /\ Append(s, e) \in Seq(P)
    BY AppendProperties
  <2>2. Split(Append(s, e)) = SplitByte(Split(s), e)
    BY <2>1, SplitAppend
  <2>3. QED BY <1>0, <2>1, <2>2 DEF SplitByte
<1>3. T \in SUBSET Seq(P)
  OBVIOUS
<1>4. \A s \in Seq(P) : s \in T
  <2> HIDE DEF T
  <2> QED BY <1>1, <1>2, <1>3, SnocInd
<1>5. QED BY <1>4 DEF P

\* The lines of c and then chunk: those of c, and those that chunk makes of
\* what c left over.
LEMMA SplitConcat ==
  ASSUME NEW X, NEW c \in Seq(X)
  PROVE  \A u \in Seq(X) :
           LET more == Split(Split(c).rest \o u)
           IN  Split(c \o u) = [lines |-> Split(c).lines \o more.lines, rest |-> more.rest]
<1> DEFINE Q == Seq(X \ {NL})
           l == Split(c).lines
           r == Split(c).rest
           Goes(u) == Split(c \o u) = [lines |-> l \o Split(r \o u).lines, rest |-> Split(r \o u).rest]
           T == {u \in Seq(X) : Goes(u)}
<1>1. Split(c) = [lines |-> l, rest |-> r] /\ l \in Seq(Q) /\ r \in Q
  BY SplitLines
<1>2. r \in Seq(X)
  BY <1>1
<1>3. Split(r) = [lines |-> <<>>, rest |-> r]
  BY <1>1, SplitPlain
<1>4. \A s \in Seq(X) : /\ Split(s) = [lines |-> Split(s).lines, rest |-> Split(s).rest]
                        /\ Split(s).lines \in Seq(Q) /\ Split(s).rest \in Q
  BY SplitLines
<1> HIDE DEF Q, l, r
<1>5. \A a, b \in Seq(Q) : \A q \in Q : Append(a \o b, q) = a \o Append(b, q)
  <2> HIDE DEF Goes, T
  <2>1. SUFFICES ASSUME NEW a \in Seq(Q), NEW b \in Seq(Q), NEW q \in Q
                 PROVE  Append(a \o b, q) = a \o Append(b, q)
    OBVIOUS
  <2>2. /\ a \o Append(b, q) = Append(a \o b, q)
        /\ a \o b \in Seq(Q) /\ Append(b, q) \in Seq(Q)
    BY AppendToConcat
  <2> QED BY <2>2
<1>6. <<>> \in T
  <2>1. c \o <<>> = c /\ r \o <<>> = r /\ l \o <<>> = l /\ <<>> \in Seq(X)
    BY <1>1, <1>2, ConcatEmptySeq, EmptySeq
  <2>2. Goes(<<>>)
    BY <1>1, <1>3, <2>1
  <2>3. QED BY <2>1, <2>2
<1>7. ASSUME NEW u \in T, NEW e \in X PROVE Append(u, e) \in T
  <2>1. u \in Seq(X) /\ Goes(u)
    OBVIOUS
  <2> DEFINE cu == c \o u
             ru == r \o u
             b == Split(ru)
             w == [lines |-> l \o b.lines, rest |-> b.rest]
  <2>2. /\ c \o Append(u, e) = Append(cu, e) /\ r \o Append(u, e) = Append(ru, e)
        /\ cu \in Seq(X) /\ ru \in Seq(X) /\ Append(u, e) \in Seq(X)
    BY <1>2, <2>1, AppendToConcat
  <2>3. Split(cu) = w
    BY <2>1
  <2> HIDE DEF cu, ru
  <2>4. b = [lines |-> b.lines, rest |-> b.rest] /\ b.lines \in Seq(Q) /\ b.rest \in Q
    BY <1>4, <2>2
  <2>5. Split(Append(cu, e)) = SplitByte(w, e) /\ Split(Append(ru, e)) = SplitByte(b, e)
    BY <2>2, <2>3, SplitAppend
  <2> HIDE DEF b
  <2> DEFINE x == SplitByte(b, e)
             y == SplitByte(w, e)
  <2>6. y = [lines |-> l \o x.lines, rest |-> x.rest]
    <3>1. CASE e = NL
      <4>1. x = [lines |-> Append(b.lines, b.rest), rest |-> <<>>]
        BY <3>1 DEF SplitByte
      <4>2. y = [lines |-> Append(l \o b.lines, b.rest), rest |-> <<>>]
        BY <3>1 DEF SplitByte
      <4> HIDE DEF x, y
      <4>3. Append(l \o b.lines, b.rest) = l \o Append(b.lines, b.rest)
        BY <1>1, <1>5, <2>4
      <4>4. x.lines = Append(b.lines, b.rest) /\ x.rest = <<>>
        BY <4>1
      <4>5. QED BY <4>2, <4>3, <4>4
    <3>2. CASE e # NL
      <4>1. x = [lines |-> b.lines, rest |-> Append(b.rest, e)]
        BY <2>4, <3>2 DEF SplitByte
      <4>2. y = [lines |-> l \o b.lines, rest |-> Append(b.rest, e)]
        BY <3>2 DEF SplitByte
      <4> HIDE DEF x, y
      <4>3. QED BY <4>1, <4>2
    <3>3. QED BY <3>1, <3>2
  <2>7. Goes(Append(u, e))
    BY <2>2, <2>5, <2>6
  <2>8. QED BY <2>2, <2>7
<1>8. T \in SUBSET Seq(X)
  OBVIOUS
<1>9. \A u \in Seq(X) : u \in T
  <2> HIDE DEF T
  <2> QED BY <1>6, <1>7, <1>8, SnocInd
<1>10. QED BY <1>9 DEF l, r

-----------------------------------------------------------------------------
(***************************************************************************)
(* The decoder.                                                            *)
(***************************************************************************)
\* What bytes of X can name, and what payloads they show to their end.
Names(X) == {x.value : x \in {y \in X : y.field = "event"}} \cup {None, Garbage}
Shown(X) == {x.value : x \in {y \in X : y.field \in {"data", "raw"} /\ y.part = 2}} \cup {Garbage}
FramesOf(X) == [event : Names(X), data : Shown(X)]

\* A decoder that has read bytes of X only.
DecoderOf(X, d) ==
  /\ d = [buf |-> d.buf, event |-> d.event, data |-> d.data, out |-> d.out]
  /\ d.buf \in Seq(X \ {NL}) /\ d.event \in Names(X)
  /\ d.data \in Seq(Shown(X)) /\ d.out \in Seq(FramesOf(X))

LEMMA LineValue ==
  ASSUME NEW X, NEW line \in Seq(X), line # <<>>
  PROVE  /\ Field(line) = "event" => Value(line) \in Names(X)
         /\ Field(line) \in {"data", "raw"} => Value(line) \in Shown(X)
<1>1. line[1] \in X /\ Len(line) \in Nat /\ Len(line) >= 1
  BY EmptySeq, ElementOfSeq, LenProperties
<1>2. CASE line # Text(line[1].field, line[1].value)
  BY <1>2 DEF Value, Names, Shown
<1>3. CASE line = Text(line[1].field, line[1].value)
  <2> DEFINE f == line[1].field
             v == line[1].value
             h == Half(f, v, 2)
  <2>1. Value(line) = v
    BY <1>3 DEF Value
  <2>2. line = <<Half(f, v, 1), h>>
    BY <1>3 DEF Text
  <2> HIDE DEF f, v
  <2>3. line[2] = h /\ Len(line) = 2
    BY <2>2
  <2>4. h \in X
    BY <2>3, ElementOfSeq
  <2>5. h.field = f /\ h.value = v /\ h.part = 2
    BY DEF Half
  <2> HIDE DEF h
  <2>6. Field(line) \in {"event", "data", "raw"} => Field(line) = f
    BY DEF Field, f
  <2>7. f = "event" => v \in Names(X)
    BY <2>4, <2>5 DEF Names
  <2>8. f \in {"data", "raw"} => v \in Shown(X)
    BY <2>4, <2>5 DEF Shown
  <2>9. QED BY <2>1, <2>6, <2>7, <2>8
<1>4. QED BY <1>2, <1>3

\* The frame that EmitFrame appends.
FrameOf(d) == [event |-> d.event, data |-> IF Len(d.data) = 1 THEN d.data[1] ELSE Garbage]

LEMMA EmitDecoder ==
  ASSUME NEW X, NEW d, DecoderOf(X, d)
  PROVE  /\ EmitFrame(d) = [buf |-> d.buf, event |-> None, data |-> <<>>,
                            out |-> Append(d.out, FrameOf(d))]
         /\ FrameOf(d) \in FramesOf(X) /\ DecoderOf(X, EmitFrame(d))
<1>1. EmitFrame(d) = [buf |-> d.buf, event |-> None, data |-> <<>>, out |-> Append(d.out, FrameOf(d))]
  <2> DEFINE fr == FrameOf(d)
  <2>1. EmitFrame(d) = [d EXCEPT !.event = None, !.data = <<>>, !.out = Append(d.out, fr)]
    BY DEF EmitFrame, FrameOf
  <2> HIDE DEF fr
  <2>2. d = [buf |-> d.buf, event |-> d.event, data |-> d.data, out |-> d.out]
    BY DEF DecoderOf
  <2>3. QED BY <2>1, <2>2 DEF fr
<1>2. FrameOf(d) \in FramesOf(X)
  <2>1. d.event \in Names(X) /\ d.data \in Seq(Shown(X)) /\ Garbage \in Shown(X)
    BY DEF DecoderOf, Shown
  <2>2. Len(d.data) = 1 => d.data[1] \in Shown(X)
    BY <2>1, ElementOfSeq
  <2>3. (IF Len(d.data) = 1 THEN d.data[1] ELSE Garbage) \in Shown(X)
    BY <2>1, <2>2
  <2>4. QED BY <2>1, <2>3 DEF FrameOf, FramesOf
<1>3. /\ d.buf \in Seq(X \ {NL}) /\ None \in Names(X) /\ <<>> \in Seq(Shown(X))
      /\ Append(d.out, FrameOf(d)) \in Seq(FramesOf(X))
  BY <1>2, AppendProperties, EmptySeq DEF DecoderOf, Names
<1> DEFINE out == Append(d.out, FrameOf(d))
           e == EmitFrame(d)
<1> HIDE DEF out, e
<1>4. e = [buf |-> d.buf, event |-> None, data |-> <<>>, out |-> out]
  BY <1>1 DEF out, e
<1>5. DecoderOf(X, e)
  BY <1>3, <1>4 DEF DecoderOf, out
<1>6. QED BY <1>1, <1>2, <1>5 DEF e

\* Two decoders at the same place of an event, of which d has emitted o more.
Alike(d, e, o) == d.event = e.event /\ d.data = e.data /\ d.out = o \o e.out

\* Its fields after a change of one or two of them.
LEMMA DecoderExcept ==
  ASSUME NEW d, d = [buf |-> d.buf, event |-> d.event, data |-> d.data, out |-> d.out],
         NEW v
  PROVE  /\ [d EXCEPT !.event = v] = [buf |-> d.buf, event |-> v, data |-> d.data, out |-> d.out]
         /\ [d EXCEPT !.data = v] = [buf |-> d.buf, event |-> d.event, data |-> v, out |-> d.out]
         /\ [d EXCEPT !.out = v] = [buf |-> d.buf, event |-> d.event, data |-> d.data, out |-> v]
<1>1. PICK b, e, t, o : b = d.buf /\ e = d.event /\ t = d.data /\ o = d.out
  OBVIOUS
<1>2. d = [buf |-> b, event |-> e, data |-> t, out |-> o]
  BY <1>1
<1>3. [d EXCEPT !.event = v] = [buf |-> b, event |-> v, data |-> t, out |-> o]
  BY <1>2
<1>4. [d EXCEPT !.data = v] = [buf |-> b, event |-> e, data |-> v, out |-> o]
  BY <1>2
<1>5. [d EXCEPT !.out = v] = [buf |-> b, event |-> e, data |-> t, out |-> v]
  BY <1>2
<1>6. QED BY <1>1, <1>3, <1>4, <1>5, Zenon

Reset(d, v, w) == [d EXCEPT !.buf = v, !.out = w]

LEMMA DecoderExceptTwo ==
  \A d, v, w :
    d = [buf |-> d.buf, event |-> d.event, data |-> d.data, out |-> d.out]
      => Reset(d, v, w) = [buf |-> v, event |-> d.event, data |-> d.data, out |-> w]
<1>1. SUFFICES ASSUME NEW d, NEW v, NEW w,
                      d = [buf |-> d.buf, event |-> d.event, data |-> d.data, out |-> d.out]
               PROVE  Reset(d, v, w)
                        = [buf |-> v, event |-> d.event, data |-> d.data, out |-> w]
  OBVIOUS
<1>2. PICK b, e, t, o : b = d.buf /\ e = d.event /\ t = d.data /\ o = d.out
  OBVIOUS
<1>3. d = [buf |-> b, event |-> e, data |-> t, out |-> o]
  BY <1>1, <1>2
<1>4. [d EXCEPT !.buf = v, !.out = w] = [buf |-> v, event |-> e, data |-> t, out |-> w]
  <2>1. [d EXCEPT !.buf = v] = [buf |-> v, event |-> e, data |-> t, out |-> o]
    BY <1>3
  <2>2. [d EXCEPT !.buf = v, !.out = w] = [[d EXCEPT !.buf = v] EXCEPT !.out = w]
    BY Zenon
  <2> DEFINE x == [d EXCEPT !.buf = v]
  <2> HIDE DEF x
  <2>3. [x EXCEPT !.out = w] = [buf |-> v, event |-> e, data |-> t, out |-> w]
    <3>1. x = [buf |-> v, event |-> e, data |-> t, out |-> o]
      BY <2>1 DEF x
    <3>2. QED BY <3>1
  <2>4. QED BY <2>2, <2>3 DEF x
<1>5. Reset(d, v, w) = [buf |-> v, event |-> e, data |-> t, out |-> w]
  BY <1>4 DEF Reset
<1>6. QED BY <1>2, <1>5, Zenon

LEMMA DecodeAlike ==
  ASSUME NEW X, NEW d, DecoderOf(X, d), NEW line \in Seq(X \ {NL})
  PROVE  /\ DecoderOf(X, DecodeLine(d, line)) /\ DecodeLine(d, line).buf = d.buf
         /\ \A e : \A o \in Seq(FramesOf(X)) :
              DecoderOf(X, e) /\ Alike(d, e, o)
                => Alike(DecodeLine(d, line), DecodeLine(e, line), o)
<1>0. /\ d = [buf |-> d.buf, event |-> d.event, data |-> d.data, out |-> d.out]
      /\ d.buf \in Seq(X \ {NL}) /\ d.event \in Names(X)
      /\ d.data \in Seq(Shown(X)) /\ d.out \in Seq(FramesOf(X))
  BY DEF DecoderOf
<1>0a. ASSUME NEW e, DecoderOf(X, e)
       PROVE  /\ e = [buf |-> e.buf, event |-> e.event, data |-> e.data, out |-> e.out]
              /\ e.out \in Seq(FramesOf(X))
  BY <1>0a DEF DecoderOf
<1>0b. line \in Seq(X)
  OBVIOUS
<1>1. CASE line = <<>>
  <2>1. \A e : DecodeLine(e, line) = IF Pending(e) THEN EmitFrame(e) ELSE e
    BY <1>1 DEF DecodeLine
  <2>2. CASE Pending(d)
    <3>1. /\ EmitFrame(d) = [buf |-> d.buf, event |-> None, data |-> <<>>,
                             out |-> Append(d.out, FrameOf(d))]
          /\ FrameOf(d) \in FramesOf(X) /\ DecoderOf(X, EmitFrame(d))
      BY EmitDecoder
    <3>2. DecodeLine(d, line) = EmitFrame(d)
      BY <2>1, <2>2
    <3>3. ASSUME NEW e, NEW o \in Seq(FramesOf(X)), DecoderOf(X, e), Alike(d, e, o)
          PROVE  Alike(DecodeLine(d, line), DecodeLine(e, line), o)
      <4>1. /\ EmitFrame(e) = [buf |-> e.buf, event |-> None, data |-> <<>>,
                               out |-> Append(e.out, FrameOf(e))]
            /\ FrameOf(e) \in FramesOf(X) /\ DecoderOf(X, EmitFrame(e))
        BY <3>3, EmitDecoder
      <4>2. DecodeLine(e, line) = EmitFrame(e) /\ FrameOf(e) = FrameOf(d)
        BY <2>1, <2>2, <3>3 DEF Pending, Alike, FrameOf
      <4> DEFINE fr == FrameOf(e)
                 x == EmitFrame(d)
                 y == EmitFrame(e)
      <4>3. e.out \in Seq(FramesOf(X)) /\ fr \in FramesOf(X)
        BY <1>0a, <3>3, <4>1
      <4>4. /\ x.event = None /\ y.event = None /\ x.data = <<>> /\ y.data = <<>>
            /\ x.out = Append(d.out, fr) /\ y.out = Append(e.out, fr)
        BY <3>1, <4>1, <4>2
      <4> HIDE DEF fr, x, y
      <4>5. /\ o \o Append(e.out, fr) = Append(o \o e.out, fr)
            /\ o \o e.out \in Seq(FramesOf(X)) /\ Append(e.out, fr) \in Seq(FramesOf(X))
        BY <4>3, AppendToConcat
      <4>6. d.out = o \o e.out
        BY <3>3 DEF Alike
      <4>7. Alike(x, y, o)
        BY <4>4, <4>5, <4>6 DEF Alike
      <4>8. QED BY <3>2, <4>2, <4>7 DEF x, y
    <3>4. EmitFrame(d).buf = d.buf
      BY <3>1
    <3>5. QED BY <3>1, <3>2, <3>3, <3>4
  <2>3. CASE ~Pending(d)
    BY <2>1, <2>3 DEF Alike, Pending
  <2>4. QED BY <2>2, <2>3
<1>2. CASE line # <<>> /\ Field(line) = "event"
  <2> DEFINE v == Value(line)
  <2>1. \A e : DecodeLine(e, line) = [e EXCEPT !.event = v]
    BY <1>2 DEF DecodeLine
  <2>2. v \in Names(X)
    BY <1>0b, <1>2, LineValue
  <2> HIDE DEF v
  <2> DEFINE With(e) == [e EXCEPT !.event = v]
  <2>2a. ASSUME NEW e, e = [buf |-> e.buf, event |-> e.event, data |-> e.data, out |-> e.out]
         PROVE  With(e) = [buf |-> e.buf, event |-> v, data |-> e.data, out |-> e.out]
    BY <2>2a, DecoderExcept
  <2>2b. With(d) = [buf |-> d.buf, event |-> v, data |-> d.data, out |-> d.out]
    BY <1>0, <2>2a
  <2>2c. \A e : DecodeLine(e, line) = With(e)
    BY <2>1
  <2> HIDE DEF With
  <2>3. DecoderOf(X, With(d)) /\ With(d).buf = d.buf
    BY <1>0, <2>2, <2>2b DEF DecoderOf
  <2>4. ASSUME NEW e, NEW o \in Seq(FramesOf(X)), DecoderOf(X, e), Alike(d, e, o)
        PROVE  Alike(With(d), With(e), o)
    <3>1. With(e) = [buf |-> e.buf, event |-> v, data |-> e.data, out |-> e.out]
      BY <1>0a, <2>2a, <2>4
    <3>2. d.data = e.data /\ d.out = o \o e.out
      BY <2>4 DEF Alike
    <3>3. QED BY <2>2b, <3>1, <3>2 DEF Alike
  <2>5. QED BY <2>2c, <2>3, <2>4
<1>3. CASE line # <<>> /\ Field(line) = "data"
  <2> DEFINE v == Value(line)
  <2>1. \A e : DecodeLine(e, line) = [e EXCEPT !.data = Append(e.data, v)]
    BY <1>3 DEF DecodeLine
  <2>2. v \in Shown(X)
    BY <1>0b, <1>3, LineValue
  <2> HIDE DEF v
  <2>3. Append(d.data, v) \in Seq(Shown(X))
    BY <1>0, <2>2, AppendProperties
  <2> DEFINE more == Append(d.data, v)
  <2> HIDE DEF more
  <2> DEFINE With(e) == [e EXCEPT !.data = more]
  <2>3a. ASSUME NEW e, e = [buf |-> e.buf, event |-> e.event, data |-> e.data, out |-> e.out]
         PROVE  With(e) = [buf |-> e.buf, event |-> e.event, data |-> more, out |-> e.out]
    BY <2>3a, DecoderExcept
  <2>3b. With(d) = [buf |-> d.buf, event |-> d.event, data |-> more, out |-> d.out]
    BY <1>0, <2>3a
  <2>3c. \A e : Append(e.data, v) = more => DecodeLine(e, line) = With(e)
    BY <2>1
  <2>3d. DecodeLine(d, line) = With(d)
    BY <2>3c DEF more
  <2> HIDE DEF With
  <2>4. DecoderOf(X, With(d)) /\ With(d).buf = d.buf
    BY <1>0, <2>3, <2>3b DEF DecoderOf, more
  <2>5. ASSUME NEW e, NEW o \in Seq(FramesOf(X)), DecoderOf(X, e), Alike(d, e, o)
        PROVE  Append(e.data, v) = more /\ Alike(With(d), With(e), o)
    <3>1. Append(e.data, v) = more
      BY <2>5 DEF Alike, more
    <3>2. With(e) = [buf |-> e.buf, event |-> e.event, data |-> more, out |-> e.out]
      BY <1>0a, <2>3a, <2>5
    <3>3. d.event = e.event /\ d.out = o \o e.out
      BY <2>5 DEF Alike
    <3>4. QED BY <2>3b, <3>1, <3>2, <3>3 DEF Alike
  <2>6. QED BY <2>3c, <2>3d, <2>4, <2>5
<1>4. CASE line # <<>> /\ Field(line) \notin {"event", "data"}
  <2>1. \A e : DecodeLine(e, line) = e
    BY <1>4 DEF DecodeLine
  <2>2. QED BY <2>1
<1>5. QED BY <1>1, <1>2, <1>3, <1>4

LEMMA LinesAlike ==
  ASSUME NEW X, NEW d, DecoderOf(X, d)
  PROVE  \A ls \in Seq(Seq(X \ {NL})) :
           /\ DecoderOf(X, DecodeLines(d, ls)) /\ DecodeLines(d, ls).buf = d.buf
           /\ \A e : \A o \in Seq(FramesOf(X)) :
                DecoderOf(X, e) /\ Alike(d, e, o)
                  => /\ DecoderOf(X, DecodeLines(e, ls))
                     /\ Alike(DecodeLines(d, ls), DecodeLines(e, ls), o)
<1> DEFINE Q == Seq(X \ {NL})
           Goes(ls) ==
             /\ DecoderOf(X, DecodeLines(d, ls)) /\ DecodeLines(d, ls).buf = d.buf
             /\ \A e : \A o \in Seq(FramesOf(X)) :
                  DecoderOf(X, e) /\ Alike(d, e, o)
                    => /\ DecoderOf(X, DecodeLines(e, ls))
                       /\ Alike(DecodeLines(d, ls), DecodeLines(e, ls), o)
           T == {ls \in Seq(Q) : Goes(ls)}
<1>0. ASSUME NEW x, DecoderOf(X, x), NEW q \in Q
      PROVE  /\ DecoderOf(X, DecodeLine(x, q)) /\ DecodeLine(x, q).buf = x.buf
             /\ \A e : \A o \in Seq(FramesOf(X)) :
                  DecoderOf(X, e) /\ Alike(x, e, o)
                    => Alike(DecodeLine(x, q), DecodeLine(e, q), o)
  BY <1>0, DecodeAlike
<1> HIDE DEF Q
<1>1. <<>> \in T
  <2>1. \A e : DecodeLines(e, <<>>) = e
    BY DecodeLinesEmpty
  <2>2. QED BY <2>1, EmptySeq
<1>2. ASSUME NEW ls \in T, NEW q \in Q PROVE Append(ls, q) \in T
  <2>1. ls \in Seq(Q) /\ Goes(ls) /\ Append(ls, q) \in Seq(Q)
    BY AppendProperties
  <2>2. \A e : DecodeLines(e, Append(ls, q)) = DecodeLine(DecodeLines(e, ls), q)
    BY <2>1, DecodeLinesAppend
  <2> DEFINE x == DecodeLines(d, ls)
  <2>3. DecoderOf(X, x) /\ x.buf = d.buf
    BY <2>1
  <2>4. /\ DecoderOf(X, DecodeLine(x, q)) /\ DecodeLine(x, q).buf = x.buf
        /\ \A e : \A o \in Seq(FramesOf(X)) :
             DecoderOf(X, e) /\ Alike(x, e, o) => Alike(DecodeLine(x, q), DecodeLine(e, q), o)
    BY <1>0, <2>3
  <2> HIDE DEF x
  <2>5. ASSUME NEW e, NEW o \in Seq(FramesOf(X)), DecoderOf(X, e), Alike(d, e, o)
        PROVE  /\ DecoderOf(X, DecodeLine(DecodeLines(e, ls), q))
               /\ Alike(DecodeLine(x, q), DecodeLine(DecodeLines(e, ls), q), o)
    <3> DEFINE y == DecodeLines(e, ls)
    <3>1. DecoderOf(X, y) /\ Alike(x, y, o)
      BY <2>1, <2>5 DEF x
    <3> HIDE DEF y
    <3>2. DecoderOf(X, DecodeLine(y, q))
      BY <1>0, <3>1
    <3>3. Alike(DecodeLine(x, q), DecodeLine(y, q), o)
      BY <2>4, <3>1
    <3>4. QED BY <3>2, <3>3 DEF y
  <2>6. DecodeLines(d, Append(ls, q)) = DecodeLine(x, q)
    BY <2>2 DEF x
  <2>7. Goes(Append(ls, q))
    BY <2>2, <2>3, <2>4, <2>5, <2>6
  <2>8. QED BY <2>1, <2>7
<1>3. T \in SUBSET Seq(Q)
  OBVIOUS
<1>4. \A ls \in Seq(Q) : ls \in T
  <2> HIDE DEF T
  <2> QED BY <1>1, <1>2, <1>3, SnocInd
<1>5. QED BY <1>4 DEF Q

-----------------------------------------------------------------------------
(***************************************************************************)
(* Chunks.                                                                 *)
(***************************************************************************)
\* d as a call of push starts on it, with r still in the buffer.
Started(d, r) == [d EXCEPT !.buf = r, !.out = <<>>]

LEMMA StartedDecoder ==
  ASSUME NEW X, NEW d, DecoderOf(X, d), NEW r \in Seq(X \ {NL})
  PROVE  /\ DecoderOf(X, Started(d, r))
         /\ Started(d, r) = [buf |-> r, event |-> d.event, data |-> d.data, out |-> <<>>]
<1>1. /\ d = [buf |-> d.buf, event |-> d.event, data |-> d.data, out |-> d.out]
      /\ d.event \in Names(X) /\ d.data \in Seq(Shown(X))
  BY DEF DecoderOf
<1>2. Started(d, r) = [buf |-> r, event |-> d.event, data |-> d.data, out |-> <<>>]
  <2> DEFINE e == <<>>
  <2>1. Started(d, r) = Reset(d, r, e)
    BY Zenon DEF Started, Reset
  <2> HIDE DEF e
  <2>2. Reset(d, r, e) = [buf |-> r, event |-> d.event, data |-> d.data, out |-> e]
    BY <1>1, DecoderExceptTwo, Zenon
  <2>3. QED BY <2>1, <2>2 DEF e
<1>3. <<>> \in Seq(FramesOf(X))
  BY EmptySeq
<1> DEFINE s == Started(d, r)
<1>4. s = [buf |-> r, event |-> d.event, data |-> d.data, out |-> <<>>]
  BY <1>2
<1> HIDE DEF s
<1>5. DecoderOf(X, s)
  BY <1>1, <1>3, <1>4 DEF DecoderOf
<1>6. QED BY <1>2, <1>5 DEF s

\* p is d after a call of push.
Pushed(X, d, u, p) ==
  LET s == Split(d.buf \o u)
  IN  /\ d.buf \o u \in Seq(X) /\ s.rest \in Seq(X \ {NL}) /\ s.lines \in Seq(Seq(X \ {NL}))
      /\ p = DecodeLines(Started(d, s.rest), s.lines)
      /\ DecoderOf(X, p) /\ p.buf = s.rest

LEMMA PushDecoder ==
  ASSUME NEW X, NEW d, DecoderOf(X, d), NEW u \in Seq(X)
  PROVE  Pushed(X, d, u, Push(d, u))
<1> DEFINE b == d.buf \o u
           r == Split(b).rest
           ls == Split(b).lines
<1>1. b \in Seq(X)
  <2>1. d.buf \in Seq(X)
    BY DEF DecoderOf
  <2>2. QED BY <2>1, ConcatProperties
<1>2. Push(d, u) = DecodeLines(Started(d, r), ls)
  BY DEF Push, Started
<1> HIDE DEF b
<1>3. r \in Seq(X \ {NL}) /\ ls \in Seq(Seq(X \ {NL}))
  BY <1>1, SplitLines
<1> HIDE DEF r, ls
<1> DEFINE x == Started(d, r)
<1>4. DecoderOf(X, x) /\ x.buf = r
  <2>1. /\ DecoderOf(X, x)
        /\ x = [buf |-> r, event |-> d.event, data |-> d.data, out |-> <<>>]
    BY <1>3, StartedDecoder
  <2> HIDE DEF x
  <2>2. QED BY <2>1
<1> HIDE DEF x
<1>5. DecoderOf(X, DecodeLines(x, ls)) /\ DecodeLines(x, ls).buf = x.buf
  BY <1>3, <1>4, LinesAlike
<1>6. QED BY <1>1, <1>2, <1>3, <1>4, <1>5 DEF b, r, ls, x, Pushed

\* Two decoders at the same place of the stream.
SameSpot(d, e) == d.buf = e.buf /\ d.event = e.event /\ d.data = e.data

LEMMA FreshDecoder ==
  ASSUME NEW X
  PROVE  DecoderOf(X, NewDecoder) /\ NewDecoder.buf = <<>>
<1> DEFINE e == <<>>
<1>1. e \in Seq(X \ {NL}) /\ e \in Seq(Shown(X)) /\ e \in Seq(FramesOf(X)) /\ None \in Names(X)
  BY EmptySeq DEF Names
<1>2. NewDecoder = [buf |-> e, event |-> None, data |-> e, out |-> e]
  BY DEF NewDecoder
<1> HIDE DEF e
<1>3. DecoderOf(X, NewDecoder) /\ NewDecoder.buf = e
  BY <1>1, <1>2 DEF DecoderOf
<1>4. QED BY <1>3 DEF e

\* d, which c brought to its place, has been pushed u.
PushedOn(c, u, d) ==
  /\ SameSpot(Push(d, u), Push(NewDecoder, c \o u))
  /\ Push(NewDecoder, c \o u).out = Push(NewDecoder, c).out \o Push(d, u).out

\* SseDecoder::push: a decoder that is where c brings a new one is brought by
\* u to where c and u at once bring it, and emits what they do beyond c.
LEMMA PushTwice ==
  ASSUME NEW X, NEW c \in Seq(X), NEW u \in Seq(X), NEW d, DecoderOf(X, d),
         SameSpot(d, Push(NewDecoder, c))
  PROVE  PushedOn(c, u, d)
<1> DEFINE Q == Seq(X \ {NL})
           w == Push(NewDecoder, c)
           l1 == Split(c).lines
           r1 == Split(c).rest
           l2 == Split(r1 \o u).lines
           r2 == Split(r1 \o u).rest
           n1 == Started(NewDecoder, r1)
           n2 == Started(NewDecoder, r2)
           z == Started(d, r2)
           y == DecodeLines(n2, l1)
<1>0. DecoderOf(X, NewDecoder) /\ NewDecoder.buf = <<>> /\ <<>> \o c = c
  BY FreshDecoder, ConcatEmptySeq
<1>1. w = DecodeLines(n1, l1) /\ DecoderOf(X, w) /\ w.buf = r1
  <2> DEFINE s == Split(NewDecoder.buf \o c)
  <2>1. /\ NewDecoder.buf \o c \in Seq(X) /\ s.rest \in Q /\ s.lines \in Seq(Q)
        /\ w = DecodeLines(Started(NewDecoder, s.rest), s.lines)
        /\ DecoderOf(X, w) /\ w.buf = s.rest
    <3>1. Pushed(X, NewDecoder, c, w)
      BY <1>0, PushDecoder
    <3>2. QED BY <3>1 DEF Pushed
  <2>2. NewDecoder.buf \o c = c
    BY <1>0
  <2>3. QED BY <2>1, <2>2
<1>2. r1 \in Q /\ l1 \in Seq(Q)
  BY SplitLines
<1>3. d.buf = r1
  BY <1>1 DEF SameSpot
<1>4. /\ r2 \in Q /\ l2 \in Seq(Q) /\ Push(d, u) = DecodeLines(z, l2) /\ Push(d, u).buf = r2
  <2> DEFINE s == Split(d.buf \o u)
  <2>1. /\ d.buf \o u \in Seq(X) /\ s.rest \in Q /\ s.lines \in Seq(Q)
        /\ Push(d, u) = DecodeLines(Started(d, s.rest), s.lines)
        /\ DecoderOf(X, Push(d, u)) /\ Push(d, u).buf = s.rest
    <3>1. Pushed(X, d, u, Push(d, u))
      BY PushDecoder
    <3>2. QED BY <3>1 DEF Pushed
  <2>2. QED BY <1>3, <2>1
<1>5. Split(c \o u) = [lines |-> l1 \o l2, rest |-> r2]
  BY SplitConcat
<1>6. Push(NewDecoder, c \o u) = DecodeLines(n2, l1 \o l2)
  <2> DEFINE cu == c \o u
             s == Split(NewDecoder.buf \o cu)
  <2>1. cu \in Seq(X) /\ <<>> \o cu = cu
    <3>1. cu \in Seq(X)
      BY ConcatProperties
    <3> HIDE DEF cu
    <3>2. QED BY <3>1, ConcatEmptySeq
  <2>2. /\ NewDecoder.buf \o cu \in Seq(X) /\ s.rest \in Q /\ s.lines \in Seq(Q)
        /\ Push(NewDecoder, cu) = DecodeLines(Started(NewDecoder, s.rest), s.lines)
        /\ DecoderOf(X, Push(NewDecoder, cu)) /\ Push(NewDecoder, cu).buf = s.rest
    <3> HIDE DEF cu
    <3>1. Pushed(X, NewDecoder, cu, Push(NewDecoder, cu))
      BY <1>0, <2>1, PushDecoder
    <3>2. QED BY <3>1 DEF Pushed
  <2>3. s = [lines |-> l1 \o l2, rest |-> r2]
    BY <1>0, <1>5, <2>1
  <2>4. s.lines = l1 \o l2 /\ s.rest = r2
    <3> HIDE DEF s, l1, l2, r2
    <3>1. QED BY <2>3
  <2>5. QED BY <2>2, <2>4
<1>7. /\ DecoderOf(X, n1) /\ DecoderOf(X, n2) /\ DecoderOf(X, z)
      /\ n1.event = n2.event /\ n1.data = n2.data /\ n1.out = <<>> /\ n2.out = <<>>
      /\ n2.buf = r2 /\ z.event = d.event /\ z.data = d.data /\ z.out = <<>>
  <2>1. /\ DecoderOf(X, n1)
        /\ n1 = [buf |-> r1, event |-> NewDecoder.event, data |-> NewDecoder.data, out |-> <<>>]
    BY <1>0, <1>2, StartedDecoder
  <2>2. /\ DecoderOf(X, n2)
        /\ n2 = [buf |-> r2, event |-> NewDecoder.event, data |-> NewDecoder.data, out |-> <<>>]
    BY <1>0, <1>4, StartedDecoder
  <2>3. /\ DecoderOf(X, z)
        /\ z = [buf |-> r2, event |-> d.event, data |-> d.data, out |-> <<>>]
    BY <1>4, StartedDecoder
  <2> HIDE DEF n1, n2, z, r1, r2
  <2>4. QED BY <2>1, <2>2, <2>3
<1> HIDE DEF Q, w, l1, l2, r1, r2, n1, n2, z
<1>8. /\ <<>> \in Seq(FramesOf(X)) /\ w.out \in Seq(FramesOf(X))
      /\ <<>> \o <<>> = <<>> /\ <<>> \o w.out = w.out /\ w.out \o <<>> = w.out
  <2>1. <<>> \in Seq(FramesOf(X)) /\ w.out \in Seq(FramesOf(X))
    BY <1>1, EmptySeq DEF DecoderOf
  <2>2. QED BY <2>1, ConcatEmptySeq
<1>9. DecoderOf(X, y) /\ y.buf = r2 /\ Alike(y, w, <<>>)
  <2>1. Alike(n2, n1, <<>>)
    BY <1>7, <1>8 DEF Alike
  <2>2. /\ DecoderOf(X, y) /\ y.buf = n2.buf
        /\ \A e : \A o \in Seq(FramesOf(X)) :
             DecoderOf(X, e) /\ Alike(n2, e, o)
               => DecoderOf(X, DecodeLines(e, l1)) /\ Alike(y, DecodeLines(e, l1), o)
    BY <1>2, <1>7, LinesAlike DEF Q
  <2>3. QED BY <1>1, <1>7, <1>8, <2>1, <2>2
<1> HIDE DEF y
<1>10. Alike(y, z, w.out)
  BY <1>7, <1>8, <1>9 DEF Alike, SameSpot, w
<1>11. /\ DecodeLines(y, l2).buf = y.buf
       /\ Alike(DecodeLines(y, l2), DecodeLines(z, l2), w.out)
  <2>1. /\ DecoderOf(X, DecodeLines(y, l2)) /\ DecodeLines(y, l2).buf = y.buf
        /\ \A e : \A o \in Seq(FramesOf(X)) :
             DecoderOf(X, e) /\ Alike(y, e, o)
               => DecoderOf(X, DecodeLines(e, l2)) /\ Alike(DecodeLines(y, l2), DecodeLines(e, l2), o)
    BY <1>4, <1>9, LinesAlike DEF Q
  <2>2. QED BY <1>7, <1>8, <1>10, <2>1
<1>12. DecodeLines(n2, l1 \o l2) = DecodeLines(y, l2)
  BY <1>2, <1>4, DecodeLinesConcat DEF y
<1>13. QED
  BY <1>4, <1>6, <1>9, <1>11, <1>12 DEF SameSpot, Alike, PushedOn, w

\* SseDecoder::finish.
LEMMA FinishedDecoder ==
  ASSUME NEW X, NEW d, DecoderOf(X, d)
  PROVE  /\ DecoderOf(X, FinishDecoder(d))
         /\ \A e : DecoderOf(X, e) /\ SameSpot(d, e) => FinishDecoder(d).out = FinishDecoder(e).out
<1>0. \A e : DecoderOf(X, e) =>
        /\ e = [buf |-> e.buf, event |-> e.event, data |-> e.data, out |-> e.out]
        /\ e.buf \in Seq(X \ {NL}) /\ e.event \in Names(X) /\ e.data \in Seq(Shown(X))
  BY DEF DecoderOf
<1>1. CASE Pending(d)
  <2> DEFINE Cleared(e) == [e EXCEPT !.out = <<>>]
  <2>1. ASSUME NEW e, DecoderOf(X, e), Pending(e)
        PROVE  /\ DecoderOf(X, FinishDecoder(e))
               /\ FinishDecoder(e).out = Append(<<>>, FrameOf(e))
    <3> DEFINE x == Cleared(e)
    <3>1. FinishDecoder(e) = EmitFrame(x)
      BY <2>1 DEF FinishDecoder
    <3>2. x = [buf |-> e.buf, event |-> e.event, data |-> e.data, out |-> <<>>]
      BY <1>0, <2>1, DecoderExcept
    <3>3. <<>> \in Seq(FramesOf(X))
      BY EmptySeq
    <3> HIDE DEF x
    <3>4. DecoderOf(X, x) /\ FrameOf(x) = FrameOf(e) /\ x.out = <<>>
      BY <1>0, <2>1, <3>2, <3>3 DEF DecoderOf, FrameOf
    <3>5. /\ EmitFrame(x) = [buf |-> x.buf, event |-> None, data |-> <<>>,
                             out |-> Append(x.out, FrameOf(x))]
          /\ FrameOf(x) \in FramesOf(X) /\ DecoderOf(X, EmitFrame(x))
      BY <3>4, EmitDecoder
    <3>6. EmitFrame(x).out = Append(x.out, FrameOf(x))
      BY <3>5
    <3>7. QED BY <3>1, <3>4, <3>5, <3>6
  <2>2. ASSUME NEW e, SameSpot(d, e) PROVE Pending(e) /\ FrameOf(e) = FrameOf(d)
    BY <1>1, <2>2 DEF SameSpot, Pending, FrameOf
  <2>3. QED BY <1>1, <2>1, <2>2
<1>2. CASE ~Pending(d)
  <2> DEFINE Left(b) == [event |-> None,
                         data |-> IF Field(b) \in {"data", "raw"} THEN Value(b) ELSE Garbage]
             Out(b) == IF b = <<>> THEN <<>> ELSE <<Left(b)>>
  <2>1. ASSUME NEW e, DecoderOf(X, e), ~Pending(e)
        PROVE  /\ DecoderOf(X, FinishDecoder(e)) /\ FinishDecoder(e).out = Out(e.buf)
    <3> DEFINE o == Out(e.buf)
    <3>1. FinishDecoder(e) = [e EXCEPT !.buf = <<>>, !.out = o]
      BY <2>1 DEF FinishDecoder
    <3>2. [e EXCEPT !.buf = <<>>, !.out = o]
            = [buf |-> <<>>, event |-> e.event, data |-> e.data, out |-> o]
      <4> HIDE DEF o
      <4>1. e = [buf |-> e.buf, event |-> e.event, data |-> e.data, out |-> e.out]
        BY <1>0, <2>1
      <4> DEFINE b == <<>>
      <4> HIDE DEF b
      <4>2. Reset(e, b, o) = [buf |-> b, event |-> e.event, data |-> e.data, out |-> o]
        BY <4>1, DecoderExceptTwo, Zenon
      <4>3. QED BY <4>2, Zenon DEF b, Reset
    <3>3. o \in Seq(FramesOf(X))
      <4>1. CASE e.buf = <<>>
        BY <4>1, EmptySeq
      <4>2. CASE e.buf # <<>>
        <5>1. e.buf \in Seq(X)
          BY <1>0, <2>1
        <5>2. Field(e.buf) \in {"data", "raw"} => Value(e.buf) \in Shown(X)
          BY <4>2, <5>1, LineValue
        <5>3. None \in Names(X) /\ Garbage \in Shown(X)
          BY DEF Names, Shown
        <5> DEFINE v == IF Field(e.buf) \in {"data", "raw"} THEN Value(e.buf) ELSE Garbage
        <5>4. v \in Shown(X)
          BY <5>2, <5>3
        <5> HIDE DEF v
        <5>5. [event |-> None, data |-> v] \in FramesOf(X)
          BY <5>3, <5>4 DEF FramesOf
        <5>6. o = <<[event |-> None, data |-> v]>>
          BY <4>2 DEF v
        <5> DEFINE fr == [event |-> None, data |-> v]
        <5> HIDE DEF fr, o
        <5>7. fr \in FramesOf(X) /\ o = <<fr>>
          BY <5>5, <5>6 DEF fr
        <5>8. QED BY <5>7
      <4>3. QED BY <4>1, <4>2
    <3> HIDE DEF o
    <3> DEFINE x == FinishDecoder(e)
    <3>4. x = [buf |-> <<>>, event |-> e.event, data |-> e.data, out |-> o]
      BY <3>1, <3>2
    <3> HIDE DEF x
    <3>5. <<>> \in Seq(X \ {NL})
      BY EmptySeq
    <3>6. DecoderOf(X, x) /\ x.out = o
      BY <1>0, <2>1, <3>3, <3>4, <3>5 DEF DecoderOf
    <3>7. QED BY <3>6 DEF x, o
  <2>2. ASSUME NEW e, SameSpot(d, e) PROVE ~Pending(e) /\ e.buf = d.buf
    BY <1>2, <2>2 DEF SameSpot, Pending
  <2> HIDE DEF Out
  <2>3. QED BY <1>2, <2>1, <2>2
<1>3. QED BY <1>1, <1>2

-----------------------------------------------------------------------------
(***************************************************************************)
(* The bytes of an answer.                                                 *)
(***************************************************************************)
\* g joins the first n of seqs, one after the other.
Joins(g, seqs, n) ==
  g = [i \in 1..n |-> IF i = 1 THEN seqs[i] ELSE g[i-1] \o seqs[i]]

LEMMA JoinsExist ==
  ASSUME NEW S, NEW seqs \in Seq(Seq(S))
  PROVE  \E g \in [1..Len(seqs) -> Seq(S)] : Joins(g, seqs, Len(seqs))
<1>1. Len(seqs) \in Nat /\ \A i \in 1..Len(seqs) : seqs[i] \in Seq(S)
  BY LenProperties, ElementOfSeq
<1> DEFINE T == {n \in Nat : n <= Len(seqs) => \E g \in [1..n -> Seq(S)] : Joins(g, seqs, n)}
<1>2. 0 \in T
  <2> DEFINE g == [i \in 1..0 |-> seqs[i]]
  <2>1. g \in [1..0 -> Seq(S)] /\ Joins(g, seqs, 0)
    BY DEF Joins
  <2>2. QED BY <2>1
<1>3. ASSUME NEW n \in T PROVE n + 1 \in T
  <2>1. n \in Nat
    OBVIOUS
  <2>2. SUFFICES ASSUME n + 1 <= Len(seqs)
                 PROVE  \E g \in [1..(n + 1) -> Seq(S)] : Joins(g, seqs, n + 1)
    BY <2>1
  <2>3. PICK g \in [1..n -> Seq(S)] : Joins(g, seqs, n)
    BY <1>1, <2>1, <2>2
  <2> DEFINE last == IF n = 0 THEN seqs[1] ELSE g[n] \o seqs[n + 1]
             h == [i \in 1..(n + 1) |-> IF i <= n THEN g[i] ELSE last]
  <2>4. seqs[n + 1] \in Seq(S)
    BY <1>1, <2>1, <2>2
  <2>5. last \in Seq(S)
    <3>1. CASE n = 0
      BY <2>4, <3>1
    <3>2. CASE n # 0
      <4>1. g[n] \in Seq(S)
        BY <2>1, <3>2
      <4>2. QED BY <2>4, <3>2, <4>1, ConcatProperties
    <3>3. QED BY <3>1, <3>2
  <2> HIDE DEF last
  <2>6. h \in [1..(n + 1) -> Seq(S)]
    BY <2>1, <2>5
  <2>7. ASSUME NEW i \in 1..(n + 1)
        PROVE  h[i] = IF i = 1 THEN seqs[i] ELSE h[i-1] \o seqs[i]
    <3>1. CASE i <= n
      <4>0. i \in 1..n
        BY <2>1, <3>1
      <4>1. g[i] = IF i = 1 THEN seqs[i] ELSE g[i-1] \o seqs[i]
        <5>1. \A j \in 1..n : g[j] = IF j = 1 THEN seqs[j] ELSE g[j-1] \o seqs[j]
          BY <2>3, Zenon DEF Joins
        <5>2. QED BY <4>0, <5>1
      <4>2. h[i] = g[i] /\ (i # 1 => h[i-1] = g[i-1])
        BY <2>1, <3>1
      <4>3. QED BY <4>1, <4>2
    <3>2. CASE ~(i <= n)
      <4>1. i = n + 1 /\ h[i] = last /\ (n # 0 => h[n] = g[n])
        BY <2>1, <3>2
      <4>2. QED BY <2>1, <4>1 DEF last
    <3>3. QED BY <3>1, <3>2
  <2>8. Joins(h, seqs, n + 1)
    BY <2>7 DEF Joins
  <2>9. QED BY <2>6, <2>8
<1>4. Len(seqs) \in T
  <2> HIDE DEF T
  <2>1. T \in SUBSET Nat
    BY DEF T
  <2>2. QED BY <1>1, <1>2, <1>3, <2>1, NatInd
<1>5. QED BY <1>1, <1>4

LEMMA FlattenIsSeq ==
  ASSUME NEW S, NEW seqs \in Seq(Seq(S))
  PROVE  FlattenSeq(seqs) \in Seq(S)
<1>1. Len(seqs) \in Nat
  BY LenProperties
<1>2. CASE Len(seqs) = 0
  <2>1. seqs = <<>>
    BY <1>2, EmptySeq
  <2>2. <<>> \in Seq(S)
    BY EmptySeq
  <2>3. QED BY <1>2, <2>1, <2>2 DEF FlattenSeq
<1>3. CASE Len(seqs) # 0
  <2> DEFINE n == Len(seqs)
             f == CHOOSE g : Joins(g, seqs, n)
  <2>1. Joins(f, seqs, n)
    BY JoinsExist
  <2>2. FlattenSeq(seqs) = f[n]
    BY <1>3 DEF FlattenSeq, Joins
  <2>3. \A i \in 1..n : f[i] = IF i = 1 THEN seqs[i] ELSE f[i-1] \o seqs[i]
    <3> HIDE DEF f
    <3>1. QED BY <2>1 DEF Joins
  <2>4. \A i \in 1..n : seqs[i] \in Seq(S)
    BY ElementOfSeq
  <2> HIDE DEF f
  <2> DEFINE T == {i \in Nat : i + 1 <= n => f[i + 1] \in Seq(S)}
  <2>5. 0 \in T
    BY <1>1, <1>3, <2>3, <2>4
  <2>6. ASSUME NEW i \in T PROVE i + 1 \in T
    <3>1. SUFFICES ASSUME i + 2 <= n PROVE f[i + 2] \in Seq(S)
      BY <1>1
    <3>2. f[i + 1] \in Seq(S) /\ seqs[i + 2] \in Seq(S)
      BY <1>1, <2>4, <3>1
    <3>3. i + 2 \in 1..n /\ i + 2 # 1 /\ (i + 2) - 1 = i + 1
      BY <1>1, <3>1
    <3>4. f[i + 2] = f[i + 1] \o seqs[i + 2]
      BY <2>3, <3>3
    <3>5. QED BY <3>2, <3>4, ConcatProperties
  <2>7. n - 1 \in T
    <3> HIDE DEF T
    <3>1. T \in SUBSET Nat
      BY DEF T
    <3>2. \A k \in Nat : k \in T
      BY <2>5, <2>6, <3>1, NatInd
    <3>3. QED BY <1>1, <1>3, <3>2
  <2>8. f[n] \in Seq(S)
    BY <1>1, <1>3, <2>7
  <2>9. QED BY <2>2, <2>8
<1>4. QED BY <1>2, <1>3
LEMMA FunctionIsSeq ==
  ASSUME NEW n \in Nat, NEW S, NEW s \in [1..n -> S]
  PROVE  s \in Seq(S) /\ Len(s) = n
BY SeqDef


\* What the bytes of an answer can be.
Symbols(a) ==
  {NL} \cup {Half("event", a.events[i].event, part) : i \in DOMAIN a.events, part \in {1, 2}}
    \cup {Half(field, a.events[i].data, part) :
            field \in {"data", "raw"}, i \in DOMAIN a.events, part \in {1, 2}}

LEMMA TextIsSeq ==
  ASSUME NEW S, NEW field, NEW value, Half(field, value, 1) \in S, Half(field, value, 2) \in S
  PROVE  Text(field, value) \in Seq(S)
<1> DEFINE x == Half(field, value, 1)
           y == Half(field, value, 2)
<1>1. Text(field, value) = <<x, y>> /\ x \in S /\ y \in S
  BY DEF Text
<1> HIDE DEF x, y
<1>2. QED BY <1>1

LEMMA PrefixIsSeq ==
  ASSUME NEW S, NEW s \in Seq(S), NEW n \in Int, n <= Len(s)
  PROVE  SubSeq(s, 1, n) \in Seq(S)
<1>1. \A i \in 1..n : s[i] \in S
  BY LenProperties, ElementOfSeq
<1>2. QED BY <1>1, SubSeqProperties

LEMMA EncodeIsSeq ==
  ASSUME NEW a \in Answers
  PROVE  Encode(a) \in Seq(Symbols(a))
<1> DEFINE S == Symbols(a)
           n == Len(a.events)
           E == ToSet(a.events)
<1>1. /\ a.ending \in {"full", "noblank", "bare", "raw"}
      /\ a.events \in Seq(E) /\ a.events # <<>>
  BY MeterAssumption
<1>2. n \in Nat /\ n >= 1 /\ DOMAIN a.events = 1..n
  BY <1>1, LenProperties, EmptySeq
<1>3. NL \in S
  BY DEF Symbols
<1>4. ASSUME NEW i \in 1..n, NEW part \in {1, 2}
      PROVE  /\ Half("event", a.events[i].event, part) \in S
             /\ Half("data", a.events[i].data, part) \in S
             /\ Half("raw", a.events[i].data, part) \in S
  <2>1. i \in DOMAIN a.events
    BY <1>2
  <2>2. Half("event", a.events[i].event, part) \in Symbols(a)
    BY <2>1 DEF Symbols
  <2>3. \A field \in {"data", "raw"} : Half(field, a.events[i].data, part) \in Symbols(a)
    BY <2>1 DEF Symbols
  <2>4. QED BY <2>2, <2>3
<1> HIDE DEF S, n, E
<1>5. ASSUME NEW i \in 1..n PROVE EncodeEvent(a.events[i]) \in Seq(S)
  <2> DEFINE e == a.events[i]
             front == IF e.event = None THEN <<>> ELSE Text("event", e.event) \o <<NL>>
             body == Text("data", e.data)
  <2>1. body \in Seq(S)
    BY <1>4, <1>5, TextIsSeq
  <2>2. Text("event", e.event) \in Seq(S)
    BY <1>4, <1>5, TextIsSeq
  <2>3. <<NL>> \in Seq(S) /\ <<NL, NL>> \in Seq(S) /\ <<>> \in Seq(S)
    <3> DEFINE x == NL
    <3>1. x \in S
      BY <1>3
    <3> HIDE DEF x
    <3>2. <<x>> \in Seq(S) /\ <<x, x>> \in Seq(S) /\ <<>> \in Seq(S)
      BY <3>1
    <3>3. QED BY <3>2 DEF x
  <2>4. front \in Seq(S)
    <3> DEFINE t == Text("event", e.event)
               x == <<NL>>
    <3>1. t \in Seq(S) /\ x \in Seq(S)
      BY <2>2, <2>3
    <3> HIDE DEF t, x
    <3>2. t \o x \in Seq(S)
      BY <3>1, ConcatProperties
    <3>3. QED BY <2>3, <3>2 DEF t, x
  <2>5. EncodeEvent(e) = (front \o body) \o <<NL, NL>>
    BY DEF EncodeEvent
  <2> DEFINE end == <<NL, NL>>
  <2>6. end \in Seq(S)
    BY <2>3
  <2> HIDE DEF front, body, end
  <2>7. front \o body \in Seq(S)
    BY <2>1, <2>4, ConcatProperties
  <2>8. (front \o body) \o end \in Seq(S)
    BY <2>6, <2>7, ConcatProperties
  <2>9. QED BY <2>5, <2>8 DEF end
<1> DEFINE seqs == [i \in DOMAIN a.events |-> EncodeEvent(a.events[i])]
           all == FlattenSeq(seqs)
<1>6. seqs \in Seq(Seq(S))
  <2>1. seqs = [i \in 1..n |-> EncodeEvent(a.events[i])]
    BY <1>2
  <2>2. \A i \in 1..n : EncodeEvent(a.events[i]) \in Seq(S)
    BY <1>5
  <2>3. QED BY <1>2, <2>1, <2>2, IsASeq
<1>7. all \in Seq(S)
  <2> HIDE DEF seqs
  <2>1. QED BY <1>6, FlattenIsSeq
<1>8. Text("raw", a.events[1].data) \in Seq(S)
  BY <1>2, <1>4, TextIsSeq
<1>9. Encode(a) \in {all, SubSeq(all, 1, Len(all) - 1), SubSeq(all, 1, Len(all) - 2),
                     Text("raw", a.events[1].data)}
  BY <1>1 DEF Encode
<1> HIDE DEF all
<1>10. Len(all) \in Nat /\ Len(all) - 1 \in Int /\ Len(all) - 2 \in Int
  BY <1>7, LenProperties
<1>11. SubSeq(all, 1, Len(all) - 1) \in Seq(S) /\ SubSeq(all, 1, Len(all) - 2) \in Seq(S)
  BY <1>7, <1>10, PrefixIsSeq
<1>12. QED BY <1>7, <1>8, <1>9, <1>11 DEF S

\* What bytes of the answer name and show is in its events.
LEMMA SymbolsSay ==
  ASSUME NEW a \in Answers, NEW X \in SUBSET Symbols(a)
  PROVE  /\ \A v \in Shown(X) : v = Garbage \/ \E e \in ToSet(a.events) : v = e.data
         /\ \A v \in Names(X) : v \in {f.event : f \in ToSet(a.events)} \cup {None, Garbage}
<1>1. \A i \in DOMAIN a.events : a.events[i] \in ToSet(a.events)
  BY DEF ToSet
<1>2. ASSUME NEW x \in Symbols(a), x.field \in {"data", "raw"}
      PROVE  \E e \in ToSet(a.events) : x.value = e.data
  <2>1. x # NL
    BY <1>2 DEF NL, Half
  <2>2. ASSUME NEW i \in DOMAIN a.events, NEW part \in {1, 2}
        PROVE  x # Half("event", a.events[i].event, part)
    BY <1>2 DEF Half
  <2>3. PICK field \in {"data", "raw"}, i \in DOMAIN a.events, part \in {1, 2} :
          x = Half(field, a.events[i].data, part)
    BY <2>1, <2>2 DEF Symbols
  <2>4. x.value = a.events[i].data
    BY <2>3 DEF Half
  <2>5. QED BY <1>1, <2>4
<1>3. ASSUME NEW x \in Symbols(a), x.field = "event"
      PROVE  \E e \in ToSet(a.events) : x.value = e.event
  <2>1. x # NL
    BY <1>3 DEF NL, Half
  <2>2. ASSUME NEW field \in {"data", "raw"}, NEW i \in DOMAIN a.events, NEW part \in {1, 2}
        PROVE  x # Half(field, a.events[i].data, part)
    BY <1>3 DEF Half
  <2>3. PICK i \in DOMAIN a.events, part \in {1, 2} : x = Half("event", a.events[i].event, part)
    BY <2>1, <2>2 DEF Symbols
  <2>4. x.value = a.events[i].event
    BY <2>3 DEF Half
  <2>5. QED BY <1>1, <2>4
<1>4. QED BY <1>2, <1>3 DEF Shown, Names
-----------------------------------------------------------------------------
(***************************************************************************)
(* The meter.                                                              *)
(***************************************************************************)
\* A meter with numbers in its counters.
MeterOf(m) ==
  /\ m = [input |-> m.input, output |-> m.output, cache_write_5m |-> m.cache_write_5m,
          cache_write_1h |-> m.cache_write_1h, cache_read |-> m.cache_read,
          reasoning |-> m.reasoning, terminal |-> m.terminal]
  /\ \A c \in Counters : m[c] \in Nat

LEMMA MeterFields ==
  ASSUME NEW m, MeterOf(m)
  PROVE  /\ m.input \in Nat /\ m.output \in Nat /\ m.cache_write_5m \in Nat
         /\ m.cache_write_1h \in Nat /\ m.cache_read \in Nat /\ m.reasoning \in Nat
BY DEF MeterOf, Counters

MeterWith(i, o, w5, w1, r, t, b) ==
  [input |-> i, output |-> o, cache_write_5m |-> w5, cache_write_1h |-> w1,
   cache_read |-> r, reasoning |-> t, terminal |-> b]

LEMMA MeterIs ==
  \A i, o, w5, w1, r, t \in Nat : \A b :
    MeterOf(MeterWith(i, o, w5, w1, r, t, b)) /\ MeterWith(i, o, w5, w1, r, t, b).terminal = b
<1>1. SUFFICES ASSUME NEW i \in Nat, NEW o \in Nat, NEW w5 \in Nat, NEW w1 \in Nat, NEW r \in Nat,
                      NEW t \in Nat, NEW b
               PROVE  /\ MeterOf(MeterWith(i, o, w5, w1, r, t, b))
                      /\ MeterWith(i, o, w5, w1, r, t, b).terminal = b
  OBVIOUS
<1> DEFINE m == MeterWith(i, o, w5, w1, r, t, b)
<1>2. m = [input |-> i, output |-> o, cache_write_5m |-> w5, cache_write_1h |-> w1,
           cache_read |-> r, reasoning |-> t, terminal |-> b]
  BY DEF MeterWith
<1> HIDE DEF m
<1>3. MeterOf(m) /\ m.terminal = b
  BY <1>2 DEF MeterOf, Counters
<1>4. QED BY <1>3 DEF m

LEMMA FreshMeter == MeterOf(NewMeter) /\ NewMeter.terminal = FALSE
<1>1. PICK b : b = FALSE
  OBVIOUS
<1>2. NewMeter = MeterWith(0, 0, 0, 0, 0, 0, b)
  BY <1>1, Zenon DEF NewMeter, MeterWith
<1>3. MeterOf(NewMeter) /\ NewMeter.terminal = b
  BY <1>2, MeterIs
<1>4. QED BY <1>1, <1>3

LEMMA TakesAnthropic ==
  ASSUME NEW m, MeterOf(m), NEW u, IsUsage(u), NEW delta \in BOOLEAN
  PROVE  MeterOf(TakeAnthropic(m, u, delta)) /\ TakeAnthropic(m, u, delta).terminal = m.terminal
<1> DEFINE add(n) == IF delta THEN 0 ELSE n
           i == m.input + add(u.prompt)
           r == m.cache_read + add(u.cached)
           w5 == m.cache_write_5m + add(IF u.m5 = None /\ u.m1 = None THEN u.flat ELSE OrZero(u.m5))
           w1 == m.cache_write_1h + add(OrZero(u.m1))
           o == IF u.output > 0 THEN u.output ELSE m.output
           t == IF u.thinking = None THEN m.reasoning ELSE u.thinking
           x == TakeAnthropic(m, u, delta)
<1>1. /\ m.input \in Nat /\ m.output \in Nat /\ m.cache_write_5m \in Nat
      /\ m.cache_write_1h \in Nat /\ m.cache_read \in Nat /\ m.reasoning \in Nat
  BY MeterFields
<1>2. /\ u.prompt \in Nat /\ u.cached \in Nat /\ u.flat \in Nat /\ u.output \in Nat
      /\ OrZero(u.m5) \in Nat /\ OrZero(u.m1) \in Nat
      /\ (u.thinking # None => u.thinking \in Nat)
  BY DEF IsUsage, OrZero
<1>3. i \in Nat /\ r \in Nat /\ w5 \in Nat /\ w1 \in Nat /\ o \in Nat /\ t \in Nat
  BY <1>1, <1>2
<1>4. x = [m EXCEPT !.input = i, !.cache_read = r, !.cache_write_5m = w5,
                    !.cache_write_1h = w1, !.output = o, !.reasoning = t]
  BY DEF TakeAnthropic
<1>5. m = [input |-> m.input, output |-> m.output, cache_write_5m |-> m.cache_write_5m,
           cache_write_1h |-> m.cache_write_1h, cache_read |-> m.cache_read,
           reasoning |-> m.reasoning, terminal |-> m.terminal]
  BY DEF MeterOf
<1> HIDE DEF i, r, w5, w1, o, t, x
<1>6. PICK b : b = m.terminal
  OBVIOUS
<1>7. MeterOf(x) /\ x.terminal = b
  <2>1. x = MeterWith(i, o, w5, w1, r, t, b)
    BY <1>4, <1>5, <1>6 DEF MeterWith
  <2>2. QED BY <1>3, <2>1, MeterIs
<1>8. QED BY <1>6, <1>7 DEF x

LEMMA TakesAssigned ==
  ASSUME NEW m, MeterOf(m), NEW u, IsUsage(u)
  PROVE  MeterOf(TakeAssigned(m, u)) /\ TakeAssigned(m, u).terminal = m.terminal
<1> DEFINE i == IF u.prompt > u.cached THEN u.prompt - u.cached ELSE 0
           r == u.cached
           o == u.output
           t == OrZero(u.thinking)
           x == TakeAssigned(m, u)
<1>1. /\ m.input \in Nat /\ m.output \in Nat /\ m.cache_write_5m \in Nat
      /\ m.cache_write_1h \in Nat /\ m.cache_read \in Nat /\ m.reasoning \in Nat
  BY MeterFields
<1>2. i \in Nat /\ r \in Nat /\ o \in Nat /\ t \in Nat
  BY DEF IsUsage, OrZero
<1>4. x = [m EXCEPT !.input = i, !.cache_read = r, !.output = o, !.reasoning = t]
  BY DEF TakeAssigned
<1>5. m = [input |-> m.input, output |-> m.output, cache_write_5m |-> m.cache_write_5m,
           cache_write_1h |-> m.cache_write_1h, cache_read |-> m.cache_read,
           reasoning |-> m.reasoning, terminal |-> m.terminal]
  BY DEF MeterOf
<1> HIDE DEF i, r, o, t, x
<1>6. PICK b, w5, w1 : b = m.terminal /\ w5 = m.cache_write_5m /\ w1 = m.cache_write_1h
  OBVIOUS
<1>7. MeterOf(x) /\ x.terminal = b
  <2>1. x = MeterWith(i, o, w5, w1, r, t, b)
    BY <1>4, <1>5, <1>6 DEF MeterWith
  <2>2. w5 \in Nat /\ w1 \in Nat
    BY <1>1, <1>6
  <2>3. QED BY <1>2, <2>1, <2>2, MeterIs
<1>8. QED BY <1>6, <1>7 DEF x

LEMMA TurnsTerminal ==
  ASSUME NEW m, MeterOf(m)
  PROVE  MeterOf(Terminal(m)) /\ Terminal(m).terminal
<1>1. /\ m.input \in Nat /\ m.output \in Nat /\ m.cache_write_5m \in Nat
      /\ m.cache_write_1h \in Nat /\ m.cache_read \in Nat /\ m.reasoning \in Nat
  BY MeterFields
<1>2. PICK b : b = TRUE
  OBVIOUS
<1> DEFINE x == Terminal(m)
<1>3. x = [m EXCEPT !.terminal = b]
  BY <1>2, Zenon DEF Terminal
<1>4. m = [input |-> m.input, output |-> m.output, cache_write_5m |-> m.cache_write_5m,
           cache_write_1h |-> m.cache_write_1h, cache_read |-> m.cache_read,
           reasoning |-> m.reasoning, terminal |-> m.terminal]
  BY DEF MeterOf
<1> HIDE DEF x
<1>5. PICK i, o, w5, w1, r, t : /\ i = m.input /\ o = m.output /\ w5 = m.cache_write_5m
                               /\ w1 = m.cache_write_1h /\ r = m.cache_read /\ t = m.reasoning
  OBVIOUS
<1>6. MeterOf(x) /\ x.terminal = b
  <2>1. x = MeterWith(i, o, w5, w1, r, t, b)
    BY <1>3, <1>4, <1>5 DEF MeterWith
  <2>2. i \in Nat /\ o \in Nat /\ w5 \in Nat /\ w1 \in Nat /\ r \in Nat /\ t \in Nat
    BY <1>1, <1>5
  <2>3. QED BY <2>1, <2>2, MeterIs
<1>7. QED BY <1>2, <1>6 DEF x

\* What a frame does to a meter: it stays a meter, and is terminal only if it
\* was or the frame alone makes it so.
Observed(d, m, f) ==
  /\ MeterOf(Observe(d, m, f))
  /\ Observe(d, m, f).terminal => m.terminal \/ Observe(d, NewMeter, f).terminal

LEMMA ObserveMeter ==
  ASSUME NEW d \in {"anthropic", "openai", "responses"}, NEW m, MeterOf(m), NEW f,
         f.data = Garbage \/ f.data = None \/ IsUsage(f.data.counts)
  PROVE  Observed(d, m, f)
<1> DEFINE p == f.data
           kind == IF f.event # None THEN f.event ELSE p.type
<1>1. CASE p = Garbage \/ p = None
  BY <1>1 DEF Observe, Observed
<1>2. CASE p # Garbage /\ p # None
  <2>1. IsUsage(p.counts) /\ TRUE \in BOOLEAN /\ FALSE \in BOOLEAN
    BY <1>2
  <2>2. \A x : /\ d = "anthropic" => Observe(d, x, f) = ObserveAnthropic(x, p, kind)
               /\ d = "openai" => Observe(d, x, f) = ObserveOpenAi(x, p)
               /\ d = "responses" => Observe(d, x, f) = ObserveResponses(x, p, kind)
    BY <1>2 DEF Observe
  <2>3. MeterOf(NewMeter) /\ NewMeter.terminal = FALSE
    BY FreshMeter
  <2> HIDE DEF p, kind
  <2>4. ASSUME NEW x, MeterOf(x)
        PROVE  /\ MeterOf(TakeAnthropic(x, p.counts, FALSE))
               /\ TakeAnthropic(x, p.counts, FALSE).terminal = x.terminal
               /\ MeterOf(Terminal(TakeAnthropic(x, p.counts, TRUE)))
               /\ Terminal(TakeAnthropic(x, p.counts, TRUE)).terminal
               /\ MeterOf(TakeAssigned(x, p.counts))
               /\ TakeAssigned(x, p.counts).terminal = x.terminal
               /\ MeterOf(Terminal(TakeAssigned(x, p.counts)))
               /\ Terminal(TakeAssigned(x, p.counts)).terminal
    <3>1. /\ MeterOf(TakeAnthropic(x, p.counts, FALSE))
          /\ TakeAnthropic(x, p.counts, FALSE).terminal = x.terminal
      BY <2>1, <2>4, TakesAnthropic
    <3>2. MeterOf(TakeAnthropic(x, p.counts, TRUE))
      BY <2>1, <2>4, TakesAnthropic
    <3>3. MeterOf(TakeAssigned(x, p.counts)) /\ TakeAssigned(x, p.counts).terminal = x.terminal
      BY <2>1, <2>4, TakesAssigned
    <3>4. /\ MeterOf(Terminal(TakeAnthropic(x, p.counts, TRUE)))
          /\ Terminal(TakeAnthropic(x, p.counts, TRUE)).terminal
      BY <3>2, TurnsTerminal
    <3>5. /\ MeterOf(Terminal(TakeAssigned(x, p.counts)))
          /\ Terminal(TakeAssigned(x, p.counts)).terminal
      BY <3>3, TurnsTerminal
    <3>6. QED BY <3>1, <3>3, <3>4, <3>5
  <2>5. CASE d = "anthropic"
    <3>1. CASE kind = "message_start" /\ p.usage = "message"
      <4>1. \A x : ObserveAnthropic(x, p, kind) = TakeAnthropic(x, p.counts, FALSE)
        BY <3>1 DEF ObserveAnthropic
      <4>2. QED BY <2>2, <2>4, <2>5, <4>1 DEF Observed
    <3>2. CASE kind = "message_delta" /\ p.usage = "top"
      <4>1. \A x : ObserveAnthropic(x, p, kind) = Terminal(TakeAnthropic(x, p.counts, TRUE))
        BY <3>2 DEF ObserveAnthropic
      <4>2. MeterOf(Observe(d, m, f))
        BY <2>2, <2>4, <2>5, <4>1
      <4>3. Observe(d, NewMeter, f) = Terminal(TakeAnthropic(NewMeter, p.counts, TRUE))
        BY <2>2, <2>5, <4>1
      <4>4. Terminal(TakeAnthropic(NewMeter, p.counts, TRUE)).terminal
        BY <2>3, <2>4, Zenon
      <4>5. QED BY <4>2, <4>3, <4>4, Zenon DEF Observed
    <3>3. CASE ~(kind = "message_start" /\ p.usage = "message")
                 /\ ~(kind = "message_delta" /\ p.usage = "top")
      <4>1. ObserveAnthropic(m, p, kind) = m
        BY <3>3 DEF ObserveAnthropic
      <4>2. QED BY <2>2, <2>5, <4>1 DEF Observed
    <3>4. QED BY <3>1, <3>2, <3>3
  <2>6. CASE d = "openai"
    <3>1. CASE p.usage = "top"
      <4>1. \A x : ObserveOpenAi(x, p) = Terminal(TakeAssigned(x, p.counts))
        BY <3>1 DEF ObserveOpenAi
      <4>2. MeterOf(Observe(d, m, f))
        BY <2>2, <2>4, <2>6, <4>1
      <4>3. Observe(d, NewMeter, f) = Terminal(TakeAssigned(NewMeter, p.counts))
        BY <2>2, <2>6, <4>1
      <4>4. Terminal(TakeAssigned(NewMeter, p.counts)).terminal
        BY <2>3, <2>4, Zenon
      <4>5. QED BY <4>2, <4>3, <4>4, Zenon DEF Observed
    <3>2. CASE p.usage # "top"
      BY <2>2, <2>6, <3>2 DEF ObserveOpenAi, Observed
    <3>3. QED BY <3>1, <3>2
  <2>7. CASE d = "responses"
    <3>1. \/ \A x : ObserveResponses(x, p, kind) = Terminal(TakeAssigned(x, p.counts))
          \/ \A x : ObserveResponses(x, p, kind) = TakeAssigned(x, p.counts)
          \/ \A x : ObserveResponses(x, p, kind) = x
      <4>1. CASE kind = "response.completed"
        BY <4>1 DEF ObserveResponses
      <4>2. CASE kind \in {"response.failed", "response.incomplete"}
        BY <4>2 DEF ObserveResponses
      <4>3. CASE kind \notin {"response.completed", "response.failed", "response.incomplete"}
        BY <4>3 DEF ObserveResponses
      <4>4. QED BY <4>1, <4>2, <4>3
    <3>2. CASE \A x : ObserveResponses(x, p, kind) = Terminal(TakeAssigned(x, p.counts))
      <4>2. MeterOf(Observe(d, m, f))
        BY <2>2, <2>4, <2>7, <3>2
      <4>3. Observe(d, NewMeter, f) = Terminal(TakeAssigned(NewMeter, p.counts))
        BY <2>2, <2>7, <3>2
      <4>4. Terminal(TakeAssigned(NewMeter, p.counts)).terminal
        BY <2>3, <2>4, Zenon
      <4>5. QED BY <4>2, <4>3, <4>4, Zenon DEF Observed
    <3>3. CASE \A x : ObserveResponses(x, p, kind) = TakeAssigned(x, p.counts)
      BY <2>2, <2>4, <2>7, <3>3 DEF Observed
    <3>4. CASE \A x : ObserveResponses(x, p, kind) = x
      BY <2>2, <2>7, <3>4 DEF Observed
    <3>5. QED BY <3>1, <3>2, <3>3, <3>4
  <2>8. QED BY <2>5, <2>6, <2>7
<1>3. QED BY <1>1, <1>2

\* Frames of F, whose payloads are usage objects, observed one after the other.
Metered(d, m, F, frames) ==
  /\ MeterOf(ObserveAll(d, m, frames))
  /\ ObserveAll(d, m, frames).terminal
       => m.terminal \/ \E f \in F : Observe(d, NewMeter, f).terminal

LEMMA ObserveAllMeter ==
  ASSUME NEW d \in {"anthropic", "openai", "responses"}, NEW m, MeterOf(m), NEW F,
         \A f \in F : f.data = Garbage \/ f.data = None \/ IsUsage(f.data.counts)
  PROVE  \A frames \in Seq(F) : Metered(d, m, F, frames)
<1> DEFINE T == {frames \in Seq(F) : Metered(d, m, F, frames)}
<1>1. <<>> \in T
  <2>1. ObserveAll(d, m, <<>>) = m
    BY ObserveAllEmpty
  <2>2. QED BY <2>1, EmptySeq DEF Metered
<1>2. ASSUME NEW frames \in T, NEW f \in F PROVE Append(frames, f) \in T
  <2>1. frames \in Seq(F) /\ Metered(d, m, F, frames) /\ Append(frames, f) \in Seq(F)
    BY AppendProperties
  <2> DEFINE x == ObserveAll(d, m, frames)
             more == Append(frames, f)
  <2>2. ObserveAll(d, m, more) = Observe(d, x, f)
    BY <2>1, ObserveAllAppend
  <2>3. MeterOf(x) /\ (x.terminal => m.terminal \/ \E g \in F : Observe(d, NewMeter, g).terminal)
    BY <2>1 DEF Metered
  <2> HIDE DEF x, more
  <2>4. Observed(d, x, f)
    BY <2>3, ObserveMeter
  <2>5. Metered(d, m, F, more)
    BY <2>2, <2>3, <2>4 DEF Metered, Observed
  <2>6. QED BY <2>1, <2>5 DEF more
<1>3. T \in SUBSET Seq(F)
  OBVIOUS
<1>4. \A frames \in Seq(F) : frames \in T
  <2> HIDE DEF T
  <2> QED BY <1>1, <1>2, <1>3, SnocInd
<1>5. QED BY <1>4
-----------------------------------------------------------------------------
(***************************************************************************)
(* Beginnings of an answer, and what the channel holds of them.            *)
(***************************************************************************)
\* The bytes among the first n of an answer.
Upto(a, n) == {Encode(a)[i] : i \in 1..n}

LEMMA UptoBytes ==
  ASSUME NEW a \in Answers, NEW n \in 0..Len(Encode(a))
  PROVE  /\ Upto(a, n) \in SUBSET Symbols(a)
         /\ \A j \in Nat, k \in 0..n : j >= 1 => SubSeq(Encode(a), j, k) \in Seq(Upto(a, n))
         /\ \A m \in 0..n : Upto(a, m) \subseteq Upto(a, n)
<1> DEFINE b == Encode(a)
           X == Upto(a, n)
<1>1. b \in Seq(Symbols(a)) /\ Len(b) \in Nat
  BY EncodeIsSeq, LenProperties
<1>2. \A i \in 1..Len(b) : b[i] \in Symbols(a)
  BY <1>1, ElementOfSeq
<1>3. \A i \in 1..n : b[i] \in X
  BY DEF Upto
<1>4. X \in SUBSET Symbols(a)
  BY <1>1, <1>2 DEF Upto
<1>5. \A m \in 0..n : Upto(a, m) \subseteq X
  BY <1>1 DEF Upto
<1> HIDE DEF b, X
<1>6. ASSUME NEW j \in Nat, NEW k \in 0..n, j >= 1
      PROVE  SubSeq(b, j, k) \in Seq(X)
  <2>1. n \in Nat
    BY <1>1 DEF b
  <2>2. j \in Int /\ k \in Int /\ \A i \in j..k : b[i] \in X
    BY <1>3, <1>6, <2>1
  <2>3. QED BY <2>2, SubSeqProperties
<1>7. QED BY <1>4, <1>5, <1>6 DEF b, X

\* The first k bytes and those up to j are the first j.
LEMMA NextChunk ==
  ASSUME NEW S, NEW b \in Seq(S), NEW k \in 0..Len(b), NEW j \in k..Len(b)
  PROVE  SubSeq(b, 1, k) \o SubSeq(b, k + 1, j) = SubSeq(b, 1, j)
<1>0. Len(b) \in Nat
  BY LenProperties
<1> DEFINE x == SubSeq(b, 1, k)
           y == SubSeq(b, k + 1, j)
           z == SubSeq(b, 1, j)
<1>1. \A i \in 1..Len(b) : b[i] \in S
  BY ElementOfSeq
<1>2. x \in Seq(S) /\ Len(x) = k /\ \A i \in 1..k : x[i] = b[i]
  <2>1. \A i \in 1..k : b[i] \in S
    BY <1>0, <1>1
  <2>2. /\ x \in Seq(S) /\ Len(x) = (IF 1 <= k THEN k - 1 + 1 ELSE 0)
        /\ \A i \in 1..(k - 1 + 1) : x[i] = b[1 + i - 1]
    BY <1>0, <2>1, SubSeqProperties
  <2> HIDE DEF x
  <2>3. QED BY <1>0, <2>2
<1>3. y \in Seq(S) /\ Len(y) = j - k /\ \A i \in 1..(j - k) : y[i] = b[k + i]
  <2>1. \A i \in (k + 1)..j : b[i] \in S
    BY <1>0, <1>1
  <2>2. /\ y \in Seq(S) /\ Len(y) = (IF k + 1 <= j THEN j - (k + 1) + 1 ELSE 0)
        /\ \A i \in 1..(j - (k + 1) + 1) : y[i] = b[(k + 1) + i - 1]
    BY <1>0, <2>1, SubSeqProperties
  <2> HIDE DEF y
  <2>3. QED BY <1>0, <2>2
<1>4. z \in Seq(S) /\ Len(z) = j /\ \A i \in 1..j : z[i] = b[i]
  <2>1. \A i \in 1..j : b[i] \in S
    BY <1>0, <1>1
  <2>2. /\ z \in Seq(S) /\ Len(z) = (IF 1 <= j THEN j - 1 + 1 ELSE 0)
        /\ \A i \in 1..(j - 1 + 1) : z[i] = b[1 + i - 1]
    BY <1>0, <2>1, SubSeqProperties
  <2> HIDE DEF z
  <2>3. QED BY <1>0, <2>2
<1> HIDE DEF x, y, z
<1>5. /\ x \o y \in Seq(S) /\ Len(x \o y) = Len(x) + Len(y)
      /\ \A i \in 1..(Len(x) + Len(y)) : (x \o y)[i] = IF i <= Len(x) THEN x[i] ELSE y[i - Len(x)]
  BY <1>2, <1>3, ConcatProperties
<1>6. \A i \in 1..j : (x \o y)[i] = z[i]
  <2>1. SUFFICES ASSUME NEW i \in 1..j PROVE (x \o y)[i] = z[i]
    OBVIOUS
  <2>2. z[i] = b[i] /\ (x \o y)[i] = IF i <= k THEN x[i] ELSE y[i - k]
    BY <1>0, <1>2, <1>3, <1>4, <1>5
  <2>3. CASE i <= k
    BY <1>0, <1>2, <2>2, <2>3
  <2>4. CASE ~(i <= k)
    <3>1. i - k \in 1..(j - k) /\ k + (i - k) = i
      BY <1>0, <2>4
    <3>2. y[i - k] = b[k + (i - k)]
      BY <1>3, <3>1
    <3>3. QED BY <2>2, <2>4, <3>1, <3>2
  <2>5. QED BY <2>3, <2>4
<1>7. Len(x \o y) = Len(z) /\ Len(x \o y) = j
  BY <1>0, <1>2, <1>3, <1>4, <1>5
<1>8. x \o y = z
  BY <1>4, <1>5, <1>6, <1>7, SeqEqual
<1>9. QED BY <1>8 DEF x, y, z

\* The chunks ch are what b has from its k-th byte to its p-th.
Tiles(b, ch, k, p) ==
  \E cut \in [0..Len(ch) -> 0..p] :
    /\ cut[0] = k /\ cut[Len(ch)] = p
    /\ \A i \in 1..Len(ch) : /\ cut[i-1] <= cut[i]
                             /\ ch[i] = SubSeq(b, cut[i-1] + 1, cut[i])

LEMMA TilesEmpty ==
  ASSUME NEW b, NEW p \in Nat, NEW k
  PROVE  Tiles(b, <<>>, k, p) <=> k = p
<1>1. Len(<<>>) = 0
  OBVIOUS
<1>2. ASSUME k = p PROVE Tiles(b, <<>>, k, p)
  <2> DEFINE cut == [i \in 0..0 |-> p]
  <2>1. cut \in [0..0 -> 0..p] /\ cut[0] = p
    OBVIOUS
  <2> HIDE DEF cut
  <2>2. cut \in [0..Len(<<>>) -> 0..p] /\ cut[0] = k /\ cut[Len(<<>>)] = p
    BY <1>1, <1>2, <2>1
  <2>3. 1..Len(<<>>) = {}
    BY <1>1
  <2>4. QED BY <2>2, <2>3 DEF Tiles
<1>3. QED BY <1>1, <1>2 DEF Tiles

LEMMA TilesAppend ==
  ASSUME NEW b, NEW S, NEW ch \in Seq(S), NEW p \in Nat, NEW k \in Nat, Tiles(b, ch, k, p),
         NEW q \in Nat, p <= q, SubSeq(b, p + 1, q) \in S
  PROVE  Tiles(b, Append(ch, SubSeq(b, p + 1, q)), k, q)
<1> DEFINE n == Len(ch)
           c == SubSeq(b, p + 1, q)
           more == Append(ch, c)
<1>1. PICK cut \in [0..n -> 0..p] :
        /\ cut[0] = k /\ cut[n] = p
        /\ \A i \in 1..n : cut[i-1] <= cut[i] /\ ch[i] = SubSeq(b, cut[i-1] + 1, cut[i])
  BY DEF Tiles
<1>2. n \in Nat /\ Len(more) = n + 1 /\ more[n + 1] = c /\ \A i \in 1..n : more[i] = ch[i]
  <2>1. c \in S
    OBVIOUS
  <2> HIDE DEF c
  <2>2. QED BY <2>1, LenProperties, AppendProperties
<1> DEFINE nxt == [i \in 0..(n + 1) |-> IF i <= n THEN cut[i] ELSE q]
<1> HIDE DEF more, n
<1>3. nxt \in [0..(n + 1) -> 0..q]
  BY <1>1, <1>2
<1>4. nxt[0] = k /\ nxt[n + 1] = q
  BY <1>1, <1>2
<1>5. ASSUME NEW i \in 1..(n + 1)
      PROVE  nxt[i-1] <= nxt[i] /\ more[i] = SubSeq(b, nxt[i-1] + 1, nxt[i])
  <2>1. CASE i <= n
    <3>1. nxt[i-1] = cut[i-1] /\ nxt[i] = cut[i] /\ i \in 1..n
      BY <1>2, <2>1
    <3>2. QED BY <1>1, <1>2, <3>1
  <2>2. CASE ~(i <= n)
    <3>1. i = n + 1 /\ nxt[i-1] = p /\ nxt[i] = q
      <4>1. i = n + 1 /\ i - 1 = n
        BY <1>2, <2>2
      <4>2. nxt[n] = cut[n] /\ nxt[n + 1] = q
        BY <1>2
      <4>3. QED BY <1>1, <4>1, <4>2
    <3>2. QED BY <1>2, <3>1 DEF c
  <2>3. QED BY <2>1, <2>2
<1> HIDE DEF nxt
<1>6. Tiles(b, more, k, q)
  BY <1>2, <1>3, <1>4, <1>5 DEF Tiles
<1>7. QED BY <1>6 DEF more

LEMMA TilesTail ==
  ASSUME NEW b, NEW S, NEW ch \in Seq(S), ch # <<>>, NEW p \in Nat, NEW k \in Nat,
         Tiles(b, ch, k, p)
  PROVE  \E j \in k..p : Head(ch) = SubSeq(b, k + 1, j) /\ Tiles(b, Tail(ch), j, p)
<1> DEFINE n == Len(ch)
           rest == Tail(ch)
<1>1. PICK cut \in [0..n -> 0..p] :
        /\ cut[0] = k /\ cut[n] = p
        /\ \A i \in 1..n : cut[i-1] <= cut[i] /\ ch[i] = SubSeq(b, cut[i-1] + 1, cut[i])
  BY DEF Tiles
<1>2. /\ n \in Nat /\ n >= 1 /\ Len(rest) = n - 1 /\ \A i \in 1..(n - 1) : rest[i] = ch[i + 1]
      /\ Head(ch) = ch[1]
  <2>1. n \in Nat /\ n # 0
    BY LenProperties, EmptySeq
  <2>2. Len(rest) = n - 1 /\ \A i \in 1..Len(rest) : rest[i] = ch[i + 1]
    BY HeadTailProperties
  <2>3. QED BY <2>1, <2>2
<1> DEFINE nxt == [i \in 0..(n - 1) |-> cut[i + 1]]
           j == cut[1]
<1> HIDE DEF rest, n
<1>3. nxt \in [0..(n - 1) -> 0..p] /\ nxt[0] = j /\ nxt[n - 1] = p
  <2>1. \A i \in 0..(n - 1) : i + 1 \in 0..n /\ nxt[i] = cut[i + 1]
    BY <1>2
  <2>2. \A i \in 0..(n - 1) : nxt[i] \in 0..p
    BY <1>1, <2>1
  <2>3. 0 \in 0..(n - 1) /\ n - 1 \in 0..(n - 1) /\ 0 + 1 = 1 /\ n - 1 + 1 = n
    BY <1>2
  <2>4. nxt[0] = cut[0 + 1] /\ nxt[n - 1] = cut[n - 1 + 1]
    BY <2>1, <2>3
  <2>5. nxt[0] = j /\ nxt[n - 1] = p
    BY <1>1, <2>3, <2>4
  <2>6. QED BY <2>2, <2>5
<1>4. \A i \in 1..(n - 1) : nxt[i-1] <= nxt[i] /\ rest[i] = SubSeq(b, nxt[i-1] + 1, nxt[i])
  <2>1. SUFFICES ASSUME NEW i \in 1..(n - 1)
                 PROVE  nxt[i-1] <= nxt[i] /\ rest[i] = SubSeq(b, nxt[i-1] + 1, nxt[i])
    OBVIOUS
  <2>2. nxt[i-1] = cut[i] /\ nxt[i] = cut[i + 1] /\ rest[i] = ch[i + 1] /\ i + 1 \in 1..n
    BY <1>2
  <2>3. cut[i + 1 - 1] <= cut[i + 1] /\ ch[i + 1] = SubSeq(b, cut[i + 1 - 1] + 1, cut[i + 1])
    BY <1>1, <2>2
  <2>4. i + 1 - 1 = i
    BY <1>2
  <2>5. QED BY <2>2, <2>3, <2>4
<1> HIDE DEF nxt
<1>5. Tiles(b, rest, j, p)
  BY <1>2, <1>3, <1>4 DEF Tiles
<1>6. j \in k..p /\ Head(ch) = SubSeq(b, k + 1, j)
  <2>1. PICK i \in 1..n : i = 1
    BY <1>2
  <2>2. cut[i-1] <= cut[i] /\ ch[i] = SubSeq(b, cut[i-1] + 1, cut[i]) /\ i - 1 = 0
    BY <1>1, <2>1
  <2>3. cut[1] \in 0..p
    BY <1>1, <1>2
  <2>4. cut[0] <= cut[1] /\ ch[1] = SubSeq(b, cut[0] + 1, cut[1])
    BY <2>1, <2>2
  <2>5. QED BY <1>1, <1>2, <2>3, <2>4
<1>7. QED BY <1>5, <1>6 DEF rest
-----------------------------------------------------------------------------
(***************************************************************************)
(* The inductive invariants.                                               *)
(***************************************************************************)
\* What the client has been handed, as a beginning of the body and as a set.
Beginning(k) == SubSeq(Bytes, 1, k)
Seen == Upto(answer, pos)

BodyInv ==
  /\ answer \in Answers /\ pos \in 0..Len(Bytes) /\ received = Beginning(pos)
  /\ tx \in {"some", "none", "dropped"}
  /\ over \in {"no", "end", "upstream", "client"}
  /\ task \in {"running", "finished", "dead"}
  /\ lost \in BOOLEAN
  /\ tx = "dropped" <=> over # "no"
  /\ tx = "none" => task = "dead"
  /\ task = "finished" => over # "no"
  /\ over = "end" => pos = Len(Bytes)

\* The channel, the decoder and the meter hold what the client has been handed.
SeenInv ==
  /\ channel \in Seq(Seq(Seen)) /\ Len(channel) <= Capacity
  /\ DecoderOf(Seen, decoder) /\ MeterOf(meter)
  /\ meter.terminal => \E f \in FramesOf(Seen) : Observe(answer.dialect, NewMeter, f).terminal

\* Some first k bytes have been decoded and metered as if they had come as one
\* chunk, and the channel has the others that the client has.
MeteredUpTo(k) ==
  /\ task # "finished" => /\ SameSpot(decoder, Push(NewDecoder, Beginning(k)))
                          /\ meter = MeteredWhole(answer.dialect, Beginning(k))
  /\ task = "running" => Tiles(Bytes, channel, k, pos)
  /\ task = "finished" => k = pos /\ meter = ReportedWhole(answer.dialect, Beginning(k))
ChunkInv == ~lost => \E k \in 0..pos : MeteredUpTo(k)

LEMMA BytesAre ==
  ASSUME NEW a \in Answers
  PROVE  Encode(a) \in Seq(Symbols(a)) /\ Len(Encode(a)) \in Nat
BY EncodeIsSeq, LenProperties

LEMMA BodyInit == Init => BodyInv
<1>1. SUFFICES ASSUME Init PROVE BodyInv
  OBVIOUS
<1>2. answer \in Answers /\ Len(Bytes) \in Nat
  BY <1>1, BytesAre DEF Init, Bytes
<1>3. Beginning(0) = <<>>
  BY SubSeqEmpty DEF Beginning
<1>4. pos = 0 /\ received = Beginning(pos)
  BY <1>1, <1>3 DEF Init
<1>5. pos \in 0..Len(Bytes)
  BY <1>2, <1>4
<1>6. tx = "some" /\ over = "no" /\ task = "running" /\ lost \in BOOLEAN
  BY <1>1 DEF Init
<1>7. QED BY <1>2, <1>4, <1>5, <1>6 DEF BodyInv

LEMMA BodyStep == BodyInv /\ [Next]_vars => BodyInv'
<1>1. SUFFICES ASSUME BodyInv, [Next]_vars PROVE BodyInv'
  OBVIOUS
<1>2. answer \in Answers /\ Bytes \in Seq(Symbols(answer)) /\ Len(Bytes) \in Nat
  BY <1>1, BytesAre DEF BodyInv, Bytes
<1>3. ASSUME NEW n \in 1..MaxChunk, PollFrame(n) PROVE BodyInv'
  <2> DEFINE chunk == SubSeq(Bytes, pos + 1, pos + n)
  <2>1. /\ answer' = answer /\ over' = over /\ task' = task /\ over = "no"
        /\ pos + n <= Len(Bytes) /\ pos' = pos + n /\ received' = received \o chunk
        /\ \/ tx = "some" /\ tx' = tx /\ (lost' = lost \/ lost' = TRUE)
           \/ tx = "some" /\ task = "dead" /\ tx' = "none" /\ lost' = lost
           \/ tx = "none" /\ tx' = tx /\ lost' = lost
    BY <1>3 DEF PollFrame
  <2>2. Bytes' = Bytes
    BY <2>1 DEF Bytes
  <2>3. n \in Nat /\ pos \in 0..Len(Bytes) /\ pos + n \in pos..Len(Bytes) /\ pos' \in 0..Len(Bytes)
    BY <1>1, <1>2, <2>1, MeterAssumption DEF BodyInv
  <2>4. Beginning(pos) \o chunk = Beginning(pos + n)
    BY <1>2, <2>3, NextChunk DEF Beginning
  <2>5. received' = Beginning(pos)'
    BY <1>1, <2>1, <2>2, <2>4 DEF BodyInv, Beginning
  <2>6. QED BY <1>1, <2>1, <2>2, <2>3, <2>5 DEF BodyInv
<1>4. ASSUME NEW how \in {"end", "upstream", "client"}, BodyDropped(how),
             how = "end" => pos = Len(Bytes)
      PROVE  BodyInv'
  BY <1>1, <1>4 DEF BodyDropped, BodyInv, Beginning, Bytes
<1>5. ASSUME EndOfBody \/ UpstreamDies \/ ClientGone PROVE BodyInv'
  BY <1>4, <1>5 DEF EndOfBody, UpstreamDies, ClientGone
<1>6. ASSUME MeterReceives \/ MeterFinishes \/ MeterDies \/ Over \/ UNCHANGED vars PROVE BodyInv'
  <2>1. CASE MeterReceives
    BY <1>1, <2>1 DEF MeterReceives, BodyInv, Beginning, Bytes
  <2>2. CASE MeterFinishes
    BY <1>1, <2>2 DEF MeterFinishes, BodyInv, Beginning, Bytes
  <2>3. CASE MeterDies
    BY <1>1, <2>3 DEF MeterDies, BodyInv, Beginning, Bytes
  <2>4. CASE Over \/ UNCHANGED vars
    BY <1>1, <2>4 DEF Over, vars, BodyInv, Beginning, Bytes
  <2>5. QED BY <1>6, <2>1, <2>2, <2>3, <2>4
<1>7. QED BY <1>1, <1>3, <1>5, <1>6 DEF Next

LEMMA BodyTyped == Spec => []BodyInv
BY BodyInit, BodyStep, PTL DEF Spec

-----------------------------------------------------------------------------
\* More bytes seen.
LEMMA SeenGrows ==
  ASSUME NEW X, NEW Y, X \subseteq Y
  PROVE  /\ FramesOf(X) \subseteq FramesOf(Y) /\ Seq(Seq(X)) \subseteq Seq(Seq(Y))
         /\ \A d : DecoderOf(X, d) => DecoderOf(Y, d)
<1>1. Names(X) \subseteq Names(Y) /\ Shown(X) \subseteq Shown(Y)
  BY DEF Names, Shown
<1>2. FramesOf(X) \subseteq FramesOf(Y)
  BY <1>1 DEF FramesOf
<1>3. /\ Seq(X \ {NL}) \subseteq Seq(Y \ {NL}) /\ Seq(X) \subseteq Seq(Y)
      /\ Seq(Shown(X)) \subseteq Seq(Shown(Y)) /\ Seq(FramesOf(X)) \subseteq Seq(FramesOf(Y))
  BY <1>1, <1>2, SeqMonotonic
<1>4. Seq(Seq(X)) \subseteq Seq(Seq(Y))
  BY <1>3, SeqMonotonic
<1>5. ASSUME NEW d, DecoderOf(X, d) PROVE DecoderOf(Y, d)
  BY <1>1, <1>3, <1>5 DEF DecoderOf
<1>6. QED BY <1>2, <1>4, <1>5

\* The payloads of frames made of an answer's bytes are usage objects or nothing.
LEMMA FramesAreUsage ==
  ASSUME NEW a \in Answers, NEW X \in SUBSET Symbols(a), NEW f \in FramesOf(X)
  PROVE  f.data = Garbage \/ f.data = None \/ IsUsage(f.data.counts)
<1>1. f.data \in Shown(X)
  BY DEF FramesOf
<1>2. f.data = Garbage \/ \E e \in ToSet(a.events) : f.data = e.data
  BY <1>1, SymbolsSay
<1>3. \A e \in ToSet(a.events) : e.data = None \/ IsUsage(e.data.counts)
  BY MeterAssumption
<1>4. QED BY <1>2, <1>3

LEMMA SeenInit == Init => SeenInv
<1>1. SUFFICES ASSUME Init PROVE SeenInv
  OBVIOUS
<1>2. channel \in Seq(Seq(Seen)) /\ Len(channel) <= Capacity
  BY <1>1, EmptySeq, MeterAssumption DEF Init
<1>3. DecoderOf(Seen, decoder)
  BY <1>1, FreshDecoder DEF Init
<1>4. MeterOf(meter) /\ meter.terminal = FALSE
  BY <1>1, FreshMeter DEF Init
<1>5. QED BY <1>2, <1>3, <1>4 DEF SeenInv

LEMMA SeenStep == BodyInv /\ SeenInv /\ [Next]_vars => SeenInv'
<1>1. SUFFICES ASSUME BodyInv, SeenInv, [Next]_vars PROVE SeenInv'
  OBVIOUS
<1>2. /\ answer \in Answers /\ Bytes = Encode(answer) /\ Bytes \in Seq(Symbols(answer))
      /\ Len(Bytes) \in Nat /\ pos \in 0..Len(Bytes)
  BY <1>1, BytesAre DEF BodyInv, Bytes
<1>3. /\ channel \in Seq(Seq(Seen)) /\ Len(channel) <= Capacity
      /\ DecoderOf(Seen, decoder) /\ MeterOf(meter)
      /\ meter.terminal => \E f \in FramesOf(Seen) : Observe(answer.dialect, NewMeter, f).terminal
  BY <1>1 DEF SeenInv
<1>4. ASSUME answer' = answer, pos' = pos PROVE Seen' = Seen
  BY <1>4 DEF Seen
<1>5. ASSUME NEW frames \in Seq(FramesOf(Seen))
      PROVE  LET m == ObserveAll(answer.dialect, meter, frames)
             IN  /\ MeterOf(m)
                 /\ m.terminal => \E f \in FramesOf(Seen) : Observe(answer.dialect, NewMeter, f).terminal
  <2>1. Seen \in SUBSET Symbols(answer)
    BY <1>2, UptoBytes DEF Seen
  <2>2. \A f \in FramesOf(Seen) : f.data = Garbage \/ f.data = None \/ IsUsage(f.data.counts)
    BY <1>2, <2>1, FramesAreUsage
  <2>3. answer.dialect \in {"anthropic", "openai", "responses"}
    BY <1>2, MeterAssumption
  <2> DEFINE F == FramesOf(Seen)
  <2> HIDE DEF F
  <2>4. \A fs \in Seq(F) : Metered(answer.dialect, meter, F, fs)
    BY <1>3, <2>2, <2>3, ObserveAllMeter DEF F
  <2>5. QED BY <1>3, <1>5, <2>4 DEF Metered, F
<1>6. ASSUME NEW n \in 1..MaxChunk, PollFrame(n) PROVE SeenInv'
  <2> DEFINE chunk == SubSeq(Bytes, pos + 1, pos + n)
             X == Seen
             Y == Upto(answer, pos + n)
  <2>1. /\ answer' = answer /\ pos' = pos + n /\ pos + n <= Len(Bytes)
        /\ decoder' = decoder /\ meter' = meter
        /\ (channel' = channel \/ (Len(channel) < Capacity /\ channel' = Append(channel, chunk)))
    BY <1>6 DEF PollFrame
  <2>2. n \in Nat /\ pos \in 0..(pos + n) /\ pos + n \in 0..Len(Bytes) /\ pos + 1 \in Nat /\ pos + 1 >= 1
    BY <1>2, <2>1, MeterAssumption
  <2>3. Seen' = Y
    BY <2>1 DEF Seen
  <2>4. /\ Y \in SUBSET Symbols(answer)
        /\ \A j \in Nat, k \in 0..(pos + n) : j >= 1 => SubSeq(Encode(answer), j, k) \in Seq(Y)
        /\ \A m \in 0..(pos + n) : Upto(answer, m) \subseteq Y
    BY <1>2, <2>2, UptoBytes
  <2>5. X \subseteq Y
    BY <2>2, <2>4 DEF Seen
  <2>6. chunk \in Seq(Y)
    <3>1. pos + n \in 0..(pos + n)
      BY <2>2
    <3>2. QED BY <1>2, <2>2, <2>4, <3>1
  <2> HIDE DEF X, Y, chunk
  <2>7. /\ FramesOf(X) \subseteq FramesOf(Y) /\ Seq(Seq(X)) \subseteq Seq(Seq(Y))
        /\ \A d : DecoderOf(X, d) => DecoderOf(Y, d)
    BY <2>5, SeenGrows
  <2>8. channel \in Seq(Seq(Y)) /\ DecoderOf(Y, decoder)
    BY <1>3, <2>7 DEF X
  <2>9. channel' \in Seq(Seq(Y)) /\ Len(channel') <= Capacity
    <3>1. CASE channel' = channel
      BY <1>3, <2>8, <3>1
    <3>2. CASE Len(channel) < Capacity /\ channel' = Append(channel, chunk)
      <4>1. Append(channel, chunk) \in Seq(Seq(Y)) /\ Len(Append(channel, chunk)) = Len(channel) + 1
        BY <2>6, <2>8, AppendProperties
      <4>2. Len(channel) \in Nat
        BY <2>8, LenProperties
      <4>3. QED BY <3>2, <4>1, <4>2, MeterAssumption
    <3>3. QED BY <2>1, <3>1, <3>2
  <2>10. meter.terminal => \E f \in FramesOf(Y) : Observe(answer.dialect, NewMeter, f).terminal
    BY <1>3, <2>7 DEF X
  <2>11. QED BY <1>3, <2>1, <2>3, <2>8, <2>9, <2>10 DEF SeenInv
<1>7. ASSUME EndOfBody \/ UpstreamDies \/ ClientGone PROVE SeenInv'
  <2>1. UNCHANGED <<answer, pos, channel, decoder, meter>>
    BY <1>7 DEF EndOfBody, UpstreamDies, ClientGone, BodyDropped
  <2>2. QED BY <1>3, <1>4, <2>1 DEF SeenInv
<1>8. ASSUME MeterReceives PROVE SeenInv'
  <2> DEFINE u == Head(channel)
             dec == Push(decoder, u)
  <2>1. /\ answer' = answer /\ pos' = pos /\ channel # <<>> /\ channel' = Tail(channel)
        /\ decoder' = dec /\ meter' = ObserveAll(answer.dialect, meter, dec.out)
    BY <1>8 DEF MeterReceives
  <2>2. /\ u \in Seq(Seen) /\ Tail(channel) \in Seq(Seq(Seen))
        /\ Len(Tail(channel)) = Len(channel) - 1
    BY <1>3, <2>1, HeadTailProperties
  <2>3. DecoderOf(Seen, dec)
    <3>1. Pushed(Seen, decoder, u, dec)
      <4> HIDE DEF u
      <4>1. QED BY <1>3, <2>2, PushDecoder
    <3>2. QED BY <3>1 DEF Pushed
  <2>4. dec.out \in Seq(FramesOf(Seen))
    BY <2>3 DEF DecoderOf
  <2>5. Len(Tail(channel)) <= Capacity
    <3>1. Len(channel) \in Nat
      BY <1>3, LenProperties
    <3>2. QED BY <1>3, <2>2, <3>1, MeterAssumption
  <2> HIDE DEF dec
  <2>6. /\ MeterOf(meter')
        /\ meter'.terminal => \E f \in FramesOf(Seen) : Observe(answer.dialect, NewMeter, f).terminal
    BY <1>5, <2>1, <2>4
  <2>7. QED BY <1>4, <2>1, <2>2, <2>3, <2>5, <2>6 DEF SeenInv
<1>9. ASSUME MeterFinishes PROVE SeenInv'
  <2> DEFINE dec == FinishDecoder(decoder)
  <2>1. /\ answer' = answer /\ pos' = pos /\ channel' = channel
        /\ decoder' = dec /\ meter' = ObserveAll(answer.dialect, meter, dec.out)
    BY <1>9 DEF MeterFinishes
  <2>2. DecoderOf(Seen, dec)
    BY <1>3, FinishedDecoder
  <2>3. dec.out \in Seq(FramesOf(Seen))
    BY <2>2 DEF DecoderOf
  <2> HIDE DEF dec
  <2>4. /\ MeterOf(meter')
        /\ meter'.terminal => \E f \in FramesOf(Seen) : Observe(answer.dialect, NewMeter, f).terminal
    BY <1>5, <2>1, <2>3
  <2>5. QED BY <1>3, <1>4, <2>1, <2>2, <2>4 DEF SeenInv
<1>10. ASSUME MeterDies PROVE SeenInv'
  <2>1. UNCHANGED <<answer, pos, decoder, meter>> /\ channel' = <<>>
    BY <1>10 DEF MeterDies
  <2>2. channel' \in Seq(Seq(Seen)) /\ Len(channel') <= Capacity
    BY <2>1, EmptySeq, MeterAssumption
  <2>3. QED BY <1>3, <1>4, <2>1, <2>2 DEF SeenInv
<1>11. ASSUME Over \/ UNCHANGED vars PROVE SeenInv'
  <2>1. UNCHANGED <<answer, pos, channel, decoder, meter>>
    BY <1>11 DEF Over, vars
  <2>2. QED BY <1>3, <1>4, <2>1 DEF SeenInv
<1>12. QED BY <1>1, <1>6, <1>7, <1>8, <1>9, <1>10, <1>11 DEF Next

LEMMA SeenHolds == Spec => []SeenInv
<1>1. Spec => []BodyInv
  BY BodyTyped
<1>2. QED BY <1>1, SeenInit, SeenStep, PTL DEF Spec

-----------------------------------------------------------------------------
LEMMA ChunkInit == BodyInv /\ Init => ChunkInv
<1>1. SUFFICES ASSUME BodyInv, Init PROVE ChunkInv
  OBVIOUS
<1> DEFINE w == Push(NewDecoder, Beginning(0))
           F == FramesOf({})
<1>2. Beginning(0) = <<>> /\ pos = 0 /\ 0 \in 0..pos
  BY <1>1, SubSeqEmpty DEF Beginning, Init
<1>3. SameSpot(NewDecoder, w) /\ w.out = <<>>
  <2> DEFINE e == <<>>
             n == Reset(NewDecoder, <<>>, <<>>)
  <2>1. NewDecoder.buf = <<>> /\ <<>> \o <<>> = <<>>
    BY DEF NewDecoder
  <2>2. Split(<<>>) = [lines |-> <<>>, rest |-> <<>>]
    BY SplitEmpty
  <2>3. Split(<<>>).lines = <<>> /\ Split(<<>>).rest = <<>>
    BY <2>2
  <2>4. w = DecodeLines(n, <<>>)
    BY <1>2, <2>1, <2>3 DEF Push, Reset
  <2>5. w = n
    BY <2>4, DecodeLinesEmpty
  <2>6. NewDecoder = [buf |-> NewDecoder.buf, event |-> NewDecoder.event, data |-> NewDecoder.data,
                      out |-> NewDecoder.out]
    BY FreshDecoder DEF DecoderOf
  <2> DEFINE z == NewDecoder
  <2> HIDE DEF e, z
  <2>7. Reset(z, e, e) = [buf |-> e, event |-> z.event, data |-> z.data, out |-> e]
    BY <2>6, DecoderExceptTwo, Zenon DEF z
  <2>8. w = Reset(z, e, e) /\ z.buf = e
    BY <2>1, <2>5 DEF e, z
  <2> HIDE DEF w
  <2>9. w.buf = z.buf /\ w.event = z.event /\ w.data = z.data /\ w.out = e
    BY <2>7, <2>8
  <2>10. QED BY <2>9 DEF SameSpot, e, z
<1>4. MeteredWhole(answer.dialect, Beginning(0)) = NewMeter
  BY <1>3, ObserveAllEmpty DEF MeteredWhole
<1>5. channel = <<>> /\ task = "running" /\ decoder = NewDecoder /\ meter = NewMeter
  BY <1>1 DEF Init
<1>6. Tiles(Bytes, channel, 0, pos)
  BY <1>2, <1>5, TilesEmpty
<1>7. MeteredUpTo(0)
  BY <1>3, <1>4, <1>5, <1>6 DEF MeteredUpTo
<1>8. QED BY <1>2, <1>7 DEF ChunkInv

\* Bytes k + 1 to j, pushed and observed after the first k.
LEMMA MeterChunk ==
  ASSUME NEW a \in Answers, NEW n \in 0..Len(Encode(a)), NEW j \in 0..n, NEW k \in 0..j,
         NEW d, DecoderOf(Upto(a, n), d),
         SameSpot(d, Push(NewDecoder, SubSeq(Encode(a), 1, k)))
  PROVE  LET u == SubSeq(Encode(a), k + 1, j)
         IN  /\ SameSpot(Push(d, u), Push(NewDecoder, SubSeq(Encode(a), 1, j)))
             /\ ObserveAll(a.dialect, MeteredWhole(a.dialect, SubSeq(Encode(a), 1, k)), Push(d, u).out)
                  = MeteredWhole(a.dialect, SubSeq(Encode(a), 1, j))
<1> DEFINE b == Encode(a)
           X == Upto(a, n)
           c == SubSeq(b, 1, k)
           u == SubSeq(b, k + 1, j)
           all == SubSeq(b, 1, j)
<1>1. b \in Seq(Symbols(a)) /\ Len(b) \in Nat
  BY BytesAre
<1>2. /\ n \in Nat /\ j \in Nat /\ k \in Nat /\ k + 1 \in Nat /\ k + 1 >= 1
      /\ k \in 0..n /\ k \in 0..Len(b) /\ j \in k..Len(b)
  BY <1>1
<1>3. c \in Seq(X) /\ u \in Seq(X) /\ all \in Seq(X)
  <2>1. \A i \in Nat, e \in 0..n : i >= 1 => SubSeq(b, i, e) \in Seq(X)
    BY UptoBytes
  <2> HIDE DEF b, X
  <2>2. 1 \in Nat /\ 1 >= 1 /\ j \in 0..n
    BY <1>2
  <2>3. SubSeq(b, 1, k) \in Seq(X)
    BY <1>2, <2>1, <2>2
  <2>4. SubSeq(b, k + 1, j) \in Seq(X)
    BY <1>2, <2>1, <2>2
  <2>5. SubSeq(b, 1, j) \in Seq(X)
    BY <1>2, <2>1, <2>2
  <2>6. QED BY <2>3, <2>4, <2>5
<1>4. c \o u = all
  BY <1>1, <1>2, NextChunk
<1>5. DecoderOf(X, d) /\ SameSpot(d, Push(NewDecoder, c))
  OBVIOUS
<1> HIDE DEF b, X, c, u, all
<1>6. /\ SameSpot(Push(d, u), Push(NewDecoder, c \o u))
      /\ Push(NewDecoder, c \o u).out = Push(NewDecoder, c).out \o Push(d, u).out
  <2>1. c \in Seq(X) /\ u \in Seq(X)
    BY <1>3
  <2>2. PushedOn(c, u, d)
    BY <1>5, <2>1, PushTwice
  <2>3. QED BY <2>2 DEF PushedOn
<1>7. DecoderOf(X, Push(NewDecoder, c)) /\ DecoderOf(X, Push(d, u))
  <2>1. Pushed(X, NewDecoder, c, Push(NewDecoder, c)) /\ Pushed(X, d, u, Push(d, u))
    BY <1>3, <1>5, FreshDecoder, PushDecoder
  <2>2. QED BY <2>1 DEF Pushed
<1> DEFINE F == FramesOf(X)
           s == Push(NewDecoder, c).out
           t == Push(d, u).out
<1>8. s \in Seq(F) /\ t \in Seq(F)
  BY <1>7 DEF DecoderOf
<1> HIDE DEF F, s, t
<1>9. \A x \in Seq(F) : ObserveAll(a.dialect, NewMeter, s \o x)
                          = ObserveAll(a.dialect, ObserveAll(a.dialect, NewMeter, s), x)
  BY <1>8, ObserveAllConcat
<1>10. ObserveAll(a.dialect, NewMeter, s \o t)
         = ObserveAll(a.dialect, ObserveAll(a.dialect, NewMeter, s), t)
  BY <1>8, <1>9
<1>11. Push(NewDecoder, all).out = s \o t /\ SameSpot(Push(d, u), Push(NewDecoder, all))
  BY <1>4, <1>6 DEF s, t
<1>12. ObserveAll(a.dialect, MeteredWhole(a.dialect, c), t) = MeteredWhole(a.dialect, all)
  BY <1>10, <1>11 DEF MeteredWhole, s
<1>13. QED BY <1>11, <1>12 DEF b, c, u, all, t

LEMMA ChunkStep == BodyInv /\ SeenInv /\ ChunkInv /\ [Next]_vars => ChunkInv'
<1>1. SUFFICES ASSUME BodyInv, SeenInv, ChunkInv, [Next]_vars, ~lost' PROVE ChunkInv'
  BY DEF ChunkInv
<1>2. /\ answer \in Answers /\ Bytes = Encode(answer) /\ Bytes \in Seq(Symbols(answer))
      /\ Len(Bytes) \in Nat /\ pos \in 0..Len(Bytes) /\ pos \in Nat
      /\ (tx = "dropped" <=> over # "no") /\ (tx = "none" => task = "dead")
      /\ (task = "finished" => over # "no")
  BY <1>1, BytesAre DEF BodyInv, Bytes
<1>3. channel \in Seq(Seq(Seen)) /\ DecoderOf(Seen, decoder)
  BY <1>1 DEF SeenInv
<1>4. ~lost
  <2>1. \/ \E n \in 1..MaxChunk : PollFrame(n)
        \/ lost' = lost
    BY <1>1 DEF Next, EndOfBody, UpstreamDies, ClientGone, BodyDropped, MeterReceives,
                MeterFinishes, MeterDies, Over, vars
  <2>2. ASSUME NEW n \in 1..MaxChunk, PollFrame(n) PROVE lost' = lost
    BY <1>1, <2>2 DEF PollFrame
  <2>3. QED BY <1>1, <2>1, <2>2
<1>5. PICK k \in 0..pos : MeteredUpTo(k)
  BY <1>1, <1>4 DEF ChunkInv
<1>6. k \in Nat /\ k <= pos /\ k \in 0..Len(Bytes)
  BY <1>2
<1>7. ASSUME answer' = answer
      PROVE  Bytes' = Bytes /\ \A i : SubSeq(Bytes, 1, i)' = SubSeq(Bytes, 1, i)
  BY <1>7 DEF Bytes
<1>8. SUFFICES \E i \in 0..pos' : MeteredUpTo(i)'
  BY DEF ChunkInv
<1>9. ASSUME NEW n \in 1..MaxChunk, PollFrame(n) PROVE MeteredUpTo(k)' /\ k \in 0..pos'
  <2> DEFINE chunk == SubSeq(Bytes, pos + 1, pos + n)
  <2>1. /\ answer' = answer /\ pos' = pos + n /\ pos + n <= Len(Bytes) /\ over = "no"
        /\ decoder' = decoder /\ meter' = meter /\ task' = task
        /\ (task = "running" => channel' = Append(channel, chunk))
    BY <1>1, <1>2, <1>9 DEF PollFrame
  <2>2. n \in Nat /\ pos + n \in Nat /\ pos <= pos + n /\ k \in 0..(pos + n)
    BY <1>2, <1>6, MeterAssumption
  <2>3. task = "running" => Tiles(Bytes, channel', k, pos + n)
    <3>1. SUFFICES ASSUME task = "running" PROVE Tiles(Bytes, channel', k, pos + n)
      OBVIOUS
    <3>2. Tiles(Bytes, channel, k, pos)
      BY <1>5, <3>1 DEF MeteredUpTo
    <3> DEFINE S == Seq(Seen) \cup {chunk}
    <3>4. channel \in Seq(S) /\ chunk \in S
      <4>1. Seq(Seen) \subseteq S /\ chunk \in S
        OBVIOUS
      <4> HIDE DEF S
      <4>2. QED BY <1>3, <4>1, SeqMonotonic
    <3> HIDE DEF S
    <3>5. Tiles(Bytes, Append(channel, chunk), k, pos + n)
      BY <1>2, <1>6, <2>2, <3>2, <3>4, TilesAppend
    <3>6. QED BY <2>1, <3>1, <3>5
  <2>4. task # "finished"
    BY <1>2, <2>1
  <2>5. Bytes' = Bytes
    BY <1>7, <2>1
  <2>6. /\ SameSpot(decoder, Push(NewDecoder, Beginning(k)))
        /\ meter = MeteredWhole(answer.dialect, Beginning(k))
    BY <1>5, <2>4 DEF MeteredUpTo
  <2>7. MeteredUpTo(k)'
    BY <2>1, <2>3, <2>4, <2>5, <2>6 DEF MeteredUpTo, Beginning
  <2>8. QED BY <2>1, <2>2, <2>7
<1>10. ASSUME UNCHANGED <<answer, pos, channel, decoder, meter, task>>
       PROVE  MeteredUpTo(k)' /\ k \in 0..pos'
  BY <1>5, <1>7, <1>10 DEF MeteredUpTo, Beginning
<1>11. ASSUME EndOfBody \/ UpstreamDies \/ ClientGone \/ Over \/ UNCHANGED vars
       PROVE  UNCHANGED <<answer, pos, channel, decoder, meter, task>>
  BY <1>11 DEF EndOfBody, UpstreamDies, ClientGone, BodyDropped, Over, vars
<1>12. ASSUME MeterReceives PROVE \E i \in 0..pos' : MeteredUpTo(i)'
  <2> DEFINE u == Head(channel)
             dec == Push(decoder, u)
  <2>1. /\ answer' = answer /\ pos' = pos /\ channel # <<>> /\ channel' = Tail(channel)
        /\ decoder' = dec /\ meter' = ObserveAll(answer.dialect, meter, dec.out)
        /\ task = "running" /\ task' = task
    BY <1>12 DEF MeterReceives
  <2>2. /\ SameSpot(decoder, Push(NewDecoder, Beginning(k)))
        /\ meter = MeteredWhole(answer.dialect, Beginning(k))
        /\ Tiles(Bytes, channel, k, pos)
    BY <1>5, <2>1 DEF MeteredUpTo
  <2>3. PICK j \in k..pos : u = SubSeq(Bytes, k + 1, j) /\ Tiles(Bytes, Tail(channel), j, pos)
    BY <1>2, <1>3, <1>6, <2>1, <2>2, TilesTail
  <2>4. j \in 0..pos /\ k \in 0..j
    BY <1>2, <1>6
  <2>5. /\ SameSpot(Push(decoder, SubSeq(Encode(answer), k + 1, j)),
                    Push(NewDecoder, SubSeq(Encode(answer), 1, j)))
        /\ ObserveAll(answer.dialect, MeteredWhole(answer.dialect, SubSeq(Encode(answer), 1, k)),
                      Push(decoder, SubSeq(Encode(answer), k + 1, j)).out)
             = MeteredWhole(answer.dialect, SubSeq(Encode(answer), 1, j))
    <3>1. DecoderOf(Upto(answer, pos), decoder)
      BY <1>3 DEF Seen
    <3>2. SameSpot(decoder, Push(NewDecoder, SubSeq(Encode(answer), 1, k)))
      BY <1>2, <2>2 DEF Beginning
    <3>3. pos \in 0..Len(Encode(answer))
      BY <1>2
    <3>4. QED BY <1>2, <2>4, <3>1, <3>2, <3>3, MeterChunk
  <2>6. /\ SameSpot(dec, Push(NewDecoder, Beginning(j)))
        /\ meter' = MeteredWhole(answer.dialect, Beginning(j))
    BY <1>2, <2>1, <2>2, <2>3, <2>5 DEF Beginning
  <2> HIDE DEF dec
  <2>7. Beginning(j)' = Beginning(j) /\ Bytes' = Bytes
    BY <1>7, <2>1 DEF Beginning
  <2>8. MeteredUpTo(j)'
    BY <2>1, <2>3, <2>6, <2>7 DEF MeteredUpTo
  <2>9. QED BY <2>1, <2>4, <2>8
<1>13. ASSUME MeterFinishes PROVE MeteredUpTo(k)' /\ k \in 0..pos'
  <2> DEFINE dec == FinishDecoder(decoder)
             w == Push(NewDecoder, Beginning(pos))
  <2>1. /\ answer' = answer /\ pos' = pos /\ channel = <<>> /\ task = "running"
        /\ meter' = ObserveAll(answer.dialect, meter, dec.out) /\ task' = "finished"
    BY <1>13 DEF MeterFinishes
  <2>2. k = pos
    <3>1. Tiles(Bytes, <<>>, k, pos)
      BY <1>5, <2>1 DEF MeteredUpTo
    <3>2. QED BY <1>2, <3>1, TilesEmpty
  <2>3. SameSpot(decoder, w) /\ meter = MeteredWhole(answer.dialect, Beginning(pos))
    BY <1>5, <2>1, <2>2 DEF MeteredUpTo
  <2>4. DecoderOf(Seen, w)
    <3>1. pos \in 0..Len(Encode(answer)) /\ 1 \in Nat /\ 1 >= 1 /\ pos \in 0..pos
      BY <1>2
    <3>2. \A i \in Nat, e \in 0..pos : i >= 1 => SubSeq(Encode(answer), i, e) \in Seq(Upto(answer, pos))
      BY <1>2, <3>1, UptoBytes
    <3>3. Beginning(pos) \in Seq(Seen)
      BY <1>2, <3>1, <3>2 DEF Beginning, Seen
    <3>4. Pushed(Seen, NewDecoder, Beginning(pos), w)
      BY <3>3, FreshDecoder, PushDecoder
    <3>5. QED BY <3>4 DEF Pushed
  <2>5. dec.out = FinishDecoder(w).out
    <3> HIDE DEF w
    <3>1. \A e : DecoderOf(Seen, e) /\ SameSpot(decoder, e)
                   => FinishDecoder(decoder).out = FinishDecoder(e).out
      BY <1>3, FinishedDecoder
    <3>2. QED BY <2>3, <2>4, <3>1
  <2>6. meter' = ReportedWhole(answer.dialect, Beginning(pos))
    BY <2>1, <2>3, <2>5 DEF ReportedWhole
  <2>7. Beginning(k)' = Beginning(k)
    BY <1>7, <2>1 DEF Beginning
  <2>8. MeteredUpTo(k)'
    BY <2>1, <2>2, <2>6, <2>7 DEF MeteredUpTo
  <2>9. QED BY <1>6, <2>1, <2>8
<1>14. ASSUME MeterDies PROVE MeteredUpTo(k)' /\ k \in 0..pos'
  <2>1. UNCHANGED <<answer, pos, decoder, meter>> /\ task = "running" /\ task' = "dead"
    BY <1>14 DEF MeterDies
  <2>2. QED BY <1>5, <1>7, <2>1 DEF MeteredUpTo, Beginning
<1>15. CASE \E n \in 1..MaxChunk : PollFrame(n)
  BY <1>9, <1>15
<1>16. CASE EndOfBody \/ UpstreamDies \/ ClientGone \/ Over \/ UNCHANGED vars
  BY <1>10, <1>11, <1>16
<1>17. CASE MeterFinishes
  BY <1>13, <1>17
<1>18. CASE MeterDies
  BY <1>14, <1>18
<1>19. QED BY <1>1, <1>12, <1>15, <1>16, <1>17, <1>18 DEF Next

LEMMA ChunkHolds == Spec => []ChunkInv
<1>1. Spec => []BodyInv
  BY BodyTyped
<1>2. Spec => []SeenInv
  BY SeenHolds
<1>3. QED BY <1>1, <1>2, BodyInit, ChunkInit, ChunkStep, PTL DEF Spec
-----------------------------------------------------------------------------
(***************************************************************************)
(* The theorems.                                                           *)
(***************************************************************************)
\* The channel of the tee never holds more than TEE_CAPACITY chunks, and the
\* counters of the meter stay natural numbers.
THEOREM TypesHold == Spec => []TypeOK
<1>1. BodyInv /\ SeenInv => TypeOK
  BY DEF BodyInv, SeenInv, MeterOf, TypeOK
<1>2. QED BY <1>1, BodyTyped, SeenHolds, PTL

\* What the client has been handed is always a beginning of the body, and all
\* of it when the body ends (TeeBody::poll_frame passes every frame on).
HandedOn == received = Beginning(pos) /\ (over = "end" => received = Bytes)

THEOREM ClientGetsTheBody == Spec => []HandedOn
<1>1. ASSUME BodyInv PROVE HandedOn
  <2>1. answer \in Answers /\ pos \in 0..Len(Bytes) /\ received = Beginning(pos)
    BY <1>1 DEF BodyInv
  <2>2. Beginning(Len(Bytes)) = Bytes
    BY <2>1, BytesAre, SubSeqFull DEF Beginning, Bytes
  <2>3. QED BY <1>1, <2>1, <2>2 DEF BodyInv, HandedOn
<1>2. QED BY <1>1, BodyTyped, PTL

\* Chunk boundaries do not matter, however the exchange ended: a meter task that
\* reports and lost no clone reports what it would for the bytes that the client
\* has, had they come as one chunk (SseDecoder::push keeps its place).
MeteredAsReceived ==
  task = "finished" /\ ~lost => meter = ReportedWhole(answer.dialect, received)

THEOREM ChunkingIsIrrelevant == Spec => []MeteredAsReceived
<1>1. BodyInv /\ ChunkInv => MeteredAsReceived
  BY DEF BodyInv, ChunkInv, MeteredUpTo, MeteredAsReceived
<1>2. QED BY <1>1, BodyTyped, ChunkHolds, PTL

\* If every answer is metered exactly as one chunk, then it is so however it is
\* cut into body frames, if it was delivered whole and no clone of it was lost.
THEOREM WholeStreamsAreExact ==
  ASSUME BilledExactly(Answers)
  PROVE  Spec => []WholeStreamIsExact
<1>1. ASSUME BodyInv, HandedOn, MeteredAsReceived PROVE WholeStreamIsExact
  <2>1. SUFFICES ASSUME over = "end", task = "finished", ~lost PROVE meter = answer.bill
    BY DEF WholeStreamIsExact
  <2>2. received = Encode(answer) /\ answer \in Answers
    BY <1>1, <2>1 DEF BodyInv, HandedOn, Bytes
  <2>3. meter = ReportedWhole(answer.dialect, Encode(answer))
    BY <1>1, <2>1, <2>2 DEF MeteredAsReceived
  <2>4. QED BY <2>2, <2>3 DEF BilledExactly
<1>2. QED BY <1>1, BodyTyped, ClientGetsTheBody, ChunkingIsIrrelevant, PTL

\* If the bill of every answer covers its beginnings as one chunk, then at no
\* time is more counted than the bill, wherever the body is cut up or cut short.
THEOREM MeteringErrsLow ==
  ASSUME BillCovers(Answers)
  PROVE  Spec => []NeverOvercounts
<1>1. ASSUME BodyInv, ChunkInv PROVE NeverOvercounts
  <2>1. SUFFICES ASSUME ~lost, NEW c \in Counters PROVE meter[c] <= answer.bill[c]
    BY DEF NeverOvercounts
  <2>2. PICK k \in 0..pos : MeteredUpTo(k)
    BY <1>1, <2>1 DEF ChunkInv
  <2>3. answer \in Answers /\ k \in 0..Len(Encode(answer))
    <3>1. answer \in Answers /\ pos \in 0..Len(Bytes) /\ Len(Bytes) \in Nat
      BY <1>1, BytesAre DEF BodyInv, Bytes
    <3>2. QED BY <3>1 DEF Bytes
  <2>4. /\ MeteredWhole(answer.dialect, Beginning(k))[c] <= answer.bill[c]
        /\ ReportedWhole(answer.dialect, Beginning(k))[c] <= answer.bill[c]
    BY <2>3 DEF BillCovers, Beginning, Bytes
  <2>5. \/ meter = MeteredWhole(answer.dialect, Beginning(k))
        \/ meter = ReportedWhole(answer.dialect, Beginning(k))
    BY <1>1, <2>2 DEF BodyInv, MeteredUpTo
  <2>6. QED BY <2>4, <2>5
<1>2. QED BY <1>1, BodyTyped, ChunkHolds, PTL

\* If the events of every answer agree on what completes it, then an exchange is
\* reported complete only when an event that says so has been handed to the
\* client to the end of its data, whatever the channel lost.
THEOREM CompletionIsEarned ==
  ASSUME NamesAgree(Answers)
  PROVE  Spec => []CompleteIsEarned
<1>1. ASSUME BodyInv, SeenInv PROVE CompleteIsEarned
  <2> DEFINE Says(f) == Observe(answer.dialect, NewMeter, f).terminal
             E == ToSet(answer.events)
  <2>1. SUFFICES ASSUME meter.terminal
                 PROVE  \E i \in DOMAIN answer.events, j \in DOMAIN received :
                          /\ Says(answer.events[i])
                          /\ received[j].field \in {"data", "raw"} /\ received[j].part = 2
                          /\ received[j].value = answer.events[i].data
    BY DEF CompleteIsEarned
  <2>2. PICK f \in FramesOf(Seen) : Says(f)
    BY <1>1, <2>1 DEF SeenInv
  <2>3. /\ answer \in Answers /\ Bytes = Encode(answer) /\ Bytes \in Seq(Symbols(answer))
        /\ Len(Bytes) \in Nat /\ pos \in 0..Len(Bytes) /\ received = SubSeq(Bytes, 1, pos)
    BY <1>1, BytesAre DEF BodyInv, Bytes, Beginning
  <2>4. f.data # Garbage
    <3>1. f.data = Garbage => Observe(answer.dialect, NewMeter, f) = NewMeter
      BY DEF Observe
    <3>2. NewMeter.terminal = FALSE
      BY FreshMeter
    <3>3. QED BY <2>2, <3>1, <3>2
  <2>5. f.event \in Names(Seen) /\ f.data \in Shown(Seen) /\ f = [event |-> f.event, data |-> f.data]
    BY DEF FramesOf
  <2>6. PICK x \in Seen : x.field \in {"data", "raw"} /\ x.part = 2 /\ x.value = f.data
    BY <2>4, <2>5 DEF Shown
  <2>7. PICK j \in 1..pos : x = Bytes[j]
    BY <2>3 DEF Seen, Upto
  <2>8. j \in DOMAIN received /\ received[j] = x
    <3>1. \A i \in 1..pos : Bytes[i] \in Symbols(answer)
      BY <2>3, ElementOfSeq
    <3>2. /\ SubSeq(Bytes, 1, pos) \in Seq(Symbols(answer))
          /\ Len(SubSeq(Bytes, 1, pos)) = (IF 1 <= pos THEN pos - 1 + 1 ELSE 0)
          /\ \A i \in 1..(pos - 1 + 1) : SubSeq(Bytes, 1, pos)[i] = Bytes[1 + i - 1]
      BY <2>3, <3>1, SubSeqProperties
    <3>3. received \in Seq(Symbols(answer)) /\ Len(received) = pos
      BY <2>3, <3>2
    <3>4. j \in DOMAIN received
      BY <3>3, LenProperties
    <3>5. 1 + j - 1 = j /\ pos - 1 + 1 = pos
      BY <2>3
    <3>6. received[j] = Bytes[j]
      BY <2>3, <3>2, <3>5
    <3>7. QED BY <2>7, <3>4, <3>6
  <2>9. Seen \in SUBSET Symbols(answer)
    BY <2>3, UptoBytes DEF Seen
  <2>10. /\ \A v \in Shown(Seen) : v = Garbage \/ \E e \in E : v = e.data
         /\ \A v \in Names(Seen) : v \in {e.event : e \in E} \cup {None, Garbage}
    BY <2>3, <2>9, SymbolsSay
  <2>11. PICK e \in E : f.data = e.data
    BY <2>4, <2>5, <2>10
  <2>12. Says([event |-> f.event, data |-> e.data])
    BY <2>2, <2>5, <2>11
  <2>13. f.event \in {g.event : g \in E} \cup {None, Garbage}
    BY <2>5, <2>10
  <2> HIDE DEF Says
  <2>14. \A name \in {g.event : g \in E} \cup {None, Garbage} :
           Says([event |-> name, data |-> e.data]) => \E g \in E : g.data = e.data /\ Says(g)
    BY <2>3 DEF NamesAgree, Says
  <2>15. PICK g \in E : g.data = e.data /\ Says(g)
    BY <2>12, <2>13, <2>14
  <2>16. PICK i \in DOMAIN answer.events : g = answer.events[i]
    BY DEF ToSet
  <2>17. QED BY <2>6, <2>8, <2>11, <2>15, <2>16
<1>2. QED BY <1>1, BodyTyped, SeenHolds, PTL
=============================================================================
