-------------------------- MODULE LedgerFileProofs --------------------------
(***************************************************************************)
(* Proofs about module LedgerFile: what a command reads, for any number of *)
(* proxies on one ledger and of records, and all faults.                   *)
(***************************************************************************)
EXTENDS LedgerFile, TaskTreeProofs, SequenceTheorems

-----------------------------------------------------------------------------
(***************************************************************************)
(* read_all, byte by byte.                                                 *)
(***************************************************************************)
Cell(rec, part) == [rec |-> rec, part |-> part]
Cells(R) == [rec : R, part : {1, 2, 3}]

\* What read_all has when it has come somewhere in the file.
Readers(R) == [line : Seq(Cells(R)), ok : BOOLEAN, recs : Seq(R)]
NewReader == [line |-> <<>>, ok |-> TRUE, recs |-> <<>>]
ReadByte(r, byte) ==
  IF byte.part = 3 THEN TakeLine(r) ELSE [r EXCEPT !.line = Append(@, byte)]
Reads(f, bytes, n) ==
  f = [i \in 0..n |-> IF i = 0 THEN NewReader ELSE ReadByte(f[i-1], bytes[i])]

LEMMA TakeLineType ==
  ASSUME NEW R, NEW r \in Readers(R)
  PROVE  TakeLine(r) \in Readers(R)
<1>1. <<>> \in Seq(Cells(R)) /\ <<>> \in Seq(R)
  BY EmptySeq
<1>2. /\ r.line \in Seq(Cells(R)) /\ r.recs \in Seq(R)
      /\ r = [line |-> r.line, ok |-> r.ok, recs |-> r.recs] /\ r.ok \in BOOLEAN
  BY DEF Readers
<1>3. CASE r.line = <<>> \/ ~r.ok
  BY <1>1, <1>2, <1>3 DEF TakeLine, Readers
<1>4. CASE ~(r.line = <<>> \/ ~r.ok) /\ Parses(r.line)
  <2>1. r.line[1] \in Cells(R)
    <3>1. Len(r.line) = 2
      BY <1>4 DEF Parses
    <3>2. QED BY <1>2, <3>1, ElementOfSeq
  <2>2. r.line[1].rec \in R
    BY <2>1 DEF Cells
  <2>3. Append(r.recs, r.line[1].rec) \in Seq(R)
    BY <1>2, <2>2, AppendProperties
  <2>4. TakeLine(r) = [r EXCEPT !.line = <<>>, !.recs = Append(r.recs, r.line[1].rec)]
    BY <1>4 DEF TakeLine
  <2>5. QED BY <1>1, <1>2, <2>3, <2>4 DEF Readers
<1>5. CASE ~(r.line = <<>> \/ ~r.ok) /\ ~Parses(r.line)
  BY <1>1, <1>5 DEF TakeLine, Readers
<1>6. QED BY <1>3, <1>4, <1>5

LEMMA ReadByteType ==
  ASSUME NEW R, NEW r \in Readers(R), NEW byte \in Cells(R)
  PROVE  ReadByte(r, byte) \in Readers(R)
<1>1. CASE byte.part = 3
  BY <1>1, TakeLineType DEF ReadByte
<1>2. CASE byte.part # 3
  <2>1. r.line \in Seq(Cells(R))
    BY DEF Readers
  <2>2. Append(r.line, byte) \in Seq(Cells(R))
    BY <2>1, AppendProperties
  <2>3. ReadByte(r, byte) = [r EXCEPT !.line = Append(r.line, byte)]
    BY <1>2 DEF ReadByte
  <2>4. QED BY <2>2, <2>3 DEF Readers
<1>3. QED BY <1>1, <1>2

LEMMA ReadsExist ==
  ASSUME NEW R, NEW bytes \in Seq(Cells(R))
  PROVE  \E f \in [0..Len(bytes) -> Readers(R)] : Reads(f, bytes, Len(bytes))
<1>1. Len(bytes) \in Nat /\ \A i \in 1..Len(bytes) : bytes[i] \in Cells(R)
  BY LenProperties, ElementOfSeq
<1>2. NewReader \in Readers(R)
  BY EmptySeq DEF NewReader, Readers
<1> DEFINE T == {n \in Nat : n <= Len(bytes) => \E f \in [0..n -> Readers(R)] : Reads(f, bytes, n)}
<1>3. 0 \in T
  <2> DEFINE f == [i \in 0..0 |-> NewReader]
  <2>1. f \in [0..0 -> Readers(R)]
    BY <1>2
  <2>2. Reads(f, bytes, 0)
    BY DEF Reads
  <2>3. QED BY <2>1, <2>2
<1>4. ASSUME NEW n \in T PROVE n + 1 \in T
  <2>1. n \in Nat
    OBVIOUS
  <2>2. SUFFICES ASSUME n + 1 <= Len(bytes)
                 PROVE  \E f \in [0..(n + 1) -> Readers(R)] : Reads(f, bytes, n + 1)
    BY <2>1
  <2>3. PICK f \in [0..n -> Readers(R)] : Reads(f, bytes, n)
    BY <1>1, <2>1, <2>2
  <2> DEFINE last == ReadByte(f[n], bytes[n + 1])
             g == [i \in 0..(n + 1) |-> IF i <= n THEN f[i] ELSE last]
  <2>4. last \in Readers(R)
    <3>1. f[n] \in Readers(R) /\ bytes[n + 1] \in Cells(R)
      BY <1>1, <2>1, <2>2
    <3>2. QED BY <3>1, ReadByteType
  <2> HIDE DEF last
  <2>5. g \in [0..(n + 1) -> Readers(R)]
    BY <2>1, <2>4
  <2>6. ASSUME NEW i \in 0..(n + 1)
        PROVE  g[i] = IF i = 0 THEN NewReader ELSE ReadByte(g[i-1], bytes[i])
    <3>1. CASE i <= n
      <4>1. i \in 0..n
        BY <2>1, <3>1
      <4>2. \A j \in 0..n : f[j] = IF j = 0 THEN NewReader ELSE ReadByte(f[j-1], bytes[j])
        BY <2>3, Zenon DEF Reads
      <4>3. f[i] = IF i = 0 THEN NewReader ELSE ReadByte(f[i-1], bytes[i])
        BY <4>1, <4>2
      <4>4. g[i] = f[i] /\ (i # 0 => g[i-1] = f[i-1])
        BY <2>1, <3>1
      <4>5. QED BY <4>3, <4>4
    <3>2. CASE ~(i <= n)
      <4>1. i = n + 1 /\ i # 0 /\ i - 1 = n /\ g[i] = last /\ g[n] = f[n]
        BY <2>1, <3>2
      <4>2. QED BY <4>1 DEF last
    <3>3. QED BY <3>1, <3>2
  <2>7. Reads(g, bytes, n + 1)
    BY <2>6 DEF Reads
  <2>8. QED BY <2>5, <2>7
<1>5. Len(bytes) \in T
  <2> HIDE DEF T
  <2>1. T \in SUBSET Nat
    BY DEF T
  <2>2. \A k \in Nat : k \in T
    BY <1>3, <1>4, <2>1, NatInd
  <2>3. QED BY <1>1, <2>2
<1>6. QED BY <1>1, <1>5

\* The readers from byte to byte, and the one at the end of the file.
Run(bytes) == CHOOSE g : Reads(g, bytes, Len(bytes))
Reader(bytes) == Run(bytes)[Len(bytes)]

LEMMA RunSteps ==
  ASSUME NEW R, NEW bytes \in Seq(Cells(R))
  PROVE  /\ Run(bytes)[0] = NewReader
         /\ \A i \in 1..Len(bytes) :
              Run(bytes)[i] = ReadByte(Run(bytes)[i-1], bytes[i])
<1>1. Len(bytes) \in Nat
  BY LenProperties
<1>2. PICK g \in [0..Len(bytes) -> Readers(R)] : Reads(g, bytes, Len(bytes))
  BY ReadsExist
<1>3. Reads(Run(bytes), bytes, Len(bytes))
  BY <1>2 DEF Run
<1> DEFINE f == Run(bytes)
<1> HIDE DEF f
<1>5. \A i \in 0..Len(bytes) : f[i] = IF i = 0 THEN NewReader ELSE ReadByte(f[i-1], bytes[i])
  BY <1>3, Zenon DEF Reads, f
<1>6. f[0] = NewReader
  BY <1>1, <1>5
<1>7. ASSUME NEW i \in 1..Len(bytes) PROVE f[i] = ReadByte(f[i-1], bytes[i])
  <2>1. i \in 0..Len(bytes) /\ i # 0
    BY <1>1
  <2>2. QED BY <1>5, <2>1
<1>8. QED BY <1>6, <1>7 DEF f

\* What read_all returns, from the reader at the end of the file.
LEMMA ReadAllOf ==
  ASSUME NEW bytes
  PROVE  ReadAll(bytes) = [ok |-> TakeLine(Reader(bytes)).ok, recs |-> TakeLine(Reader(bytes)).recs]
BY DEF ReadAll, Reader, Run, Reads, ReadByte, NewReader

LEMMA ReaderOfNothing == Reader(<<>>) = NewReader
<1>1. <<>> \in Seq(Cells({})) /\ Len(<<>>) = 0
  BY EmptySeq
<1>2. Run(<<>>)[0] = NewReader
  BY <1>1, RunSteps
<1>3. QED BY <1>1, <1>2 DEF Reader

\* One byte more.
LEMMA ReaderStep ==
  ASSUME NEW R, NEW bytes \in Seq(Cells(R)), NEW byte \in Cells(R)
  PROVE  Reader(Append(bytes, byte)) = ReadByte(Reader(bytes), byte)
<1> DEFINE more == Append(bytes, byte)
           n == Len(bytes)
           f == Run(bytes)
           g == Run(more)
<1>1. /\ more \in Seq(Cells(R)) /\ Len(more) = n + 1 /\ n \in Nat
      /\ \A i \in 1..n : more[i] = bytes[i]
      /\ more[n + 1] = byte
  BY AppendProperties, LenProperties
<1>2. f[0] = NewReader /\ \A i \in 1..n : f[i] = ReadByte(f[i-1], bytes[i])
  BY RunSteps
<1>3. g[0] = NewReader /\ \A i \in 1..Len(more) : g[i] = ReadByte(g[i-1], more[i])
  <2> HIDE DEF more
  <2>1. QED BY <1>1, RunSteps
<1> HIDE DEF f, g, more, n
<1> DEFINE T == {i \in Nat : i <= n => f[i] = g[i]}
<1>4. 0 \in T
  BY <1>2, <1>3
<1>5. ASSUME NEW i \in T PROVE i + 1 \in T
  <2>1. SUFFICES ASSUME i + 1 <= n PROVE f[i + 1] = g[i + 1]
    OBVIOUS
  <2>2. i + 1 \in 1..n /\ i + 1 \in 1..Len(more) /\ (i + 1) - 1 = i /\ f[i] = g[i]
    BY <1>1, <2>1
  <2>3. f[i + 1] = ReadByte(f[i], bytes[i + 1])
    BY <1>2, <2>2
  <2>4. g[i + 1] = ReadByte(g[i], more[i + 1])
    BY <1>3, <2>2
  <2>5. more[i + 1] = bytes[i + 1]
    BY <1>1, <2>2
  <2>6. QED BY <2>2, <2>3, <2>4, <2>5
<1>6. n \in T
  <2> HIDE DEF T
  <2>1. T \in SUBSET Nat
    BY DEF T
  <2>2. \A k \in Nat : k \in T
    BY <1>4, <1>5, <2>1, NatInd
  <2>3. QED BY <1>1, <2>2
<1>7. f[n] = g[n]
  BY <1>1, <1>6
<1>8. n + 1 \in 1..Len(more) /\ (n + 1) - 1 = n
  BY <1>1
<1>9. g[n + 1] = ReadByte(g[n], more[n + 1])
  BY <1>3, <1>8
<1>10. g[Len(more)] = ReadByte(f[n], byte)
  BY <1>1, <1>7, <1>9
<1>11. QED BY <1>10 DEF f, g, n, more, Reader

LEMMA ReaderType ==
  ASSUME NEW R, NEW bytes \in Seq(Cells(R))
  PROVE  Reader(bytes) \in Readers(R)
<1> DEFINE n == Len(bytes)
           f == Run(bytes)
<1>1. n \in Nat /\ \A i \in 1..n : bytes[i] \in Cells(R)
  BY LenProperties, ElementOfSeq
<1>2. f[0] = NewReader /\ \A i \in 1..n : f[i] = ReadByte(f[i-1], bytes[i])
  BY RunSteps
<1> HIDE DEF f, n
<1> DEFINE T == {i \in Nat : i <= n => f[i] \in Readers(R)}
<1>3. 0 \in T
  <2>1. NewReader \in Readers(R)
    BY EmptySeq DEF NewReader, Readers
  <2>2. QED BY <1>2, <2>1
<1>4. ASSUME NEW i \in T PROVE i + 1 \in T
  <2>1. SUFFICES ASSUME i + 1 <= n PROVE f[i + 1] \in Readers(R)
    OBVIOUS
  <2>2. f[i] \in Readers(R) /\ bytes[i + 1] \in Cells(R) /\ i + 1 \in 1..n /\ (i + 1) - 1 = i
    BY <1>1, <2>1
  <2>3. f[i + 1] = ReadByte(f[i], bytes[i + 1])
    BY <1>2, <2>2
  <2>4. QED BY <2>2, <2>3, ReadByteType
<1>5. n \in T
  <2> HIDE DEF T
  <2>1. T \in SUBSET Nat
    BY DEF T
  <2>2. \A k \in Nat : k \in T
    BY <1>3, <1>4, <2>1, NatInd
  <2>3. QED BY <1>1, <2>2
<1>6. f[n] \in Readers(R)
  BY <1>1, <1>5
<1>7. QED BY <1>6 DEF f, n, Reader

-----------------------------------------------------------------------------
(***************************************************************************)
(* The inductive invariant.                                                *)
(***************************************************************************)
\* The tree positions and the records there can be.
AllRefs ==
  DeclaredRefs \cup {[root |-> id, node |-> id, parent |-> None] : id \in {"inferred", "anon"} \X Nat}
Reals == {at.root : at \in DeclaredRefs} \cup (Procs \X Nat)
Records == [at : AllRefs, confidence : Nat, usage : Nat, incomplete : BOOLEAN,
            seq : Nat, real : Reals]

\* The first m bytes of a record's line, and what is left of it then.
Start3(rec, m) ==
  CASE m = 1 -> <<Cell(rec, 1)>>
    [] m = 2 -> <<Cell(rec, 1), Cell(rec, 2)>>
Rest(rec, m) ==
  CASE m = 0 -> <<Cell(rec, 1), Cell(rec, 2), Cell(rec, 3)>>
    [] m = 1 -> <<Cell(rec, 2), Cell(rec, 3)>>
    [] m = 2 -> <<Cell(rec, 3)>>

TypesOK ==
  /\ file \in Seq(Cells(Records)) /\ pending \in [Procs -> Seq(Cells(Records))]
  /\ next \in [Procs -> Nat]
  /\ appended \in SUBSET Records /\ IsFiniteSet(appended)
  /\ acked \in Seq(Records) /\ torn \in BOOLEAN

\* Records are numbered as they are appended, so that a new one is new; only
\* a declared one is of capture grade.
RecordsOK ==
  \A rec \in appended :
    /\ rec.seq <= Cardinality(appended)
    /\ rec.confidence >= CAPTURE_GRADE => rec.real = rec.at.root

\* What is being written is the rest of a line of a record of its own.
PendingOK ==
  /\ \A p \in Procs : pending[p] # <<>> =>
       \E rec \in appended, m \in {0, 1, 2} : pending[p] = Rest(rec, m) /\ rec \notin ToSet(acked)
  /\ \A p, q \in Procs :
       pending[p] # <<>> /\ pending[q] # <<>> /\ pending[p][1].rec = pending[q][1].rec => p = q

AckedOK ==
  /\ ToSet(acked) \subseteq appended
  /\ \A i, j \in DOMAIN acked : acked[i] = acked[j] => i = j

\* The file as read_all finds it: whole lines, and then perhaps one that was cut
\* and that only its own writer can complete; or broken for good, because
\* something else was written behind such a line.
Whole(rd) ==
  /\ rd = [line |-> <<>>, ok |-> TRUE, recs |-> acked]
  /\ \A p \in Procs : ~HalfWritten(p)
Cut(rd, rec, m) ==
  /\ rd = [line |-> Start3(rec, m), ok |-> TRUE, recs |-> acked]
  /\ rec \notin ToSet(acked)
  /\ torn \/ \E p \in Procs : HalfWritten(p)
  /\ \A p \in Procs : HalfWritten(p) => pending[p] = Rest(rec, m)
BadLine(line) == Len(line) >= 3 \/ (Len(line) = 2 /\ line[2].part # 2)
Bad(rd) == ~rd.ok \/ BadLine(rd.line)
FileOK ==
  LET rd == Reader(file)
  IN  \/ Whole(rd)
      \/ \E rec \in appended, m \in {1, 2} : Cut(rd, rec, m)
      \/ torn /\ Bad(rd)

\* A command printed what is in the file now.
OutOK ==
  out # None =>
    /\ out.read = ReadAll(file)
    /\ out.cmd = "stamp" /\ out.text # None =>
         /\ ReadAll(file).ok /\ StampAllowed(ReadAll(file).recs)
         /\ out.text = FormatStamp(ReadAll(file).recs, out.priced)
    /\ out.cmd = "report" /\ out.text # None =>
         /\ ReadAll(file).ok
         /\ out.text = Render(ReadAll(file).recs, out.priced)

LedgerInv == TypesOK /\ RecordsOK /\ PendingOK /\ AckedOK /\ FileOK /\ OutOK

-----------------------------------------------------------------------------
(***************************************************************************)
(* What write(2) does to the reader.                                       *)
(***************************************************************************)
LEMMA RestFacts ==
  ASSUME NEW R, NEW rec \in R, NEW m \in {0, 1, 2}
  PROVE  /\ Rest(rec, m) \in Seq(Cells(R)) /\ Len(Rest(rec, m)) = 3 - m
         /\ Rest(rec, m) # <<>> /\ Rest(rec, m)[1] = Cell(rec, m + 1)
<1>1. Cell(rec, 1) \in Cells(R) /\ Cell(rec, 2) \in Cells(R) /\ Cell(rec, 3) \in Cells(R)
  BY DEF Cell, Cells
<1> HIDE DEF Cell
<1>2. CASE m = 0
  BY <1>1, <1>2 DEF Rest
<1>3. CASE m = 1
  BY <1>1, <1>3 DEF Rest
<1>4. CASE m = 2
  BY <1>1, <1>4 DEF Rest
<1>5. QED BY <1>2, <1>3, <1>4

LEMMA LineIsRest == \A rec : Line(rec) = Rest(rec, 0)
BY DEF Line, Rest, Cell

LEMMA CellFacts ==
  ASSUME NEW R, NEW rec \in R, NEW k \in {1, 2, 3}
  PROVE  Cell(rec, k) \in Cells(R) /\ Cell(rec, k).part = k /\ Cell(rec, k).rec = rec
BY DEF Cell, Cells

LEMMA SubSeqIs ==
  ASSUME NEW S, NEW s \in Seq(S), NEW t \in Seq(S), NEW m \in Nat \ {0}, NEW n \in Nat, m <= n, n <= Len(s),
         Len(t) = n - m + 1, \A i \in 1..Len(t) : t[i] = s[m + i - 1]
  PROVE  SubSeq(s, m, n) = t
<1>1. \A i \in m..n : s[i] \in S
  BY ElementOfSeq
<1>2. /\ SubSeq(s, m, n) \in Seq(S)
      /\ Len(SubSeq(s, m, n)) = n - m + 1
      /\ \A i \in 1..(n - m + 1) : SubSeq(s, m, n)[i] = s[m + i - 1]
  BY <1>1, SubSeqProperties
<1> DEFINE u == SubSeq(s, m, n)
<1> HIDE DEF u
<1>3. u \in Seq(S) /\ Len(u) = Len(t) /\ \A i \in 1..Len(u) : u[i] = t[i]
  BY <1>2 DEF u
<1>4. u = t
  BY <1>3, SeqEqual
<1>5. QED BY <1>4 DEF u

LEMMA PairParts ==
  \A a, b : /\ SubSeq(<<a>>, 1, 1) = <<a>>
            /\ SubSeq(<<a, b>>, 1, 1) = <<a>>
            /\ SubSeq(<<a, b>>, 1, 2) = <<a, b>>
            /\ SubSeq(<<a, b>>, 2, 2) = <<b>>
<1>1. TAKE a, b
<1> DEFINE s1 == <<a>>
           s2 == <<a, b>>
           u1 == <<b>>
           S == {a, b}
<1>2. /\ s1 \in Seq(S) /\ Len(s1) = 1 /\ s1[1] = a
      /\ s2 \in Seq(S) /\ Len(s2) = 2 /\ s2[1] = a /\ s2[2] = b
      /\ u1 \in Seq(S) /\ Len(u1) = 1 /\ u1[1] = b
  OBVIOUS
<1> HIDE DEF s1, s2, u1, S
<1>3. \A i \in 1..1 : i = 1
  OBVIOUS
<1>4. SubSeq(s1, 1, 1) = s1 /\ SubSeq(s2, 1, 2) = s2
  BY <1>2, SubSeqFull
<1>5. SubSeq(s2, 1, 1) = s1
  BY <1>2, <1>3, SubSeqIs
<1>6. SubSeq(s2, 2, 2) = u1
  BY <1>2, <1>3, SubSeqIs
<1>7. QED BY <1>4, <1>5, <1>6 DEF s1, s2, u1

LEMMA TripleParts ==
  \A a, b, c : /\ SubSeq(<<a, b, c>>, 1, 1) = <<a>>
               /\ SubSeq(<<a, b, c>>, 1, 2) = <<a, b>>
               /\ SubSeq(<<a, b, c>>, 1, 3) = <<a, b, c>>
               /\ SubSeq(<<a, b, c>>, 2, 3) = <<b, c>>
               /\ SubSeq(<<a, b, c>>, 3, 3) = <<c>>
<1>1. TAKE a, b, c
<1> DEFINE s1 == <<a>>
           s2 == <<a, b>>
           s3 == <<a, b, c>>
           t2 == <<b, c>>
           v1 == <<c>>
           S == {a, b, c}
<1>2. /\ s1 \in Seq(S) /\ Len(s1) = 1 /\ s1[1] = a
      /\ s2 \in Seq(S) /\ Len(s2) = 2 /\ s2[1] = a /\ s2[2] = b
      /\ s3 \in Seq(S) /\ Len(s3) = 3 /\ s3[1] = a /\ s3[2] = b /\ s3[3] = c
      /\ t2 \in Seq(S) /\ Len(t2) = 2 /\ t2[1] = b /\ t2[2] = c
      /\ v1 \in Seq(S) /\ Len(v1) = 1 /\ v1[1] = c
  OBVIOUS
<1> HIDE DEF s1, s2, s3, t2, v1, S
<1>3. \A i \in 1..1 : i = 1
  OBVIOUS
<1>4. \A i \in 1..2 : i = 1 \/ i = 2
  OBVIOUS
<1>5. SubSeq(s3, 1, 3) = s3
  BY <1>2, SubSeqFull
<1>6. SubSeq(s3, 1, 1) = s1
  BY <1>2, <1>3, SubSeqIs
<1>7. SubSeq(s3, 1, 2) = s2
  BY <1>2, <1>4, SubSeqIs
<1>8. SubSeq(s3, 2, 3) = t2
  BY <1>2, <1>4, SubSeqIs
<1>9. SubSeq(s3, 3, 3) = v1
  BY <1>2, <1>3, SubSeqIs
<1>10. QED BY <1>5, <1>6, <1>7, <1>8, <1>9 DEF s1, s2, s3, t2, v1

\* What is still to be written after one write.
LEMMA RestAfter ==
  ASSUME NEW R, NEW rec \in R, NEW m \in {0, 1, 2}, NEW n \in 1..(3 - m)
  PROVE  /\ n = 3 - m => SubSeq(Rest(rec, m), n + 1, 3 - m) = <<>>
         /\ n < 3 - m => m + n \in {1, 2} /\ SubSeq(Rest(rec, m), n + 1, 3 - m) = Rest(rec, m + n)
<1>1. CASE n = 3 - m
  BY <1>1, SubSeqEmpty
<1> DEFINE C1 == Cell(rec, 1)
           C2 == Cell(rec, 2)
           C3 == Cell(rec, 3)
<1>r. Rest(rec, 0) = <<C1, C2, C3>> /\ Rest(rec, 1) = <<C2, C3>> /\ Rest(rec, 2) = <<C3>>
  BY DEF Rest
<1> HIDE DEF C1, C2, C3
<1>t. /\ SubSeq(<<C1, C2, C3>>, 2, 3) = <<C2, C3>> /\ SubSeq(<<C1, C2, C3>>, 3, 3) = <<C3>>
      /\ SubSeq(<<C2, C3>>, 2, 2) = <<C3>>
  <2>1. SubSeq(<<C1, C2, C3>>, 2, 3) = <<C2, C3>>
    <3>1. \A a, b, c : SubSeq(<<a, b, c>>, 2, 3) = <<b, c>>
      BY TripleParts, Zenon
    <3>2. QED BY <3>1, Zenon
  <2>0. SubSeq(<<C1, C2, C3>>, 3, 3) = <<C3>>
    BY TripleParts, ZenonT(40)
  <2>2. SubSeq(<<C2, C3>>, 2, 2) = <<C3>>
    BY PairParts, Zenon
  <2>3. QED BY <2>0, <2>1, <2>2
<1>2. CASE n < 3 - m
  <2>1. (m = 0 /\ n = 1) \/ (m = 0 /\ n = 2) \/ (m = 1 /\ n = 1)
    BY <1>2
  <2>2. CASE m = 0 /\ n = 1
    BY <2>2, <1>r, <1>t
  <2>3. CASE m = 0 /\ n = 2
    BY <2>3, <1>r, <1>t
  <2>4. CASE m = 1 /\ n = 1
    BY <2>4, <1>r, <1>t
  <2>5. QED BY <1>2, <2>1, <2>2, <2>3, <2>4
<1>3. QED BY <1>1, <1>2

\* What one write puts into the file.
LEMMA Written ==
  ASSUME NEW R, NEW rec \in R
  PROVE  /\ SubSeq(Rest(rec, 0), 1, 1) = <<Cell(rec, 1)>>
         /\ SubSeq(Rest(rec, 0), 1, 2) = <<Cell(rec, 1), Cell(rec, 2)>>
         /\ SubSeq(Rest(rec, 0), 1, 3) = <<Cell(rec, 1), Cell(rec, 2), Cell(rec, 3)>>
         /\ SubSeq(Rest(rec, 1), 1, 1) = <<Cell(rec, 2)>>
         /\ SubSeq(Rest(rec, 1), 1, 2) = <<Cell(rec, 2), Cell(rec, 3)>>
         /\ SubSeq(Rest(rec, 2), 1, 1) = <<Cell(rec, 3)>>
<1> DEFINE C1 == Cell(rec, 1)
           C2 == Cell(rec, 2)
           C3 == Cell(rec, 3)
<1>1. C1 \in Cells(R) /\ C2 \in Cells(R) /\ C3 \in Cells(R)
  BY DEF Cell, Cells
<1>2. Rest(rec, 0) = <<C1, C2, C3>> /\ Rest(rec, 1) = <<C2, C3>> /\ Rest(rec, 2) = <<C3>>
  BY DEF Rest
<1> HIDE DEF C1, C2, C3
<1>3. /\ SubSeq(<<C1, C2, C3>>, 1, 1) = <<C1>> /\ SubSeq(<<C1, C2, C3>>, 1, 2) = <<C1, C2>>
      /\ SubSeq(<<C1, C2, C3>>, 1, 3) = <<C1, C2, C3>>
  BY TripleParts, Zenon
<1>4. SubSeq(<<C2, C3>>, 1, 1) = <<C2>> /\ SubSeq(<<C2, C3>>, 1, 2) = <<C2, C3>>
  BY PairParts, Zenon
<1>5. SubSeq(<<C3>>, 1, 1) = <<C3>>
  BY PairParts, Zenon
<1>6. QED BY <1>2, <1>3, <1>4, <1>5 DEF C1, C2, C3

LEMMA ReaderMore ==
  ASSUME NEW R, NEW bytes \in Seq(Cells(R))
  PROVE  /\ \A a \in Cells(R) : Reader(bytes \o <<a>>) = ReadByte(Reader(bytes), a)
         /\ \A a, b \in Cells(R) : Reader(bytes \o <<a, b>>) = ReadByte(ReadByte(Reader(bytes), a), b)
         /\ \A a, b, c \in Cells(R) :
              Reader(bytes \o <<a, b, c>>) = ReadByte(ReadByte(ReadByte(Reader(bytes), a), b), c)
<1> SUFFICES ASSUME NEW a \in Cells(R), NEW b \in Cells(R), NEW c \in Cells(R)
             PROVE  /\ Reader(bytes \o <<a>>) = ReadByte(Reader(bytes), a)
                    /\ Reader(bytes \o <<a, b>>) = ReadByte(ReadByte(Reader(bytes), a), b)
                    /\ Reader(bytes \o <<a, b, c>>) = ReadByte(ReadByte(ReadByte(Reader(bytes), a), b), c)
  BY ZenonT(40)
<1> DEFINE b1 == Append(bytes, a)
           b2 == Append(b1, b)
           b3 == Append(b2, c)
<1>1. b1 \in Seq(Cells(R)) /\ b2 \in Seq(Cells(R))
  BY AppendProperties
<1>2. bytes \o <<a>> = b1 /\ bytes \o <<a, b>> = b2 /\ bytes \o <<a, b, c>> = b3
  OBVIOUS
<1>3. Reader(b1) = ReadByte(Reader(bytes), a)
  BY ReaderStep
<1> HIDE DEF b1
<1>4. Reader(b2) = ReadByte(Reader(b1), b)
  BY <1>1, ReaderStep
<1> HIDE DEF b2
<1>5. Reader(b3) = ReadByte(Reader(b2), c)
  BY <1>1, ReaderStep
<1>6. QED BY <1>2, <1>3, <1>4, <1>5

LEMMA BadNotParsed ==
  ASSUME NEW R, NEW line \in Seq(Cells(R)), BadLine(line)
  PROVE  line # <<>> /\ ~Parses(line)
<1>1. Len(line) \in Nat /\ Len(line) >= 2
  BY LenProperties DEF BadLine
<1>2. line # <<>>
  BY <1>1, EmptySeq
<1>3. Len(line) # 2 \/ line[2].part # 2
  <2>1. CASE Len(line) >= 3
    <3> DEFINE n == Len(line)
    <3>1. n \in Nat /\ n >= 3
      BY <1>1, <2>1
    <3> HIDE DEF n
    <3>2. n # 2
      BY <3>1
    <3>3. QED BY <3>2 DEF n
  <2>2. CASE Len(line) = 2 /\ line[2].part # 2
    BY <2>2
  <2>3. QED BY <2>1, <2>2, Zenon DEF BadLine
<1>4. QED BY <1>2, <1>3 DEF Parses

\* A broken line fails the call, however it goes on.
LEMMA BadStays ==
  ASSUME NEW R, NEW rd \in Readers(R), Bad(rd), NEW byte \in Cells(R)
  PROVE  Bad(ReadByte(rd, byte))
<1>1. rd.line \in Seq(Cells(R)) /\ rd.ok \in BOOLEAN
      /\ rd = [line |-> rd.line, ok |-> rd.ok, recs |-> rd.recs]
  BY DEF Readers
<1>2. CASE ~rd.ok
  <2>1. ReadByte(rd, byte).ok = rd.ok
    BY <1>1, <1>2 DEF ReadByte, TakeLine
  <2>2. QED BY <1>2, <2>1 DEF Bad
<1>3. CASE rd.ok /\ BadLine(rd.line) /\ byte.part = 3
  <2>1. rd.line # <<>> /\ ~Parses(rd.line)
    BY <1>1, <1>3, BadNotParsed
  <2>2. QED BY <1>3, <2>1 DEF Bad, ReadByte, TakeLine
<1>4. CASE rd.ok /\ BadLine(rd.line) /\ byte.part # 3
  <2>1. Len(Append(rd.line, byte)) = Len(rd.line) + 1 /\ Len(rd.line) \in Nat
    BY <1>1, AppendProperties, LenProperties
  <2>2. Len(Append(rd.line, byte)) >= 3
    BY <1>4, <2>1 DEF BadLine
  <2>3. ReadByte(rd, byte).line = Append(rd.line, byte)
    BY <1>1, <1>4 DEF ReadByte
  <2>4. QED BY <2>2, <2>3 DEF Bad, BadLine
<1>5. QED BY <1>2, <1>3, <1>4 DEF Bad

LEMMA BadReads ==
  ASSUME NEW R, NEW rd \in Readers(R), Bad(rd)
  PROVE  ~TakeLine(rd).ok
<1>1. rd.line \in Seq(Cells(R)) /\ rd.ok \in BOOLEAN
      /\ rd = [line |-> rd.line, ok |-> rd.ok, recs |-> rd.recs]
  BY DEF Readers
<1>2. CASE ~rd.ok
  <2>1. TakeLine(rd).ok = rd.ok
    BY <1>1, <1>2 DEF TakeLine
  <2>2. QED BY <1>2, <2>1
<1>3. CASE rd.ok /\ BadLine(rd.line)
  <2>1. rd.line # <<>> /\ ~Parses(rd.line)
    BY <1>1, <1>3, BadNotParsed
  <2>2. QED BY <1>3, <2>1 DEF TakeLine
<1>4. QED BY <1>2, <1>3 DEF Bad

\* Readers in the middle of a line, step by step.
At(line, recs) == [line |-> line, ok |-> TRUE, recs |-> recs]

LEMMA RecordWithLine ==
  ASSUME NEW r, NEW t, NEW line, NEW recs, NEW x, r = [line |-> line, ok |-> t, recs |-> recs]
  PROVE  [r EXCEPT !.line = x] = [line |-> x, ok |-> t, recs |-> recs]
OBVIOUS

LEMMA AtFields ==
  \A line, recs : At(line, recs).line = line /\ At(line, recs).ok /\ At(line, recs).recs = recs
BY DEF At

LEMMA AtForm == \E t : \A line, recs : At(line, recs) = [line |-> line, ok |-> t, recs |-> recs]
BY Zenon DEF At

LEMMA AtLine == \A line, recs, x : [At(line, recs) EXCEPT !.line = x] = At(x, recs)
<1>1. TAKE line, recs, x
<1>2. PICK t : \A l, s : At(l, s) = [line |-> l, ok |-> t, recs |-> s]
  BY AtForm
<1> DEFINE r == At(line, recs)
<1>3. r = [line |-> line, ok |-> t, recs |-> recs]
  BY <1>2
<1> HIDE DEF r
<1>4. [r EXCEPT !.line = x] = [line |-> x, ok |-> t, recs |-> recs]
  BY <1>3, RecordWithLine
<1>5. QED BY <1>2, <1>4 DEF r

LEMMA AppendIs ==
  ASSUME NEW S, NEW s \in Seq(S), NEW e \in S, NEW t \in Seq(S),
         Len(t) = Len(s) + 1, t[Len(t)] = e, \A i \in 1..Len(s) : t[i] = s[i]
  PROVE  Append(s, e) = t
<1> DEFINE u == Append(s, e)
<1>1. /\ u \in Seq(S) /\ Len(u) = Len(s) + 1 /\ u[Len(s) + 1] = e
      /\ \A i \in 1..Len(s) : u[i] = s[i]
  BY AppendProperties
<1>2. Len(s) \in Nat
  BY LenProperties
<1> HIDE DEF u
<1>3. Len(u) = Len(t) /\ \A i \in 1..Len(u) : u[i] = t[i]
  BY <1>1, <1>2
<1>4. u = t
  BY <1>1, <1>3, SeqEqual
<1>5. QED BY <1>4 DEF u

LEMMA Append1 == \A a : Append(<<>>, a) = <<a>>
<1>1. TAKE a
<1> DEFINE S == {a}
<1>2. <<>> \in Seq(S) /\ Len(<<>>) = 0 /\ a \in S
  BY EmptySeq
<1> DEFINE t == <<a>>
<1>3. t \in Seq(S) /\ Len(t) = 1 /\ t[1] = a
  OBVIOUS
<1> HIDE DEF t, S
<1>4. Append(<<>>, a) = t
  BY <1>2, <1>3, AppendIs
<1>5. QED BY <1>4 DEF t

LEMMA Append2 == \A a, b : Append(<<a>>, b) = <<a, b>>
<1>1. TAKE a, b
<1> DEFINE S == {a, b}
           s == <<a>>
           t == <<a, b>>
<1>2. s \in Seq(S) /\ Len(s) = 1 /\ s[1] = a /\ b \in S
  OBVIOUS
<1>3. t \in Seq(S) /\ Len(t) = 2 /\ t[1] = a /\ t[2] = b
  OBVIOUS
<1> HIDE DEF t, s, S
<1>4. \A i \in 1..Len(s) : t[i] = s[i]
  BY <1>2, <1>3
<1>5. Len(t) = Len(s) + 1 /\ t[Len(t)] = b
  BY <1>2, <1>3
<1>6. Append(s, b) = t
  BY <1>2, <1>3, <1>4, <1>5, AppendIs
<1>7. QED BY <1>6 DEF s, t

LEMMA Append3 == \A a, b, c : Append(<<a, b>>, c) = <<a, b, c>>
<1>1. TAKE a, b, c
<1> DEFINE S == {a, b, c}
           s == <<a, b>>
           t == <<a, b, c>>
<1>2. s \in Seq(S) /\ Len(s) = 2 /\ s[1] = a /\ s[2] = b /\ c \in S
  OBVIOUS
<1>3. t \in Seq(S) /\ Len(t) = 3 /\ t[1] = a /\ t[2] = b /\ t[3] = c
  OBVIOUS
<1> HIDE DEF t, s, S
<1>4. \A i \in 1..Len(s) : t[i] = s[i]
  BY <1>2, <1>3
<1>5. Len(t) = Len(s) + 1 /\ t[Len(t)] = c
  BY <1>2, <1>3
<1>6. Append(s, c) = t
  BY <1>2, <1>3, <1>4, <1>5, AppendIs
<1>7. QED BY <1>6 DEF s, t

LEMMA ReadByteAt ==
  \A line, recs, byte : byte.part # 3 =>
    ReadByte(At(line, recs), byte) = At(Append(line, byte), recs)
<1> SUFFICES ASSUME NEW line, NEW recs, NEW byte, byte.part # 3
             PROVE  ReadByte(At(line, recs), byte) = At(Append(line, byte), recs)
  BY Zenon
<1> DEFINE r == At(line, recs)
<1>1. r.line = line
  BY AtFields, Zenon
<1>2. [r EXCEPT !.line = Append(line, byte)] = At(Append(line, byte), recs)
  BY AtLine, Zenon
<1> HIDE DEF r
<1>3. ReadByte(r, byte) = [r EXCEPT !.line = Append(r.line, byte)]
  BY Zenon DEF ReadByte
<1>4. QED BY <1>1, <1>2, <1>3, Zenon DEF r

LEMMA StepsOfALine ==
  \A rec, recs :
    /\ ReadByte(At(<<>>, recs), Cell(rec, 1)) = At(Start3(rec, 1), recs)
    /\ ReadByte(At(Start3(rec, 1), recs), Cell(rec, 2)) = At(Start3(rec, 2), recs)
    /\ ReadByte(At(Start3(rec, 2), recs), Cell(rec, 3)) = At(<<>>, Append(recs, rec))
<1>0. TAKE rec, recs
<1> DEFINE C1 == Cell(rec, 1)
           C2 == Cell(rec, 2)
           C3 == Cell(rec, 3)
<1>1. C1.part = 1 /\ C2.part = 2 /\ C3.part = 3 /\ C1.rec = rec /\ C2.rec = rec
  BY DEF Cell
<1>2. Start3(rec, 1) = <<C1>> /\ Start3(rec, 2) = <<C1, C2>>
  BY DEF Start3
<1> HIDE DEF C1, C2, C3
<1>3. Append(<<>>, C1) = <<C1>> /\ Append(<<C1>>, C2) = <<C1, C2>>
  BY Append1, Append2, Zenon
<1>4. ReadByte(At(<<>>, recs), C1) = At(<<C1>>, recs)
  <2>1. C1.part # 3
    BY <1>1
  <2>2. ReadByte(At(<<>>, recs), C1) = At(Append(<<>>, C1), recs)
    BY <2>1, ReadByteAt, Zenon
  <2>3. QED BY <1>3, <2>2, Zenon
<1>5. ReadByte(At(<<C1>>, recs), C2) = At(<<C1, C2>>, recs)
  <2>1. C2.part # 3
    BY <1>1
  <2>2. ReadByte(At(<<C1>>, recs), C2) = At(Append(<<C1>>, C2), recs)
    BY <2>1, ReadByteAt, Zenon
  <2>3. QED BY <1>3, <2>2, Zenon
<1>6. ReadByte(At(<<C1, C2>>, recs), C3) = At(<<>>, Append(recs, rec))
  <2> DEFINE r == At(<<C1, C2>>, recs)
  <2>1. r.line = <<C1, C2>> /\ r.ok /\ r.recs = recs
    BY AtFields, Zenon
  <2>2. <<C1, C2>> # <<>> /\ Len(<<C1, C2>>) = 2 /\ <<C1, C2>>[1] = C1 /\ <<C1, C2>>[2] = C2
    OBVIOUS
  <2>3. Parses(r.line)
    BY <1>1, <2>1, <2>2 DEF Parses
  <2>4. ReadByte(r, C3) = TakeLine(r)
    BY <1>1 DEF ReadByte
  <2>5. TakeLine(r) = [r EXCEPT !.line = <<>>, !.recs = Append(recs, rec)]
    <3>1. r.line[1].rec = rec
      BY <1>1, <2>1, <2>2
    <3>2. ~(r.line = <<>> \/ ~r.ok)
      BY <2>1, <2>2
    <3> HIDE DEF r
    <3>3. QED BY <2>1, <2>3, <3>1, <3>2 DEF TakeLine
  <2>6. [r EXCEPT !.line = <<>>, !.recs = Append(recs, rec)] = At(<<>>, Append(recs, rec))
    <3>1. PICK t : \A l, q : At(l, q) = [line |-> l, ok |-> t, recs |-> q]
      BY AtForm
    <3>2. r = [line |-> <<C1, C2>>, ok |-> t, recs |-> recs]
      BY <3>1
    <3> DEFINE more == Append(recs, rec)
               pair == <<C1, C2>>
               none == <<>>
    <3> HIDE DEF r, more, pair, none
    <3>3. r = [line |-> pair, ok |-> t, recs |-> recs]
      BY <3>2 DEF pair
    <3>4. [r EXCEPT !.line = none, !.recs = more] = [line |-> none, ok |-> t, recs |-> more]
      <4> DEFINE q == [r EXCEPT !.line = none]
      <4>1. q = [line |-> none, ok |-> t, recs |-> recs]
        BY <3>3
      <4> HIDE DEF q
      <4>2. [q EXCEPT !.recs = more] = [line |-> none, ok |-> t, recs |-> more]
        BY <4>1
      <4>3. QED BY <4>2 DEF q
    <3>5. At(none, more) = [line |-> none, ok |-> t, recs |-> more]
      BY <3>1
    <3>6. [r EXCEPT !.line = none, !.recs = more] = At(none, more)
      BY <3>4, <3>5
    <3>7. QED BY <3>6, Zenon DEF none, more
  <2>7. QED BY <2>4, <2>5, <2>6
<1>7. QED BY <1>2, <1>4, <1>5, <1>6 DEF C1, C2, C3

\* A line from its beginning: the first n bytes of it.
LEMMA WriteFromStart ==
  ASSUME NEW R, NEW bytes \in Seq(Cells(R)), NEW rec \in R, NEW recs \in Seq(R), NEW n \in 1..3,
         Reader(bytes) = At(<<>>, recs)
  PROVE  LET rd == Reader(bytes \o SubSeq(Rest(rec, 0), 1, n))
         IN  /\ n = 3 => rd = At(<<>>, Append(recs, rec))
             /\ n < 3 => rd = At(Start3(rec, n), recs)
<1>0. Reader(bytes) = At(<<>>, recs)
  OBVIOUS
<1>1. Cell(rec, 1) \in Cells(R) /\ Cell(rec, 2) \in Cells(R) /\ Cell(rec, 3) \in Cells(R)
  BY CellFacts
<1>2. n = 1 \/ n = 2 \/ n = 3
  OBVIOUS
<1>3. CASE n = 1
  <2>1. SubSeq(Rest(rec, 0), 1, n) = <<Cell(rec, 1)>>
    BY <1>3, Written
  <2>2. Reader(bytes \o <<Cell(rec, 1)>>) = ReadByte(Reader(bytes), Cell(rec, 1))
    BY <1>1, ReaderMore
  <2>3. Reader(bytes \o SubSeq(Rest(rec, 0), 1, n)) = At(Start3(rec, 1), recs)
    BY <2>1, <2>2, StepsOfALine, <1>0, Zenon
  <2>4. QED BY <1>3, <2>3
<1>4. CASE n = 2
  <2>1. SubSeq(Rest(rec, 0), 1, n) = <<Cell(rec, 1), Cell(rec, 2)>>
    BY <1>4, Written
  <2>2. Reader(bytes \o <<Cell(rec, 1), Cell(rec, 2)>>) = ReadByte(ReadByte(Reader(bytes), Cell(rec, 1)), Cell(rec, 2))
    BY <1>1, ReaderMore
  <2>3. Reader(bytes \o SubSeq(Rest(rec, 0), 1, n)) = At(Start3(rec, 2), recs)
    BY <2>1, <2>2, StepsOfALine, <1>0, Zenon
  <2>4. QED BY <1>4, <2>3
<1>5. CASE n = 3
  <2>1. SubSeq(Rest(rec, 0), 1, n) = <<Cell(rec, 1), Cell(rec, 2), Cell(rec, 3)>>
    BY <1>5, Written
  <2>2. Reader(bytes \o <<Cell(rec, 1), Cell(rec, 2), Cell(rec, 3)>>)
          = ReadByte(ReadByte(ReadByte(Reader(bytes), Cell(rec, 1)), Cell(rec, 2)), Cell(rec, 3))
    BY <1>1, ReaderMore
  <2>3. Reader(bytes \o SubSeq(Rest(rec, 0), 1, n)) = At(<<>>, Append(recs, rec))
    <3>1. ReadByte(ReadByte(Reader(bytes), Cell(rec, 1)), Cell(rec, 2)) = At(Start3(rec, 2), recs)
      BY StepsOfALine, <1>0, Zenon
    <3>2. ReadByte(At(Start3(rec, 2), recs), Cell(rec, 3)) = At(<<>>, Append(recs, rec))
      BY StepsOfALine, Zenon
    <3>3. QED BY <2>1, <2>2, <3>1, <3>2, Zenon
  <2>4. QED BY <1>5, <2>3
<1>6. QED BY <1>2, <1>3, <1>4, <1>5

\* The rest of a line that was cut.
LEMMA WriteTheRest ==
  ASSUME NEW R, NEW bytes \in Seq(Cells(R)), NEW rec \in R, NEW recs \in Seq(R),
         NEW m \in {1, 2}, NEW n \in 1..(3 - m), Reader(bytes) = At(Start3(rec, m), recs)
  PROVE  LET rd == Reader(bytes \o SubSeq(Rest(rec, m), 1, n))
         IN  /\ n = 3 - m => rd = At(<<>>, Append(recs, rec))
             /\ n < 3 - m => rd = At(Start3(rec, m + n), recs)
<1>0. Reader(bytes) = At(Start3(rec, m), recs)
  OBVIOUS
<1>1. Cell(rec, 1) \in Cells(R) /\ Cell(rec, 2) \in Cells(R) /\ Cell(rec, 3) \in Cells(R)
  BY CellFacts
<1>2. (m = 1 /\ n = 1) \/ (m = 1 /\ n = 2) \/ (m = 2 /\ n = 1)
  OBVIOUS
<1>3. CASE m = 1 /\ n = 1
  <2>1. SubSeq(Rest(rec, m), 1, n) = <<Cell(rec, 2)>>
    BY <1>3, Written
  <2>2. Reader(bytes \o <<Cell(rec, 2)>>) = ReadByte(Reader(bytes), Cell(rec, 2))
    BY <1>1, ReaderMore
  <2>3. Reader(bytes \o SubSeq(Rest(rec, m), 1, n)) = At(Start3(rec, 2), recs)
    BY <2>1, <2>2, StepsOfALine, <1>0, <1>3, Zenon
  <2>4. QED BY <1>3, <2>3
<1>4. CASE m = 1 /\ n = 2
  <2>1. SubSeq(Rest(rec, m), 1, n) = <<Cell(rec, 2), Cell(rec, 3)>>
    BY <1>4, Written
  <2>2. Reader(bytes \o <<Cell(rec, 2), Cell(rec, 3)>>) = ReadByte(ReadByte(Reader(bytes), Cell(rec, 2)), Cell(rec, 3))
    BY <1>1, ReaderMore
  <2>3. Reader(bytes \o SubSeq(Rest(rec, m), 1, n)) = At(<<>>, Append(recs, rec))
    BY <2>1, <2>2, StepsOfALine, <1>0, <1>4, Zenon
  <2>4. QED BY <1>4, <2>3
<1>5. CASE m = 2 /\ n = 1
  <2>1. SubSeq(Rest(rec, m), 1, n) = <<Cell(rec, 3)>>
    BY <1>5, Written
  <2>2. Reader(bytes \o <<Cell(rec, 3)>>) = ReadByte(Reader(bytes), Cell(rec, 3))
    BY <1>1, ReaderMore
  <2>3. Reader(bytes \o SubSeq(Rest(rec, m), 1, n)) = At(<<>>, Append(recs, rec))
    BY <2>1, <2>2, StepsOfALine, <1>0, <1>5, Zenon
  <2>4. QED BY <1>5, <2>3
<1>6. QED BY <1>2, <1>3, <1>4, <1>5

\* Three bytes behind a broken line, and behind one that was cut.
LEMMA WriteBehindBad ==
  ASSUME NEW R, NEW bytes \in Seq(Cells(R)), NEW rec \in R, NEW m \in {0, 1, 2}, NEW n \in 1..(3 - m),
         Bad(ReadByte(Reader(bytes), Cell(rec, m + 1)))
  PROVE  Bad(Reader(bytes \o SubSeq(Rest(rec, m), 1, n)))
<1>1. Cell(rec, 1) \in Cells(R) /\ Cell(rec, 2) \in Cells(R) /\ Cell(rec, 3) \in Cells(R)
  BY CellFacts
<1> DEFINE r0 == Reader(bytes)
           r1 == ReadByte(r0, Cell(rec, m + 1))
<1>2. Cell(rec, m + 1) \in Cells(R)
  BY CellFacts
<1>3. r1 \in Readers(R)
  BY <1>2, ReaderType, ReadByteType
<1>4. Bad(r1)
  OBVIOUS
<1> HIDE DEF r1
<1>5. \A a \in Cells(R) : Bad(ReadByte(r1, a)) /\ ReadByte(r1, a) \in Readers(R)
  BY <1>3, <1>4, BadStays, ReadByteType
<1>6. \A a, b \in Cells(R) : Bad(ReadByte(ReadByte(r1, a), b))
  <2>1. TAKE a, b \in Cells(R)
  <2> DEFINE r2 == ReadByte(r1, a)
  <2>2. r2 \in Readers(R) /\ Bad(r2)
    BY <1>5
  <2> HIDE DEF r2
  <2>3. Bad(ReadByte(r2, b))
    BY <2>2, BadStays
  <2>4. QED BY <2>3 DEF r2
<1>7. (m = 0 /\ n = 1) \/ (m = 0 /\ n = 2) \/ (m = 0 /\ n = 3) \/ (m = 1 /\ n = 1) \/ (m = 1 /\ n = 2) \/ (m = 2 /\ n = 1)
  OBVIOUS
<1>8. CASE m = 0 /\ n = 1
  <2>1. SubSeq(Rest(rec, m), 1, n) = <<Cell(rec, 1)>>
    BY <1>8, Written
  <2>2. Reader(bytes \o <<Cell(rec, 1)>>) = r1
    BY <1>1, <1>8, ReaderMore DEF r1
  <2>3. QED BY <1>4, <2>1, <2>2
<1>9. CASE m = 0 /\ n = 2
  <2>1. SubSeq(Rest(rec, m), 1, n) = <<Cell(rec, 1), Cell(rec, 2)>>
    BY <1>9, Written
  <2>2. Reader(bytes \o <<Cell(rec, 1), Cell(rec, 2)>>) = ReadByte(r1, Cell(rec, 2))
    BY <1>1, <1>9, ReaderMore DEF r1
  <2>3. QED BY <1>1, <1>5, <2>1, <2>2
<1>10. CASE m = 0 /\ n = 3
  <2>1. SubSeq(Rest(rec, m), 1, n) = <<Cell(rec, 1), Cell(rec, 2), Cell(rec, 3)>>
    BY <1>10, Written
  <2>2. Reader(bytes \o <<Cell(rec, 1), Cell(rec, 2), Cell(rec, 3)>>) = ReadByte(ReadByte(r1, Cell(rec, 2)), Cell(rec, 3))
    BY <1>1, <1>10, ReaderMore DEF r1
  <2>3. QED BY <1>1, <1>6, <2>1, <2>2
<1>11. CASE m = 1 /\ n = 1
  <2>1. SubSeq(Rest(rec, m), 1, n) = <<Cell(rec, 2)>>
    BY <1>11, Written
  <2>2. Reader(bytes \o <<Cell(rec, 2)>>) = r1
    BY <1>1, <1>11, ReaderMore DEF r1
  <2>3. QED BY <1>4, <2>1, <2>2
<1>12. CASE m = 1 /\ n = 2
  <2>1. SubSeq(Rest(rec, m), 1, n) = <<Cell(rec, 2), Cell(rec, 3)>>
    BY <1>12, Written
  <2>2. Reader(bytes \o <<Cell(rec, 2), Cell(rec, 3)>>) = ReadByte(r1, Cell(rec, 3))
    BY <1>1, <1>12, ReaderMore DEF r1
  <2>3. QED BY <1>1, <1>5, <2>1, <2>2
<1>13. CASE m = 2 /\ n = 1
  <2>1. SubSeq(Rest(rec, m), 1, n) = <<Cell(rec, 3)>>
    BY <1>13, Written
  <2>2. Reader(bytes \o <<Cell(rec, 3)>>) = r1
    BY <1>1, <1>13, ReaderMore DEF r1
  <2>3. QED BY <1>4, <2>1, <2>2
<1>14. QED BY <1>7, <1>8, <1>9, <1>10, <1>11, <1>12, <1>13

\* The first byte of one record behind a cut line of another breaks it.
LEMMA BeginBehindCut ==
  ASSUME NEW R, NEW rec \in R, NEW other \in R, NEW recs, NEW m \in {1, 2}
  PROVE  Bad(ReadByte(At(Start3(other, m), recs), Cell(rec, 1)))
<1> DEFINE C1 == Cell(other, 1)
           C2 == Cell(other, 2)
           D == Cell(rec, 1)
<1>1. D.part = 1
  BY DEF Cell
<1>2. Start3(other, 1) = <<C1>> /\ Start3(other, 2) = <<C1, C2>>
  BY DEF Start3
<1> HIDE DEF C1, C2, D
<1>3. CASE m = 1
  <2>1. ReadByte(At(<<C1>>, recs), D) = At(<<C1, D>>, recs)
    <3>1. D.part # 3
      BY <1>1
    <3>2. ReadByte(At(<<C1>>, recs), D) = At(Append(<<C1>>, D), recs)
      BY <3>1, ReadByteAt, Zenon
    <3>3. QED BY <3>2, Append2, Zenon
  <2>2. Len(<<C1, D>>) = 2 /\ <<C1, D>>[2] = D
    OBVIOUS
  <2>3. BadLine(<<C1, D>>)
    BY <1>1, <2>2 DEF BadLine
  <2>4. At(<<C1, D>>, recs).line = <<C1, D>>
    BY AtFields, Zenon
  <2>5. QED BY <1>2, <1>3, <2>1, <2>3, <2>4 DEF Bad, D
<1>4. CASE m = 2
  <2>1. ReadByte(At(<<C1, C2>>, recs), D) = At(<<C1, C2, D>>, recs)
    <3>1. D.part # 3
      BY <1>1
    <3>2. ReadByte(At(<<C1, C2>>, recs), D) = At(Append(<<C1, C2>>, D), recs)
      BY <3>1, ReadByteAt, Zenon
    <3>3. QED BY <3>2, Append3, Zenon
  <2>2. Len(<<C1, C2, D>>) = 3
    OBVIOUS
  <2>3. BadLine(<<C1, C2, D>>)
    BY <2>2 DEF BadLine
  <2>4. At(<<C1, C2, D>>, recs).line = <<C1, C2, D>>
    BY AtFields, Zenon
  <2>5. QED BY <1>2, <1>4, <2>1, <2>3, <2>4 DEF Bad, D
<1>5. QED BY <1>3, <1>4

-----------------------------------------------------------------------------
(***************************************************************************)
(* The invariant, action by action.                                        *)
(***************************************************************************)
LEMMA ToSetAppend ==
  ASSUME NEW S, NEW s \in Seq(S), NEW e \in S
  PROVE  ToSet(Append(s, e)) = ToSet(s) \cup {e}
<1> DEFINE t == Append(s, e)
<1>1. /\ t \in Seq(S) /\ Len(t) = Len(s) + 1 /\ t[Len(s) + 1] = e
      /\ \A i \in 1..Len(s) : t[i] = s[i]
  BY AppendProperties
<1>2. Len(s) \in Nat /\ DOMAIN s = 1..Len(s)
  BY LenProperties
<1> HIDE DEF t
<1>3. DOMAIN t = 1..(Len(s) + 1)
  BY <1>1, LenProperties
<1>4. \A x : x \in ToSet(t) => x \in ToSet(s) \cup {e}
  BY <1>1, <1>2, <1>3 DEF ToSet
<1>5. \A x : x \in ToSet(s) => x \in ToSet(t)
  BY <1>1, <1>2, <1>3 DEF ToSet
<1>6. e \in ToSet(t)
  BY <1>1, <1>2, <1>3 DEF ToSet
<1>7. ToSet(t) = ToSet(s) \cup {e}
  BY <1>4, <1>5, <1>6
<1>8. QED BY <1>7 DEF t

\* What a process is writing: whose line, and how much of it is left.
LEMMA WhatIsPending ==
  ASSUME TypesOK, PendingOK, NEW p \in Procs, pending[p] # <<>>
  PROVE  \E rec \in appended, m \in {0, 1, 2} :
           /\ pending[p] = Rest(rec, m) /\ rec \notin ToSet(acked) /\ rec \in Records
           /\ Len(pending[p]) = 3 - m /\ pending[p][1].rec = rec /\ pending[p][1].part = m + 1
           /\ HalfWritten(p) <=> m # 0
<1>1. PICK rec \in appended, m \in {0, 1, 2} : pending[p] = Rest(rec, m) /\ rec \notin ToSet(acked)
  BY DEF PendingOK
<1>2. rec \in Records
  BY DEF TypesOK
<1>3. Rest(rec, m)[1] = Cell(rec, m + 1) /\ Len(Rest(rec, m)) = 3 - m
  BY <1>2, RestFacts
<1>4. m + 1 \in {1, 2, 3}
  OBVIOUS
<1>5. Cell(rec, m + 1).part = m + 1 /\ Cell(rec, m + 1).rec = rec
  BY <1>2, <1>4, CellFacts
<1>6. pending[p][1].rec = rec /\ pending[p][1].part = m + 1 /\ Len(pending[p]) = 3 - m
  BY <1>1, <1>3, <1>5
<1>7. HalfWritten(p) <=> m # 0
  BY <1>6 DEF HalfWritten
<1>8. QED BY <1>1, <1>2, <1>6, <1>7

LEMMA InitInv == Init => LedgerInv
<1> SUFFICES ASSUME Init PROVE LedgerInv
  OBVIOUS
<1> USE DEF Init
<1>0. /\ file = <<>> /\ acked = <<>> /\ appended = {} /\ torn = FALSE /\ out = None
      /\ \A p \in Procs : pending[p] = <<>>
  OBVIOUS
<1>1. TypesOK
  BY EmptySeq, FS_EmptySet DEF TypesOK
<1>2. RecordsOK
  BY DEF RecordsOK
<1>3. PendingOK
  BY DEF PendingOK
<1>4. AckedOK
  <2>1. DOMAIN acked = {}
    BY <1>0
  <2>2. QED BY <2>1 DEF AckedOK, ToSet
<1>5. FileOK
  <2>1. Reader(file) = [line |-> <<>>, ok |-> TRUE, recs |-> acked]
    BY <1>0, ReaderOfNothing DEF NewReader
  <2>2. \A p \in Procs : ~HalfWritten(p)
    BY <1>0 DEF HalfWritten
  <2>3. QED BY <2>1, <2>2 DEF FileOK, Whole
<1>6. OutOK
  BY DEF OutOK
<1>7. QED BY <1>1, <1>2, <1>3, <1>4, <1>5, <1>6 DEF LedgerInv

\* append begins: a record that nobody has appended.
LEMMA BeginInv ==
  ASSUME LedgerInv, NEW p \in Procs, NEW rec \in Records, BeginAppend(p, rec),
         rec.seq = Cardinality(appended) + 1, rec.confidence >= CAPTURE_GRADE => rec.real = rec.at.root,
         next' \in [Procs -> Nat]
  PROVE  LedgerInv'
<1>1. /\ pending[p] = <<>> /\ pending' = [pending EXCEPT ![p] = Line(rec)]
      /\ appended' = appended \cup {rec} /\ out' = None
      /\ file' = file /\ acked' = acked /\ torn' = torn
  BY DEF BeginAppend
<1>2. TypesOK /\ RecordsOK /\ PendingOK /\ AckedOK /\ FileOK
  BY DEF LedgerInv
<1>3. Cardinality(appended) \in Nat /\ Cardinality(appended') = Cardinality(appended) + 1 /\ rec \notin appended
  <2>1. Cardinality(appended) \in Nat
    BY <1>2, FS_CardinalityType DEF TypesOK
  <2>2. rec \notin appended
    BY <1>2, <2>1 DEF RecordsOK, Records
  <2>3. QED BY <1>1, <1>2, <2>1, <2>2, FS_AddElement DEF TypesOK
<1>4. /\ Rest(rec, 0) \in Seq(Cells(Records)) /\ Rest(rec, 0) # <<>>
      /\ Rest(rec, 0)[1].rec = rec /\ Rest(rec, 0)[1].part = 1
  <2>1. Rest(rec, 0) \in Seq(Cells(Records)) /\ Rest(rec, 0) # <<>> /\ Rest(rec, 0)[1] = Cell(rec, 1)
    BY RestFacts
  <2>2. QED BY <2>1, CellFacts
<1>5. pending' = [pending EXCEPT ![p] = Rest(rec, 0)]
  BY <1>1, LineIsRest
<1>6. pending'[p] = Rest(rec, 0) /\ \A q \in Procs : q # p => pending'[q] = pending[q]
  BY <1>2, <1>5 DEF TypesOK
<1>7. TypesOK'
  <2>1. pending' \in [Procs -> Seq(Cells(Records))]
    BY <1>2, <1>4, <1>5 DEF TypesOK
  <2>2. IsFiniteSet(appended') /\ appended' \in SUBSET Records
    BY <1>1, <1>2, FS_AddElement DEF TypesOK
  <2>3. QED BY <1>1, <1>2, <2>1, <2>2 DEF TypesOK
<1>8. RecordsOK'
  <2>1. \A r \in appended : r.seq \in Nat
    BY <1>2 DEF TypesOK, Records
  <2>2. \A r \in appended : r.seq <= Cardinality(appended) + 1
    BY <1>2, <1>3, <2>1 DEF RecordsOK
  <2>3. \A r \in appended' : r.seq <= Cardinality(appended')
    BY <1>1, <1>3, <2>2
  <2>4. \A r \in appended' : r.confidence >= CAPTURE_GRADE => r.real = r.at.root
    BY <1>1, <1>2 DEF RecordsOK
  <2>5. QED BY <2>3, <2>4 DEF RecordsOK
<1>9. \A q \in Procs : q # p /\ pending[q] # <<>> => pending[q][1].rec \in appended
  BY <1>2, WhatIsPending
<1>10. PendingOK'
  <2>1. ASSUME NEW q \in Procs, pending'[q] # <<>>
        PROVE  \E r \in appended', m \in {0, 1, 2} : pending'[q] = Rest(r, m) /\ r \notin ToSet(acked')
    <3>1. CASE q = p
      BY <1>1, <1>2, <1>3, <1>6, <3>1 DEF AckedOK
    <3>2. CASE q # p
      <4>1. PICK r \in appended, m \in {0, 1, 2} : pending[q] = Rest(r, m) /\ r \notin ToSet(acked)
        BY <1>2, <1>6, <2>1, <3>2 DEF PendingOK
      <4>2. QED BY <1>1, <1>6, <3>2, <4>1
    <3>3. QED BY <3>1, <3>2
  <2>2. ASSUME NEW a \in Procs, NEW b \in Procs, pending'[a] # <<>>, pending'[b] # <<>>,
               pending'[a][1].rec = pending'[b][1].rec
        PROVE  a = b
    <3>1. CASE a = p /\ b # p
      BY <1>3, <1>4, <1>6, <1>9, <2>2, <3>1
    <3>2. CASE b = p /\ a # p
      BY <1>3, <1>4, <1>6, <1>9, <2>2, <3>2
    <3>3. CASE a # p /\ b # p
      <4>1. pending'[a] = pending[a] /\ pending'[b] = pending[b]
        BY <1>6, <3>3
      <4>2. QED BY <1>2, <2>2, <4>1 DEF PendingOK
    <3>4. QED BY <3>1, <3>2, <3>3
  <2>3. QED BY <2>1, <2>2 DEF PendingOK
<1>11. AckedOK'
  BY <1>1, <1>2 DEF AckedOK
<1>12. \A q \in Procs : HalfWritten(q)' <=> HalfWritten(q)
  BY <1>1, <1>4, <1>6 DEF HalfWritten
<1>13. \A q \in Procs : HalfWritten(q) => pending'[q] = pending[q]
  BY <1>1, <1>6 DEF HalfWritten
<1>14. FileOK'
  <2> DEFINE rd == Reader(file)
  <2>0. Reader(file') = rd
    BY <1>1
  <2> HIDE DEF rd
  <2>1. Whole(rd) \/ (\E r \in appended, m \in {1, 2} : Cut(rd, r, m)) \/ (torn /\ Bad(rd))
    BY <1>2 DEF FileOK, rd
  <2>2. CASE Whole(rd)
    <3>1. rd = [line |-> <<>>, ok |-> TRUE, recs |-> acked'] /\ \A q \in Procs : ~HalfWritten(q)'
      BY <1>1, <1>12, <2>2 DEF Whole
    <3>2. QED BY <2>0, <3>1 DEF FileOK, Whole
  <2>3. CASE \E r \in appended, m \in {1, 2} : Cut(rd, r, m)
    <3>1. PICK r \in appended, m \in {1, 2} : Cut(rd, r, m)
      BY <2>3
    <3>2. /\ rd = [line |-> Start3(r, m), ok |-> TRUE, recs |-> acked'] /\ r \notin ToSet(acked')
          /\ torn' \/ \E q \in Procs : HalfWritten(q)'
          /\ \A q \in Procs : HalfWritten(q)' => pending'[q] = Rest(r, m)
      BY <1>1, <1>12, <1>13, <3>1 DEF Cut
    <3>3. r \in appended'
      BY <1>1
    <3>4. QED BY <2>0, <3>2, <3>3 DEF FileOK, Cut
  <2>4. CASE torn /\ Bad(rd)
    BY <1>1, <2>0, <2>4 DEF FileOK
  <2>5. QED BY <2>1, <2>2, <2>3, <2>4
<1>15. OutOK'
  BY <1>1 DEF OutOK
<1>16. QED BY <1>7, <1>8, <1>10, <1>11, <1>14, <1>15 DEF LedgerInv

\* What was being written is dropped, by an error or with its process.
LEMMA DropInv ==
  ASSUME LedgerInv, NEW p \in Procs, pending' = [pending EXCEPT ![p] = <<>>],
         torn' = (torn \/ HalfWritten(p)), out' = None, next' \in [Procs -> Nat],
         file' = file, appended' = appended, acked' = acked
  PROVE  LedgerInv'
<1>1. TypesOK /\ RecordsOK /\ PendingOK /\ AckedOK /\ FileOK
  BY DEF LedgerInv
<1>2. pending'[p] = <<>> /\ \A q \in Procs : q # p => pending'[q] = pending[q]
  BY <1>1 DEF TypesOK
<1>3. TypesOK'
  <2>1. pending' \in [Procs -> Seq(Cells(Records))]
    BY <1>1, EmptySeq DEF TypesOK
  <2>2. torn' \in BOOLEAN
    BY <1>1 DEF TypesOK, HalfWritten
  <2>3. QED BY <1>1, <2>1, <2>2 DEF TypesOK
<1>4. RecordsOK'
  BY <1>1 DEF RecordsOK
<1>5. PendingOK'
  BY <1>1, <1>2 DEF PendingOK
<1>6. AckedOK'
  BY <1>1 DEF AckedOK
<1>7. /\ \A q \in Procs : q # p => (HalfWritten(q)' <=> HalfWritten(q))
      /\ ~HalfWritten(p)'
  BY <1>2 DEF HalfWritten
<1>8. FileOK'
  <2> DEFINE rd == Reader(file)
  <2>0. Reader(file') = rd
    OBVIOUS
  <2> HIDE DEF rd
  <2>1. Whole(rd) \/ (\E r \in appended, m \in {1, 2} : Cut(rd, r, m)) \/ (torn /\ Bad(rd))
    BY <1>1 DEF FileOK, rd
  <2>2. CASE Whole(rd)
    <3>1. rd = [line |-> <<>>, ok |-> TRUE, recs |-> acked'] /\ \A q \in Procs : ~HalfWritten(q)'
      BY <1>7, <2>2 DEF Whole
    <3>2. QED BY <2>0, <3>1 DEF FileOK, Whole
  <2>3. CASE \E r \in appended, m \in {1, 2} : Cut(rd, r, m)
    <3>1. PICK r \in appended, m \in {1, 2} : Cut(rd, r, m)
      BY <2>3
    <3>2. torn' \/ \E q \in Procs : HalfWritten(q)'
      BY <1>7, <3>1 DEF Cut
    <3>3. \A q \in Procs : HalfWritten(q)' => pending'[q] = Rest(r, m)
      BY <1>2, <1>7, <3>1 DEF Cut
    <3>4. rd = [line |-> Start3(r, m), ok |-> TRUE, recs |-> acked'] /\ r \notin ToSet(acked')
      BY <3>1 DEF Cut
    <3>5. r \in appended'
      OBVIOUS
    <3>6. QED BY <2>0, <3>2, <3>3, <3>4, <3>5 DEF FileOK, Cut
  <2>4. CASE torn /\ Bad(rd)
    <3>1. torn'
      BY <2>4
    <3>2. QED BY <2>0, <2>4, <3>1 DEF FileOK
  <2>5. QED BY <2>1, <2>2, <2>3, <2>4
<1>9. OutOK'
  BY DEF OutOK
<1>10. QED BY <1>3, <1>4, <1>5, <1>6, <1>8, <1>9 DEF LedgerInv

\* One write(2).
LEMMA WriteInv ==
  ASSUME LedgerInv, NEW p \in Procs, NEW n \in 1..Len(pending[p]), Write(p, n)
  PROVE  LedgerInv'
<1>1. TypesOK /\ RecordsOK /\ PendingOK /\ AckedOK /\ FileOK
  BY DEF LedgerInv
<1>2. PICK rec \in appended, m \in {0, 1, 2} :
        /\ pending[p] = Rest(rec, m) /\ rec \notin ToSet(acked) /\ rec \in Records
        /\ Len(pending[p]) = 3 - m /\ pending[p][1].rec = rec /\ pending[p][1].part = m + 1
        /\ HalfWritten(p) <=> m # 0
  BY <1>1, WhatIsPending DEF Write
<1> DEFINE left == SubSeq(Rest(rec, m), n + 1, 3 - m)
           put == SubSeq(Rest(rec, m), 1, n)
<1>3. n \in 1..(3 - m) /\ rec \in Records
  BY <1>2
<1>4. /\ file' = file \o put /\ pending' = [pending EXCEPT ![p] = left]
      /\ acked' = (IF n = 3 - m THEN Append(acked, rec) ELSE acked)
      /\ torn' = (torn \/ \E q \in Procs \ {p} : HalfWritten(q))
      /\ out' = None /\ next' = next /\ appended' = appended
  <2>1. /\ file' = file \o SubSeq(pending[p], 1, n)
        /\ pending' = [pending EXCEPT ![p] = SubSeq(pending[p], n + 1, Len(pending[p]))]
        /\ acked' = (IF n = Len(pending[p]) THEN Append(acked, pending[p][1].rec) ELSE acked)
        /\ torn' = (torn \/ \E q \in Procs \ {p} : HalfWritten(q))
        /\ out' = None /\ next' = next /\ appended' = appended
    BY DEF Write
  <2>2. QED BY <1>2, <2>1
<1>5. /\ put \in Seq(Cells(Records))
      /\ n = 3 - m => left = <<>>
      /\ n < 3 - m => m + n \in {1, 2} /\ left = Rest(rec, m + n)
  <2>1. n = 3 - m => left = <<>>
    BY <1>3, RestAfter
  <2>2. n < 3 - m => m + n \in {1, 2} /\ left = Rest(rec, m + n)
    BY <1>3, RestAfter
  <2>3. Rest(rec, m) \in Seq(Cells(Records)) /\ Len(Rest(rec, m)) = 3 - m
    BY <1>3, RestFacts
  <2>4. \A i \in 1..n : Rest(rec, m)[i] \in Cells(Records)
    BY <1>3, <2>3, ElementOfSeq
  <2>5. put \in Seq(Cells(Records))
    BY <1>3, <2>4, SubSeqProperties
  <2>6. QED BY <2>1, <2>2, <2>5
<1>6. left \in Seq(Cells(Records)) /\ (n < 3 - m => left # <<>> /\ left[1].rec = rec /\ left[1].part # 1)
  <2>1. CASE n = 3 - m
    BY <1>5, <2>1, EmptySeq
  <2>2. CASE n < 3 - m
    <3>1. left = Rest(rec, m + n) /\ m + n \in {0, 1, 2} /\ (m + n) + 1 \in {2, 3}
      BY <1>5, <2>2
    <3> DEFINE k == m + n
    <3> HIDE DEF k
    <3>2. k \in {0, 1, 2} /\ k + 1 \in {1, 2, 3} /\ k + 1 # 1 /\ left = Rest(rec, k)
      BY <3>1 DEF k
    <3>3. Rest(rec, k) \in Seq(Cells(Records)) /\ Rest(rec, k) # <<>> /\ Rest(rec, k)[1] = Cell(rec, k + 1)
      BY <1>3, <3>2, RestFacts
    <3>4. Cell(rec, k + 1).rec = rec /\ Cell(rec, k + 1).part = k + 1
      BY <1>3, <3>2, CellFacts
    <3>5. QED BY <3>2, <3>3, <3>4
  <2>3. n = 3 - m \/ n < 3 - m
    BY <1>3
  <2>4. QED BY <2>1, <2>2, <2>3
<1> HIDE DEF left, put
<1>7. pending'[p] = left /\ \A q \in Procs : q # p => pending'[q] = pending[q]
  BY <1>1, <1>4 DEF TypesOK
<1>8. pending[p] # <<>>
  BY DEF Write
<1>9. ToSet(acked') = (IF n = 3 - m THEN ToSet(acked) \cup {rec} ELSE ToSet(acked)) /\ acked' \in Seq(Records)
  <2>1. acked \in Seq(Records)
    BY <1>1 DEF TypesOK
  <2>2. Append(acked, rec) \in Seq(Records) /\ ToSet(Append(acked, rec)) = ToSet(acked) \cup {rec}
    BY <1>3, <2>1, AppendProperties, ToSetAppend
  <2>3. QED BY <1>4, <2>1, <2>2
<1>10. TypesOK'
  <2>1. file' \in Seq(Cells(Records))
    BY <1>1, <1>4, <1>5, ConcatProperties DEF TypesOK
  <2>2. pending' \in [Procs -> Seq(Cells(Records))]
    BY <1>1, <1>4, <1>6 DEF TypesOK
  <2>3. torn' \in BOOLEAN
    BY <1>4
  <2>4. QED BY <1>1, <1>4, <1>9, <2>1, <2>2, <2>3 DEF TypesOK
<1>11. RecordsOK'
  BY <1>1, <1>4 DEF RecordsOK
<1>12. \A q \in Procs : q # p /\ pending[q] # <<>> => pending[q][1].rec # rec
  BY <1>1, <1>2, <1>8 DEF PendingOK
<1>13. PendingOK'
  <2>1. ASSUME NEW q \in Procs, pending'[q] # <<>>
        PROVE  \E r \in appended', k \in {0, 1, 2} : pending'[q] = Rest(r, k) /\ r \notin ToSet(acked')
    <3>1. CASE q = p
      <4>1. n < 3 - m
        BY <1>3, <1>5, <1>7, <2>1, <3>1
      <4>2. m + n \in {0, 1, 2} /\ pending'[q] = Rest(rec, m + n)
        BY <1>5, <1>7, <3>1, <4>1
      <4>3. rec \notin ToSet(acked') /\ rec \in appended'
        BY <1>2, <1>4, <1>9, <4>1
      <4>4. QED BY <4>2, <4>3
    <3>2. CASE q # p
      <4>1. pending'[q] = pending[q] /\ pending[q] # <<>>
        BY <1>7, <2>1, <3>2
      <4>2. PICK r \in appended, k \in {0, 1, 2} :
              pending[q] = Rest(r, k) /\ r \notin ToSet(acked) /\ pending[q][1].rec = r
        BY <1>1, <4>1, WhatIsPending
      <4>3. r # rec
        BY <1>12, <3>2, <4>1, <4>2
      <4>4. r \notin ToSet(acked') /\ r \in appended'
        BY <1>4, <1>9, <4>2, <4>3
      <4>5. QED BY <4>1, <4>2, <4>4
    <3>3. QED BY <3>1, <3>2
  <2>2. ASSUME NEW q \in Procs, pending'[q] # <<>>
        PROVE  pending[q] # <<>> /\ pending'[q][1].rec = pending[q][1].rec
    <3>1. CASE q = p
      <4>1. n < 3 - m
        BY <1>3, <1>5, <1>7, <2>2, <3>1
      <4>2. pending'[p][1].rec = rec
        BY <1>6, <1>7, <4>1
      <4>3. QED BY <1>2, <1>8, <3>1, <4>2
    <3>2. CASE q # p
      BY <1>7, <2>2, <3>2
    <3>3. QED BY <3>1, <3>2
  <2>3. ASSUME NEW a \in Procs, NEW b \in Procs, pending'[a] # <<>>, pending'[b] # <<>>,
               pending'[a][1].rec = pending'[b][1].rec
        PROVE  a = b
    <3>1. pending[a] # <<>> /\ pending[b] # <<>> /\ pending[a][1].rec = pending[b][1].rec
      BY <2>2, <2>3
    <3>2. QED BY <1>1, <3>1 DEF PendingOK
  <2>4. QED BY <2>1, <2>3 DEF PendingOK
<1>14. AckedOK'
  <2>1. ToSet(acked') \subseteq appended'
    BY <1>1, <1>4, <1>9 DEF AckedOK
  <2>2. \A i, j \in DOMAIN acked' : acked'[i] = acked'[j] => i = j
    <3>1. CASE n # 3 - m
      BY <1>1, <1>4, <3>1 DEF AckedOK
    <3>2. CASE n = 3 - m
      <4>1. acked \in Seq(Records) /\ acked' = Append(acked, rec)
        BY <1>1, <1>4, <3>2 DEF TypesOK
      <4>2. /\ Len(acked) \in Nat /\ DOMAIN acked = 1..Len(acked)
            /\ Len(acked') = Len(acked) + 1 /\ acked'[Len(acked) + 1] = rec
            /\ \A i \in 1..Len(acked) : acked'[i] = acked[i]
            /\ DOMAIN acked' = 1..Len(acked')
        BY <1>3, <1>9, <4>1, AppendProperties, LenProperties
      <4>3. \A i \in 1..Len(acked) : acked[i] # rec
        BY <1>2, <4>2 DEF ToSet
      <4>4. \A i, j \in 1..Len(acked) : acked[i] = acked[j] => i = j
        BY <1>1, <4>2 DEF AckedOK
      <4>5. QED BY <4>2, <4>3, <4>4
    <3>3. QED BY <3>1, <3>2
  <2>3. QED BY <2>1, <2>2 DEF AckedOK
<1>15. FileOK'
  <2> DEFINE rd == Reader(file)
             rd2 == Reader(file')
  <2>1. Whole(rd) \/ (\E r \in appended, k \in {1, 2} : Cut(rd, r, k)) \/ (torn /\ Bad(rd))
    BY <1>1 DEF FileOK
  <2>2. file \in Seq(Cells(Records)) /\ acked \in Seq(Records) /\ appended \subseteq Records
    BY <1>1 DEF TypesOK
  <2>3. SUFFICES \/ /\ rd2 = [line |-> <<>>, ok |-> TRUE, recs |-> acked']
                    /\ \A q \in Procs : ~HalfWritten(q)'
                 \/ \E r \in appended, k \in {1, 2} :
                       /\ rd2 = [line |-> Start3(r, k), ok |-> TRUE, recs |-> acked']
                       /\ r \notin ToSet(acked')
                       /\ torn' \/ \E q \in Procs : HalfWritten(q)'
                       /\ \A q \in Procs : HalfWritten(q)' => pending'[q] = Rest(r, k)
                 \/ torn' /\ Bad(rd2)
    BY <1>4 DEF FileOK, Whole, Cut
  \* The line ends, or the part of it that is left is p's.
  <2>4. ASSUME \A q \in Procs \ {p} : ~HalfWritten(q),
               n = 3 - m => rd2 = At(<<>>, Append(acked, rec)),
               n < 3 - m => rd2 = At(Start3(rec, m + n), acked)
        PROVE  \/ /\ rd2 = [line |-> <<>>, ok |-> TRUE, recs |-> acked']
                  /\ \A q \in Procs : ~HalfWritten(q)'
               \/ \E r \in appended, k \in {1, 2} :
                     /\ rd2 = [line |-> Start3(r, k), ok |-> TRUE, recs |-> acked']
                     /\ r \notin ToSet(acked')
                     /\ torn' \/ \E q \in Procs : HalfWritten(q)'
                     /\ \A q \in Procs : HalfWritten(q)' => pending'[q] = Rest(r, k)
    <3>1. \A q \in Procs : q # p => ~HalfWritten(q)'
      BY <1>7, <2>4 DEF HalfWritten
    <3>2. CASE n = 3 - m
      <4>1. ~HalfWritten(p)'
        BY <1>5, <1>7, <3>2 DEF HalfWritten
      <4>2. rd2 = [line |-> <<>>, ok |-> TRUE, recs |-> acked']
        <5>1. rd2 = At(<<>>, Append(acked, rec)) /\ acked' = Append(acked, rec)
          BY <1>4, <2>4, <3>2
        <5>2. QED BY <5>1, Zenon DEF At
      <4>3. QED BY <3>1, <4>1, <4>2
    <3>3. CASE n < 3 - m
      <4> DEFINE k == m + n
      <4>0. k \in {1, 2} /\ left = Rest(rec, k) /\ acked' = acked /\ rd2 = At(Start3(rec, k), acked)
        BY <1>3, <1>4, <1>5, <2>4, <3>3
      <4> HIDE DEF k
      <4>1. HalfWritten(p)'
        BY <1>6, <1>7, <3>3 DEF HalfWritten
      <4>2. rd2 = [line |-> Start3(rec, k), ok |-> TRUE, recs |-> acked']
        BY <4>0, Zenon DEF At
      <4>3. \A q \in Procs : HalfWritten(q)' => pending'[q] = Rest(rec, k)
        BY <1>7, <3>1, <4>0
      <4>4. rec \notin ToSet(acked')
        BY <1>2, <4>0
      <4>5. QED BY <4>0, <4>1, <4>2, <4>3, <4>4
    <3>4. QED BY <1>3, <3>2, <3>3
  <2>5. CASE Whole(rd)
    <3>1. rd = At(<<>>, acked) /\ \A q \in Procs : ~HalfWritten(q)
      BY <2>5, Zenon DEF Whole, At
    <3>2. m = 0
      BY <1>2, <3>1
    <3>3. n \in 1..3 /\ file' = file \o SubSeq(Rest(rec, 0), 1, n)
      BY <1>3, <1>4, <3>2 DEF put
    <3>4. /\ n = 3 => rd2 = At(<<>>, Append(acked, rec))
          /\ n < 3 => rd2 = At(Start3(rec, n), acked)
      <4>1. Reader(file) = At(<<>>, acked)
        BY <3>1
      <4> DEFINE more == file \o SubSeq(Rest(rec, 0), 1, n)
      <4>2. /\ n = 3 => Reader(more) = At(<<>>, Append(acked, rec))
            /\ n < 3 => Reader(more) = At(Start3(rec, n), acked)
        BY <1>3, <2>2, <3>3, <4>1, WriteFromStart
      <4> HIDE DEF more
      <4>3. file' = more
        BY <3>3 DEF more
      <4>4. QED BY <4>2, <4>3
    <3> HIDE DEF rd, rd2
    <3>5. /\ n = 3 - m => rd2 = At(<<>>, Append(acked, rec))
          /\ n < 3 - m => rd2 = At(Start3(rec, m + n), acked)
      BY <1>3, <3>2, <3>4
    <3>6. QED BY <2>4, <3>1, <3>5 DEF rd, rd2
  <2>6. CASE \E r \in appended, k \in {1, 2} : Cut(rd, r, k)
    <3>1. PICK r \in appended, k \in {1, 2} : Cut(rd, r, k)
      BY <2>6
    <3>2. rd = At(Start3(r, k), acked) /\ \A q \in Procs : HalfWritten(q) => pending[q] = Rest(r, k)
      BY <3>1, Zenon DEF Cut, At
    <3>2a. (torn \/ \E q \in Procs : HalfWritten(q)) /\ r \in Records
      BY <2>2, <3>1 DEF Cut
    <3>3. CASE m # 0
      <4>1. pending[p] = Rest(r, k) /\ Rest(r, k)[1].rec = r /\ Rest(r, k)[1].part = k + 1
        <5>1. pending[p] = Rest(r, k)
          BY <1>2, <3>2, <3>3
        <5>0. k \in {0, 1, 2} /\ k + 1 \in {1, 2, 3}
          OBVIOUS
        <5>2. Rest(r, k)[1] = Cell(r, k + 1) /\ k + 1 \in {1, 2, 3}
          BY <3>2a, <5>0, RestFacts
        <5>3. Cell(r, k + 1).rec = r /\ Cell(r, k + 1).part = k + 1
          BY <3>2a, <5>2, CellFacts
        <5>4. QED BY <5>1, <5>2, <5>3
      <4>2. r = rec /\ k = m
        BY <1>2, <4>1
      <4>3. \A q \in Procs \ {p} : ~HalfWritten(q)
        <5>1. SUFFICES ASSUME NEW q \in Procs, q # p, HalfWritten(q) PROVE FALSE
          OBVIOUS
        <5>2. pending[q] = pending[p] /\ pending[q] # <<>>
          BY <3>2, <4>1, <5>1 DEF HalfWritten
        <5>3. QED BY <1>1, <1>8, <5>1, <5>2 DEF PendingOK
      <4>4. /\ n = 3 - m => rd2 = At(<<>>, Append(acked, rec))
            /\ n < 3 - m => rd2 = At(Start3(rec, m + n), acked)
        <5>1. Reader(file) = At(Start3(rec, m), acked) /\ m \in {1, 2}
          BY <3>2, <4>2
        <5> DEFINE more == file \o SubSeq(Rest(rec, m), 1, n)
        <5>2. /\ n = 3 - m => Reader(more) = At(<<>>, Append(acked, rec))
              /\ n < 3 - m => Reader(more) = At(Start3(rec, m + n), acked)
          BY <1>3, <2>2, <5>1, WriteTheRest
        <5> HIDE DEF more
        <5>3. file' = more
          BY <1>4 DEF more, put
        <5>4. QED BY <5>2, <5>3
      <4> HIDE DEF rd, rd2
      <4>5. QED BY <2>4, <4>3, <4>4 DEF rd, rd2
    <3>4. CASE m = 0
      <4>1. ~HalfWritten(p)
        BY <1>2, <3>4
      <4>2. torn'
        BY <1>4, <3>2a, <4>1
      <4>3. Bad(ReadByte(Reader(file), Cell(rec, m + 1)))
        <5>1. Bad(ReadByte(At(Start3(r, k), acked), Cell(rec, 1)))
          BY <1>3, <3>2a, BeginBehindCut
        <5>2. m + 1 = 1
          BY <3>4
        <5>3. Reader(file) = At(Start3(r, k), acked)
          BY <3>2
        <5>4. QED BY <5>1, <5>2, <5>3, Zenon
      <4>4. Bad(Reader(file \o SubSeq(Rest(rec, m), 1, n)))
        BY <1>3, <2>2, <4>3, WriteBehindBad
      <4>5. QED BY <1>4, <4>2, <4>4 DEF put
    <3>5. QED BY <3>3, <3>4
  <2>7. CASE torn /\ Bad(rd)
    <3>1. m + 1 \in {1, 2, 3}
      BY <1>3
    <3>2. Cell(rec, m + 1) \in Cells(Records)
      BY <1>3, <3>1, CellFacts
    <3>3. Bad(ReadByte(Reader(file), Cell(rec, m + 1)))
      BY <2>2, <2>7, <3>2, ReaderType, BadStays
    <3>4. Bad(Reader(file \o SubSeq(Rest(rec, m), 1, n)))
      BY <1>3, <2>2, <3>3, WriteBehindBad
    <3>5. torn'
      BY <1>4, <2>7
    <3>6. QED BY <1>4, <3>4, <3>5 DEF put
  <2>8. QED BY <2>1, <2>5, <2>6, <2>7
<1>16. OutOK'
  BY <1>4 DEF OutOK
<1>17. QED BY <1>10, <1>11, <1>13, <1>14, <1>15, <1>16 DEF LedgerInv

\* Confidence in hundredths: an identity that was not declared stays below
\* capture grade.
LEMMA ConfidenceBounds ==
  /\ Confidence("declared", 0) = 100
  /\ \A d \in Nat : Confidence("inferred", d) \in 0..99
  /\ Confidence("anonymous", 0) = 0
<1>1. Confidence("declared", 0) = 100
  BY DEF Confidence
<1>2. Confidence("anonymous", 0) = 0
  BY DEF Confidence
<1>3. ASSUME NEW d \in Nat PROVE Confidence("inferred", d) \in 0..99
  <2> DEFINE c == (d * 100) \div 32
  <2>1. c \in Int
    OBVIOUS
  <2> HIDE DEF c
  <2>2. (IF c < 25 THEN 25 ELSE IF c > 99 THEN 99 ELSE c) \in 0..99
    BY <2>1
  <2>3. Confidence("inferred", d) = (IF c < 25 THEN 25 ELSE IF c > 99 THEN 99 ELSE c)
    BY DEF Confidence, c
  <2>4. QED BY <2>2, <2>3
<1>4. QED BY <1>1, <1>2, <1>3

LEMMA FinishRecord ==
  ASSUME TypesOK, NEW at \in AllRefs, NEW conf \in Nat, NEW o \in Outcomes, NEW real \in Reals
  PROVE  /\ FromFinish(at, conf, o, real) \in Records
         /\ FromFinish(at, conf, o, real).seq = Cardinality(appended) + 1
         /\ FromFinish(at, conf, o, real).confidence = conf
         /\ FromFinish(at, conf, o, real).real = real
         /\ FromFinish(at, conf, o, real).at = at
<1>1. o.usage \in Nat /\ o.incomplete \in BOOLEAN
  BY LedgerAssumption
<1>2. Cardinality(appended) + 1 \in Nat
  BY FS_CardinalityType DEF TypesOK
<1>3. FromFinish(at, conf, o, real) =
        [at |-> at, confidence |-> conf, usage |-> o.usage, incomplete |-> o.incomplete,
         seq |-> Cardinality(appended) + 1, real |-> real]
  BY DEF FromFinish
<1>4. QED BY <1>1, <1>2, <1>3 DEF Records

LEMMA DeclaredInv ==
  ASSUME LedgerInv, NEW p \in Procs, FinishDeclared(p)
  PROVE  LedgerInv'
<1>1. TypesOK
  BY DEF LedgerInv
<1>2. PICK at \in DeclaredRefs, o \in Outcomes :
        BeginAppend(p, FromFinish(at, Confidence("declared", 0), o, at.root))
  BY DEF FinishDeclared
<1>3. at \in AllRefs /\ at.root \in Reals /\ Confidence("declared", 0) \in Nat
  BY ConfidenceBounds DEF AllRefs, Reals
<1> DEFINE rec == FromFinish(at, Confidence("declared", 0), o, at.root)
<1>4. rec \in Records /\ rec.seq = Cardinality(appended) + 1 /\ rec.real = at.root /\ rec.at = at
  BY <1>1, <1>3, FinishRecord
<1>5. next' \in [Procs -> Nat]
  BY <1>1 DEF FinishDeclared, TypesOK
<1>6. BeginAppend(p, rec)
  BY <1>2
<1> HIDE DEF rec
<1>7. rec.confidence >= CAPTURE_GRADE => rec.real = rec.at.root
  BY <1>4
<1>8. QED BY <1>4, <1>5, <1>6, <1>7, BeginInv

LEMMA InferredInv ==
  ASSUME LedgerInv, NEW p \in Procs, FinishInferred(p)
  PROVE  LedgerInv'
<1>1. TypesOK
  BY DEF LedgerInv
<1> DEFINE Id(n) == <<"inferred", n>>
           At2(n) == [root |-> Id(n), node |-> Id(n), parent |-> None]
           Depth(n, d) == IF n > next[p] THEN 0 ELSE d
<1>2. PICK n \in 1..next[p] + 1, d \in Depths, o \in Outcomes :
        /\ BeginAppend(p, FromFinish(At2(n), Confidence("inferred", Depth(n, d)), o, <<p, n>>))
        /\ next' = [next EXCEPT ![p] = IF n > next[p] THEN n ELSE next[p]]
  BY DEF FinishInferred
<1>3. next[p] \in Nat /\ n \in Nat /\ Depth(n, d) \in Nat
  BY <1>1, LedgerAssumption DEF TypesOK
<1>4. At2(n) \in AllRefs
  <2>1. Id(n) \in {"inferred", "anon"} \X Nat
    BY <1>3
  <2> HIDE DEF Id
  <2>2. QED BY <2>1 DEF AllRefs
<1>5. <<p, n>> \in Reals
  BY <1>3 DEF Reals
<1> DEFINE conf == Confidence("inferred", Depth(n, d))
           at == At2(n)
           real == <<p, n>>
           rec == FromFinish(at, conf, o, real)
<1>6. conf \in 0..99
  <2> DEFINE dd == Depth(n, d)
  <2>1. dd \in Nat
    BY <1>3
  <2> HIDE DEF dd
  <2>2. Confidence("inferred", dd) \in 0..99
    BY <2>1, ConfidenceBounds
  <2>3. QED BY <2>2 DEF dd
<1>7. BeginAppend(p, rec)
  BY <1>2
<1>8. next' \in [Procs -> Nat]
  BY <1>1, <1>2, <1>3 DEF TypesOK
<1>9. at \in AllRefs /\ real \in Reals
  BY <1>4, <1>5
<1> HIDE DEF conf, at, real
<1>10. rec \in Records /\ rec.seq = Cardinality(appended) + 1 /\ rec.confidence = conf
  BY <1>1, <1>6, <1>9, FinishRecord
<1> HIDE DEF rec
<1>11. ~(rec.confidence >= CAPTURE_GRADE)
  BY <1>6, <1>10 DEF CAPTURE_GRADE
<1>12. QED BY <1>7, <1>8, <1>10, <1>11, BeginInv

LEMMA AnonymousInv ==
  ASSUME LedgerInv, NEW p \in Procs, FinishAnonymous(p)
  PROVE  LedgerInv'
<1>1. TypesOK
  BY DEF LedgerInv
<1> DEFINE n == next[p] + 1
           id == <<"anon", n>>
           at == [root |-> id, node |-> id, parent |-> None]
           conf == Confidence("anonymous", 0)
           real == <<p, n>>
<1>2. PICK o \in Outcomes : BeginAppend(p, FromFinish(at, conf, o, real))
  BY DEF FinishAnonymous
<1>3. next' = [next EXCEPT ![p] = n]
  BY DEF FinishAnonymous
<1>4. n \in Nat
  BY <1>1 DEF TypesOK
<1>5. at \in AllRefs
  <2>1. id \in {"inferred", "anon"} \X Nat
    BY <1>4
  <2> HIDE DEF id
  <2>2. QED BY <2>1 DEF AllRefs
<1>6. real \in Reals
  BY <1>4 DEF Reals
<1>7. conf = 0
  BY ConfidenceBounds
<1>8. next' \in [Procs -> Nat]
  BY <1>1, <1>3, <1>4 DEF TypesOK
<1> DEFINE rec == FromFinish(at, conf, o, real)
<1>9. BeginAppend(p, rec)
  BY <1>2
<1> HIDE DEF conf, at, real
<1>10. rec \in Records /\ rec.seq = Cardinality(appended) + 1 /\ rec.confidence = conf
  BY <1>1, <1>5, <1>6, <1>7, FinishRecord
<1> HIDE DEF rec
<1>11. ~(rec.confidence >= CAPTURE_GRADE)
  BY <1>7, <1>10 DEF CAPTURE_GRADE
<1>12. QED BY <1>8, <1>9, <1>10, <1>11, BeginInv

LEMMA SameInv ==
  ASSUME LedgerInv, UNCHANGED <<file, next, pending, appended, acked, torn>>, OutOK'
  PROVE  LedgerInv'
<1>1. TypesOK /\ RecordsOK /\ PendingOK /\ AckedOK /\ FileOK
  BY DEF LedgerInv
<1>2. TypesOK' /\ RecordsOK' /\ PendingOK' /\ AckedOK'
  BY <1>1 DEF TypesOK, RecordsOK, PendingOK, AckedOK
<1>3. FileOK'
  BY <1>1 DEF FileOK, Whole, Cut, HalfWritten
<1>4. QED BY <1>2, <1>3 DEF LedgerInv

LEMMA ShowInv ==
  ASSUME LedgerInv, NEW cmd, NEW priced, NEW text, Show(cmd, priced, text),
         cmd = "stamp" /\ text # None =>
           /\ ReadAll(file).ok /\ StampAllowed(ReadAll(file).recs)
           /\ text = FormatStamp(ReadAll(file).recs, priced),
         cmd = "report" /\ text # None =>
           ReadAll(file).ok /\ text = Render(ReadAll(file).recs, priced)
  PROVE  LedgerInv'
<1>1. /\ out' = [cmd |-> cmd, priced |-> priced, read |-> ReadAll(file), text |-> text]
      /\ UNCHANGED <<file, next, pending, appended, acked, torn>>
  BY DEF Show
<1>2. out'.cmd = cmd /\ out'.priced = priced /\ out'.read = ReadAll(file) /\ out'.text = text
  BY <1>1
<1>3. OutOK'
  BY <1>1, <1>2 DEF OutOK
<1>4. QED BY <1>1, <1>3, SameInv

LEMMA NextInv == LedgerInv /\ [Next]_vars => LedgerInv'
<1> SUFFICES ASSUME LedgerInv, [Next]_vars PROVE LedgerInv'
  OBVIOUS
<1>0. next \in [Procs -> Nat]
  BY DEF LedgerInv, TypesOK
<1>1. ASSUME NEW p \in Procs, Start(p) PROVE LedgerInv'
  <2>1. OutOK'
    BY <1>1 DEF Start, OutOK
  <2>2. UNCHANGED <<file, next, pending, appended, acked, torn>>
    BY <1>1 DEF Start
  <2>3. QED BY <2>1, <2>2, SameInv
<1>2. ASSUME NEW p \in Procs, FinishDeclared(p) PROVE LedgerInv'
  BY <1>2, DeclaredInv
<1>3. ASSUME NEW p \in Procs, FinishInferred(p) PROVE LedgerInv'
  BY <1>3, InferredInv
<1>4. ASSUME NEW p \in Procs, FinishAnonymous(p) PROVE LedgerInv'
  BY <1>4, AnonymousInv
<1>5. ASSUME NEW p \in Procs, NEW n \in 1..Len(pending[p]), Write(p, n) PROVE LedgerInv'
  BY <1>5, WriteInv
<1>6. ASSUME NEW p \in Procs, WriteFails(p) PROVE LedgerInv'
  BY <1>0, <1>6, DropInv DEF WriteFails
<1>7. ASSUME NEW p \in Procs, Kill(p) PROVE LedgerInv'
  BY <1>0, <1>7, DropInv DEF Kill
<1>8. ASSUME NEW priced \in BOOLEAN, Report(priced) PROVE LedgerInv'
  <2> DEFINE text == IF ReadAll(file).ok THEN Render(ReadAll(file).recs, priced) ELSE None
  <2>1. text # None => ReadAll(file).ok /\ text = Render(ReadAll(file).recs, priced)
    BY Zenon
  <2>2. Show("report", priced, text)
    BY <1>8, Zenon DEF Report
  <2>3. "report" # "stamp"
    OBVIOUS
  <2> HIDE DEF text
  <2>4. QED BY <2>1, <2>2, <2>3, ShowInv, Zenon
<1>9. ASSUME NEW priced \in BOOLEAN, Stamp(priced) PROVE LedgerInv'
  <2> DEFINE text == IF ReadAll(file).ok /\ StampAllowed(ReadAll(file).recs)
                     THEN FormatStamp(ReadAll(file).recs, priced) ELSE None
  <2>1. text # None => /\ ReadAll(file).ok /\ StampAllowed(ReadAll(file).recs)
                       /\ text = FormatStamp(ReadAll(file).recs, priced)
    BY Zenon
  <2>2. Show("stamp", priced, text)
    BY <1>9, Zenon DEF Stamp
  <2>3. "stamp" # "report"
    OBVIOUS
  <2> HIDE DEF text
  <2>4. QED BY <2>1, <2>2, <2>3, ShowInv, Zenon
<1>10. ASSUME NEW priced \in BOOLEAN, Blame(priced) PROVE LedgerInv'
  <2>1. "blame" # "stamp" /\ "blame" # "report"
    OBVIOUS
  <2>2. QED BY <1>10, <2>1, ShowInv, Zenon DEF Blame
<1>11. CASE UNCHANGED vars
  <2>1. UNCHANGED <<file, next, pending, appended, acked, torn>> /\ out' = out
    BY <1>11 DEF vars
  <2>2. OutOK'
    BY <2>1 DEF LedgerInv, OutOK
  <2>3. QED BY <2>1, <2>2, SameInv
<1>12. QED
  BY <1>1, <1>2, <1>3, <1>4, <1>5, <1>6, <1>7, <1>8, <1>9, <1>10, <1>11 DEF Next

-----------------------------------------------------------------------------
(***************************************************************************)
(* What follows.                                                           *)
(***************************************************************************)
\* A command fails, or reads the records of the appends that returned, in order,
\* and perhaps one more at the end.
LEMMA WhatIsRead ==
  ASSUME LedgerInv
  PROVE  \/ ~ReadAll(file).ok /\ (torn \/ \E p \in Procs : HalfWritten(p))
         \/ ReadAll(file).ok /\ ReadAll(file).recs = acked
         \/ /\ ReadAll(file).ok
            /\ \E rec \in appended : rec \notin ToSet(acked) /\ ReadAll(file).recs = Append(acked, rec)
<1> DEFINE rd == Reader(file)
           end == TakeLine(rd)
<1>1. TypesOK /\ FileOK
  BY DEF LedgerInv
<1>2. file \in Seq(Cells(Records)) /\ rd \in Readers(Records)
  BY <1>1, ReaderType DEF TypesOK
<1>3. ReadAll(file).ok = end.ok /\ ReadAll(file).recs = end.recs
  BY ReadAllOf
<1>4. Whole(rd) \/ (\E r \in appended, m \in {1, 2} : Cut(rd, r, m)) \/ (torn /\ Bad(rd))
  BY <1>1 DEF FileOK
<1> HIDE DEF rd
<1>5. CASE Whole(rd)
  <2>1. rd = At(<<>>, acked)
    BY <1>5, Zenon DEF Whole, At
  <2>2. end = At(<<>>, acked)
    <3>1. end = [At(<<>>, acked) EXCEPT !.line = <<>>]
      BY <2>1, AtFields, Zenon DEF TakeLine
    <3>2. QED BY <3>1, AtLine, Zenon
  <2>3. end.ok /\ end.recs = acked
    <3>1. At(<<>>, acked).ok /\ At(<<>>, acked).recs = acked
      BY AtFields, Zenon
    <3> HIDE DEF end
    <3>2. QED BY <2>2, <3>1
  <2>4. QED BY <1>3, <2>3
<1>6. CASE \E r \in appended, m \in {1, 2} : Cut(rd, r, m)
  <2>1. PICK r \in appended, m \in {1, 2} : Cut(rd, r, m)
    BY <1>6
  <2>2. rd = At(Start3(r, m), acked) /\ r \notin ToSet(acked) /\ (torn \/ \E p \in Procs : HalfWritten(p))
    BY <2>1, Zenon DEF Cut, At
  <2>3. CASE m = 1
    <3>1. rd.line = <<Cell(r, 1)>>
      <4>1. Start3(r, 1) = <<Cell(r, 1)>>
        BY DEF Start3
      <4>2. rd.line = Start3(r, m)
        BY <2>2, AtFields, Zenon
      <4>3. QED BY <2>3, <4>1, <4>2
    <3>2. Len(<<Cell(r, 1)>>) = 1 /\ <<Cell(r, 1)>> # <<>>
      OBVIOUS
    <3>3. Len(rd.line) # 2 /\ rd.line # <<>>
      BY <3>1, <3>2
    <3>4. ~Parses(rd.line)
      BY <3>3 DEF Parses
    <3>5. rd.ok
      BY <2>2, AtFields, Zenon
    <3>6. ~end.ok
      BY <3>3, <3>4, <3>5 DEF TakeLine
    <3>7. QED BY <1>3, <2>2, <3>6
  <2>4. CASE m = 2
    <3>1. ReadByte(At(Start3(r, 2), acked), Cell(r, 3)) = At(<<>>, Append(acked, r))
      BY StepsOfALine, Zenon
    <3>2. Cell(r, 3).part = 3
      BY DEF Cell
    <3>3. ReadByte(rd, Cell(r, 3)) = end
      BY <3>2, Zenon DEF ReadByte
    <3>4. end = At(<<>>, Append(acked, r))
      BY <2>2, <2>4, <3>1, <3>3, Zenon
    <3>5. end.ok /\ end.recs = Append(acked, r)
      <4>1. At(<<>>, Append(acked, r)).ok /\ At(<<>>, Append(acked, r)).recs = Append(acked, r)
        BY AtFields, Zenon
      <4> HIDE DEF end
      <4>2. QED BY <3>4, <4>1
    <3>6. QED BY <1>3, <2>2, <3>5
  <2>5. QED BY <2>3, <2>4
<1>7. CASE torn /\ Bad(rd)
  <2>1. ~end.ok
    BY <1>2, <1>7, BadReads
  <2>2. QED BY <1>3, <1>7, <2>1
<1>8. QED BY <1>4, <1>5, <1>6, <1>7

\* The records read are a sequence without repetition of records that were
\* appended, and begin with those of the appends that returned.
LEMMA ReadsInOrder ==
  ASSUME LedgerInv, ReadAll(file).ok
  PROVE  LET recs == ReadAll(file).recs
         IN  /\ recs \in Seq(Records) /\ ToSet(recs) \subseteq appended /\ ToSet(acked) \subseteq ToSet(recs)
             /\ Len(acked) <= Len(recs) /\ \A i \in 1..Len(acked) : recs[i] = acked[i]
             /\ \A i, j \in 1..Len(recs) : recs[i] = recs[j] => i = j
<1> DEFINE recs == ReadAll(file).recs
<1>1. recs = acked \/ \E rec \in appended : rec \notin ToSet(acked) /\ recs = Append(acked, rec)
  BY WhatIsRead
<1> HIDE DEF recs
<1>2. /\ acked \in Seq(Records) /\ appended \subseteq Records /\ ToSet(acked) \subseteq appended
      /\ \A i, j \in DOMAIN acked : acked[i] = acked[j] => i = j
  BY DEF LedgerInv, TypesOK, AckedOK
<1>3. Len(acked) \in Nat /\ DOMAIN acked = 1..Len(acked)
  BY <1>2, LenProperties
<1>4. CASE recs = acked
  BY <1>2, <1>3, <1>4 DEF recs
<1>5. CASE \E rec \in appended : rec \notin ToSet(acked) /\ recs = Append(acked, rec)
  <2>1. PICK rec \in appended : rec \notin ToSet(acked) /\ recs = Append(acked, rec)
    BY <1>5
  <2>2. /\ recs \in Seq(Records) /\ Len(recs) = Len(acked) + 1 /\ recs[Len(acked) + 1] = rec
        /\ \A i \in 1..Len(acked) : recs[i] = acked[i]
    BY <1>2, <2>1, AppendProperties
  <2>3. ToSet(recs) = ToSet(acked) \cup {rec}
    BY <1>2, <2>1, ToSetAppend
  <2>4. \A i \in 1..Len(acked) : acked[i] # rec
    BY <1>3, <2>1 DEF ToSet
  <2>5. \A i, j \in 1..Len(recs) : recs[i] = recs[j] => i = j
    BY <1>2, <1>3, <2>2, <2>4
  <2>6. QED BY <1>2, <1>3, <2>2, <2>3, <2>5 DEF recs
<1>6. QED BY <1>1, <1>4, <1>5

LEMMA ReadFollows == LedgerInv => ReadIsComplete
<1> SUFFICES ASSUME LedgerInv, out # None PROVE
      LET recs == out.read.recs
      IN  IF ~out.read.ok
          THEN torn \/ \E p \in Procs : HalfWritten(p)
          ELSE /\ ToSet(recs) \subseteq appended
               /\ \A rec \in appended : Cardinality(Where(recs, rec)) <= 1
               /\ ToSet(acked) \subseteq ToSet(recs)
               /\ \A i, j \in DOMAIN acked : \A k \in Where(recs, acked[i]), l \in Where(recs, acked[j]) :
                    i < j => k < l
  BY DEF ReadIsComplete
<1>1. out.read = ReadAll(file)
  BY DEF LedgerInv, OutOK
<1>2. CASE ~ReadAll(file).ok
  BY <1>1, <1>2, WhatIsRead
<1>3. CASE ReadAll(file).ok
  <2> DEFINE recs == out.read.recs
  <2>1. /\ recs \in Seq(Records) /\ ToSet(recs) \subseteq appended /\ ToSet(acked) \subseteq ToSet(recs)
        /\ Len(acked) <= Len(recs) /\ \A i \in 1..Len(acked) : recs[i] = acked[i]
        /\ \A i, j \in 1..Len(recs) : recs[i] = recs[j] => i = j
    BY <1>1, <1>3, ReadsInOrder
  <2> HIDE DEF recs
  <2>2. Len(recs) \in Nat /\ DOMAIN recs = 1..Len(recs)
    BY <2>1, LenProperties
  <2>3. Len(acked) \in Nat /\ DOMAIN acked = 1..Len(acked)
    BY LenProperties DEF LedgerInv, TypesOK
  <2>4. ASSUME NEW rec \in appended PROVE Cardinality(Where(recs, rec)) <= 1
    <3>1. \A i, j \in Where(recs, rec) : i = j
      BY <2>1, <2>2 DEF Where
    <3>2. CASE Where(recs, rec) = {}
      <4>1. Cardinality(Where(recs, rec)) = 0
        BY <3>2, FS_EmptySet
      <4>2. QED BY <4>1
    <3>3. CASE Where(recs, rec) # {}
      <4>1. PICK i : i \in Where(recs, rec)
        BY <3>3
      <4>2. Where(recs, rec) = {i}
        BY <3>1, <4>1
      <4>3. Cardinality({i}) = 1
        BY FS_Singleton
      <4>4. QED BY <4>2, <4>3
    <3>4. QED BY <3>2, <3>3
  <2>5. ASSUME NEW i \in DOMAIN acked, NEW k \in Where(recs, acked[i]) PROVE k = i
    <3>1. i \in 1..Len(recs) /\ recs[i] = acked[i]
      BY <2>1, <2>2, <2>3, <2>5
    <3>2. k \in 1..Len(recs) /\ recs[k] = acked[i]
      BY <2>2, <2>5 DEF Where
    <3>3. QED BY <2>1, <3>1, <3>2
  <2>6. \A i, j \in DOMAIN acked : \A k \in Where(recs, acked[i]), l \in Where(recs, acked[j]) : i < j => k < l
    BY <2>5
  <2>7. QED BY <1>1, <1>3, <2>1, <2>4, <2>6 DEF recs
<1>4. QED BY <1>2, <1>3

LEMMA StampFollows == LedgerInv => StampIsExact
<1> SUFFICES ASSUME LedgerInv, out # None, out.cmd = "stamp", out.text # None
             PROVE  out.text.tasks = Cardinality({rec.real : rec \in ToSet(out.read.recs)})
  BY DEF StampIsExact
<1> DEFINE recs == ReadAll(file).recs
<1>1. /\ out.read = ReadAll(file) /\ ReadAll(file).ok /\ StampAllowed(recs)
      /\ out.text = FormatStamp(recs, out.priced)
  BY DEF LedgerInv, OutOK
<1>2. recs \in Seq(Records) /\ ToSet(recs) \subseteq appended
  BY <1>1, ReadsInOrder
<1>3. out.read.recs = recs
  BY <1>1
<1> HIDE DEF recs
<1>4. out.text.tasks = Cardinality(TaskIds(recs))
  BY <1>1 DEF FormatStamp
<1>5. \A i \in DOMAIN recs : recs[i] \in appended /\ recs[i].confidence >= CAPTURE_GRADE
  BY <1>1, <1>2 DEF StampAllowed, ToSet
<1>6. \A i \in DOMAIN recs : recs[i].real = recs[i].at.root
  BY <1>5 DEF LedgerInv, RecordsOK
<1>7. TaskIds(recs) = {rec.real : rec \in ToSet(recs)}
  BY <1>6 DEF TaskIds, ToSet
<1>8. QED BY <1>3, <1>4, <1>7

-----------------------------------------------------------------------------
(***************************************************************************)
(* Rows and headings.                                                      *)
(***************************************************************************)
LEMMA UsageSums ==
  ASSUME NEW t, TreeOK(t), t.root \in DOMAIN t.nodes
  PROVE  RootUsage(t) + SubagentUsage(t) = TotalUsage(t)
<1> DEFINE D == DOMAIN t.nodes
           g == [n \in D |-> t.nodes[n].usage]
<1>1. IsFiniteSet(D) /\ \A n \in D : g[n] = t.nodes[n].usage /\ g[n] \in Nat
  BY DEF TreeOK, NodesOK, NodeOK
<1>2. /\ TotalUsage(t) = SumOf(g, D) /\ SubagentUsage(t) = SumOf(g, D \ {t.root})
      /\ RootUsage(t) = g[t.root]
  BY <1>1 DEF TotalUsage, SubagentUsage, RootUsage, UsageOf
<1> DEFINE r == t.root
<1>3. r \in D
  OBVIOUS
<1> HIDE DEF g, D, r
<1>4. SumOf(g, D) = g[r] + SumOf(g, D \ {r})
  BY <1>1, <1>3, SumOfTakeOut
<1>5. QED BY <1>2, <1>4 DEF r

\* The rows over all nodes add up to the totals.
LEMMA PricedRows ==
  ASSUME NEW t, TreeOK(t)
  PROVE  LET rows == ByCost(t)
         IN  /\ SumOf([n \in DOMAIN rows |-> rows[n].tokens], DOMAIN rows) = TotalUsage(t)
             /\ SumOf([n \in DOMAIN rows |-> rows[n].micros], DOMAIN rows) = SpentMicros(t)
<1> DEFINE D == DOMAIN t.nodes
           rows == ByCost(t)
<1>1. DOMAIN rows = D
  BY DEF ByCost
<1>2. [n \in DOMAIN rows |-> rows[n].tokens] = [n \in D |-> t.nodes[n].usage]
  BY DEF ByCost
<1>3. [n \in DOMAIN rows |-> rows[n].micros] = Costs(t)
  BY DEF ByCost, Costs
<1>4. TotalUsage(t) = SumOf([n \in D |-> t.nodes[n].usage], D)
  BY DEF TotalUsage, UsageOf
<1>5. SpentMicros(t) = SumOf(Costs(t), D)
  BY DEF SpentMicros, SpentOn
<1> HIDE DEF rows
<1>6. QED BY <1>1, <1>2, <1>3, <1>4, <1>5 DEF rows

\* So do the rows that walk finds, if it finds all nodes.
LEMMA WalkedRows ==
  ASSUME NEW t, TreeOK(t), Walk(t) = DOMAIN t.nodes
  PROVE  LET rows == [n \in Walk(t) |-> [tokens |-> ByCost(t)[n].tokens, micros |-> None]]
         IN  SumOf([n \in DOMAIN rows |-> rows[n].tokens], DOMAIN rows) = TotalUsage(t)
<1> DEFINE D == DOMAIN t.nodes
           rows == [n \in Walk(t) |-> [tokens |-> ByCost(t)[n].tokens, micros |-> None]]
<1>1. DOMAIN rows = D
  OBVIOUS
<1>2. [n \in DOMAIN rows |-> rows[n].tokens] = [n \in D |-> t.nodes[n].usage]
  BY DEF ByCost
<1>3. TotalUsage(t) = SumOf([n \in D |-> t.nodes[n].usage], D)
  BY DEF TotalUsage, UsageOf
<1> HIDE DEF rows
<1>4. QED BY <1>1, <1>2, <1>3 DEF rows

-----------------------------------------------------------------------------
(***************************************************************************)
(* What the agents declare is a forest: only a session has no parent, and  *)
(* no agent is its own ancestor.  from_headers puts a subagent without a   *)
(* parent header below its session, which is the first part; the second is *)
(* up to the client.                                                       *)
(***************************************************************************)
Ranks(rank) ==
  \A at \in DeclaredRefs : at.node # at.root =>
    /\ rank[at.root][at.node] \in Nat
    /\ at.parent # at.root => rank[at.root][at.parent] < rank[at.root][at.node]

ForestRefs ==
  /\ \A at \in DeclaredRefs : at.parent = None => at.node = at.root
  /\ \E rank : Ranks(rank)

LEMMA RebuiltIsWalked ==
  ASSUME ForestRefs, NEW recs \in Seq(Records), NEW id, NoOrphans(recs, id)
  PROVE  LET t == RebuiltTask(recs, id) IN Walk(t) = DOMAIN t.nodes
<1> DEFINE t == RebuiltTask(recs, id)
           D == DOMAIN t.nodes
<1>1. Len(recs) \in Nat /\ DOMAIN recs = 1..Len(recs)
  BY LenProperties
<1>2. \A i \in 1..Len(recs) : recs[i] \in Records
  BY ElementOfSeq
<1>3. \A rec \in Records : rec.usage \in Nat /\ rec.at \in AllRefs
  BY DEF Records
<1>4. RebuiltOK(t, recs, id, Len(recs))
  BY <1>1, <1>2, <1>3, RebuiltTree, LedgerAssumption
<1> HIDE DEF t
<1>5. /\ TreeOK(t) /\ t.root = id
      /\ D = {id} \cup {recs[j].at.node : j \in OfTask(recs, id, Len(recs))}
      /\ \A m \in D \ {id} :
           \E j \in OfTask(recs, id, Len(recs)) : recs[j].at.node = m /\ t.nodes[m].parent = recs[j].at.parent
  BY <1>4 DEF RebuiltOK
<1>6. PICK rank : Ranks(rank)
  BY DEF ForestRefs
<1> DEFINE r == [n \in D |-> rank[id][n]]
<1>7. ASSUME NEW n \in D \ {t.root}
      PROVE  /\ t.nodes[n].parent \in D /\ r[n] \in Nat
             /\ t.nodes[n].parent # t.root => r[t.nodes[n].parent] < r[n]
  <2>1. PICK j \in OfTask(recs, id, Len(recs)) : recs[j].at.node = n /\ t.nodes[n].parent = recs[j].at.parent
    BY <1>5, <1>7
  <2> DEFINE at == recs[j].at
             p == at.parent
  <2>2. j \in 1..Len(recs) /\ at.root = id /\ recs[j] \in Records
    BY <1>2, <2>1 DEF OfTask
  <2>3. at \in AllRefs /\ at.node # at.root
    BY <1>3, <1>5, <1>7, <2>1, <2>2
  <2>4. at \in DeclaredRefs
    BY <2>3 DEF AllRefs
  <2>5. p # None
    BY <2>3, <2>4 DEF ForestRefs
  <2>6. p \in {None, id} \cup {q.at.node : q \in {rec \in ToSet(recs) : rec.at.root = id}}
    <3>1. recs[j] \in ToSet(recs)
      BY <1>1, <2>2 DEF ToSet
    <3>2. QED BY <2>2, <3>1 DEF NoOrphans
  <2>7. p \in D
    <3>1. CASE p = id
      BY <1>5, <3>1
    <3>2. CASE p # id
      <4>1. PICK q \in ToSet(recs) : q.at.root = id /\ q.at.node = p
        BY <2>5, <2>6, <3>2
      <4>2. PICK k \in 1..Len(recs) : q = recs[k]
        BY <1>1, <4>1 DEF ToSet
      <4>3. k \in OfTask(recs, id, Len(recs))
        BY <4>1, <4>2 DEF OfTask
      <4>4. QED BY <1>5, <4>1, <4>2, <4>3
    <3>3. QED BY <3>1, <3>2
  <2> HIDE DEF at
  <2>8. rank[id][n] \in Nat /\ (p # id => rank[id][p] < rank[id][n])
    <3>1. at.root = id /\ at.node = n
      BY <2>1, <2>2 DEF at
    <3>2. QED BY <1>6, <2>3, <2>4, <3>1 DEF Ranks
  <2>9. t.nodes[n].parent = p
    BY <2>1 DEF at
  <2>10. r[n] = rank[id][n] /\ r[p] = rank[id][p]
    BY <1>7, <2>7
  <2> HIDE DEF p, r
  <2>11. QED BY <1>5, <2>7, <2>8, <2>9, <2>10
<1>8. t.root \in D
  BY <1>5
<1> HIDE DEF r
<1>9. Walk(t) = D
  BY <1>5, <1>7, <1>8, WalkOfRanked
<1>10. QED BY <1>9 DEF t

LEMMA ReportFollows == ForestRefs /\ LedgerInv => RowsAddUp
<1> DEFINE AddsUp(t, recs, id, priced) ==
      /\ priced \/ NoOrphans(recs, id)
           => SumOf([n \in DOMAIN t.rows |-> t.rows[n].tokens], DOMAIN t.rows) = t.tokens
      /\ t.main + t.sub = t.tokens
      /\ priced
           => SumOf([n \in DOMAIN t.rows |-> t.rows[n].micros], DOMAIN t.rows) = t.cost
<1>1. SUFFICES ASSUME ForestRefs, LedgerInv, out # None, out.cmd = "report", out.text # None,
                      NEW id \in DOMAIN out.text
               PROVE  AddsUp(out.text[id], out.read.recs, id, out.priced)
  BY DEF RowsAddUp
<1> DEFINE recs == ReadAll(file).recs
           v == RebuiltTask(recs, id)
<1>2. /\ out.read = ReadAll(file) /\ ReadAll(file).ok
      /\ out.text = Render(recs, out.priced)
  BY <1>1 DEF LedgerInv, OutOK
<1>3. out.read.recs = recs
  BY <1>2
<1>4. recs \in Seq(Records)
  BY <1>1, <1>2, ReadsInOrder
<1>5. out.text[id] = RenderTask(v, out.priced)
  BY <1>1, <1>2 DEF Render
<1> HIDE DEF recs
<1>6. Len(recs) \in Nat /\ \A i \in 1..Len(recs) : recs[i].usage \in Nat
  <2>1. Len(recs) \in Nat /\ \A i \in 1..Len(recs) : recs[i] \in Records
    BY <1>4, LenProperties, ElementOfSeq
  <2>2. QED BY <2>1 DEF Records
<1>7. TreeOK(v) /\ v.root \in DOMAIN v.nodes
  BY <1>6, RebuiltTree, LedgerAssumption DEF RebuiltOK
<1>8. NoOrphans(recs, id) => Walk(v) = DOMAIN v.nodes
  BY <1>1, <1>4, RebuiltIsWalked
<1> HIDE DEF v
<1> DEFINE t == RenderTask(v, out.priced)
<1>9. /\ t.tokens = TotalUsage(v) /\ t.main = RootUsage(v) /\ t.sub = SubagentUsage(v)
      /\ t.rows = Rows(v, out.priced) /\ (out.priced => t.cost = SpentMicros(v))
  BY DEF RenderTask
<1> HIDE DEF t
<1>10. t.main + t.sub = t.tokens
  BY <1>7, <1>9, UsageSums
<1>11. CASE out.priced
  <2>1. t.rows = ByCost(v)
    BY <1>9, <1>11 DEF Rows
  <2>2. /\ SumOf([n \in DOMAIN t.rows |-> t.rows[n].tokens], DOMAIN t.rows) = t.tokens
        /\ SumOf([n \in DOMAIN t.rows |-> t.rows[n].micros], DOMAIN t.rows) = t.cost
    BY <1>7, <1>9, <1>11, <2>1, PricedRows
  <2>3. QED BY <1>3, <1>5, <1>10, <2>2 DEF t
<1>12. CASE ~out.priced
  <2>1. t.rows = [n \in Walk(v) |-> [tokens |-> ByCost(v)[n].tokens, micros |-> None]]
    BY <1>9, <1>12 DEF Rows
  <2>2. NoOrphans(recs, id) => SumOf([n \in DOMAIN t.rows |-> t.rows[n].tokens], DOMAIN t.rows) = t.tokens
    BY <1>7, <1>8, <1>9, <2>1, WalkedRows
  <2>3. QED BY <1>3, <1>5, <1>10, <1>12, <2>2 DEF t
<1>13. QED BY <1>11, <1>12

-----------------------------------------------------------------------------
(***************************************************************************)
(* Theorems.                                                               *)
(***************************************************************************)
\* The invariant (append, read_all): the file is whole lines and at most one that
\* was cut, which only its own writer can complete, or it is broken and something
\* did tear it; every record being written is new and of one writer.
THEOREM LedgerInvariant == Spec => []LedgerInv
<1>1. Init => LedgerInv
  BY InitInv
<1>2. LedgerInv /\ [Next]_vars => LedgerInv'
  BY NextInv
<1>3. QED BY <1>1, <1>2, PTL DEF Spec

\* No silent loss (append, read_all): a command that reads the ledger reads every
\* record whose append returned Ok, once and in that order, and nothing that was
\* never appended; it fails only on a line that was cut.
THEOREM ReadsAreComplete == Spec => []ReadIsComplete
BY LedgerInvariant, ReadFollows, PTL

\* A stamp is exact (stamp_allowed, format_stamp): the tasks it counts are the
\* conversations there were, in spite of numbers that start again in every process.
THEOREM StampsAreExact == Spec => []StampIsExact
BY LedgerInvariant, StampFollows, PTL

\* The rows of a report add up to its heading (render_task, tasks_from_records),
\* for all records, tasks and rates, as long as no agent is its own ancestor.
THEOREM ReportsAddUp == ForestRefs => (Spec => []RowsAddUp)
<1> SUFFICES ASSUME ForestRefs PROVE Spec => []RowsAddUp
  OBVIOUS
<1>1. LedgerInv => RowsAddUp
  BY ReportFollows
<1>2. QED BY <1>1, LedgerInvariant, PTL
=============================================================================
