--------------------------- MODULE TaskTreeProofs ---------------------------
(***************************************************************************)
(* Lemmas about the operators of TaskTree: induction, sums, and what each  *)
(* method of a task does to its fields, its nodes and what it has spent.   *)
(***************************************************************************)
EXTENDS TaskTree, FiniteSetTheorems, WellFoundedInduction, TLAPS

-----------------------------------------------------------------------------
(***************************************************************************)
(* Induction, stated with a set of numbers instead of a predicate.         *)
(***************************************************************************)
LEMMA NatLeast ==
  ASSUME NEW T \in SUBSET Nat, T # {}
  PROVE  \E m \in T : \A k \in T : m <= k
<1>1. \E m \in T : \A k \in T : ~ (<<k, m>> \in OpToRel(<, Nat))
  BY WFMin, NatLessThanWellFounded
<1>2. PICK m \in T : \A k \in T : ~ (<<k, m>> \in OpToRel(<, Nat))
  BY <1>1
<1>3. \A k \in T : ~ (k < m)
  BY <1>2 DEF OpToRel
<1>4. QED BY <1>3

LEMMA NatInd ==
  ASSUME NEW T \in SUBSET Nat, 0 \in T, \A k \in T : k + 1 \in T
  PROVE  \A k \in Nat : k \in T
<1>1. SUFFICES ASSUME Nat \ T # {} PROVE FALSE
  OBVIOUS
<1>2. PICK m \in Nat \ T : \A k \in Nat \ T : m <= k
  BY <1>1, NatLeast
<1>3. m # 0 /\ m - 1 \in Nat
  BY <1>2
<1>4. m - 1 \in T
  BY <1>2, <1>3
<1>5. QED BY <1>2, <1>4

\* Induction over the finite subsets of a set, by taking out the element that
\* CHOOSE picks: F holds what is to be shown.
Picked(s) == CHOOSE x \in s : TRUE

LEMMA PickedFacts ==
  ASSUME NEW S, IsFiniteSet(S), S # {}
  PROVE  /\ Picked(S) \in S /\ IsFiniteSet(S \ {Picked(S)})
         /\ Cardinality(S) \in Nat \ {0}
         /\ Cardinality(S \ {Picked(S)}) = Cardinality(S) - 1
<1>1. Picked(S) \in S
  BY DEF Picked
<1>2. QED BY <1>1, FS_RemoveElement, FS_CardinalityType, FS_EmptySet

LEMMA SetInd ==
  ASSUME NEW U, NEW F \in SUBSET (SUBSET U), {} \in F,
         \A S \in SUBSET U : IsFiniteSet(S) /\ S # {} /\ (\A x \in S : S \ {x} \in F) => S \in F
  PROVE  \A S \in SUBSET U : IsFiniteSet(S) => S \in F
<1> DEFINE T == {k \in Nat : \A S \in SUBSET U :
                               IsFiniteSet(S) /\ Cardinality(S) = k => S \in F}
<1>1. 0 \in T
  BY FS_EmptySet
<1>2. ASSUME NEW k \in T PROVE k + 1 \in T
  <2>1. SUFFICES ASSUME NEW S \in SUBSET U, IsFiniteSet(S), Cardinality(S) = k + 1
                 PROVE  S \in F
    OBVIOUS
  <2>2. S # {}
    BY <2>1, FS_EmptySet
  <2>3. ASSUME NEW x \in S PROVE S \ {x} \in F
    <3>1. k \in Nat
      BY <1>2
    <3>2. IsFiniteSet(S \ {x}) /\ Cardinality(S \ {x}) = Cardinality(S) - 1
      BY <2>1, FS_RemoveElement
    <3>3. Cardinality(S \ {x}) = k
      BY <2>1, <3>1, <3>2
    <3>4. QED BY <1>2, <3>2, <3>3
  <2>4. QED BY <2>1, <2>2, <2>3
<1>3. \A k \in Nat : k \in T
  <2> HIDE DEF T
  <2>1. T \in SUBSET Nat BY DEF T
  <2>2. QED BY <1>1, <1>2, <2>1, NatInd
<1>4. QED BY <1>3, FS_CardinalityType

-----------------------------------------------------------------------------
(***************************************************************************)
(* Sums.  The fold behind SumOf is a recursive function on the subsets of  *)
(* S; that there is one at all is the first thing to show.                 *)
(***************************************************************************)
IsFold(it, g, D) ==
  it = [s \in D |-> IF s = {} THEN 0 ELSE g[Picked(s)] + it[s \ {Picked(s)}]]

LEMMA SumOfUnfolds ==
  ASSUME NEW g, NEW S
  PROVE  SumOf(g, S) = (CHOOSE it : IsFold(it, g, SUBSET S))[S]
BY DEF SumOf, MapThenSumSet, MapThenFoldSet, IsFold, Picked

UpTo(S, k) == {s \in SUBSET S : Cardinality(s) <= k}

LEMMA FoldExists ==
  ASSUME NEW g, NEW S, IsFiniteSet(S)
  PROVE  \E it : IsFold(it, g, SUBSET S)
<1> DEFINE T == {k \in Nat : \E it : IsFold(it, g, UpTo(S, k))}
<1>0. \A s \in SUBSET S : IsFiniteSet(s) /\ Cardinality(s) \in Nat
  BY FS_Subset, FS_CardinalityType
<1>1. 0 \in T
  <2>1. \A s \in UpTo(S, 0) : s = {}
    BY <1>0, FS_EmptySet DEF UpTo
  <2>2. IsFold([s \in UpTo(S, 0) |-> 0], g, UpTo(S, 0))
    BY <2>1 DEF IsFold
  <2>3. QED BY <2>2
<1>2. ASSUME NEW k \in T PROVE k + 1 \in T
  <2>1. PICK it : IsFold(it, g, UpTo(S, k))
    BY <1>2
  <2> DEFINE up == [s \in UpTo(S, k + 1) |->
                      IF s = {} THEN 0 ELSE g[Picked(s)] + it[s \ {Picked(s)}]]
  <2>2. ASSUME NEW s \in UpTo(S, k + 1), s # {}
        PROVE  up[s \ {Picked(s)}] = it[s \ {Picked(s)}]
    <3> DEFINE u == s \ {Picked(s)}
    <3>1. u \in UpTo(S, k) /\ u \in UpTo(S, k + 1)
      BY <1>0, <2>2, PickedFacts DEF UpTo
    <3>2. it[u] = IF u = {} THEN 0 ELSE g[Picked(u)] + it[u \ {Picked(u)}]
      BY <2>1, <3>1 DEF IsFold
    <3>3. up[u] = IF u = {} THEN 0 ELSE g[Picked(u)] + it[u \ {Picked(u)}]
      BY <3>1
    <3>4. QED BY <3>2, <3>3
  <2>3. up = [s \in UpTo(S, k + 1) |->
                IF s = {} THEN 0 ELSE g[Picked(s)] + up[s \ {Picked(s)}]]
    BY <2>2
  <2>4. IsFold(up, g, UpTo(S, k + 1))
    BY <2>3 DEF IsFold
  <2>5. QED BY <2>4
<1>3. \A k \in Nat : k \in T
  <2> HIDE DEF T
  <2>1. T \in SUBSET Nat BY DEF T
  <2>2. QED BY <1>1, <1>2, <2>1, NatInd
<1>4. UpTo(S, Cardinality(S)) = SUBSET S
  BY FS_Subset DEF UpTo
<1>5. Cardinality(S) \in T
  BY <1>3, FS_CardinalityType
<1>6. QED BY <1>4, <1>5

\* Two folds agree on the sets they are both defined on.
LEMMA FoldUnique ==
  ASSUME NEW g, NEW h, NEW S, NEW R, NEW it, NEW jt,
         IsFold(it, g, SUBSET S), IsFold(jt, h, SUBSET R),
         \A x \in S \cap R : g[x] = h[x]
  PROVE  \A s \in SUBSET (S \cap R) : IsFiniteSet(s) => it[s] = jt[s]
<1> DEFINE U == S \cap R
           F == {s \in SUBSET U : it[s] = jt[s]}
<1>1. {} \in F
  BY DEF IsFold
<1>2. ASSUME NEW s \in SUBSET U, IsFiniteSet(s), s # {}, \A x \in s : s \ {x} \in F
      PROVE  s \in F
  <2>1. Picked(s) \in s
    BY <1>2, PickedFacts
  <2>2. it[s] = g[Picked(s)] + it[s \ {Picked(s)}]
    BY <1>2 DEF IsFold
  <2>3. jt[s] = h[Picked(s)] + jt[s \ {Picked(s)}]
    BY <1>2 DEF IsFold
  <2>4. QED BY <1>2, <2>1, <2>2, <2>3
<1>3. F \in SUBSET (SUBSET U)
  OBVIOUS
<1> HIDE DEF F
<1>4. \A s \in SUBSET U : IsFiniteSet(s) => s \in F
  BY <1>1, <1>2, <1>3, SetInd
<1>5. QED BY <1>4 DEF F

LEMMA SumOfFold ==
  ASSUME NEW g, NEW S, IsFiniteSet(S)
  PROVE  \E it : IsFold(it, g, SUBSET S) /\ \A s \in SUBSET S : SumOf(g, s) = it[s]
<1>1. PICK it : IsFold(it, g, SUBSET S)
  BY FoldExists
<1>2. ASSUME NEW s \in SUBSET S PROVE SumOf(g, s) = it[s]
  <2> DEFINE jt == CHOOSE f : IsFold(f, g, SUBSET s)
  <2>1. IsFiniteSet(s)
    BY FS_Subset
  <2>2. IsFold(jt, g, SUBSET s)
    BY <2>1, FoldExists
  <2>3. SumOf(g, s) = jt[s]
    BY SumOfUnfolds
  <2> HIDE DEF jt
  <2>4. s \in SUBSET (S \cap s) /\ \A x \in S \cap s : g[x] = g[x]
    OBVIOUS
  <2>5. it[s] = jt[s]
    BY <1>1, <2>1, <2>2, <2>4, FoldUnique, SMTT(30)
  <2>6. QED BY <2>3, <2>5
<1>3. QED BY <1>1, <1>2

\* The sum over nothing, and over a set from which CHOOSE takes an element.
LEMMA SumOfPicked ==
  ASSUME NEW g, NEW S, IsFiniteSet(S)
  PROVE  SumOf(g, S) = IF S = {} THEN 0 ELSE g[Picked(S)] + SumOf(g, S \ {Picked(S)})
<1>1. PICK it : IsFold(it, g, SUBSET S) /\ \A s \in SUBSET S : SumOf(g, s) = it[s]
  BY SumOfFold
<1>2. it[S] = IF S = {} THEN 0 ELSE g[Picked(S)] + it[S \ {Picked(S)}]
  BY <1>1 DEF IsFold
<1>3. QED BY <1>1, <1>2

LEMMA SumOfEmpty ==
  ASSUME NEW g
  PROVE  SumOf(g, {}) = 0
BY SumOfPicked, FS_EmptySet

\* A sum depends on what is summed, and on nothing else.
LEMMA SumOfSame ==
  ASSUME NEW g, NEW h, NEW S, IsFiniteSet(S), \A x \in S : g[x] = h[x]
  PROVE  SumOf(g, S) = SumOf(h, S)
<1>1. PICK it : IsFold(it, g, SUBSET S) /\ SumOf(g, S) = it[S]
  <2>1. \E it : IsFold(it, g, SUBSET S) /\ \A s \in SUBSET S : SumOf(g, s) = it[s]
    BY SumOfFold, ZenonT(60)
  <2>2. QED BY <2>1
<1>2. PICK jt : IsFold(jt, h, SUBSET S) /\ SumOf(h, S) = jt[S]
  <2>1. \E jt : IsFold(jt, h, SUBSET S) /\ \A s \in SUBSET S : SumOf(h, s) = jt[s]
    BY SumOfFold, ZenonT(60)
  <2>2. QED BY <2>1
<1>3. S \in SUBSET (S \cap S) /\ \A x \in S \cap S : g[x] = h[x]
  OBVIOUS
<1>4. QED BY <1>1, <1>2, <1>3, FoldUnique

LEMMA SumOfNat ==
  ASSUME NEW g, NEW S, IsFiniteSet(S), \A x \in S : g[x] \in Nat
  PROVE  SumOf(g, S) \in Nat
<1> DEFINE F == {s \in SUBSET S : SumOf(g, s) \in Nat}
<1>1. {} \in F
  BY SumOfEmpty
<1>2. ASSUME NEW s \in SUBSET S, IsFiniteSet(s), s # {}, \A x \in s : s \ {x} \in F
      PROVE  s \in F
  <2>1. Picked(s) \in s
    BY <1>2, PickedFacts
  <2>2. SumOf(g, s \ {Picked(s)}) \in Nat /\ g[Picked(s)] \in Nat
    BY <1>2, <2>1
  <2>3. SumOf(g, s) = g[Picked(s)] + SumOf(g, s \ {Picked(s)})
    BY <1>2, SumOfPicked
  <2>4. QED BY <2>2, <2>3
<1>3. F \in SUBSET (SUBSET S)
  OBVIOUS
<1> HIDE DEF F
<1>4. \A s \in SUBSET S : IsFiniteSet(s) => s \in F
  BY <1>1, <1>2, <1>3, SetInd
<1>5. QED BY <1>4 DEF F

\* Any element can be taken out of a sum, not only the one CHOOSE picks.
LEMMA SumOfTakeOut ==
  ASSUME NEW g, NEW S, IsFiniteSet(S), \A x \in S : g[x] \in Nat, NEW y \in S
  PROVE  SumOf(g, S) = g[y] + SumOf(g, S \ {y})
<1> DEFINE F == {s \in SUBSET S : \A x \in s : SumOf(g, s) = g[x] + SumOf(g, s \ {x})}
<1>1. {} \in F
  OBVIOUS
<1>2. ASSUME NEW s \in SUBSET S, IsFiniteSet(s), s # {}, \A x \in s : s \ {x} \in F
      PROVE  s \in F
  <2>1. SUFFICES ASSUME NEW x \in s, x # Picked(s)
                 PROVE  SumOf(g, s) = g[x] + SumOf(g, s \ {x})
    BY <1>2, SumOfPicked
  <2> DEFINE p == Picked(s)
             rest == (s \ {p}) \ {x}
  <2>2. p \in s /\ g[p] \in Nat /\ g[x] \in Nat
    BY <1>2, PickedFacts
  <2>3. SumOf(g, s) = g[p] + SumOf(g, s \ {p})
    BY <1>2, SumOfPicked
  <2>4. SumOf(g, s \ {p}) = g[x] + SumOf(g, rest)
    <3>1. x \in s \ {p} /\ s \ {p} \in F
      BY <1>2, <2>1, <2>2
    <3>2. QED BY <3>1
  <2>5. IsFiniteSet(rest) /\ IsFiniteSet(s \ {x}) /\ rest = (s \ {x}) \ {p}
    BY <1>2, FS_Subset
  <2>6. SumOf(g, rest) \in Nat
    BY <2>5, SumOfNat
  <2>8. SumOf(g, s \ {x}) = g[p] + SumOf(g, rest)
    <3>1. p \in s \ {x} /\ s \ {x} \in F
      BY <1>2, <2>1, <2>2
    <3>2. QED BY <2>5, <3>1
  <2>9. QED BY <2>2, <2>3, <2>4, <2>6, <2>8
<1>3. F \in SUBSET (SUBSET S)
  OBVIOUS
<1> HIDE DEF F
<1>4. \A s \in SUBSET S : IsFiniteSet(s) => s \in F
  BY <1>1, <1>2, <1>3, SetInd
<1>5. QED BY <1>4 DEF F

LEMMA SumOfAdd ==
  ASSUME NEW g, NEW S, IsFiniteSet(S), NEW y, y \notin S, \A x \in S \cup {y} : g[x] \in Nat
  PROVE  SumOf(g, S \cup {y}) = SumOf(g, S) + g[y]
<1>1. IsFiniteSet(S \cup {y}) /\ (S \cup {y}) \ {y} = S /\ y \in S \cup {y}
  BY FS_AddElement
<1>2. SumOf(g, S \cup {y}) = g[y] + SumOf(g, S)
  BY <1>1, SumOfTakeOut
<1>3. SumOf(g, S) \in Nat
  BY SumOfNat
<1>4. QED BY <1>2, <1>3

\* One summand changes.
LEMMA SumOfChange ==
  ASSUME NEW g, NEW h, NEW S, IsFiniteSet(S), NEW y \in S,
         \A x \in S : g[x] \in Nat /\ h[x] \in Nat, \A x \in S \ {y} : g[x] = h[x]
  PROVE  SumOf(h, S) = SumOf(g, S) - g[y] + h[y]
<1>1. IsFiniteSet(S \ {y})
  BY FS_Subset
<1>2. SumOf(g, S) = g[y] + SumOf(g, S \ {y}) /\ SumOf(h, S) = h[y] + SumOf(h, S \ {y})
  BY SumOfTakeOut
<1>3. SumOf(g, S \ {y}) = SumOf(h, S \ {y})
  BY <1>1, SumOfSame
<1>4. SumOf(g, S \ {y}) \in Nat
  BY <1>1, SumOfNat
<1>5. QED BY <1>2, <1>3, <1>4

\* Larger summands, larger sum.
LEMMA SumOfMonotone ==
  ASSUME NEW g, NEW h, NEW S, IsFiniteSet(S),
         \A x \in S : g[x] \in Nat /\ h[x] \in Nat /\ g[x] <= h[x]
  PROVE  SumOf(g, S) <= SumOf(h, S)
<1> DEFINE F == {s \in SUBSET S : SumOf(g, s) <= SumOf(h, s)}
<1>1. {} \in F
  BY SumOfEmpty
<1>2. ASSUME NEW s \in SUBSET S, IsFiniteSet(s), s # {}, \A x \in s : s \ {x} \in F
      PROVE  s \in F
  <2> DEFINE p == Picked(s)
  <2>1. p \in s /\ IsFiniteSet(s \ {p})
    BY <1>2, PickedFacts
  <2>2. SumOf(g, s \ {p}) \in Nat /\ SumOf(h, s \ {p}) \in Nat
    BY <2>1, SumOfNat
  <2>3. SumOf(g, s) = g[p] + SumOf(g, s \ {p}) /\ SumOf(h, s) = h[p] + SumOf(h, s \ {p})
    BY <1>2, SumOfPicked
  <2>4. g[p] \in Nat /\ h[p] \in Nat /\ g[p] <= h[p] /\ SumOf(g, s \ {p}) <= SumOf(h, s \ {p})
    BY <1>2, <2>1
  <2> HIDE DEF p
  <2>5. QED BY <2>2, <2>3, <2>4
<1>3. F \in SUBSET (SUBSET S)
  OBVIOUS
<1> HIDE DEF F
<1>4. \A s \in SUBSET S : IsFiniteSet(s) => s \in F
  BY <1>1, <1>2, <1>3, SetInd
<1>5. QED BY <1>4 DEF F

\* More summands, larger sum.
LEMMA SumOfSubset ==
  ASSUME NEW g, NEW S, IsFiniteSet(S), \A x \in S : g[x] \in Nat, NEW R \in SUBSET S
  PROVE  SumOf(g, R) <= SumOf(g, S)
<1> DEFINE F == {s \in SUBSET S : SumOf(g, s \cap R) <= SumOf(g, s)}
<1>1. {} \in F
  BY SumOfEmpty
<1>2. ASSUME NEW s \in SUBSET S, IsFiniteSet(s), s # {}, \A x \in s : s \ {x} \in F
      PROVE  s \in F
  <2> DEFINE p == Picked(s)
             rest == (s \ {p}) \cap R
  <2>1. p \in s /\ IsFiniteSet(s \ {p}) /\ IsFiniteSet(s \cap R) /\ IsFiniteSet(rest)
    BY <1>2, PickedFacts, FS_Subset
  <2>2. SumOf(g, s \ {p}) \in Nat /\ SumOf(g, rest) \in Nat /\ g[p] \in Nat
    BY <2>1, SumOfNat
  <2>3. SumOf(g, s) = g[p] + SumOf(g, s \ {p}) /\ SumOf(g, rest) <= SumOf(g, s \ {p})
    BY <1>2, <2>1, SumOfPicked
  <2>4. CASE p \in R
    <3>1. (s \cap R) \ {p} = rest /\ p \in s \cap R
      BY <2>1, <2>4
    <3>2. SumOf(g, s \cap R) = g[p] + SumOf(g, rest)
      BY <2>1, <3>1, SumOfTakeOut
    <3>3. SumOf(g, s \cap R) <= SumOf(g, s)
      <4> HIDE DEF p, rest
      <4> QED BY <2>2, <2>3, <3>2
    <3>4. QED BY <3>3
  <2>5. CASE p \notin R
    <3>1. SumOf(g, s \cap R) = SumOf(g, rest)
      <4>1. s \cap R = rest
        BY <2>5
      <4>2. QED BY <4>1, Zenon
    <3>2. SumOf(g, s \cap R) <= SumOf(g, s)
      <4> HIDE DEF p, rest
      <4> QED BY <2>2, <2>3, <3>1
    <3>3. QED BY <3>2
  <2>6. QED BY <2>4, <2>5
<1>3. F \in SUBSET (SUBSET S)
  OBVIOUS
<1> HIDE DEF F
<1>4. \A s \in SUBSET S : IsFiniteSet(s) => s \in F
  BY <1>1, <1>2, <1>3, SetInd
<1>5. S \cap R = R
  OBVIOUS
<1>6. QED BY <1>4, <1>5 DEF F

-----------------------------------------------------------------------------
TaskFields == {"root", "nodes", "ceiling", "share", "sealed", "live", "peak",
               "synthetic"}

-----------------------------------------------------------------------------
(***************************************************************************)
(* What the operations of TaskTree do to the counters of a task, whatever  *)
(* they do to its nodes.                                                   *)
(***************************************************************************)
LEMMA NewTaskFields ==
  ASSUME NEW root, NEW ceiling, NEW share
  PROVE  LET t == NewTask(root, ceiling, share)
         IN  DOMAIN t = TaskFields /\ t.live = 0 /\ t.peak = 0 /\ ~t.sealed /\ ~t.synthetic
BY DEF NewTask, TaskFields

LEMMA EnsureFields ==
  ASSUME NEW t, NEW id, NEW parent, DOMAIN t = TaskFields
  PROVE  LET u == Ensure(t, id, parent)
         IN  /\ DOMAIN u = TaskFields /\ u.live = t.live /\ u.peak = t.peak
             /\ u.sealed = t.sealed /\ u.synthetic = t.synthetic
BY DEF Ensure, TaskFields

LEMMA MintFields ==
  ASSUME NEW t, NEW a, DOMAIN t = TaskFields
  PROVE  LET u == MintVoucher(t, a)
         IN  /\ DOMAIN u = TaskFields /\ u.live = t.live /\ u.peak = t.peak
             /\ u.sealed = t.sealed /\ u.synthetic = t.synthetic
<1> DEFINE parent == IF a.parent = None THEN t.root ELSE a.parent
           remaining == SaturatingSub(AllowanceOf(t, parent),
                                      MintedBySiblings(t, parent, a.node))
           allot == (remaining * t.share.num) \div t.share.den
<1>1. MintVoucher(t, a) = t \/ MintVoucher(t, a) = [t EXCEPT !.nodes[a.node].allowance = allot]
  BY DEF MintVoucher
<1> HIDE DEF allot
<1>2. QED
  BY <1>1 DEF TaskFields

\* begin adds one to live and raises peak to it.
LEMMA BeginFields ==
  ASSUME NEW t, NEW a, DOMAIN t = TaskFields
  PROVE  LET u == Begin(t, a)
         IN  /\ DOMAIN u = TaskFields /\ u.live = t.live + 1
             /\ u.peak = IF t.live + 1 > t.peak THEN t.live + 1 ELSE t.peak
             /\ u.sealed = t.sealed /\ u.synthetic = t.synthetic
<1> DEFINE e == Ensure(t, a.node, a.parent)
           m == MintVoucher(e, a)
<1>1. DOMAIN m = TaskFields /\ m.sealed = t.sealed /\ m.synthetic = t.synthetic
  <2>1. DOMAIN e = TaskFields /\ e.sealed = t.sealed /\ e.synthetic = t.synthetic
    BY EnsureFields
  <2> HIDE DEF e
  <2>2. QED BY <2>1, MintFields
<1>2. Begin(t, a) = [m EXCEPT !.live = t.live + 1,
                       !.peak = IF t.live + 1 > t.peak THEN t.live + 1 ELSE t.peak]
  BY DEF Begin
<1> HIDE DEF m
<1>3. QED
  BY <1>1, <1>2 DEF TaskFields

\* admission leaves the counters alone.
LEMMA AdmitAtFields ==
  ASSUME NEW t, NEW a, DOMAIN t = TaskFields
  PROVE  LET u == AdmitAt(t, a).task
         IN  /\ DOMAIN u = TaskFields /\ u.live = t.live /\ u.peak = t.peak
             /\ u.synthetic = t.synthetic
<1>1. Admit(t).task = t \/ Admit(t).task = [t EXCEPT !.sealed = TRUE]
  BY DEF Admit
<1> DEFINE r == Admit(t).task
<1>2. /\ DOMAIN r = TaskFields /\ r.live = t.live /\ r.peak = t.peak
      /\ r.synthetic = t.synthetic
  BY <1>1 DEF TaskFields
<1>3. \/ AdmitAt(t, a).task = r
      \/ \E node : AdmitAt(t, a).task = [r EXCEPT !.nodes[a.node] = node]
  BY DEF AdmitAt, SetNode
<1> HIDE DEF r
<1>4. QED
  BY <1>2, <1>3 DEF TaskFields

LEMMA TakeStopFields ==
  ASSUME NEW t, DOMAIN t = TaskFields
  PROVE  LET u == TakeStop(t).task
         IN  DOMAIN u = TaskFields /\ u.live = t.live /\ u.peak = t.peak
BY DEF TakeStop, TaskFields

\* finish takes one from live, if there is one.
LEMMA FinishFields ==
  ASSUME NEW t, NEW a, NEW usage, NEW complete, DOMAIN t = TaskFields
  PROVE  LET u == Finish(t, a, usage, complete)
         IN  /\ DOMAIN u = TaskFields /\ u.live = SaturatingSub(t.live, 1)
             /\ u.peak = t.peak /\ u.sealed = t.sealed /\ u.synthetic = t.synthetic
<1> DEFINE e == Ensure(t, a.node, a.parent)
<1>1. /\ DOMAIN e = TaskFields /\ e.peak = t.peak
      /\ e.sealed = t.sealed /\ e.synthetic = t.synthetic
  BY EnsureFields
<1>2. \E node : Finish(t, a, usage, complete) =
                  [e EXCEPT !.nodes[a.node] = node, !.live = SaturatingSub(t.live, 1)]
  BY DEF Finish
<1> HIDE DEF e
<1>3. QED
  BY <1>1, <1>2 DEF TaskFields

-----------------------------------------------------------------------------
(***************************************************************************)
(* The nodes of a task, and what each method does to them.                 *)
(***************************************************************************)
NodeFields == {"parent", "depth", "allowance", "usage", "requests", "incomplete", "sealed"}

NodeOK(n) ==
  /\ DOMAIN n = NodeFields
  /\ n.depth \in 0..U8Max /\ n.allowance \in Nat \cup {None}
  /\ n.usage \in Nat /\ n.requests \in Nat /\ n.incomplete \in Nat /\ n.sealed \in BOOLEAN

NodesOK(nodes) ==
  /\ nodes = [n \in DOMAIN nodes |-> nodes[n]] /\ IsFiniteSet(DOMAIN nodes)
  /\ \A n \in DOMAIN nodes : NodeOK(nodes[n])

ShareOK(share) ==
  \/ share = None
  \/ share.num \in Nat /\ share.den \in Nat \ {0} /\ share.num <= share.den

TreeOK(t) ==
  /\ DOMAIN t = TaskFields /\ NodesOK(t.nodes)
  /\ t.ceiling \in Nat \cup {None} /\ ShareOK(t.share)
  /\ t.sealed \in BOOLEAN /\ t.synthetic \in BOOLEAN

\* What no method changes.
SameTask(t, u) == u.root = t.root /\ u.ceiling = t.ceiling /\ u.share = t.share

\* What begin leaves of the nodes it finds, and of the one it creates.
KeepsNodes(t, u) ==
  \A n \in DOMAIN t.nodes :
    /\ u.nodes[n].parent = t.nodes[n].parent /\ u.nodes[n].depth = t.nodes[n].depth
    /\ u.nodes[n].usage = t.nodes[n].usage /\ u.nodes[n].sealed = t.nodes[n].sealed
    /\ t.nodes[n].allowance # None => u.nodes[n].allowance = t.nodes[n].allowance

AddsNode(t, a, u) ==
  a.node \notin DOMAIN t.nodes => /\ u.nodes[a.node].usage = 0 /\ ~u.nodes[a.node].sealed
                                  /\ u.nodes[a.node].parent = a.parent

\* What finish does to the nodes it finds, and to the one it may create.
Bills(t, a, usage, u) ==
  /\ \A n \in DOMAIN t.nodes :
       /\ u.nodes[n].parent = t.nodes[n].parent /\ u.nodes[n].depth = t.nodes[n].depth
       /\ u.nodes[n].allowance = t.nodes[n].allowance
       /\ u.nodes[n].sealed = t.nodes[n].sealed
       /\ n = a.node => u.nodes[n].usage = t.nodes[n].usage + usage
       /\ n # a.node => u.nodes[n].usage = t.nodes[n].usage
  /\ a.node \notin DOMAIN t.nodes
       => /\ u.nodes[a.node].usage = usage /\ ~u.nodes[a.node].sealed
          /\ u.nodes[a.node].parent = a.parent /\ u.nodes[a.node].allowance = None

LEMMA NewNodeOK ==
  ASSUME NEW parent, NEW depth \in 0..U8Max, NEW allowance \in Nat \cup {None}
  PROVE  LET n == NewNode(parent, depth, allowance)
         IN  /\ NodeOK(n) /\ n.parent = parent /\ n.depth = depth /\ n.allowance = allowance
             /\ n.usage = 0 /\ n.requests = 0 /\ n.incomplete = 0 /\ ~n.sealed
BY DEF NewNode, NodeOK, NodeFields

LEMMA NewTaskTree ==
  ASSUME NEW root, NEW ceiling \in Nat \cup {None}, NEW share, ShareOK(share)
  PROVE  LET t == NewTask(root, ceiling, share)
         IN  /\ TreeOK(t) /\ DOMAIN t.nodes = {root} /\ t.nodes[root] = NewNode(None, 0, ceiling)
             /\ t.root = root /\ t.ceiling = ceiling /\ t.share = share
             /\ ~t.sealed /\ ~t.synthetic
<1> DEFINE t == NewTask(root, ceiling, share)
<1>1. /\ DOMAIN t = TaskFields /\ t.nodes = [n \in {root} |-> NewNode(None, 0, ceiling)]
      /\ t.root = root /\ t.ceiling = ceiling /\ t.share = share
      /\ t.sealed = FALSE /\ t.synthetic = FALSE
  BY DEF NewTask, TaskFields
<1> HIDE DEF t
<1>2. DOMAIN t.nodes = {root} /\ t.nodes[root] = NewNode(None, 0, ceiling)
  BY <1>1
<1>3. NodeOK(t.nodes[root])
  <2>1. 0 \in 0..U8Max
    BY DEF U8Max
  <2>2. QED BY <1>2, <2>1, NewNodeOK
<1>4. IsFiniteSet({root})
  BY FS_Singleton
<1>5. NodesOK(t.nodes)
  BY <1>1, <1>2, <1>3, <1>4 DEF NodesOK
<1>6. TreeOK(t)
  BY <1>1, <1>5 DEF TreeOK
<1>7. QED
  BY <1>1, <1>2, <1>6 DEF t

\* A node that is put into, or replaced in, a well-formed map.
LEMMA PutNode ==
  ASSUME NEW nodes, NodesOK(nodes), NEW id, NEW node, NodeOK(node), NEW new,
         new = [n \in DOMAIN nodes \cup {id} |-> IF n = id THEN node ELSE nodes[n]]
  PROVE  NodesOK(new)
<1>1. IsFiniteSet(DOMAIN nodes \cup {id})
  BY FS_AddElement DEF NodesOK
<1>2. QED
  BY <1>1 DEF NodesOK

\* ensure: every node stays, and id is a node.
LEMMA EnsureTree ==
  ASSUME NEW t, TreeOK(t), NEW id, NEW parent
  PROVE  LET u == Ensure(t, id, parent)
         IN  /\ TreeOK(u) /\ SameTask(t, u) /\ u.sealed = t.sealed /\ u.synthetic = t.synthetic
             /\ DOMAIN u.nodes = DOMAIN t.nodes \cup {id}
             /\ \A n \in DOMAIN t.nodes : u.nodes[n] = t.nodes[n]
             /\ id \notin DOMAIN t.nodes
                  => \E depth \in 0..U8Max : u.nodes[id] = NewNode(parent, depth, None)
<1>1. CASE id \in DOMAIN t.nodes
  BY <1>1 DEF Ensure, SameTask
<1>2. CASE id \notin DOMAIN t.nodes
  <2> DEFINE depth == IF parent \in DOMAIN t.nodes
                      THEN IF t.nodes[parent].depth >= U8Max THEN U8Max
                           ELSE t.nodes[parent].depth + 1
                      ELSE 1
             node == NewNode(parent, depth, None)
             new == [n \in DOMAIN t.nodes \cup {id} |-> IF n = id THEN node ELSE t.nodes[n]]
             u == Ensure(t, id, parent)
  <2>1. depth \in 0..U8Max
    <3>1. parent \in DOMAIN t.nodes => t.nodes[parent].depth \in 0..U8Max
      BY DEF TreeOK, NodesOK, NodeOK
    <3>2. QED BY <3>1 DEF U8Max
  <2>2. u = [t EXCEPT !.nodes = new]
    BY <1>2 DEF Ensure
  <2> HIDE DEF depth
  <2>3. NodeOK(node)
    BY <2>1, NewNodeOK
  <2> HIDE DEF node
  <2>4. NodesOK(new)
    BY <2>3, PutNode DEF TreeOK
  <2> HIDE DEF new, u
  <2>5. TreeOK(u) /\ u.nodes = new /\ SameTask(t, u) /\ u.sealed = t.sealed
          /\ u.synthetic = t.synthetic
    BY <2>2, <2>4 DEF TreeOK, TaskFields, SameTask
  <2>6. /\ DOMAIN u.nodes = DOMAIN t.nodes \cup {id} /\ u.nodes[id] = node
        /\ \A n \in DOMAIN t.nodes : u.nodes[n] = t.nodes[n]
    BY <1>2, <2>5 DEF new
  <2>7. QED
    BY <1>2, <2>1, <2>5, <2>6 DEF u, node
<1>3. QED
  BY <1>1, <1>2

\* A step that replaces one node by another one.
LEMMA ReplaceNode ==
  ASSUME NEW t, TreeOK(t), NEW id \in DOMAIN t.nodes, NEW node, NodeOK(node), NEW u,
         DOMAIN u = TaskFields, SameTask(t, u), u.sealed \in BOOLEAN, u.synthetic \in BOOLEAN,
         u.nodes = [t.nodes EXCEPT ![id] = node]
  PROVE  /\ TreeOK(u) /\ DOMAIN u.nodes = DOMAIN t.nodes /\ u.nodes[id] = node
         /\ \A n \in DOMAIN t.nodes \ {id} : u.nodes[n] = t.nodes[n]
<1>1. u.nodes = [n \in DOMAIN t.nodes \cup {id} |-> IF n = id THEN node ELSE t.nodes[n]]
  BY DEF TreeOK, NodesOK
<1>2. NodesOK(u.nodes)
  BY <1>1, PutNode DEF TreeOK
<1>3. QED
  BY <1>1, <1>2 DEF TreeOK, SameTask

LEMMA DivNat ==
  ASSUME NEW a \in Nat, NEW b \in Nat, NEW d \in Nat \ {0}
  PROVE  (a * b) \div d \in Nat
<1>1. a * b \in Nat
  OBVIOUS
<1>2. \A m \in Nat : m \div d \in Nat
  OBVIOUS
<1>3. QED BY <1>1, <1>2

\* The vouchers of the children of a node add up to a number.
LEMMA MintedNat ==
  ASSUME NEW t, TreeOK(t), NEW parent, NEW id
  PROVE  /\ IsFiniteSet(Minted(t, parent)) /\ Minted(t, parent) \subseteq DOMAIN t.nodes
         /\ \A c \in Minted(t, parent) : Vouchers(t)[c] \in Nat
         /\ MintedBySiblings(t, parent, id) \in Nat
         /\ SumOf(Vouchers(t), Minted(t, parent)) \in Nat
<1>1. Minted(t, parent) \subseteq DOMAIN t.nodes
  BY DEF Minted, Children
<1>2. IsFiniteSet(Minted(t, parent)) /\ IsFiniteSet(Minted(t, parent) \ {id})
  BY <1>1, FS_Subset DEF TreeOK, NodesOK
<1>3. \A c \in Minted(t, parent) : Vouchers(t)[c] \in Nat
  BY <1>1 DEF Minted, Children, Vouchers, TreeOK, NodesOK, NodeOK
<1>4. QED
  BY <1>1, <1>2, <1>3, SumOfNat DEF MintedBySiblings

\* mint_voucher: at most the allowance of one node changes, from None to a
\* number.
LEMMA MintTree ==
  ASSUME NEW t, TreeOK(t), NEW a, a.node \in DOMAIN t.nodes, None \notin Nat
  PROVE  LET u == MintVoucher(t, a)
         IN  /\ TreeOK(u) /\ SameTask(t, u) /\ u.sealed = t.sealed /\ u.synthetic = t.synthetic
             /\ DOMAIN u.nodes = DOMAIN t.nodes
             /\ \A n \in DOMAIN t.nodes \ {a.node} : u.nodes[n] = t.nodes[n]
             /\ u.nodes[a.node] = t.nodes[a.node]
                \/ /\ t.nodes[a.node].allowance = None
                   /\ \E allot \in Nat :
                        u.nodes[a.node] = [t.nodes[a.node] EXCEPT !.allowance = allot]
<1> DEFINE parent == IF a.parent = None THEN t.root ELSE a.parent
           remaining == SaturatingSub(AllowanceOf(t, parent),
                                      MintedBySiblings(t, parent, a.node))
           allot == (remaining * t.share.num) \div t.share.den
           u == MintVoucher(t, a)
           node == [t.nodes[a.node] EXCEPT !.allowance = allot]
<1>1. CASE u = t
  BY <1>1 DEF SameTask
<1>2. CASE u # t
  <2>1. /\ u = [t EXCEPT !.nodes[a.node].allowance = allot]
        /\ t.share # None /\ t.nodes[a.node].allowance = None
    BY <1>2 DEF MintVoucher
  <2>2. allot \in Nat
    <3>1. AllowanceOf(t, parent) \in Nat
      BY DEF AllowanceOf, TreeOK, NodesOK, NodeOK
    <3>2. MintedBySiblings(t, parent, a.node) \in Nat
      BY MintedNat
    <3>3. remaining \in Nat
      <4> HIDE DEF parent
      <4> QED BY <3>1, <3>2 DEF SaturatingSub
    <3>4. t.share.num \in Nat /\ t.share.den \in Nat \ {0}
      BY <2>1 DEF TreeOK, ShareOK
    <3> HIDE DEF remaining
    <3>5. QED BY <3>3, <3>4, DivNat
  <2> HIDE DEF allot
  <2>3. NodeOK(t.nodes[a.node])
    BY DEF TreeOK, NodesOK
  <2>4. NodeOK(node)
    BY <2>2, <2>3 DEF NodeOK, NodeFields
  <2>5. u.nodes = [t.nodes EXCEPT ![a.node] = node] /\ DOMAIN u = TaskFields /\ SameTask(t, u)
          /\ u.sealed = t.sealed /\ u.synthetic = t.synthetic
    BY <2>1 DEF TreeOK, TaskFields, SameTask
  <2> HIDE DEF u, node
  <2>6. /\ TreeOK(u) /\ DOMAIN u.nodes = DOMAIN t.nodes /\ u.nodes[a.node] = node
        /\ \A n \in DOMAIN t.nodes \ {a.node} : u.nodes[n] = t.nodes[n]
    BY <2>4, <2>5, ReplaceNode DEF TreeOK
  <2>7. QED BY <2>1, <2>2, <2>5, <2>6 DEF u, node
<1>3. QED
  BY <1>1, <1>2

\* begin: the node is there, its usage and its seal as they were.
LEMMA BeginTree ==
  ASSUME NEW t, TreeOK(t), NEW a, None \notin Nat
  PROVE  LET u == Begin(t, a)
         IN  /\ TreeOK(u) /\ SameTask(t, u) /\ u.sealed = t.sealed /\ u.synthetic = t.synthetic
             /\ u.nodes = MintVoucher(Ensure(t, a.node, a.parent), a).nodes
             /\ DOMAIN u.nodes = DOMAIN t.nodes \cup {a.node}
             /\ \A n \in DOMAIN t.nodes \ {a.node} : u.nodes[n] = t.nodes[n]
             /\ KeepsNodes(t, u) /\ AddsNode(t, a, u)
<1> DEFINE e == Ensure(t, a.node, a.parent)
           m == MintVoucher(e, a)
           u == Begin(t, a)
<1>1. /\ TreeOK(e) /\ SameTask(t, e) /\ e.sealed = t.sealed /\ e.synthetic = t.synthetic
      /\ DOMAIN e.nodes = DOMAIN t.nodes \cup {a.node}
      /\ \A n \in DOMAIN t.nodes : e.nodes[n] = t.nodes[n]
      /\ a.node \notin DOMAIN t.nodes
           => \E depth \in 0..U8Max : e.nodes[a.node] = NewNode(a.parent, depth, None)
  BY EnsureTree
<1>2. a.node \notin DOMAIN t.nodes => /\ e.nodes[a.node].usage = 0 /\ ~e.nodes[a.node].sealed
                                      /\ e.nodes[a.node].parent = a.parent
  <2> HIDE DEF e
  <2>1. SUFFICES ASSUME a.node \notin DOMAIN t.nodes
                 PROVE  /\ e.nodes[a.node].usage = 0 /\ ~e.nodes[a.node].sealed
                        /\ e.nodes[a.node].parent = a.parent
    OBVIOUS
  <2>2. PICK depth \in 0..U8Max : e.nodes[a.node] = NewNode(a.parent, depth, None)
    BY <1>1, <2>1
  <2>3. \A n : n = NewNode(a.parent, depth, None)
                => n.usage = 0 /\ ~n.sealed /\ n.parent = a.parent
    BY DEF NewNode
  <2>4. QED BY <2>2, <2>3, Zenon
<1> HIDE DEF e
<1>3. /\ TreeOK(m) /\ SameTask(e, m) /\ m.sealed = e.sealed /\ m.synthetic = e.synthetic
      /\ DOMAIN m.nodes = DOMAIN e.nodes
      /\ \A n \in DOMAIN e.nodes \ {a.node} : m.nodes[n] = e.nodes[n]
      /\ m.nodes[a.node] = e.nodes[a.node]
         \/ /\ e.nodes[a.node].allowance = None
            /\ \E allot \in Nat : m.nodes[a.node] = [e.nodes[a.node] EXCEPT !.allowance = allot]
  BY <1>1, MintTree
<1>4. u = [m EXCEPT !.live = t.live + 1,
                    !.peak = IF t.live + 1 > t.peak THEN t.live + 1 ELSE t.peak]
  BY DEF Begin, e
<1> HIDE DEF m, u
<1>5. /\ u.nodes = m.nodes /\ DOMAIN u = TaskFields /\ SameTask(m, u)
      /\ u.sealed = m.sealed /\ u.synthetic = m.synthetic
  BY <1>3, <1>4 DEF TreeOK, TaskFields, SameTask
<1>6. TreeOK(u)
  BY <1>3, <1>5 DEF TreeOK, SameTask
<1>7. NodeOK(e.nodes[a.node])
  BY <1>1 DEF TreeOK, NodesOK
<1>8. /\ m.nodes[a.node].parent = e.nodes[a.node].parent
      /\ m.nodes[a.node].depth = e.nodes[a.node].depth
      /\ m.nodes[a.node].usage = e.nodes[a.node].usage
      /\ m.nodes[a.node].sealed = e.nodes[a.node].sealed
      /\ e.nodes[a.node].allowance # None => m.nodes[a.node].allowance = e.nodes[a.node].allowance
  BY <1>3, <1>7 DEF NodeOK, NodeFields
<1>9. \A n \in DOMAIN t.nodes \ {a.node} : u.nodes[n] = t.nodes[n]
  BY <1>1, <1>3, <1>5
<1>10. \A n \in DOMAIN t.nodes :
         /\ u.nodes[n].parent = t.nodes[n].parent /\ u.nodes[n].depth = t.nodes[n].depth
         /\ u.nodes[n].usage = t.nodes[n].usage /\ u.nodes[n].sealed = t.nodes[n].sealed
         /\ t.nodes[n].allowance # None => u.nodes[n].allowance = t.nodes[n].allowance
  <2>1. ASSUME NEW n \in DOMAIN t.nodes, n = a.node
        PROVE  /\ u.nodes[n].parent = t.nodes[n].parent /\ u.nodes[n].depth = t.nodes[n].depth
               /\ u.nodes[n].usage = t.nodes[n].usage /\ u.nodes[n].sealed = t.nodes[n].sealed
               /\ t.nodes[n].allowance # None => u.nodes[n].allowance = t.nodes[n].allowance
    <3>1. e.nodes[n] = t.nodes[n]
      BY <1>1
    <3>2. QED BY <1>5, <1>8, <2>1, <3>1
  <2>2. QED BY <1>9, <2>1
<1>11. a.node \notin DOMAIN t.nodes => /\ u.nodes[a.node].usage = 0 /\ ~u.nodes[a.node].sealed
                                       /\ u.nodes[a.node].parent = a.parent
  BY <1>2, <1>5, <1>8
<1>12. DOMAIN u.nodes = DOMAIN t.nodes \cup {a.node} /\ SameTask(t, u)
         /\ u.sealed = t.sealed /\ u.synthetic = t.synthetic
  BY <1>1, <1>3, <1>5 DEF SameTask
<1>13. u.nodes = MintVoucher(Ensure(t, a.node, a.parent), a).nodes
  BY <1>5 DEF m, e
<1>14. QED
  BY <1>6, <1>9, <1>10, <1>11, <1>12, <1>13 DEF u, KeepsNodes, AddsNode

\* admit: a `Last` seals the task, and nothing else changes.
LEMMA AdmitTree ==
  ASSUME NEW t, TreeOK(t)
  PROVE  LET u == Admit(t).task
         IN  /\ TreeOK(u) /\ SameTask(t, u) /\ u.synthetic = t.synthetic /\ u.nodes = t.nodes
             /\ \/ /\ Admit(t).verdict = "Allow" /\ u = t
                   /\ t.ceiling # None => ~t.sealed /\ ~(SpentMicros(t) >= t.ceiling)
                \/ /\ Admit(t).verdict = "Deny" /\ t.ceiling # None /\ t.sealed /\ u = t
                \/ /\ Admit(t).verdict = "Last" /\ t.ceiling # None /\ ~t.sealed /\ u.sealed
                   /\ SpentMicros(t) >= t.ceiling
BY DEF Admit, SameTask, TreeOK, TaskFields

\* admit_at seals the task or the node, and exactly when the verdict is `Last`;
\* it denies exactly what meets a seal.
LEMMA AdmitAtTree ==
  ASSUME NEW t, TreeOK(t), NEW a, a.node \in DOMAIN t.nodes, t.ceiling # None
  PROVE  LET adm == AdmitAt(t, a)
             u == adm.task
         IN  /\ TreeOK(u) /\ SameTask(t, u) /\ u.synthetic = t.synthetic
             /\ DOMAIN u.nodes = DOMAIN t.nodes
             /\ \A n \in DOMAIN t.nodes \ {a.node} : u.nodes[n] = t.nodes[n]
             /\ \/ /\ adm.verdict = "Allow" /\ u = t
                   /\ ~t.sealed /\ ~(SpentMicros(t) >= t.ceiling)
                \/ /\ adm.verdict = "Deny" /\ u = t
                   /\ t.sealed \/ (t.nodes[a.node].sealed /\ ~t.sealed)
                \/ /\ adm.verdict = "Last" /\ ~t.sealed /\ u.sealed
                   /\ u.nodes = t.nodes /\ SpentMicros(t) >= t.ceiling
                \/ /\ adm.verdict = "Last" /\ u.sealed = t.sealed
                   /\ ~t.sealed /\ ~(SpentMicros(t) >= t.ceiling)
                   /\ ~t.nodes[a.node].sealed /\ t.nodes[a.node].allowance # None
                   /\ u.nodes[a.node] = [t.nodes[a.node] EXCEPT !.sealed = TRUE]
                   /\ SubtreeSpentMicros(t, a.node) >= t.nodes[a.node].allowance
<1> DEFINE adm == AdmitAt(t, a)
           u == adm.task
           r == Admit(t).task
           node == [t.nodes[a.node] EXCEPT !.sealed = TRUE]
<1>1. /\ TreeOK(r) /\ SameTask(t, r) /\ r.synthetic = t.synthetic /\ r.nodes = t.nodes
      /\ \/ /\ Admit(t).verdict = "Allow" /\ r = t
            /\ ~t.sealed /\ ~(SpentMicros(t) >= t.ceiling)
         \/ /\ Admit(t).verdict = "Deny" /\ t.sealed /\ r = t
         \/ /\ Admit(t).verdict = "Last" /\ ~t.sealed /\ r.sealed
            /\ SpentMicros(t) >= t.ceiling
  BY AdmitTree
<1>2. NodeOK(t.nodes[a.node])
  BY DEF TreeOK, NodesOK
<1>3. NodeOK(node)
  BY <1>2 DEF NodeOK, NodeFields
<1>4. CASE Admit(t).verdict # "Allow" \/ (AllowanceOf(r, a.node) = 0 /\ r.ceiling = None)
  <2>1. adm = Admit(t)
    BY <1>4 DEF AdmitAt
  <2> HIDE DEF adm, r
  <2>2. u = r
    BY <2>1 DEF r
  <2>3. TreeOK(u) /\ SameTask(t, u) /\ u.synthetic = t.synthetic /\ u.nodes = t.nodes
    BY <1>1, <2>2
  <2>4. \/ /\ adm.verdict = "Allow" /\ u = t
           /\ ~t.sealed /\ ~(SpentMicros(t) >= t.ceiling)
        \/ /\ adm.verdict = "Deny" /\ u = t /\ t.sealed
        \/ /\ adm.verdict = "Last" /\ ~t.sealed /\ u.sealed
           /\ u.nodes = t.nodes /\ SpentMicros(t) >= t.ceiling
    BY <1>1, <2>1, <2>2
  <2> HIDE DEF u
  <2>5. QED BY <2>3, <2>4 DEF u, adm
<1>5. CASE ~(Admit(t).verdict # "Allow" \/ (AllowanceOf(r, a.node) = 0 /\ r.ceiling = None))
  <2>1. r = t /\ ~t.sealed /\ ~(SpentMicros(t) >= t.ceiling)
    BY <1>1, <1>5
  <2>2. CASE t.nodes[a.node].sealed
    <3>1. adm = [task |-> t, verdict |-> "Deny"]
      BY <1>5, <2>1, <2>2 DEF AdmitAt
    <3>2. adm.verdict = "Deny" /\ u = t
      BY <3>1
    <3> HIDE DEF adm, u
    <3>3. QED BY <2>1, <2>2, <3>2 DEF SameTask, adm, u
  <2>3. CASE /\ ~t.nodes[a.node].sealed /\ t.nodes[a.node].allowance # None
             /\ SubtreeSpentMicros(t, a.node) >= AllowanceOf(t, a.node)
    <3>1. adm = [task |-> SetNode(t, a.node, node), verdict |-> "Last"]
      BY <1>5, <2>1, <2>3 DEF AdmitAt
    <3>2. adm.verdict = "Last" /\ u = [t EXCEPT !.nodes[a.node] = node]
      BY <3>1 DEF SetNode
    <3>3. AllowanceOf(t, a.node) = t.nodes[a.node].allowance
      BY <2>3 DEF AllowanceOf
    <3> HIDE DEF adm, u, node
    <3>4. /\ u.nodes = [t.nodes EXCEPT ![a.node] = node] /\ DOMAIN u = TaskFields
          /\ SameTask(t, u) /\ u.sealed = t.sealed /\ u.synthetic = t.synthetic
      BY <3>2 DEF TreeOK, TaskFields, SameTask
    <3>5. /\ TreeOK(u) /\ DOMAIN u.nodes = DOMAIN t.nodes /\ u.nodes[a.node] = node
          /\ \A n \in DOMAIN t.nodes \ {a.node} : u.nodes[n] = t.nodes[n]
      BY <1>3, <3>4, ReplaceNode DEF TreeOK
    <3>6. QED BY <2>1, <2>3, <3>2, <3>3, <3>4, <3>5 DEF adm, u, node
  <2>4. CASE /\ ~t.nodes[a.node].sealed
             /\ ~(/\ t.nodes[a.node].allowance # None
                  /\ SubtreeSpentMicros(t, a.node) >= AllowanceOf(t, a.node))
    <3>1. adm = [task |-> t, verdict |-> "Allow"]
      BY <1>5, <2>1, <2>4 DEF AdmitAt
    <3>2. adm.verdict = "Allow" /\ u = t
      BY <3>1
    <3> HIDE DEF adm, u
    <3>3. QED BY <2>1, <3>2 DEF SameTask, adm, u
  <2>5. QED BY <2>2, <2>3, <2>4
<1>6. QED
  BY <1>4, <1>5

LEMMA TakeStopTree ==
  ASSUME NEW t, TreeOK(t)
  PROVE  LET u == TakeStop(t).task
         IN  /\ TreeOK(u) /\ SameTask(t, u) /\ u.nodes = t.nodes /\ u.sealed = t.sealed
             /\ u.synthetic
             /\ TakeStop(t).style = IF t.synthetic THEN "RetryableFalse429" ELSE "SyntheticEndTurn"
BY DEF TakeStop, SameTask, TreeOK, TaskFields

\* finish: the usage of one node grows, and nobody's seal or voucher changes.
LEMMA FinishTree ==
  ASSUME NEW t, TreeOK(t), NEW a, NEW usage \in Nat, NEW complete
  PROVE  LET u == Finish(t, a, usage, complete)
         IN  /\ TreeOK(u) /\ SameTask(t, u) /\ u.sealed = t.sealed /\ u.synthetic = t.synthetic
             /\ DOMAIN u.nodes = DOMAIN t.nodes \cup {a.node}
             /\ Bills(t, a, usage, u)
<1> DEFINE e == Ensure(t, a.node, a.parent)
           n == e.nodes[a.node]
           node == [n EXCEPT !.usage = n.usage + usage,
                             !.requests = n.requests + 1,
                             !.incomplete = IF complete THEN @ ELSE @ + 1]
           u == Finish(t, a, usage, complete)
<1>1. /\ TreeOK(e) /\ SameTask(t, e) /\ e.sealed = t.sealed /\ e.synthetic = t.synthetic
      /\ DOMAIN e.nodes = DOMAIN t.nodes \cup {a.node}
      /\ \A m \in DOMAIN t.nodes : e.nodes[m] = t.nodes[m]
      /\ a.node \notin DOMAIN t.nodes
           => \E depth \in 0..U8Max : e.nodes[a.node] = NewNode(a.parent, depth, None)
  BY EnsureTree
<1>2. u = [e EXCEPT !.nodes[a.node] = node, !.live = SaturatingSub(t.live, 1)]
  BY DEF Finish
<1>3. a.node \notin DOMAIN t.nodes => /\ n.usage = 0 /\ ~n.sealed
                                      /\ n.parent = a.parent /\ n.allowance = None
  <2> HIDE DEF e
  <2>1. SUFFICES ASSUME a.node \notin DOMAIN t.nodes
                 PROVE  n.usage = 0 /\ ~n.sealed /\ n.parent = a.parent /\ n.allowance = None
    OBVIOUS
  <2>2. PICK depth \in 0..U8Max : n = NewNode(a.parent, depth, None)
    BY <1>1, <2>1
  <2>3. QED BY <2>2 DEF NewNode
<1>4. NodeOK(n)
  <2> HIDE DEF e
  <2> QED BY <1>1 DEF TreeOK, NodesOK
<1> HIDE DEF e
<1>5. /\ NodeOK(node) /\ node.usage = n.usage + usage /\ node.sealed = n.sealed
      /\ node.parent = n.parent /\ node.depth = n.depth /\ node.allowance = n.allowance
  <2> HIDE DEF n
  <2> QED BY <1>4 DEF NodeOK, NodeFields
<1> HIDE DEF node
<1>6. /\ u.nodes = [e.nodes EXCEPT ![a.node] = node] /\ DOMAIN u = TaskFields
      /\ SameTask(e, u) /\ u.sealed = e.sealed /\ u.synthetic = e.synthetic
  <2> HIDE DEF u
  <2> QED BY <1>1, <1>2 DEF TreeOK, TaskFields, SameTask
<1> HIDE DEF u
<1>7. /\ TreeOK(u) /\ DOMAIN u.nodes = DOMAIN e.nodes /\ u.nodes[a.node] = node
      /\ \A m \in DOMAIN e.nodes \ {a.node} : u.nodes[m] = e.nodes[m]
  BY <1>1, <1>5, <1>6, ReplaceNode DEF TreeOK
<1>8. \A m \in DOMAIN t.nodes :
        /\ u.nodes[m].parent = t.nodes[m].parent /\ u.nodes[m].depth = t.nodes[m].depth
        /\ u.nodes[m].allowance = t.nodes[m].allowance /\ u.nodes[m].sealed = t.nodes[m].sealed
        /\ m = a.node => u.nodes[m].usage = t.nodes[m].usage + usage
        /\ m # a.node => u.nodes[m].usage = t.nodes[m].usage
  <2>1. ASSUME NEW m \in DOMAIN t.nodes, m # a.node PROVE u.nodes[m] = t.nodes[m]
    BY <1>1, <1>7, <2>1
  <2>2. a.node \in DOMAIN t.nodes => n = t.nodes[a.node]
    BY <1>1
  <2> HIDE DEF n
  <2>3. QED BY <1>5, <1>7, <2>1, <2>2
<1>9. a.node \notin DOMAIN t.nodes
        => /\ u.nodes[a.node].usage = usage /\ ~u.nodes[a.node].sealed
           /\ u.nodes[a.node].parent = a.parent /\ u.nodes[a.node].allowance = None
  <2> HIDE DEF n
  <2> QED BY <1>3, <1>5, <1>7
<1>10. DOMAIN u.nodes = DOMAIN t.nodes \cup {a.node} /\ SameTask(t, u)
         /\ u.sealed = t.sealed /\ u.synthetic = t.synthetic
  BY <1>1, <1>6, <1>7 DEF SameTask
<1>11. QED
  BY <1>7, <1>8, <1>9, <1>10 DEF u, Bills

-----------------------------------------------------------------------------
(***************************************************************************)
(* Money.                                                                  *)
(***************************************************************************)
\* What an answer may add to a task's spend, wherever the division rounds.
CostOf(usage) == (usage * Rate + Scale - 1) \div Scale

LEMMA DivBounds ==
  ASSUME NEW m \in Nat, NEW d \in Nat \ {0}
  PROVE  /\ m \div d \in Nat /\ d * (m \div d) <= m /\ m < d * (m \div d) + d
<1>1. m = d * (m \div d) + (m % d) /\ m % d \in 0..(d - 1) /\ m \div d \in Nat
  OBVIOUS
<1>2. QED BY <1>1

LEMMA DivAtLeast ==
  ASSUME NEW m \in Nat, NEW d \in Nat \ {0}, NEW q \in Nat, d * q <= m
  PROVE  q <= m \div d
<1>1. PICK k \in Nat : k = m \div d /\ m < d * k + d
  BY DivBounds
<1>2. SUFFICES ASSUME k + 1 <= q PROVE FALSE
  BY <1>1
<1>3. d * (k + 1) <= d * q
  BY <1>2
<1>4. d * (k + 1) = d * k + d
  OBVIOUS
<1>5. QED BY <1>1, <1>3, <1>4

LEMMA DivAtMost ==
  ASSUME NEW m \in Nat, NEW d \in Nat \ {0}, NEW q \in Nat, m < d * q + d
  PROVE  m \div d <= q
<1>1. PICK k \in Nat : k = m \div d /\ d * k <= m
  BY DivBounds
<1>2. SUFFICES ASSUME q + 1 <= k PROVE FALSE
  BY <1>1
<1>3. d * (q + 1) <= d * k
  BY <1>2
<1>4. d * (q + 1) = d * q + d
  OBVIOUS
<1>5. d * q \in Nat /\ d * k \in Nat
  OBVIOUS
<1>6. QED BY <1>1, <1>3, <1>4, <1>5

LEMMA MicrosNat ==
  ASSUME NEW usage \in Nat
  PROVE  Micros(usage) \in Nat /\ CostOf(usage) \in Nat
<1>1. usage * Rate \in Nat
  BY RateAssumption
<1>2. usage * Rate + Scale - 1 \in Nat
  BY <1>1, RateAssumption
<1>3. QED BY <1>1, <1>2, RateAssumption, DivBounds DEF Micros, CostOf

LEMMA MicrosZero == Micros(0) = 0
<1>1. 0 * Rate = 0
  BY RateAssumption
<1>2. 0 \div Scale <= 0 /\ 0 \div Scale \in Nat
  <2>1. 0 < Scale * 0 + Scale
    BY RateAssumption
  <2>2. QED BY <2>1, RateAssumption, DivAtMost, DivBounds
<1>3. QED BY <1>1, <1>2 DEF Micros

\* A node's cost never falls as its usage grows, and grows by at most CostOf.
LEMMA MicrosGrows ==
  ASSUME NEW had \in Nat, NEW usage \in Nat
  PROVE  /\ Micros(had) <= Micros(had + usage)
         /\ Micros(had + usage) <= Micros(had) + CostOf(usage)
<1> DEFINE h == had * Rate
           g == usage * Rate
           k == h \div Scale
           c == (g + Scale - 1) \div Scale
<1>1. h \in Nat /\ g \in Nat /\ Scale \in Nat \ {0} /\ (had + usage) * Rate = h + g
  BY RateAssumption
<1>2. /\ Micros(had) = k /\ Micros(had + usage) = (h + g) \div Scale /\ CostOf(usage) = c
  BY <1>1 DEF Micros, CostOf
<1> HIDE DEF h, g
<1>3. k \in Nat /\ Scale * k <= h /\ h < Scale * k + Scale
  BY <1>1, DivBounds
<1>4. g + Scale - 1 \in Nat
  BY <1>1
<1>5. c \in Nat /\ g + Scale - 1 < Scale * c + Scale
  BY <1>1, <1>4, DivBounds
<1> HIDE DEF k, c
<1>6. k <= (h + g) \div Scale
  <2>1. Scale * k <= h + g /\ h + g \in Nat
    BY <1>1, <1>3
  <2>2. QED BY <1>1, <1>3, <2>1, DivAtLeast
<1>7. (h + g) \div Scale <= k + c
  <2>1. Scale * (k + c) = Scale * k + Scale * c /\ Scale * k \in Nat /\ Scale * c \in Nat
    BY <1>1, <1>3, <1>5
  <2>2. h + g < Scale * (k + c) + Scale
    BY <1>1, <1>3, <1>5, <2>1
  <2>3. QED BY <1>1, <1>3, <1>5, <2>2, DivAtMost
<1>8. QED
  BY <1>2, <1>6, <1>7

LEMMA CostOfMonotone ==
  ASSUME NEW low \in Nat, NEW high \in Nat, low <= high
  PROVE  CostOf(low) <= CostOf(high)
<1> DEFINE l == low * Rate + Scale - 1
           h == high * Rate + Scale - 1
<1>1. low * Rate <= high * Rate /\ low * Rate \in Nat /\ high * Rate \in Nat
  BY RateAssumption
<1>2. l \in Nat /\ h \in Nat /\ l <= h /\ Scale \in Nat \ {0}
  BY <1>1, RateAssumption
<1>3. CostOf(low) = l \div Scale /\ CostOf(high) = h \div Scale
  BY DEF CostOf
<1> HIDE DEF l, h
<1>4. Scale * (l \div Scale) <= h /\ l \div Scale \in Nat
  <2>1. Scale * (l \div Scale) <= l /\ l \div Scale \in Nat
    BY <1>2, DivBounds
  <2>2. Scale * (l \div Scale) \in Nat
    BY <1>2, <2>1
  <2>3. QED BY <1>2, <2>1, <2>2
<1>5. QED
  BY <1>2, <1>3, <1>4, DivAtLeast

LEMMA CostsNat ==
  ASSUME NEW t, TreeOK(t)
  PROVE  /\ \A n \in DOMAIN t.nodes : /\ Costs(t)[n] = Micros(t.nodes[n].usage)
                                      /\ Costs(t)[n] \in Nat
         /\ \A R \in SUBSET DOMAIN t.nodes : IsFiniteSet(R) /\ SpentOn(t, R) \in Nat
         /\ SpentMicros(t) \in Nat
<1>1. \A n \in DOMAIN t.nodes : t.nodes[n].usage \in Nat
  BY DEF TreeOK, NodesOK, NodeOK
<1>2. \A n \in DOMAIN t.nodes : /\ Costs(t)[n] = Micros(t.nodes[n].usage)
                                /\ Costs(t)[n] \in Nat
  BY <1>1, MicrosNat DEF Costs
<1>3. ASSUME NEW R \in SUBSET DOMAIN t.nodes PROVE IsFiniteSet(R) /\ SpentOn(t, R) \in Nat
  <2>1. IsFiniteSet(R)
    BY FS_Subset DEF TreeOK, NodesOK
  <2>2. \A n \in R : Costs(t)[n] \in Nat
    BY <1>2
  <2>3. QED BY <2>1, <2>2, SumOfNat DEF SpentOn
<1>4. SpentMicros(t) \in Nat
  BY <1>3 DEF SpentMicros
<1>5. QED BY <1>2, <1>3, <1>4

\* Adding a node that has used nothing, sealing one or giving one a voucher
\* costs nothing.
LEMMA SpentSame ==
  ASSUME NEW t, TreeOK(t), NEW u, TreeOK(u), NEW id,
         DOMAIN u.nodes = DOMAIN t.nodes \cup {id},
         \A n \in DOMAIN t.nodes : u.nodes[n].usage = t.nodes[n].usage,
         id \notin DOMAIN t.nodes => u.nodes[id].usage = 0
  PROVE  SpentMicros(u) = SpentMicros(t)
<1> DEFINE D == DOMAIN t.nodes
<1>1. IsFiniteSet(D)
  BY DEF TreeOK, NodesOK
<1>2. \A n \in D : Costs(u)[n] = Costs(t)[n] /\ Costs(u)[n] \in Nat
  BY CostsNat
<1>3. SumOf(Costs(u), D) = SumOf(Costs(t), D)
  BY <1>1, <1>2, SumOfSame
<1>4. CASE id \in D
  <2>1. DOMAIN u.nodes = D
    BY <1>4
  <2>2. QED BY <1>3, <2>1 DEF SpentMicros, SpentOn
<1>5. CASE id \notin D
  <2>1. Costs(u)[id] = 0
    BY <1>5, CostsNat, MicrosZero
  <2>2. SumOf(Costs(u), D \cup {id}) = SumOf(Costs(u), D) + Costs(u)[id]
    <3>1. \A n \in D \cup {id} : Costs(u)[n] \in Nat
      BY <1>2, <2>1
    <3>2. QED BY <1>1, <1>5, <3>1, SumOfAdd
  <2>3. SumOf(Costs(u), D) \in Nat
    BY <1>1, <1>2, SumOfNat
  <2>4. SumOf(Costs(u), DOMAIN u.nodes) = SumOf(Costs(t), D)
    BY <1>3, <2>1, <2>2, <2>3
  <2>5. QED BY <2>4 DEF SpentMicros, SpentOn
<1>6. QED BY <1>4, <1>5

\* More nodes, each with at least the usage it had: at least the spend.
LEMMA SpentOnGrows ==
  ASSUME NEW t, TreeOK(t), NEW u, TreeOK(u),
         NEW R \in SUBSET DOMAIN t.nodes, NEW Q \in SUBSET DOMAIN u.nodes, R \subseteq Q,
         \A n \in R : \E more \in Nat : u.nodes[n].usage = t.nodes[n].usage + more
  PROVE  SpentOn(t, R) <= SpentOn(u, Q)
<1>1. IsFiniteSet(R) /\ IsFiniteSet(Q)
  BY CostsNat
<1>2. ASSUME NEW n \in R PROVE Costs(t)[n] \in Nat /\ Costs(u)[n] \in Nat /\ Costs(t)[n] <= Costs(u)[n]
  <2>1. PICK more \in Nat : u.nodes[n].usage = t.nodes[n].usage + more
    OBVIOUS
  <2>2. n \in DOMAIN t.nodes /\ n \in DOMAIN u.nodes /\ t.nodes[n].usage \in Nat
    BY DEF TreeOK, NodesOK, NodeOK
  <2>3. QED BY <2>1, <2>2, CostsNat, MicrosGrows, SMTT(30)
<1>3. SumOf(Costs(t), R) <= SumOf(Costs(u), R)
  BY <1>1, <1>2, SumOfMonotone
<1>4. SumOf(Costs(u), R) <= SumOf(Costs(u), Q)
  <2>1. \A n \in Q : Costs(u)[n] \in Nat
    BY CostsNat
  <2>2. QED BY <1>1, <2>1, SumOfSubset
<1>5. SumOf(Costs(t), R) \in Nat /\ SumOf(Costs(u), R) \in Nat /\ SumOf(Costs(u), Q) \in Nat
  BY CostsNat DEF SpentOn
<1>6. QED
  BY <1>3, <1>4, <1>5 DEF SpentOn

\* finish adds to a task's spend what one answer costs, or less.
LEMMA SpentFinish ==
  ASSUME NEW t, TreeOK(t), NEW a, NEW usage \in Nat, NEW complete
  PROVE  LET u == Finish(t, a, usage, complete)
         IN  /\ SpentMicros(t) <= SpentMicros(u)
             /\ SpentMicros(u) <= SpentMicros(t) + CostOf(usage)
             /\ usage = 0 => SpentMicros(u) = SpentMicros(t)
<1> DEFINE u == Finish(t, a, usage, complete)
           e == Ensure(t, a.node, a.parent)
<1>1. /\ TreeOK(u) /\ DOMAIN u.nodes = DOMAIN t.nodes \cup {a.node}
      /\ \A n \in DOMAIN t.nodes :
           /\ n = a.node => u.nodes[n].usage = t.nodes[n].usage + usage
           /\ n # a.node => u.nodes[n].usage = t.nodes[n].usage
      /\ a.node \notin DOMAIN t.nodes => u.nodes[a.node].usage = usage
  <2>1. TreeOK(u) /\ DOMAIN u.nodes = DOMAIN t.nodes \cup {a.node} /\ Bills(t, a, usage, u)
    BY FinishTree
  <2> HIDE DEF u
  <2>2. QED BY <2>1 DEF Bills
<1> HIDE DEF u
<1>2. /\ TreeOK(e) /\ DOMAIN e.nodes = DOMAIN t.nodes \cup {a.node}
      /\ \A n \in DOMAIN t.nodes : e.nodes[n] = t.nodes[n]
      /\ a.node \notin DOMAIN t.nodes
           => \E depth \in 0..U8Max : e.nodes[a.node] = NewNode(a.parent, depth, None)
  BY EnsureTree
<1> HIDE DEF e
<1>3. a.node \notin DOMAIN t.nodes => e.nodes[a.node].usage = 0
  <2>1. \A depth : NewNode(a.parent, depth, None).usage = 0
    BY DEF NewNode
  <2>2. QED BY <1>2, <2>1
<1>4. SpentMicros(e) = SpentMicros(t)
  BY <1>2, <1>3, SpentSame
<1> DEFINE D == DOMAIN e.nodes
           had == e.nodes[a.node].usage
<1>5. /\ DOMAIN u.nodes = D /\ a.node \in D /\ had \in Nat /\ u.nodes[a.node].usage = had + usage
      /\ \A n \in D \ {a.node} : u.nodes[n].usage = e.nodes[n].usage
  BY <1>1, <1>2, <1>3 DEF TreeOK, NodesOK, NodeOK
<1>6. \A n \in D : Costs(e)[n] \in Nat /\ Costs(u)[n] \in Nat
  BY <1>1, <1>2, <1>5, CostsNat
<1>7. \A n \in D \ {a.node} : Costs(e)[n] = Costs(u)[n]
  BY <1>1, <1>2, <1>5, CostsNat
<1>8. SumOf(Costs(u), D) = SumOf(Costs(e), D) - Costs(e)[a.node] + Costs(u)[a.node]
  <2>1. IsFiniteSet(D)
    BY <1>2 DEF TreeOK, NodesOK
  <2> HIDE DEF D
  <2>2. QED BY <1>5, <1>6, <1>7, <2>1, SumOfChange
<1>9. Costs(e)[a.node] = Micros(had) /\ Costs(u)[a.node] = Micros(had + usage)
  BY <1>1, <1>2, <1>5, CostsNat
<1>10. SpentMicros(u) = SpentMicros(e) - Micros(had) + Micros(had + usage)
  BY <1>5, <1>8, <1>9 DEF SpentMicros, SpentOn
<1>11. /\ Micros(had) <= Micros(had + usage) /\ Micros(had + usage) <= Micros(had) + CostOf(usage)
       /\ Micros(had) \in Nat /\ Micros(had + usage) \in Nat /\ CostOf(usage) \in Nat
  <2>1. had \in Nat /\ had + usage \in Nat
    BY <1>5
  <2> HIDE DEF had
  <2>2. QED BY <2>1, MicrosGrows, MicrosNat
<1>12. SpentMicros(e) \in Nat
  BY <1>2, CostsNat
<1>13. usage = 0 => Micros(had + usage) = Micros(had)
  BY <1>5
<1> HIDE DEF had
<1>14. /\ SpentMicros(t) <= SpentMicros(u) /\ SpentMicros(u) <= SpentMicros(t) + CostOf(usage)
       /\ usage = 0 => SpentMicros(u) = SpentMicros(t)
  BY <1>4, <1>10, <1>11, <1>12, <1>13
<1>15. QED BY <1>14 DEF u

-----------------------------------------------------------------------------
(***************************************************************************)
(* Subtrees.  `reach` in the definition of Subtree is a recursive function *)
(* on the naturals; as with sums, that there is one comes first.           *)
(***************************************************************************)
Below(t, ids) == ids \cup UNION {Children(t, p) : p \in ids}

IsReach(f, t, id, K) == f = [k \in K |-> IF k = 0 THEN {id} ELSE Below(t, f[k-1])]

LEMMA SubtreeUnfolds ==
  ASSUME NEW t, NEW id
  PROVE  Subtree(t, id) = (CHOOSE f : IsReach(f, t, id, Nat))[Cardinality(DOMAIN t.nodes)]
BY DEF Subtree, IsReach, Below

LEMMA ReachStep ==
  ASSUME NEW f, NEW t, NEW id, NEW K, IsReach(f, t, id, K), NEW k \in K
  PROVE  /\ k = 0 => f[k] = {id}
         /\ k # 0 => f[k] = Below(t, f[k-1])
<1>1. f[k] = IF k = 0 THEN {id} ELSE Below(t, f[k-1])
  BY DEF IsReach
<1>2. QED BY <1>1

LEMMA ReachUpTo ==
  ASSUME NEW t, NEW id
  PROVE  \A k \in Nat : \E f : IsReach(f, t, id, 0..k)
<1> DEFINE T == {k \in Nat : \E f : IsReach(f, t, id, 0..k)}
<1>1. 0 \in T
  <2>1. IsReach([k \in 0..0 |-> {id}], t, id, 0..0)
    BY DEF IsReach
  <2>2. QED BY <2>1
<1>2. ASSUME NEW k \in T PROVE k + 1 \in T
  <2>0. k \in Nat
    OBVIOUS
  <2>1. PICK f : IsReach(f, t, id, 0..k)
    BY <1>2
  <2> DEFINE g == [j \in 0..(k+1) |-> IF j = 0 THEN {id} ELSE Below(t, f[j-1])]
  <2>2. ASSUME NEW j \in 0..(k+1), j # 0 PROVE g[j-1] = f[j-1]
    <3>1. j - 1 \in 0..k /\ j - 1 \in 0..(k+1)
      BY <2>0, <2>2
    <3>2. f[j-1] = IF j - 1 = 0 THEN {id} ELSE Below(t, f[(j-1)-1])
      BY <2>1, <3>1 DEF IsReach
    <3>3. QED BY <3>1, <3>2
  <2>3. g = [j \in 0..(k+1) |-> IF j = 0 THEN {id} ELSE Below(t, g[j-1])]
    BY <2>2
  <2>4. IsReach(g, t, id, 0..(k+1))
    BY <2>3 DEF IsReach
  <2>5. QED BY <2>0, <2>4
<1>3. \A k \in Nat : k \in T
  <2> HIDE DEF T
  <2>1. T \in SUBSET Nat BY DEF T
  <2>2. QED BY <1>1, <1>2, <2>1, NatInd
<1>4. QED BY <1>3

LEMMA ReachUnique ==
  ASSUME NEW t, NEW id, NEW k \in Nat, NEW l \in Nat, k <= l, NEW f, NEW g,
         IsReach(f, t, id, 0..k), IsReach(g, t, id, 0..l)
  PROVE  \A j \in 0..k : f[j] = g[j]
<1> DEFINE T == {j \in Nat : j <= k => f[j] = g[j]}
<1>1. 0 \in T
  BY DEF IsReach
<1>2. ASSUME NEW j \in T PROVE j + 1 \in T
  <2>1. SUFFICES ASSUME j + 1 <= k PROVE f[j+1] = g[j+1]
    OBVIOUS
  <2>2. f[j] = g[j] /\ j + 1 \in 0..k /\ j + 1 \in 0..l /\ (j + 1) - 1 = j
    BY <2>1
  <2>3. f[j+1] = Below(t, f[j]) /\ g[j+1] = Below(t, g[j])
    <3>1. j + 1 # 0
      OBVIOUS
    <3>2. f[j+1] = Below(t, f[(j+1)-1]) /\ g[j+1] = Below(t, g[(j+1)-1])
      BY <2>2, <3>1, ReachStep
    <3>3. QED BY <2>2, <3>2
  <2>4. QED BY <2>2, <2>3
<1>3. \A j \in Nat : j \in T
  <2> HIDE DEF T
  <2>1. T \in SUBSET Nat BY DEF T
  <2>2. QED BY <1>1, <1>2, <2>1, NatInd
<1>4. QED BY <1>3

\* The levels of a subtree, from id down; the last one is all of it.
LEMMA SubtreeLevels ==
  ASSUME NEW t, NEW id, Cardinality(DOMAIN t.nodes) \in Nat
  PROVE  \E f : /\ f[0] = {id} /\ \A k \in Nat : f[k+1] = Below(t, f[k])
                /\ Subtree(t, id) = f[Cardinality(DOMAIN t.nodes)]
<1> DEFINE A(k) == CHOOSE f : IsReach(f, t, id, 0..k)
           h == [k \in Nat |-> A(k)[k]]
           F == CHOOSE f : IsReach(f, t, id, Nat)
<1>1. ASSUME NEW k \in Nat PROVE IsReach(A(k), t, id, 0..k)
  BY ReachUpTo
<1>2. ASSUME NEW k \in Nat, k # 0 PROVE A(k)[k] = Below(t, A(k-1)[k-1])
  <2>1. k - 1 \in Nat /\ k - 1 <= k /\ k \in 0..k /\ k - 1 \in 0..(k-1)
    BY <1>2
  <2>2. IsReach(A(k), t, id, 0..k) /\ IsReach(A(k-1), t, id, 0..(k-1))
    BY <1>1, <2>1
  <2> HIDE DEF A
  <2>3. A(k)[k] = Below(t, A(k)[k-1])
    BY <1>2, <2>1, <2>2 DEF IsReach
  <2>4. A(k-1)[k-1] = A(k)[k-1]
    BY <2>1, <2>2, ReachUnique
  <2>5. QED BY <2>3, <2>4
<1>3. A(0)[0] = {id}
  <2> DEFINE z == 0
  <2>1. z \in Nat
    OBVIOUS
  <2> HIDE DEF z
  <2>2. IsReach(A(z), t, id, 0..z) /\ z \in 0..z
    BY <1>1, <2>1
  <2> HIDE DEF A
  <2>3. z = 0 => A(z)[z] = {id}
    BY <2>2, ReachStep
  <2>4. QED BY <2>3 DEF z
<1> HIDE DEF A
<1>4. h = [k \in Nat |-> IF k = 0 THEN {id} ELSE Below(t, h[k-1])]
  <2>1. ASSUME NEW k \in Nat
        PROVE  A(k)[k] = IF k = 0 THEN {id} ELSE Below(t, h[k-1])
    <3>1. CASE k = 0
      BY <1>3, <3>1
    <3>2. CASE k # 0
      <4>1. k - 1 \in Nat
        BY <3>2
      <4>2. h[k-1] = A(k-1)[k-1]
        BY <4>1
      <4>3. QED BY <1>2, <3>2, <4>2
    <3>3. QED BY <3>1, <3>2
  <2>2. QED BY <2>1
<1>5. IsReach(h, t, id, Nat)
  BY <1>4 DEF IsReach
<1> HIDE DEF h
<1>6. IsReach(F, t, id, Nat)
  BY <1>5
<1>7. Subtree(t, id) = F[Cardinality(DOMAIN t.nodes)]
  BY SubtreeUnfolds
<1> HIDE DEF F
<1>8. F[0] = {id} /\ \A k \in Nat : F[k+1] = Below(t, F[k])
  <2>1. F[0] = {id}
    <3>1. \A k \in Nat : F[k] = IF k = 0 THEN {id} ELSE Below(t, F[k-1])
      BY <1>6 DEF IsReach
    <3>2. QED BY <3>1
  <2>2. ASSUME NEW k \in Nat PROVE F[k+1] = Below(t, F[k])
    <3>1. k + 1 \in Nat /\ k + 1 # 0 /\ (k + 1) - 1 = k
      OBVIOUS
    <3>2. F[k+1] = Below(t, F[(k+1)-1])
      BY <1>6, <3>1, ReachStep
    <3>3. QED BY <3>1, <3>2
  <2>3. QED BY <2>1, <2>2
<1>9. QED BY <1>7, <1>8

\* A tree that only gains nodes only gains descendants, and one more level is
\* looked at for each node gained.
LEMMA SubtreeGrows ==
  ASSUME NEW t, TreeOK(t), NEW u, TreeOK(u), NEW id, DOMAIN t.nodes \subseteq DOMAIN u.nodes,
         \A n \in DOMAIN t.nodes : u.nodes[n].parent = t.nodes[n].parent
  PROVE  /\ Subtree(t, id) \subseteq Subtree(u, id)
         /\ DOMAIN t.nodes # DOMAIN u.nodes
              => \A p \in Subtree(t, id) : Children(u, p) \subseteq Subtree(u, id)
<1> DEFINE c == Cardinality(DOMAIN t.nodes)
           d == Cardinality(DOMAIN u.nodes)
<1>1. IsFiniteSet(DOMAIN t.nodes) /\ IsFiniteSet(DOMAIN u.nodes)
  BY DEF TreeOK, NodesOK
<1>2. c \in Nat /\ d \in Nat /\ c <= d /\ (DOMAIN t.nodes # DOMAIN u.nodes => c < d)
  BY <1>1, FS_CardinalityType, FS_Subset
<1> HIDE DEF c, d
<1>3. PICK f : /\ f[0] = {id} /\ \A k \in Nat : f[k+1] = Below(t, f[k])
               /\ Subtree(t, id) = f[c]
  BY <1>2, SubtreeLevels DEF c
<1>4. PICK g : /\ g[0] = {id} /\ \A k \in Nat : g[k+1] = Below(u, g[k])
               /\ Subtree(u, id) = g[d]
  BY <1>2, SubtreeLevels DEF d
<1>5. \A p : Children(t, p) \subseteq Children(u, p)
  BY DEF Children
<1>6. \A k \in Nat : f[k] \subseteq g[k]
  <2> DEFINE T == {k \in Nat : f[k] \subseteq g[k]}
  <2>1. 0 \in T
    BY <1>3, <1>4
  <2>2. ASSUME NEW k \in T PROVE k + 1 \in T
    <3>1. f[k] \subseteq g[k] /\ f[k+1] = Below(t, f[k]) /\ g[k+1] = Below(u, g[k])
      BY <1>3, <1>4
    <3>2. Below(t, f[k]) \subseteq Below(u, g[k])
      BY <1>5, <3>1 DEF Below
    <3>3. QED BY <3>1, <3>2
  <2>3. T \in SUBSET Nat
    OBVIOUS
  <2> HIDE DEF T
  <2>4. \A k \in Nat : k \in T
    BY <2>1, <2>2, <2>3, NatInd
  <2>5. QED BY <2>4 DEF T
<1>7. ASSUME NEW k \in Nat PROVE \A m \in Nat : g[k] \subseteq g[k+m]
  <2> DEFINE T == {m \in Nat : g[k] \subseteq g[k+m]}
  <2>1. 0 \in T
    OBVIOUS
  <2>2. ASSUME NEW m \in T PROVE m + 1 \in T
    <3>1. g[k] \subseteq g[k+m] /\ g[(k+m)+1] = Below(u, g[k+m]) /\ (k+m)+1 = k+(m+1)
      BY <1>4
    <3>2. g[k+m] \subseteq Below(u, g[k+m])
      BY DEF Below
    <3>3. QED BY <3>1, <3>2
  <2>3. T \in SUBSET Nat
    OBVIOUS
  <2> HIDE DEF T
  <2>4. \A m \in Nat : m \in T
    BY <2>1, <2>2, <2>3, NatInd
  <2>5. QED BY <2>4 DEF T
<1>8. g[c] \subseteq g[d]
  <2>1. d - c \in Nat /\ c + (d - c) = d
    BY <1>2
  <2>2. QED BY <1>2, <1>7, <2>1
<1>9. ASSUME DOMAIN t.nodes # DOMAIN u.nodes, NEW p \in Subtree(t, id)
      PROVE  Children(u, p) \subseteq Subtree(u, id)
  <2>1. d - (c + 1) \in Nat /\ (c + 1) + (d - (c + 1)) = d /\ c + 1 \in Nat
    BY <1>2, <1>9
  <2>2. g[c+1] \subseteq g[d]
    BY <1>7, <2>1
  <2>3. Children(u, p) \subseteq g[c+1]
    <3>1. p \in g[c] /\ g[c+1] = Below(u, g[c])
      BY <1>2, <1>3, <1>4, <1>6, <1>9
    <3>2. QED BY <3>1 DEF Below
  <2>4. QED BY <1>4, <2>2, <2>3
<1>10. QED
  BY <1>2, <1>3, <1>4, <1>6, <1>8, <1>9

\* What a subtree has spent never falls.
LEMMA SubtreeSpentGrows ==
  ASSUME NEW t, TreeOK(t), NEW u, TreeOK(u), NEW id, DOMAIN t.nodes \subseteq DOMAIN u.nodes,
         \A n \in DOMAIN t.nodes :
           /\ u.nodes[n].parent = t.nodes[n].parent
           /\ \E more \in Nat : u.nodes[n].usage = t.nodes[n].usage + more
  PROVE  /\ SubtreeSpentMicros(t, id) <= SubtreeSpentMicros(u, id)
         /\ SubtreeSpentMicros(t, id) \in Nat /\ SubtreeSpentMicros(u, id) \in Nat
         /\ SpentMicros(t) <= SpentMicros(u)
<1>1. Subtree(t, id) \subseteq Subtree(u, id)
  BY SubtreeGrows
<1>2. /\ Subtree(t, id) \cap DOMAIN t.nodes \in SUBSET DOMAIN t.nodes
      /\ Subtree(u, id) \cap DOMAIN u.nodes \in SUBSET DOMAIN u.nodes
      /\ Subtree(t, id) \cap DOMAIN t.nodes \subseteq Subtree(u, id) \cap DOMAIN u.nodes
  BY <1>1
<1>3. SpentOn(t, Subtree(t, id) \cap DOMAIN t.nodes) <= SpentOn(u, Subtree(u, id) \cap DOMAIN u.nodes)
  BY <1>2, SpentOnGrows
<1>4. SpentOn(t, DOMAIN t.nodes) <= SpentOn(u, DOMAIN u.nodes)
  BY SpentOnGrows
<1>5. QED
  BY <1>2, <1>3, <1>4, CostsNat DEF SubtreeSpentMicros, SpentMicros

-----------------------------------------------------------------------------
(***************************************************************************)
(* Vouchers.                                                               *)
(***************************************************************************)
LEMMA ShareOfRest ==
  ASSUME NEW rest \in Nat, NEW num \in Nat, NEW den \in Nat \ {0}, num <= den
  PROVE  (rest * num) \div den \in Nat /\ (rest * num) \div den <= rest
<1>1. PICK d \in Nat : den = num + d
  <2>1. den - num \in Nat /\ den = num + (den - num)
    OBVIOUS
  <2>2. QED BY <2>1
<1>2. rest * num \in Nat /\ rest * d \in Nat /\ rest * (num + d) = rest * num + rest * d
  OBVIOUS
<1>3. den * rest = rest * den /\ den * rest \in Nat
  OBVIOUS
<1>4. rest * num < den * rest + den
  BY <1>1, <1>2, <1>3
<1>5. QED
  BY <1>2, <1>4, DivNat, DivAtMost

\* mint_voucher gives no more than the parent has left.
LEMMA MintAtMost ==
  ASSUME NEW t, TreeOK(t), NEW a, a.node \in DOMAIN t.nodes, None \notin Nat, t.share # None,
         a.node # a.root, a.parent # None, t.nodes[a.node].allowance = None
  PROVE  LET left == SaturatingSub(AllowanceOf(t, a.parent),
                                   MintedBySiblings(t, a.parent, a.node))
             u == MintVoucher(t, a)
         IN  /\ u.nodes[a.node].allowance \in Nat /\ u.nodes[a.node].allowance <= left
             /\ u.nodes[a.node].depth = t.nodes[a.node].depth
<1> DEFINE left == SaturatingSub(AllowanceOf(t, a.parent), MintedBySiblings(t, a.parent, a.node))
           allot == (left * t.share.num) \div t.share.den
           u == MintVoucher(t, a)
<1>1. u = [t EXCEPT !.nodes[a.node].allowance = allot]
  BY DEF MintVoucher
<1>2. left \in Nat
  <2>1. AllowanceOf(t, a.parent) \in Nat
    BY DEF AllowanceOf, TreeOK, NodesOK, NodeOK
  <2>2. MintedBySiblings(t, a.parent, a.node) \in Nat
    BY MintedNat
  <2>3. QED BY <2>1, <2>2 DEF SaturatingSub
<1> HIDE DEF left
<1>3. allot \in Nat /\ allot <= left
  BY <1>2, ShareOfRest DEF TreeOK, ShareOK
<1> HIDE DEF allot, u
<1>4. DOMAIN t = TaskFields /\ NodeOK(t.nodes[a.node])
  BY DEF TreeOK, NodesOK
<1>5. u.nodes = [t.nodes EXCEPT ![a.node] = [t.nodes[a.node] EXCEPT !.allowance = allot]]
  BY <1>1, <1>4 DEF TaskFields
<1>6. u.nodes[a.node] = [t.nodes[a.node] EXCEPT !.allowance = allot]
  BY <1>5
<1>7. u.nodes[a.node].allowance = allot /\ u.nodes[a.node].depth = t.nodes[a.node].depth
  BY <1>4, <1>6 DEF NodeOK, NodeFields
<1>8. QED
  BY <1>3, <1>7 DEF left, u

\* A second request at a node changes nothing about the nodes.
LEMMA BeginAgain ==
  ASSUME NEW t, TreeOK(t), NEW a, None \notin Nat, a.node \in DOMAIN t.nodes,
         t.share = None \/ a.node = a.root \/ t.nodes[a.node].allowance # None
  PROVE  Begin(t, a).nodes = t.nodes
<1>1. Ensure(t, a.node, a.parent) = t
  BY DEF Ensure
<1>2. MintVoucher(t, a) = t
  BY DEF MintVoucher
<1>3. Begin(t, a).nodes = MintVoucher(Ensure(t, a.node, a.parent), a).nodes
  BY BeginTree
<1>4. QED
  BY <1>1, <1>2, <1>3

\* The first request at a node below one that is there.
LEMMA BeginFirst ==
  ASSUME NEW t, TreeOK(t), NEW a, None \notin Nat, a.node \notin DOMAIN t.nodes,
         a.parent \in DOMAIN t.nodes, a.parent # None, a.node # a.root
  PROVE  LET n == Begin(t, a).nodes[a.node]
             above == t.nodes[a.parent]
         IN  /\ n.depth = IF above.depth >= U8Max THEN U8Max ELSE above.depth + 1
             /\ t.share = None => n.allowance = None
             /\ t.share # None => n.allowance \in Nat
             /\ t.share # None /\ above.allowance # None
                  => n.allowance <= SaturatingSub(above.allowance,
                                                  SumOf(Vouchers(t), Minted(t, a.parent)))
<1> DEFINE e == Ensure(t, a.node, a.parent)
           m == MintVoucher(e, a)
           above == t.nodes[a.parent]
           depth == IF above.depth >= U8Max THEN U8Max ELSE above.depth + 1
<1>1. Begin(t, a).nodes = m.nodes
  BY BeginTree
<1>2. /\ TreeOK(e) /\ SameTask(t, e) /\ DOMAIN e.nodes = DOMAIN t.nodes \cup {a.node}
      /\ \A n \in DOMAIN t.nodes : e.nodes[n] = t.nodes[n]
  BY EnsureTree
<1>3. e.nodes[a.node] = NewNode(a.parent, depth, None)
  <2>1. e = [t EXCEPT !.nodes = [n \in DOMAIN t.nodes \cup {a.node} |->
                                   IF n = a.node THEN NewNode(a.parent, depth, None)
                                   ELSE t.nodes[n]]]
    BY DEF Ensure
  <2>2. DOMAIN t = TaskFields
    BY DEF TreeOK
  <2> HIDE DEF e, depth
  <2>3. QED BY <2>1, <2>2 DEF TaskFields
<1>4. e.nodes[a.node].depth = depth /\ e.nodes[a.node].allowance = None
  <2> HIDE DEF e, depth
  <2>1. QED BY <1>3 DEF NewNode
<1> HIDE DEF e, depth
<1>5. CASE t.share = None
  <2>1. e.share = None
    BY <1>2, <1>5 DEF SameTask
  <2>2. m = e
    BY <2>1 DEF MintVoucher
  <2>3. QED BY <1>1, <1>4, <1>5, <2>2 DEF depth
<1>6. CASE t.share # None
  <2>1. e.share # None /\ a.node \in DOMAIN e.nodes
    BY <1>2, <1>6 DEF SameTask
  <2> DEFINE left == SaturatingSub(AllowanceOf(e, a.parent),
                                   MintedBySiblings(e, a.parent, a.node))
  <2>2. /\ m.nodes[a.node].allowance \in Nat /\ m.nodes[a.node].allowance <= left
        /\ m.nodes[a.node].depth = e.nodes[a.node].depth
    BY <1>2, <1>4, <2>1, MintAtMost
  <2>3. above.allowance # None
          => left = SaturatingSub(above.allowance, SumOf(Vouchers(t), Minted(t, a.parent)))
    <3>1. above.allowance # None => AllowanceOf(e, a.parent) = above.allowance
      BY <1>2 DEF AllowanceOf
    <3>2. Minted(e, a.parent) \ {a.node} = Minted(t, a.parent)
      <4>1. \A n \in DOMAIN e.nodes \ {a.node} : n \in DOMAIN t.nodes /\ e.nodes[n] = t.nodes[n]
        BY <1>2
      <4>2. QED BY <1>2, <4>1 DEF Minted, Children
    <3>3. IsFiniteSet(Minted(t, a.parent)) /\ Minted(t, a.parent) \subseteq DOMAIN t.nodes
      BY MintedNat
    <3>4. \A c \in Minted(t, a.parent) : Vouchers(e)[c] = Vouchers(t)[c]
      BY <1>2, <3>3 DEF Vouchers
    <3>5. SumOf(Vouchers(e), Minted(t, a.parent)) = SumOf(Vouchers(t), Minted(t, a.parent))
      BY <3>3, <3>4, SumOfSame
    <3>6. MintedBySiblings(e, a.parent, a.node) = SumOf(Vouchers(t), Minted(t, a.parent))
      BY <3>2, <3>5 DEF MintedBySiblings
    <3>7. QED BY <3>1, <3>6
  <2> HIDE DEF left, m
  <2>4. QED BY <1>1, <1>4, <1>6, <2>2, <2>3 DEF depth
<1>7. QED
  BY <1>5, <1>6

\* What a new node's voucher adds, and to whom.
LEMMA VouchersAfter ==
  ASSUME NEW t, TreeOK(t), NEW u, TreeOK(u), NEW id, id \notin DOMAIN t.nodes,
         DOMAIN u.nodes = DOMAIN t.nodes \cup {id},
         \A n \in DOMAIN t.nodes : /\ u.nodes[n].parent = t.nodes[n].parent
                                   /\ u.nodes[n].allowance = t.nodes[n].allowance,
         NEW p
  PROVE  /\ u.nodes[id].parent # p \/ u.nodes[id].allowance = None
              => SumOf(Vouchers(u), Minted(u, p)) = SumOf(Vouchers(t), Minted(t, p))
         /\ u.nodes[id].parent = p /\ u.nodes[id].allowance # None
              => SumOf(Vouchers(u), Minted(u, p))
                   = SumOf(Vouchers(t), Minted(t, p)) + u.nodes[id].allowance
<1>1. /\ u.nodes[id].parent # p \/ u.nodes[id].allowance = None => Minted(u, p) = Minted(t, p)
      /\ u.nodes[id].parent = p /\ u.nodes[id].allowance # None
           => Minted(u, p) = Minted(t, p) \cup {id}
  BY DEF Minted, Children
<1>2. /\ IsFiniteSet(Minted(t, p)) /\ Minted(t, p) \subseteq DOMAIN t.nodes
      /\ \A c \in Minted(t, p) : Vouchers(t)[c] \in Nat
  BY MintedNat
<1>3. \A c \in Minted(t, p) : Vouchers(u)[c] = Vouchers(t)[c]
  BY <1>2 DEF Vouchers
<1>4. SumOf(Vouchers(u), Minted(t, p)) = SumOf(Vouchers(t), Minted(t, p))
  BY <1>2, <1>3, SumOfSame
<1>5. CASE u.nodes[id].parent = p /\ u.nodes[id].allowance # None
  <2>1. Vouchers(u)[id] = u.nodes[id].allowance /\ u.nodes[id].allowance \in Nat
    BY <1>5 DEF Vouchers, TreeOK, NodesOK, NodeOK
  <2>2. SumOf(Vouchers(u), Minted(t, p) \cup {id})
          = SumOf(Vouchers(u), Minted(t, p)) + Vouchers(u)[id]
    <3>1. id \notin Minted(t, p)
      BY <1>2
    <3>2. \A c \in Minted(t, p) \cup {id} : Vouchers(u)[c] \in Nat
      BY <1>2, <1>3, <2>1
    <3>3. QED BY <1>2, <3>1, <3>2, SumOfAdd
  <2>3. QED BY <1>1, <1>4, <1>5, <2>1, <2>2
<1>6. CASE u.nodes[id].parent # p \/ u.nodes[id].allowance = None
  BY <1>1, <1>4, <1>6
<1>7. QED
  BY <1>5, <1>6

\* The same nodes with the same vouchers add up to the same.
LEMMA VouchersSame ==
  ASSUME NEW t, TreeOK(t), NEW u, DOMAIN u.nodes = DOMAIN t.nodes,
         \A n \in DOMAIN t.nodes : /\ u.nodes[n].parent = t.nodes[n].parent
                                   /\ u.nodes[n].allowance = t.nodes[n].allowance,
         NEW p
  PROVE  SumOf(Vouchers(u), Minted(u, p)) = SumOf(Vouchers(t), Minted(t, p))
<1>1. Minted(u, p) = Minted(t, p)
  BY DEF Minted, Children
<1>2. IsFiniteSet(Minted(t, p)) /\ Minted(t, p) \subseteq DOMAIN t.nodes
  BY MintedNat
<1>3. \A c \in Minted(t, p) : Vouchers(u)[c] = Vouchers(t)[c]
  BY <1>2 DEF Vouchers
<1>4. QED
  BY <1>1, <1>2, <1>3, SumOfSame

LEMMA SubtreeHasRoot ==
  ASSUME NEW t, TreeOK(t), NEW id
  PROVE  id \in Subtree(t, id)
<1>1. Cardinality(DOMAIN t.nodes) \in Nat
  BY FS_CardinalityType DEF TreeOK, NodesOK
<1>2. PICK f : /\ f[0] = {id} /\ \A k \in Nat : f[k+1] = Below(t, f[k])
               /\ Subtree(t, id) = f[Cardinality(DOMAIN t.nodes)]
  BY <1>1, SubtreeLevels
<1> DEFINE T == {k \in Nat : id \in f[k]}
<1>3. T \in SUBSET Nat /\ 0 \in T
  BY <1>2
<1>4. \A k \in T : k + 1 \in T
  BY <1>2 DEF Below
<1> HIDE DEF T
<1>5. \A k \in Nat : k \in T
  BY <1>3, <1>4, NatInd
<1>6. QED
  BY <1>1, <1>2, <1>5 DEF T

\* The level that a subtree is cut at is deep enough: nothing is below it.
LEMMA SubtreeClosed ==
  ASSUME NEW t, TreeOK(t), NEW id
  PROVE  \A p \in Subtree(t, id) : Children(t, p) \subseteq Subtree(t, id)
<1> DEFINE D == DOMAIN t.nodes
           c == Cardinality(D)
           U == D \cup {id}
<1>1. IsFiniteSet(D) /\ c \in Nat
  BY FS_CardinalityType DEF TreeOK, NodesOK
<1>2. PICK f : f[0] = {id} /\ (\A k \in Nat : f[k+1] = Below(t, f[k])) /\ Subtree(t, id) = f[c]
  BY <1>1, SubtreeLevels
<1>3. IsFiniteSet(U) /\ Cardinality(U) \in Nat /\ Cardinality(U) <= c + 1
  <2>1. IsFiniteSet(U) /\ (Cardinality(U) = c \/ Cardinality(U) = c + 1)
    BY <1>1, FS_AddElement
  <2> HIDE DEF c, U
  <2>2. QED BY <1>1, <2>1
<1>4. \A p : Children(t, p) \subseteq D
  BY DEF Children
<1> HIDE DEF c, D
<1>5. \A k \in Nat : f[k] \in SUBSET U
  <2> DEFINE T == {k \in Nat : f[k] \in SUBSET U}
  <2>1. T \in SUBSET Nat /\ 0 \in T
    BY <1>2
  <2>2. \A k \in T : k + 1 \in T
    BY <1>2, <1>4 DEF Below
  <2> HIDE DEF T
  <2>3. \A k \in Nat : k \in T
    BY <2>1, <2>2, NatInd
  <2>4. QED BY <2>3 DEF T
<1>6. \A k \in Nat : f[k] \subseteq f[k+1]
  BY <1>2 DEF Below
<1> HIDE DEF U
<1>7. \A k \in Nat : IsFiniteSet(f[k]) /\ Cardinality(f[k]) \in Nat /\ Cardinality(f[k]) <= Cardinality(U)
  BY <1>3, <1>5, FS_Subset, FS_CardinalityType
<1>8. ASSUME NEW k \in Nat, f[k+1] # f[k] PROVE Cardinality(f[k]) + 1 <= Cardinality(f[k+1])
  <2>1. IsFiniteSet(f[k+1]) /\ Cardinality(f[k+1]) \in Nat /\ Cardinality(f[k]) \in Nat /\ f[k] \subseteq f[k+1]
    BY <1>6, <1>7
  <2>2. Cardinality(f[k]) < Cardinality(f[k+1])
    BY <1>8, <2>1, FS_Subset
  <2>3. QED BY <2>1, <2>2
<1> DEFINE T == {k \in Nat : f[k+1] # f[k] => Cardinality(f[k]) >= k + 1}
<1>9. 0 \in T
  <2>1. Cardinality(f[0]) = 1
    BY <1>2, FS_Singleton
  <2>2. QED BY <2>1
<1>10. ASSUME NEW k \in T PROVE k + 1 \in T
  <2>1. SUFFICES ASSUME f[(k+1)+1] # f[k+1] PROVE Cardinality(f[k+1]) >= (k + 1) + 1
    OBVIOUS
  <2>2. f[k+1] # f[k]
    <3>1. f[(k+1)+1] = Below(t, f[k+1]) /\ f[k+1] = Below(t, f[k])
      BY <1>2
    <3>2. QED BY <2>1, <3>1
  <2>3. Cardinality(f[k]) >= k + 1 /\ Cardinality(f[k]) + 1 <= Cardinality(f[k+1])
    BY <1>8, <2>2
  <2>4. Cardinality(f[k]) \in Nat /\ Cardinality(f[k+1]) \in Nat
    BY <1>7
  <2>5. QED BY <2>3, <2>4
<1>11. c \in T
  <2> HIDE DEF T
  <2>1. T \in SUBSET Nat
    BY DEF T
  <2>2. \A k \in Nat : k \in T
    BY <1>9, <1>10, <2>1, NatInd
  <2>3. QED BY <1>1, <2>2
<1>12. f[c+1] = f[c]
  <2>1. SUFFICES ASSUME f[c+1] # f[c] PROVE FALSE
    OBVIOUS
  <2>2. Cardinality(f[c]) >= c + 1 /\ Cardinality(f[c]) + 1 <= Cardinality(f[c+1])
    BY <1>1, <1>8, <1>11, <2>1
  <2>3. Cardinality(f[c+1]) \in Nat /\ Cardinality(f[c+1]) <= Cardinality(U) /\ Cardinality(f[c]) \in Nat
    BY <1>1, <1>7
  <2>4. QED BY <1>1, <1>3, <2>2, <2>3
<1>13. f[c+1] = Below(t, f[c])
  BY <1>1, <1>2
<1>14. QED BY <1>2, <1>12, <1>13 DEF Below

\* A tree in which every node but the root is below one of lower rank is walked
\* as a whole.
LEMMA WalkOfRanked ==
  ASSUME NEW t, TreeOK(t), t.root \in DOMAIN t.nodes, NEW rank,
         \A n \in DOMAIN t.nodes \ {t.root} :
           /\ t.nodes[n].parent \in DOMAIN t.nodes /\ rank[n] \in Nat
           /\ t.nodes[n].parent # t.root => rank[t.nodes[n].parent] < rank[n]
  PROVE  Walk(t) = DOMAIN t.nodes
<1> DEFINE S == Subtree(t, t.root)
           D == DOMAIN t.nodes
           Lost == {n \in D : n \notin S}
           Ranks == {rank[n] : n \in Lost}
<1>1. t.root \in S
  BY SubtreeHasRoot
<1>2. \A p \in S : Children(t, p) \subseteq S
  BY SubtreeClosed
<1> HIDE DEF S
<1>3. Lost = {}
  <2>1. SUFFICES ASSUME Lost # {} PROVE FALSE
    OBVIOUS
  <2>2. \A n \in Lost : n \in D \ {t.root} /\ rank[n] \in Nat
    BY <1>1
  <2>3. Ranks \in SUBSET Nat /\ Ranks # {}
    BY <2>1, <2>2
  <2>4. PICK least \in Ranks : \A k \in Ranks : least <= k
    <3> HIDE DEF Ranks
    <3>1. QED BY <2>3, NatLeast
  <2>5. PICK n \in Lost : rank[n] = least
    BY <2>4
  <2> DEFINE p == t.nodes[n].parent
  <2>6. p \in D /\ (p # t.root => rank[p] < rank[n])
    BY <2>2, <2>5
  <2>7. p \in S
    <3>1. CASE p = t.root
      BY <1>1, <3>1
    <3>2. CASE p # t.root
      <4>1. SUFFICES ASSUME p \notin S PROVE FALSE
        OBVIOUS
      <4>2. p \in Lost
        BY <2>6, <4>1
      <4>3. rank[p] \in Ranks /\ rank[p] \in Nat /\ rank[n] \in Nat
        BY <2>2, <2>5, <4>2
      <4>4. least <= rank[p]
        BY <2>4, <4>3
      <4>5. QED BY <2>5, <2>6, <3>2, <4>3, <4>4
    <3>3. QED BY <3>1, <3>2
  <2>8. n \in Children(t, p)
    BY <2>5 DEF Children
  <2>9. QED BY <1>2, <2>5, <2>7, <2>8
<1>4. QED BY <1>3 DEF Walk, S

-----------------------------------------------------------------------------
(***************************************************************************)
(* The task rebuilt from the ledger, record by record.                     *)
(***************************************************************************)
AddRecord(t, rec, root) ==
  IF rec.at.root = root
  THEN Finish(Begin(t, rec.at), rec.at, rec.usage, ~rec.incomplete)
  ELSE t

Rebuilds(f, recs, root, n) ==
  f = [i \in 0..n |-> IF i = 0 THEN NewTask(root, None, None) ELSE AddRecord(f[i-1], recs[i], root)]

LEMMA RebuildUpTo ==
  ASSUME NEW recs, NEW root
  PROVE  \A n \in Nat : \E f : Rebuilds(f, recs, root, n)
<1> DEFINE T == {n \in Nat : \E f : Rebuilds(f, recs, root, n)}
<1>1. 0 \in T
  <2>1. Rebuilds([i \in 0..0 |-> NewTask(root, None, None)], recs, root, 0)
    BY DEF Rebuilds
  <2>2. QED BY <2>1
<1>2. ASSUME NEW n \in T PROVE n + 1 \in T
  <2>0. n \in Nat
    OBVIOUS
  <2>1. PICK f : Rebuilds(f, recs, root, n)
    BY <1>2
  <2>2. \A i \in 0..n : f[i] = IF i = 0 THEN NewTask(root, None, None) ELSE AddRecord(f[i-1], recs[i], root)
    BY <2>1, Zenon DEF Rebuilds
  <2> DEFINE g == [i \in 0..(n+1) |-> IF i = 0 THEN NewTask(root, None, None) ELSE AddRecord(f[i-1], recs[i], root)]
  <2>3. ASSUME NEW i \in 0..(n+1), i # 0 PROVE g[i-1] = f[i-1]
    <3>1. i - 1 \in 0..n /\ i - 1 \in 0..(n+1)
      BY <2>0, <2>3
    <3>2. f[i-1] = IF i - 1 = 0 THEN NewTask(root, None, None) ELSE AddRecord(f[(i-1)-1], recs[i-1], root)
      BY <2>2, <3>1
    <3>3. g[i-1] = IF i - 1 = 0 THEN NewTask(root, None, None) ELSE AddRecord(f[(i-1)-1], recs[i-1], root)
      BY <3>1
    <3>4. QED BY <3>2, <3>3
  <2>4. \A i \in 0..(n+1) : g[i] = IF i = 0 THEN NewTask(root, None, None) ELSE AddRecord(f[i-1], recs[i], root)
    OBVIOUS
  <2>5. g = [i \in 0..(n+1) |-> g[i]]
    OBVIOUS
  <2> HIDE DEF g
  <2>6. \A i \in 0..(n+1) : g[i] = IF i = 0 THEN NewTask(root, None, None) ELSE AddRecord(g[i-1], recs[i], root)
    BY <2>3, <2>4
  <2>7. Rebuilds(g, recs, root, n+1)
    BY <2>5, <2>6 DEF Rebuilds
  <2>8. QED BY <2>0, <2>7
<1>3. \A n \in Nat : n \in T
  <2> HIDE DEF T
  <2>1. T \in SUBSET Nat
    BY DEF T
  <2>2. QED BY <1>1, <1>2, <2>1, NatInd
<1>4. QED BY <1>3

LEMMA RebuildSteps ==
  ASSUME NEW recs, NEW root, Len(recs) \in Nat
  PROVE  \E f : /\ f[0] = NewTask(root, None, None)
                /\ \A i \in 1..Len(recs) : f[i] = AddRecord(f[i-1], recs[i], root)
                /\ RebuiltTask(recs, root) = f[Len(recs)]
<1> DEFINE f == CHOOSE g : Rebuilds(g, recs, root, Len(recs))
<1>1. Rebuilds(f, recs, root, Len(recs))
  BY RebuildUpTo
<1>2. RebuiltTask(recs, root) = f[Len(recs)]
  BY DEF RebuiltTask, Rebuilds, AddRecord
<1> HIDE DEF f
<1>3. \A i \in 0..Len(recs) : f[i] = IF i = 0 THEN NewTask(root, None, None) ELSE AddRecord(f[i-1], recs[i], root)
  BY <1>1, Zenon DEF Rebuilds
<1>4. f[0] = NewTask(root, None, None)
  BY <1>3
<1>5. ASSUME NEW i \in 1..Len(recs) PROVE f[i] = AddRecord(f[i-1], recs[i], root)
  <2>1. i \in 0..Len(recs) /\ i # 0
    OBVIOUS
  <2>2. QED BY <1>3, <2>1
<1>6. QED BY <1>2, <1>4, <1>5

\* Which nodes the rebuilt task has, and below which they are.
OfTask(recs, root, n) == {j \in 1..n : recs[j].at.root = root}

RebuiltOK(t, recs, root, n) ==
  /\ TreeOK(t) /\ t.root = root
  /\ DOMAIN t.nodes = {root} \cup {recs[j].at.node : j \in OfTask(recs, root, n)}
  /\ \A m \in DOMAIN t.nodes \ {root} :
       \E j \in OfTask(recs, root, n) : recs[j].at.node = m /\ t.nodes[m].parent = recs[j].at.parent

LEMMA AddRecordOK ==
  ASSUME NEW t, NEW recs, NEW root, NEW n \in Nat, RebuiltOK(t, recs, root, n),
         recs[n+1].usage \in Nat, None \notin Nat
  PROVE  RebuiltOK(AddRecord(t, recs[n+1], root), recs, root, n + 1)
<1> DEFINE rec == recs[n+1]
           a == rec.at
           b == Begin(t, a)
           usage == rec.usage
           complete == ~rec.incomplete
           u == Finish(b, a, usage, complete)
<1>1. /\ TreeOK(t) /\ t.root = root
      /\ DOMAIN t.nodes = {root} \cup {recs[j].at.node : j \in OfTask(recs, root, n)}
      /\ \A m \in DOMAIN t.nodes \ {root} :
           \E j \in OfTask(recs, root, n) : recs[j].at.node = m /\ t.nodes[m].parent = recs[j].at.parent
  BY DEF RebuiltOK
<1>2. CASE a.root # root
  <2>1. OfTask(recs, root, n + 1) = OfTask(recs, root, n)
    BY <1>2 DEF OfTask
  <2>2. AddRecord(t, rec, root) = t
    BY <1>2 DEF AddRecord
  <2>3. QED BY <1>1, <2>1, <2>2 DEF RebuiltOK
<1>3. CASE a.root = root
  <2>1. OfTask(recs, root, n + 1) = OfTask(recs, root, n) \cup {n + 1}
    BY <1>3 DEF OfTask
  <2>2. AddRecord(t, rec, root) = u
    BY <1>3 DEF AddRecord
  <2>3. TreeOK(b) /\ SameTask(t, b) /\ DOMAIN b.nodes = DOMAIN t.nodes \cup {a.node}
        /\ KeepsNodes(t, b) /\ AddsNode(t, a, b)
    <3>1. TreeOK(t) /\ None \notin Nat
      BY <1>1
    <3> HIDE DEF rec, a
    <3>2. QED BY <3>1, BeginTree, Zenon
  <2>4. TreeOK(u) /\ SameTask(b, u) /\ DOMAIN u.nodes = DOMAIN b.nodes \cup {a.node}
        /\ Bills(b, a, usage, u)
    <3>1. usage \in Nat /\ TreeOK(b)
      BY <2>3
    <3> HIDE DEF rec, a, b, usage, complete
    <3>2. \A c : /\ TreeOK(Finish(b, a, usage, c)) /\ SameTask(b, Finish(b, a, usage, c))
                /\ DOMAIN Finish(b, a, usage, c).nodes = DOMAIN b.nodes \cup {a.node}
                /\ Bills(b, a, usage, Finish(b, a, usage, c))
      BY <3>1, FinishTree
    <3>3. QED BY <3>2, Zenon
  <2> HIDE DEF b, u
  <2>5. DOMAIN u.nodes = DOMAIN t.nodes \cup {a.node} /\ u.root = root
    BY <1>1, <2>3, <2>4 DEF SameTask
  <2>6. DOMAIN u.nodes = {root} \cup {recs[j].at.node : j \in OfTask(recs, root, n + 1)}
    BY <1>1, <2>1, <2>5
  <2>7. \A m \in DOMAIN t.nodes : u.nodes[m].parent = t.nodes[m].parent
    BY <2>3, <2>4, SMTT(30) DEF KeepsNodes, Bills
  <2>8. a.node \notin DOMAIN t.nodes => u.nodes[a.node].parent = a.parent
    BY <2>3, <2>4 DEF AddsNode, Bills
  <2>9. ASSUME NEW m \in DOMAIN u.nodes \ {root}
        PROVE  \E j \in OfTask(recs, root, n + 1) : recs[j].at.node = m /\ u.nodes[m].parent = recs[j].at.parent
    <3>1. CASE m \in DOMAIN t.nodes
      <4>1. PICK j \in OfTask(recs, root, n) : recs[j].at.node = m /\ t.nodes[m].parent = recs[j].at.parent
        BY <1>1, <2>9, <3>1
      <4>2. QED BY <2>1, <2>7, <3>1, <4>1
    <3>2. CASE m \notin DOMAIN t.nodes
      <4>1. m = a.node
        BY <2>5, <2>9, <3>2
      <4>2. recs[n+1].at.node = m /\ u.nodes[m].parent = recs[n+1].at.parent
        BY <2>8, <3>2, <4>1
      <4>3. QED BY <2>1, <4>2
    <3>3. QED BY <3>1, <3>2
  <2>10. RebuiltOK(u, recs, root, n + 1)
    BY <2>4, <2>5, <2>6, <2>9 DEF RebuiltOK
  <2>11. QED BY <2>2, <2>10
<1>4. QED BY <1>2, <1>3

LEMMA RebuiltTree ==
  ASSUME NEW recs, NEW root, Len(recs) \in Nat, None \notin Nat,
         \A i \in 1..Len(recs) : recs[i].usage \in Nat
  PROVE  RebuiltOK(RebuiltTask(recs, root), recs, root, Len(recs))
<1>1. PICK f : /\ f[0] = NewTask(root, None, None)
               /\ \A i \in 1..Len(recs) : f[i] = AddRecord(f[i-1], recs[i], root)
               /\ RebuiltTask(recs, root) = f[Len(recs)]
  BY RebuildSteps
<1> DEFINE T == {i \in Nat : i <= Len(recs) => RebuiltOK(f[i], recs, root, i)}
<1>2. 0 \in T
  <2>1. ShareOK(None)
    BY DEF ShareOK
  <2> DEFINE t == NewTask(root, None, None)
  <2>2. TreeOK(t) /\ DOMAIN t.nodes = {root} /\ t.root = root
    <3>1. None \in Nat \cup {None}
      OBVIOUS
    <3> DEFINE c == None
               s == None
    <3> HIDE DEF c, s
    <3>2. c \in Nat \cup {None} /\ ShareOK(s)
      BY <2>1, <3>1 DEF c, s
    <3>3. LET v == NewTask(root, c, s) IN TreeOK(v) /\ DOMAIN v.nodes = {root} /\ v.root = root
      BY <3>2, NewTaskTree
    <3>4. QED BY <3>3 DEF c, s
  <2>3. OfTask(recs, root, 0) = {}
    BY DEF OfTask
  <2> HIDE DEF t
  <2>4. RebuiltOK(t, recs, root, 0)
    BY <2>2, <2>3 DEF RebuiltOK
  <2>5. QED BY <1>1, <2>4 DEF t
<1>3. ASSUME NEW i \in T PROVE i + 1 \in T
  <2>1. SUFFICES ASSUME i + 1 <= Len(recs) PROVE RebuiltOK(f[i+1], recs, root, i + 1)
    OBVIOUS
  <2>2. i \in Nat /\ i + 1 \in 1..Len(recs) /\ (i + 1) - 1 = i /\ RebuiltOK(f[i], recs, root, i)
    BY <2>1
  <2>3. f[i+1] = AddRecord(f[i], recs[i+1], root) /\ recs[i+1].usage \in Nat
    BY <1>1, <2>2
  <2>4. QED BY <2>2, <2>3, AddRecordOK
<1>4. Len(recs) \in T
  <2> HIDE DEF T
  <2>1. T \in SUBSET Nat
    BY DEF T
  <2>2. \A k \in Nat : k \in T
    BY <1>2, <1>3, <2>1, NatInd
  <2>3. QED BY <2>2
<1>5. QED BY <1>1, <1>4
=============================================================================
