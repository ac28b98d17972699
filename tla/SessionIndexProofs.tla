------------------------- MODULE SessionIndexProofs -------------------------
(***************************************************************************)
(* Proofs about SessionIndex, for every set of conversations, every        *)
(* minimum level and any number of requests.                               *)
(***************************************************************************)
EXTENDS SessionIndex, FiniteSetTheorems, TLAPS

\* What a session is found by: the digest at the minimum level.
Key(conv) == Digest(conv)[MinLevel]

\* Every session holds the digest of a request that was attributed to it.
Sourced ==
  \A n \in DOMAIN live : \E a \in answers :
    a.root = n /\ a.conv \in Conversations /\ live[n].digest = Digest(a.conv)

\* The swap of digests never changes the key: all requests attributed to a live
\* session have the key that it stores.
Keyed ==
  \A a \in answers :
    a.root \in DOMAIN live =>
      a.conv \in Conversations /\ live[a.root].digest[MinLevel] = Key(a.conv)

\* Two live sessions have different keys, or none.
Separated ==
  \A m, n \in DOMAIN live :
    live[m].digest[MinLevel] = live[n].digest[MinLevel]
      => m = n \/ live[m].digest[MinLevel] = None

\* Requests of one session, live or dropped, have one key.
Merged ==
  \A a, b \in answers :
    a.root = b.root =>
      \/ a = b
      \/ /\ a.conv \in Conversations /\ b.conv \in Conversations
         /\ Key(a.conv) = Key(b.conv) /\ Key(a.conv) # None

\* While nothing is dropped, a session once opened is live.
Tracked ==
  ~Retaining => \A a \in answers : a.conv \in Conversations => a.root \in DOMAIN live

\* The inductive invariant.
IndexInv == TypeOK /\ Sourced /\ Keyed /\ Separated /\ Merged /\ Tracked

-----------------------------------------------------------------------------
LEMMA LevelFacts ==
  /\ MinLevel \in Level
  /\ \A l \in Level : LEVELS[l] \in Nat \ {0}
  /\ \A l \in Level : \A k \in Level : l <= k => LEVELS[l] <= LEVELS[k]
<1>1. \A l \in Level : l = 1 \/ l = 2 \/ l = 3 \/ l = 4 \/ l = 5 \/ l = 6
  BY DEF Level, NumLevels
<1>2. /\ LEVELS[1] = 1 /\ LEVELS[2] = 2 /\ LEVELS[3] = 4
      /\ LEVELS[4] = 8 /\ LEVELS[5] = 16 /\ LEVELS[6] = 32
  BY DEF LEVELS
<1>3. MinLevel \in Level
  BY IndexAssumption
<1>4. \A l \in Level : LEVELS[l] \in Nat \ {0}
  BY <1>1, <1>2
<1>5. \A l \in Level : \A k \in Level : l <= k => LEVELS[l] <= LEVELS[k]
  BY <1>1, <1>2
<1>6. QED
  BY <1>3, <1>4, <1>5

\* A digest level is the prefix of that depth, when there is one.
LEMMA DigestFacts ==
  ASSUME NEW conv \in Conversations, NEW l \in Level
  PROVE  /\ conv \in Seq(Messages) /\ Len(conv) \in Nat \ {0}
         /\ Digest(conv)[l] = IF Len(conv) >= LEVELS[l]
                              THEN SubSeq(conv, 1, LEVELS[l]) ELSE None
         /\ Digest(conv)[l] # None <=> Len(conv) >= LEVELS[l]
<1>1. conv \in Seq(Messages) /\ conv # <<>>
  BY IndexAssumption
<1>2. Len(conv) \in Nat \ {0}
  BY <1>1
<1>3. Digest(conv)[l] = IF Len(conv) >= LEVELS[l]
                        THEN SubSeq(conv, 1, LEVELS[l]) ELSE None
  BY DEF Digest
<1>4. LEVELS[l] \in Nat \ {0}
  BY LevelFacts
<1>5. Len(conv) >= LEVELS[l] => SubSeq(conv, 1, LEVELS[l]) # None
  BY IndexAssumption, <1>2, <1>4
<1>6. QED
  BY <1>1, <1>2, <1>3, <1>5

\* Two digests that agree at one level agree at all levels above it.
LEMMA PrefixAgreement ==
  ASSUME NEW c \in Conversations, NEW e \in Conversations,
         NEW l \in Level, Digest(c)[l] # None, Digest(c)[l] = Digest(e)[l]
  PROVE  AgreeUpTo(Digest(c), Digest(e), l)
<1>1. SUFFICES ASSUME NEW i \in 1..l
               PROVE  Digest(c)[i] # None /\ Digest(c)[i] = Digest(e)[i]
  BY DEF AgreeUpTo
<1>2. i \in Level /\ i <= l
  BY DEF Level, NumLevels
<1>3. LEVELS[i] \in Nat \ {0} /\ LEVELS[l] \in Nat \ {0} /\ LEVELS[i] <= LEVELS[l]
  BY <1>2, LevelFacts
<1>4. Len(c) >= LEVELS[l] /\ Len(e) >= LEVELS[l]
  BY DigestFacts
<1>5. Len(c) \in Nat /\ Len(e) \in Nat /\ c \in Seq(Messages) /\ e \in Seq(Messages)
  BY DigestFacts
<1>6. Len(c) >= LEVELS[i] /\ Len(e) >= LEVELS[i]
  BY <1>3, <1>4, <1>5
<1>7. SubSeq(c, 1, LEVELS[l]) = SubSeq(e, 1, LEVELS[l])
  BY <1>4, DigestFacts
<1>8. ASSUME NEW j \in 1..LEVELS[l] PROVE c[j] = e[j]
  <2>1. SubSeq(c, 1, LEVELS[l])[j] = c[j] /\ SubSeq(e, 1, LEVELS[l])[j] = e[j]
    BY <1>3, <1>4, <1>5
  <2>2. QED BY <2>1, <1>7
<1>9. SubSeq(c, 1, LEVELS[i]) = SubSeq(e, 1, LEVELS[i])
  <2>1. SubSeq(c, 1, LEVELS[i]) = [j \in 1..LEVELS[i] |-> c[j]]
    BY <1>3, <1>5, <1>6
  <2>2. SubSeq(e, 1, LEVELS[i]) = [j \in 1..LEVELS[i] |-> e[j]]
    BY <1>3, <1>5, <1>6
  <2>3. \A j \in 1..LEVELS[i] : c[j] = e[j]
    BY <1>3, <1>8
  <2>4. QED BY <2>1, <2>2, <2>3
<1>10. QED
  BY <1>2, <1>6, <1>9, DigestFacts

\* match_level answers a level up to which the digests agree, and reaches the
\* minimum level exactly when the keys are equal.
LEMMA MatchFacts ==
  ASSUME NEW c \in Conversations, NEW e \in Conversations
  PROVE  LET m == MatchLevel(Digest(c), Digest(e))
         IN  /\ m \in 0..NumLevels
             /\ AgreeUpTo(Digest(c), Digest(e), m)
             /\ m >= MinLevel <=> (Key(c) # None /\ Key(c) = Key(e))
<1> DEFINE m == MatchLevel(Digest(c), Digest(e))
           A(l) == AgreeUpTo(Digest(c), Digest(e), l)
           Is(l) == A(l) /\ (l < NumLevels => ~A(l + 1))
<1>1. \E l \in 0..NumLevels : Is(l)
  <2>1. A(0)
    BY DEF AgreeUpTo
  <2> HIDE DEF A
  <2>2. (\E l \in 0..6 : A(l) /\ (l < 6 => ~A(l + 1)))
    <3>1. CASE ~A(1) BY <3>1, <2>1
    <3>2. CASE A(1) /\ ~A(2) BY <3>2
    <3>3. CASE A(2) /\ ~A(3) BY <3>3
    <3>4. CASE A(3) /\ ~A(4) BY <3>4
    <3>5. CASE A(4) /\ ~A(5) BY <3>5
    <3>6. CASE A(5) /\ ~A(6) BY <3>6
    <3>7. CASE A(6) BY <3>7
    <3>8. QED BY <3>1, <3>2, <3>3, <3>4, <3>5, <3>6, <3>7
  <2>3. QED BY <2>2 DEF NumLevels
<1>2. m \in 0..NumLevels /\ Is(m)
  <2>1. m = CHOOSE l \in 0..NumLevels : Is(l)
    BY DEF MatchLevel
  <2> HIDE DEF m, Is
  <2>2. QED BY <1>1, <2>1
<1>3. m >= MinLevel => (Key(c) # None /\ Key(c) = Key(e))
  <2>1. MinLevel \in 1..NumLevels
    BY LevelFacts DEF Level
  <2> HIDE DEF m
  <2>2. SUFFICES ASSUME m >= MinLevel PROVE MinLevel \in 1..m
    BY <1>2 DEF Key, AgreeUpTo
  <2>3. QED BY <1>2, <2>1, <2>2 DEF NumLevels
<1>4. Key(c) # None /\ Key(c) = Key(e) => m >= MinLevel
  <2>1. SUFFICES ASSUME Key(c) # None, Key(c) = Key(e), ~(m >= MinLevel)
                 PROVE  FALSE
    OBVIOUS
  <2>2. A(MinLevel)
    BY <2>1, LevelFacts, PrefixAgreement DEF Key
  <2> HIDE DEF m
  <2>3. m \in Int /\ MinLevel \in Int /\ MinLevel <= 6 /\ m + 1 <= MinLevel /\ m < NumLevels
    BY <1>2, <2>1, LevelFacts DEF Level, NumLevels
  <2>4. \A i \in 1..(m + 1) : i \in 1..MinLevel
    BY <2>3
  <2>5. A(m + 1)
    BY <2>2, <2>4 DEF AgreeUpTo
  <2>6. QED BY <1>2, <2>3, <2>5
<1>5. QED
  BY <1>2, <1>3, <1>4

\* In a state of the invariant, the sessions a conversation matches are the
\* ones that store its key.
LEMMA MatchingByKey ==
  ASSUME TypeOK, Sourced, NEW conv \in Conversations, NEW n \in DOMAIN live
  PROVE  n \in Matching(Digest(conv))
           <=> (Key(conv) # None /\ live[n].digest[MinLevel] = Key(conv))
<1>1. PICK a \in answers : a.conv \in Conversations /\ live[n].digest = Digest(a.conv)
  BY DEF Sourced
<1>2. MatchLevel(Digest(a.conv), Digest(conv)) >= MinLevel
        <=> (Key(a.conv) # None /\ Key(a.conv) = Key(conv))
  BY <1>1, MatchFacts
<1>3. live[n].digest[MinLevel] = Key(a.conv)
  BY <1>1 DEF Key
<1>4. QED
  BY <1>1, <1>2, <1>3 DEF Matching

\* What a step leaves of `live` when resolve joins session n.
LEMMA JoinFacts ==
  ASSUME IndexInv, NEW conv \in Conversations, NEW n \in DOMAIN live, Join(conv, n)
  PROVE  /\ Key(conv) # None /\ live[n].digest[MinLevel] = Key(conv)
         /\ DOMAIN live' = DOMAIN live
         /\ \A k \in DOMAIN live : k # n => live'[k] = live[k]
         /\ live'[n] = live[n] \/ live'[n].digest = Digest(conv)
         /\ live'[n].digest[MinLevel] = Key(conv)
         /\ live' \in [DOMAIN live -> [digest : Digests, depth_seen : Nat]]
         /\ next' = next
         /\ \E sh \in Nat : answers' = answers \cup
                              {[conv |-> conv, root |-> n, shared |-> sh]}
<1> USE DEF IndexInv
<1>1. n \in Matching(Digest(conv))
  BY DEF Join, IsBest
<1>2. Key(conv) # None /\ live[n].digest[MinLevel] = Key(conv)
  BY <1>1, MatchingByKey
<1> DEFINE lv == MatchLevel(live[n].digest, Digest(conv))
<1>3. lv \in Level
  <2>1. PICK a \in answers : a.conv \in Conversations /\ live[n].digest = Digest(a.conv)
    BY DEF Sourced
  <2>2. lv \in 0..NumLevels
    BY <2>1, MatchFacts
  <2>3. lv >= MinLevel
    BY <1>1 DEF Matching
  <2>4. QED BY <2>2, <2>3, LevelFacts DEF Level, NumLevels
<1> DEFINE sh == LEVELS[lv]
<1>4. sh \in Nat
  BY <1>3, LevelFacts
<1> HIDE DEF lv
<1>5. /\ live' = IF sh > live[n].depth_seen
                 THEN [live EXCEPT ![n] = [digest |-> Digest(conv), depth_seen |-> sh]]
                 ELSE live
      /\ answers' = answers \cup {[conv |-> conv, root |-> n, shared |-> sh]}
      /\ next' = next
  BY DEF Join, Answer, lv
<1> HIDE DEF sh
<1>6. Digest(conv) \in Digests
  BY DEF Digests
<1>7. live \in [DOMAIN live -> [digest : Digests, depth_seen : Nat]]
  BY DEF TypeOK
<1>8. live' \in [DOMAIN live -> [digest : Digests, depth_seen : Nat]]
  BY <1>4, <1>5, <1>6, <1>7
<1>9. DOMAIN live' = DOMAIN live /\ \A k \in DOMAIN live : k # n => live'[k] = live[k]
  BY <1>5, <1>7
<1>10. live'[n] = live[n] \/ live'[n].digest = Digest(conv)
  BY <1>5, <1>7
<1>11. live'[n].digest[MinLevel] = Key(conv)
  BY <1>2, <1>10 DEF Key
<1>12. QED
  BY <1>2, <1>4, <1>5, <1>8, <1>9, <1>10, <1>11

\* The same for a session opened.
LEMMA OpenFacts ==
  ASSUME IndexInv, NEW conv \in Conversations, Open(conv)
  PROVE  /\ next' = next + 1 /\ next \in Nat /\ next + 1 \notin DOMAIN live
         /\ DOMAIN live' = DOMAIN live \cup {next + 1}
         /\ \A k \in DOMAIN live : live'[k] = live[k]
         /\ live'[next + 1].digest = Digest(conv)
         /\ live' \in [DOMAIN live' -> [digest : Digests, depth_seen : Nat]]
         /\ Key(conv) = None \/ \A k \in DOMAIN live : live[k].digest[MinLevel] # Key(conv)
         /\ answers' = answers \cup {[conv |-> conv, root |-> next + 1, shared |-> 0]}
<1> USE DEF IndexInv
<1>1. next \in Nat /\ next + 1 \notin DOMAIN live
  BY DEF TypeOK
<1>2. /\ live' = [n \in DOMAIN live \cup {next + 1} |->
                    IF n = next + 1 THEN [digest |-> Digest(conv), depth_seen |-> 0]
                    ELSE live[n]]
      /\ next' = next + 1
      /\ answers' = answers \cup {[conv |-> conv, root |-> next + 1, shared |-> 0]}
      /\ Matching(Digest(conv)) = {}
  BY DEF Open, Answer
<1>3. Digest(conv) \in Digests
  BY DEF Digests
<1>4. DOMAIN live' = DOMAIN live \cup {next + 1}
  BY <1>2
<1>5. \A k \in DOMAIN live : live'[k] = live[k]
  BY <1>1, <1>2
<1>6. live'[next + 1] = [digest |-> Digest(conv), depth_seen |-> 0]
  BY <1>2
<1>7. live \in [DOMAIN live -> [digest : Digests, depth_seen : Nat]]
  BY DEF TypeOK
<1>8. live' \in [DOMAIN live' -> [digest : Digests, depth_seen : Nat]]
  BY <1>2, <1>3, <1>7
<1>9. Key(conv) = None \/ \A k \in DOMAIN live : live[k].digest[MinLevel] # Key(conv)
  BY <1>2, MatchingByKey
<1>10. QED
  BY <1>1, <1>2, <1>4, <1>5, <1>6, <1>8, <1>9

-----------------------------------------------------------------------------
LEMMA InitInv == Init => IndexInv
BY DEF Init, IndexInv, TypeOK, Sourced, Keyed, Separated, Merged, Tracked

LEMMA JoinInv ==
  ASSUME IndexInv, NEW conv \in Conversations, NEW n \in DOMAIN live, Join(conv, n)
  PROVE  IndexInv'
<1> USE DEF IndexInv
<1>1. PICK sh \in Nat : answers' = answers \cup
                          {[conv |-> conv, root |-> n, shared |-> sh]}
  BY JoinFacts
<1> DEFINE new == [conv |-> conv, root |-> n, shared |-> sh]
<1>2. /\ Key(conv) # None /\ live[n].digest[MinLevel] = Key(conv)
      /\ DOMAIN live' = DOMAIN live /\ next' = next
      /\ \A k \in DOMAIN live : k # n => live'[k] = live[k]
      /\ live'[n] = live[n] \/ live'[n].digest = Digest(conv)
      /\ live'[n].digest[MinLevel] = Key(conv)
      /\ live' \in [DOMAIN live -> [digest : Digests, depth_seen : Nat]]
  BY JoinFacts
<1>3. \A k \in DOMAIN live : live'[k].digest[MinLevel] = live[k].digest[MinLevel]
  BY <1>2
<1>4. TypeOK'
  <2>1. new \in [conv : Conversations \cup {<<>>}, root : 1..next, shared : Nat]
    BY DEF TypeOK
  <2>2. QED BY <1>1, <1>2, <2>1 DEF TypeOK
<1>5. Sourced'
  <2>1. SUFFICES ASSUME NEW k \in DOMAIN live
                 PROVE  \E a \in answers' : a.root = k /\ a.conv \in Conversations
                                            /\ live'[k].digest = Digest(a.conv)
    BY <1>2 DEF Sourced
  <2>2. CASE live'[k] = live[k]
    BY <1>1, <2>2 DEF Sourced
  <2>3. CASE live'[k] # live[k]
    <3>1. k = n /\ live'[n].digest = Digest(conv)
      BY <1>2, <2>3
    <3>2. new \in answers' /\ new.root = n /\ new.conv = conv
      BY <1>1
    <3>3. QED BY <3>1, <3>2
  <2>4. QED BY <2>2, <2>3
<1>6. Keyed'
  <2>1. SUFFICES ASSUME NEW a \in answers', a.root \in DOMAIN live
                 PROVE  a.conv \in Conversations
                          /\ live'[a.root].digest[MinLevel] = Key(a.conv)
    BY <1>2 DEF Keyed, Key
  <2>2. CASE a \in answers
    BY <1>3, <2>1, <2>2 DEF Keyed
  <2>3. CASE a = new
    BY <1>2, <2>3
  <2>4. QED BY <1>1, <2>2, <2>3
<1>7. Separated'
  BY <1>2, <1>3 DEF Separated
<1>8. Merged'
  <2>1. \A a \in answers : a.root = n => a.conv \in Conversations /\ Key(a.conv) = Key(conv)
    BY <1>2 DEF Keyed
  <2>2. new.root = n /\ new.conv = conv
    OBVIOUS
  <2> HIDE DEF new
  <2>3. SUFFICES ASSUME NEW a \in answers', NEW b \in answers', a.root = b.root
                 PROVE  \/ a = b
                        \/ /\ a.conv \in Conversations /\ b.conv \in Conversations
                           /\ Key(a.conv) = Key(b.conv) /\ Key(a.conv) # None
    BY DEF Merged, Key
  <2>4. \A z \in answers' : z \in answers \/ z = new
    BY <1>1 DEF new
  <2>5. CASE a \in answers /\ b \in answers
    BY <2>3, <2>5 DEF Merged
  <2>6. CASE a = new \/ b = new
    BY <1>2, <2>1, <2>2, <2>3, <2>4, <2>6
  <2>7. QED BY <2>4, <2>5, <2>6
<1>9. Tracked'
  BY <1>1, <1>2 DEF Tracked
<1>10. QED
  BY <1>4, <1>5, <1>6, <1>7, <1>8, <1>9

LEMMA OpenInv ==
  ASSUME IndexInv, NEW conv \in Conversations, Open(conv)
  PROVE  IndexInv'
<1> USE DEF IndexInv
<1> DEFINE top == next + 1
           new == [conv |-> conv, root |-> top, shared |-> 0]
<1>1. /\ next' = top /\ next \in Nat /\ top \notin DOMAIN live
      /\ DOMAIN live' = DOMAIN live \cup {top}
      /\ \A k \in DOMAIN live : live'[k] = live[k]
      /\ live'[top].digest = Digest(conv)
      /\ live' \in [DOMAIN live' -> [digest : Digests, depth_seen : Nat]]
      /\ Key(conv) = None \/ \A k \in DOMAIN live : live[k].digest[MinLevel] # Key(conv)
      /\ answers' = answers \cup {new}
  BY OpenFacts
<1>2. \A a \in answers : a.root # top
  BY <1>1 DEF TypeOK
<1>3. new.root = top /\ new.conv = conv /\ new \in answers'
  BY <1>1
<1>4. \A z \in answers' : z \in answers \/ z = new
  BY <1>1
<1>5. TypeOK'
  <2>1. new \in [conv : Conversations \cup {<<>>}, root : 1..top, shared : Nat]
    BY <1>1
  <2>2. answers \subseteq [conv : Conversations \cup {<<>>}, root : 1..top, shared : Nat]
    BY <1>1 DEF TypeOK
  <2>3. DOMAIN live' \subseteq 1..top
    BY <1>1 DEF TypeOK
  <2>4. QED BY <1>1, <2>1, <2>2, <2>3 DEF TypeOK
<1> HIDE DEF top, new
<1>6. Sourced'
  <2>1. SUFFICES ASSUME NEW k \in DOMAIN live'
                 PROVE  \E a \in answers' : a.root = k /\ a.conv \in Conversations
                                            /\ live'[k].digest = Digest(a.conv)
    BY DEF Sourced
  <2>2. CASE k = top
    BY <1>1, <1>3, <2>2
  <2>3. CASE k \in DOMAIN live
    BY <1>1, <2>3 DEF Sourced
  <2>4. QED BY <1>1, <2>2, <2>3
<1>7. Keyed'
  <2>1. live'[top].digest[MinLevel] = Key(conv)
    BY <1>1 DEF Key
  <2>2. SUFFICES ASSUME NEW a \in answers', a.root \in DOMAIN live'
                 PROVE  a.conv \in Conversations
                          /\ live'[a.root].digest[MinLevel] = Key(a.conv)
    BY DEF Keyed, Key
  <2>3. CASE a = new
    BY <1>3, <2>1, <2>3
  <2>4. CASE a \in answers
    BY <1>1, <1>2, <2>2, <2>4 DEF Keyed
  <2>5. QED BY <1>4, <2>3, <2>4
<1>8. Separated'
  <2>1. live'[top].digest[MinLevel] = Key(conv)
    BY <1>1 DEF Key
  <2>2. QED BY <1>1, <2>1 DEF Separated
<1>9. Merged'
  BY <1>2, <1>3, <1>4 DEF Merged, Key
<1>10. Tracked'
  BY <1>1, <1>3, <1>4 DEF Tracked
<1>11. QED
  BY <1>5, <1>6, <1>7, <1>8, <1>9, <1>10

LEMMA AnonymousInv ==
  ASSUME IndexInv, Anonymous
  PROVE  IndexInv'
<1> USE DEF IndexInv
<1> DEFINE top == next + 1
           new == [conv |-> <<>>, root |-> top, shared |-> 0]
<1>1. next' = top /\ live' = live /\ answers' = answers \cup {new} /\ next \in Nat
  BY DEF Anonymous, Answer, TypeOK
<1>2. (\A a \in answers : a.root # top) /\ top \notin DOMAIN live
  BY <1>1 DEF TypeOK
<1>3. TypeOK'
  <2>1. new \in [conv : Conversations \cup {<<>>}, root : 1..top, shared : Nat]
    BY <1>1
  <2>2. answers \subseteq [conv : Conversations \cup {<<>>}, root : 1..top, shared : Nat]
    BY <1>1 DEF TypeOK
  <2>3. DOMAIN live \subseteq 1..top
    BY <1>1 DEF TypeOK
  <2>4. QED BY <1>1, <2>1, <2>2, <2>3 DEF TypeOK
<1>4. new.root = top /\ new.conv = <<>> /\ <<>> \notin Conversations
  BY IndexAssumption
<1>5. \A z \in answers' : z \in answers \/ z = new
  BY <1>1
<1> HIDE DEF top, new
<1>6. Sourced'
  BY <1>1 DEF Sourced
<1>7. Keyed'
  BY <1>1, <1>2, <1>4, <1>5 DEF Keyed, Key
<1>8. Separated'
  BY <1>1 DEF Separated
<1>9. Merged'
  BY <1>2, <1>4, <1>5 DEF Merged, Key
<1>10. Tracked'
  BY <1>1, <1>4, <1>5 DEF Tracked
<1>11. QED
  BY <1>3, <1>6, <1>7, <1>8, <1>9, <1>10

LEMMA RetainInv ==
  ASSUME IndexInv, Retain
  PROVE  IndexInv'
<1> USE DEF IndexInv
<1>1. PICK kept \in SUBSET DOMAIN live : live' = [n \in kept |-> live[n]]
  BY DEF Retain
<1>2. DOMAIN live' = kept /\ \A k \in kept : live'[k] = live[k]
  BY <1>1
<1>3. answers' = answers /\ next' = next /\ Retaining
  BY DEF Retain
<1>4. TypeOK'
  BY <1>1, <1>2, <1>3 DEF TypeOK
<1>5. Sourced' /\ Keyed' /\ Separated'
  BY <1>2, <1>3 DEF Sourced, Keyed, Separated, Key
<1>6. Merged' /\ Tracked'
  BY <1>3 DEF Merged, Tracked, Key
<1>7. QED
  BY <1>4, <1>5, <1>6

LEMMA NextInv == IndexInv /\ [Next]_vars => IndexInv'
<1>1. SUFFICES ASSUME IndexInv, [Next]_vars PROVE IndexInv'
  OBVIOUS
<1>2. CASE Resolve
  BY <1>1, <1>2, JoinInv, OpenInv, AnonymousInv DEF Resolve
<1>3. CASE Retain
  BY <1>1, <1>3, RetainInv
<1>4. CASE Full \/ UNCHANGED vars
  BY <1>1, <1>4 DEF Full, vars, IndexInv, TypeOK, Sourced, Keyed, Separated, Merged,
                    Tracked, Key
<1>5. QED
  BY <1>1, <1>2, <1>3, <1>4 DEF Next

\* One call of resolve, with what it was given and the session it answered.
Resolves(conv, root) ==
  \/ conv \in Conversations /\ Open(conv) /\ root = next + 1
  \/ conv \in Conversations /\ root \in DOMAIN live /\ Join(conv, root)
  \/ conv = <<>> /\ Anonymous /\ root = next + 1

\* Whatever resolve does, the answer is recorded, no session is lost, and the
\* number it answers is new or that of a conversation with a key.
LEMMA ResolveFacts ==
  ASSUME IndexInv, NEW conv, NEW root, Resolves(conv, root)
  PROVE  /\ IndexInv'
         /\ conv \in Conversations \cup {<<>>} /\ root \in Nat
         /\ DOMAIN live \subseteq DOMAIN live'
         /\ conv \in Conversations => root \in DOMAIN live'
         /\ \E sh : answers' = answers \cup
                              {[conv |-> conv, root |-> root, shared |-> sh]}
         /\ \/ \A a \in answers : a.root # root
            \/ conv \in Conversations /\ Key(conv) # None
<1>1. next \in Nat /\ (\A a \in answers : a.root \in 1..next) /\ DOMAIN live \subseteq 1..next
  BY DEF IndexInv, TypeOK
<1>2. next + 1 \in Nat /\ \A a \in answers : a.root # next + 1
  BY <1>1
<1>3. CASE conv \in Conversations /\ Open(conv) /\ root = next + 1
  BY <1>2, <1>3, OpenFacts, OpenInv
<1>4. CASE conv \in Conversations /\ root \in DOMAIN live /\ Join(conv, root)
  <2>1. root \in Nat
    BY <1>1, <1>4
  <2>2. QED BY <1>4, <2>1, JoinFacts, JoinInv
<1>5. CASE conv = <<>> /\ Anonymous /\ root = next + 1
  <2>1. IndexInv'
    BY <1>5, AnonymousInv
  <2>2. live' = live /\ answers' = answers \cup
                         {[conv |-> <<>>, root |-> next + 1, shared |-> 0]}
    BY <1>5 DEF Anonymous, Answer
  <2>3. <<>> \notin Conversations
    BY IndexAssumption
  <2>4. QED BY <1>2, <1>5, <2>1, <2>2, <2>3
<1>6. QED
  BY <1>3, <1>4, <1>5 DEF Resolves

\* The strengthened invariant holds of every reachable state.
THEOREM IndexInvariant == Spec => []IndexInv
<1>1. Init => IndexInv
  BY InitInv
<1>2. IndexInv /\ [Next]_vars => IndexInv'
  BY NextInv
<1>3. QED
  BY <1>1, <1>2, PTL DEF Spec

\* Type correctness of the index.
THEOREM TypeCorrect == Spec => []TypeOK
<1>1. IndexInv => TypeOK
  BY DEF IndexInv
<1>2. QED
  BY <1>1, IndexInvariant, PTL

-----------------------------------------------------------------------------
\* The key is the opening, and the conversations without one have none.
LEMMA KeyIsOpening ==
  ASSUME NEW conv \in Conversations
  PROVE  /\ HasOpening(conv) <=> Key(conv) # None
         /\ HasOpening(conv) => Key(conv) = Opening(conv)
BY LevelFacts, DigestFacts DEF Key, HasOpening, Opening, Depth

\* No false merge, for all conversations and minimum levels: what resolve
\* attributes to one session has one opening.
THEOREM NeverMergesFalsely == Spec => []NoFalseMerge
<1>1. IndexInv => NoFalseMerge
  <2>1. SUFFICES ASSUME IndexInv, NEW a \in answers, NEW b \in answers, a.root = b.root, a # b
                 PROVE  /\ HasOpening(a.conv) /\ HasOpening(b.conv)
                        /\ Opening(a.conv) = Opening(b.conv)
    BY DEF NoFalseMerge
  <2>2. /\ a.conv \in Conversations /\ b.conv \in Conversations
        /\ Key(a.conv) = Key(b.conv) /\ Key(a.conv) # None
    BY <2>1 DEF IndexInv, Merged
  <2>3. QED BY <2>2, KeyIsOpening
<1>2. QED
  BY <1>1, IndexInvariant, PTL

\* The scan of `live` in resolve never has to choose between two sessions: the
\* live sessions have different keys, so a conversation matches one at most.
THEOREM ScanNeverChooses == Spec => []OneCandidate
<1>1. IndexInv => OneCandidate
  <2>1. SUFFICES ASSUME IndexInv, NEW conv \in Conversations
                 PROVE  Cardinality(Matching(Digest(conv))) <= 1
    BY DEF OneCandidate
  <2> DEFINE M == Matching(Digest(conv))
  <2>2. \A m, n \in M : m = n
    <3>1. \A n \in M : /\ n \in DOMAIN live /\ Key(conv) # None
                       /\ live[n].digest[MinLevel] = Key(conv)
      <4>1. M \subseteq DOMAIN live
        BY DEF Matching
      <4>2. QED BY <2>1, <4>1, MatchingByKey DEF IndexInv
    <3>2. QED BY <2>1, <3>1 DEF IndexInv, Separated
  <2> HIDE DEF M
  <2>3. Cardinality(M) = 0 \/ Cardinality(M) = 1
    <3>1. CASE M = {}
      BY <3>1, FS_EmptySet
    <3>2. CASE M # {}
      <4>1. PICK n : M = {n}
        BY <2>2, <3>2
      <4>2. QED BY <4>1, FS_Singleton
    <3>3. QED BY <3>1, <3>2
  <2>4. QED BY <2>3 DEF M
<1>2. QED
  BY <1>1, IndexInvariant, PTL

\* No false split: without retain, one opening is one session, and with it one
\* live session.
THEOREM NeverSplitsFalsely == Spec => []NoFalseSplit
<1>1. IndexInv => NoFalseSplit
  <2>1. SUFFICES ASSUME IndexInv, NEW a \in answers, NEW b \in answers,
                        HasOpening(a.conv), HasOpening(b.conv),
                        Opening(a.conv) = Opening(b.conv),
                        ~Retaining \/ {a.root, b.root} \subseteq DOMAIN live
                 PROVE  a.root = b.root
    BY DEF NoFalseSplit
  <2>2. a.conv \in Conversations /\ b.conv \in Conversations
    <3>1. Depth \in Nat \ {0}
      BY LevelFacts DEF Depth
    <3>2. ~HasOpening(<<>>)
      BY <3>1 DEF HasOpening
    <3>3. a.conv \in Conversations \cup {<<>>} /\ b.conv \in Conversations \cup {<<>>}
      BY <2>1 DEF IndexInv, TypeOK
    <3>4. QED BY <2>1, <3>2, <3>3
  <2>3. a.root \in DOMAIN live /\ b.root \in DOMAIN live
    BY <2>1, <2>2 DEF IndexInv, Tracked
  <2>4. /\ live[a.root].digest[MinLevel] = Key(a.conv)
        /\ live[b.root].digest[MinLevel] = Key(b.conv)
    BY <2>1, <2>3 DEF IndexInv, Keyed
  <2>5. Key(a.conv) = Key(b.conv) /\ Key(a.conv) # None
    BY <2>1, <2>2, KeyIsOpening
  <2>6. QED BY <2>1, <2>3, <2>4, <2>5 DEF IndexInv, Separated
<1>2. QED
  BY <1>1, IndexInvariant, PTL

\* The shared depth of every answer, and so its confidence, is a prefix shared
\* with an earlier request of the same session.
THEOREM SharedDepthHolds == Spec => SharedDepthIsHonest
<1> DEFINE Honest == \A a \in answers' \ answers :
                       a.shared > 0 =>
                         \E b \in answers :
                           /\ b.root = a.root
                           /\ Len(a.conv) >= a.shared /\ Len(b.conv) >= a.shared
                           /\ SubSeq(a.conv, 1, a.shared) = SubSeq(b.conv, 1, a.shared)
<1>1. IndexInv /\ [Next]_vars => [Honest]_vars
  <2>1. SUFFICES ASSUME IndexInv, Next PROVE Honest
    OBVIOUS
  <2>2. CASE \E conv \in Conversations : \E n \in DOMAIN live : Join(conv, n)
    <3>1. PICK conv \in Conversations, n \in DOMAIN live : Join(conv, n)
      BY <2>2
    <3>2. PICK b \in answers : b.root = n /\ b.conv \in Conversations
                                 /\ live[n].digest = Digest(b.conv)
      BY <2>1 DEF IndexInv, Sourced
    <3> DEFINE lv == MatchLevel(live[n].digest, Digest(conv))
    <3>3. lv \in Level
      <4>1. lv \in 0..NumLevels BY <3>2, MatchFacts
      <4>2. lv >= MinLevel BY <3>1 DEF Join, IsBest, Matching
      <4>3. QED BY <4>1, <4>2, LevelFacts DEF Level, NumLevels
    <3>4. AgreeUpTo(Digest(b.conv), Digest(conv), lv)
      BY <3>2, MatchFacts
    <3>5. answers' = answers \cup {[conv |-> conv, root |-> n, shared |-> LEVELS[lv]]}
      BY <3>1 DEF Join, Answer
    <3> HIDE DEF lv
    <3>6. Digest(b.conv)[lv] # None /\ Digest(b.conv)[lv] = Digest(conv)[lv]
      BY <3>3, <3>4 DEF AgreeUpTo, Level, NumLevels
    <3>7. /\ Len(conv) >= LEVELS[lv] /\ Len(b.conv) >= LEVELS[lv]
          /\ SubSeq(conv, 1, LEVELS[lv]) = SubSeq(b.conv, 1, LEVELS[lv])
      BY <3>2, <3>3, <3>6, DigestFacts
    <3>8. \A a \in answers' \ answers :
            a.conv = conv /\ a.root = n /\ a.shared = LEVELS[lv]
      BY <3>5
    <3>9. \A a \in answers' \ answers :
            /\ b.root = a.root
            /\ Len(a.conv) >= a.shared /\ Len(b.conv) >= a.shared
            /\ SubSeq(a.conv, 1, a.shared) = SubSeq(b.conv, 1, a.shared)
      BY <3>2, <3>7, <3>8
    <3>10. QED BY <3>9
  <2>3. CASE \E conv \in Conversations : Open(conv)
    BY <2>3 DEF Open, Answer
  <2>4. CASE Anonymous
    BY <2>4 DEF Anonymous, Answer
  <2>5. CASE Retain \/ Full
    BY <2>5 DEF Retain, Full, vars
  <2>6. QED BY <2>1, <2>2, <2>3, <2>4, <2>5 DEF Next, Resolve
<1>2. QED
  BY <1>1, IndexInvariant, PTL DEF Spec, SharedDepthIsHonest

-----------------------------------------------------------------------------
(***************************************************************************)
(* The refinement.  The owner map is stated of any value f that `live` may *)
(* have, so that its facts can be used before and after a step.            *)
(***************************************************************************)
Owners(f) == {f[n].digest[MinLevel] : n \in DOMAIN f} \ {None}
OwnerIn(f) == [o \in Owners(f) |-> CHOOSE n \in DOMAIN f : f[n].digest[MinLevel] = o]
SeparatedIn(f) ==
  \A m, n \in DOMAIN f :
    f[m].digest[MinLevel] = f[n].digest[MinLevel]
      => m = n \/ f[m].digest[MinLevel] = None
Seen(as) == {[conv |-> a.conv, root |-> a.root] : a \in as}

\* The owner of a key is the one session that stores it.
LEMMA OwnerFacts ==
  ASSUME NEW f, SeparatedIn(f), NEW n \in DOMAIN f, f[n].digest[MinLevel] # None
  PROVE  /\ f[n].digest[MinLevel] \in Owners(f)
         /\ OwnerIn(f)[f[n].digest[MinLevel]] = n
<1> DEFINE o == f[n].digest[MinLevel]
           ch == CHOOSE k \in DOMAIN f : f[k].digest[MinLevel] = o
<1>1. o \in Owners(f)
  BY DEF Owners
<1>2. ch \in DOMAIN f /\ f[ch].digest[MinLevel] = o
  OBVIOUS
<1>3. ch = n
  BY <1>2 DEF SeparatedIn
<1>4. OwnerIn(f)[o] = ch
  BY <1>1 DEF OwnerIn
<1>5. QED
  BY <1>1, <1>3, <1>4

\* A map on the owned keys that gives each key its session is the owner map.
LEMMA OwnerIsUnique ==
  ASSUME NEW f, SeparatedIn(f), NEW g, NEW D, g = [o \in D |-> g[o]], D = Owners(f),
         \A n \in DOMAIN f : f[n].digest[MinLevel] # None => g[f[n].digest[MinLevel]] = n
  PROVE  g = OwnerIn(f)
<1>1. ASSUME NEW o \in D PROVE g[o] = OwnerIn(f)[o]
  <2>1. PICK n \in DOMAIN f : f[n].digest[MinLevel] = o /\ o # None
    BY DEF Owners
  <2>2. QED BY <2>1, OwnerFacts
<1>2. OwnerIn(f) = [o \in D |-> OwnerIn(f)[o]]
  BY DEF OwnerIn
<1>3. QED
  BY <1>1, <1>2

\* Equal keys make equal owner maps.
LEMMA SameOwners ==
  ASSUME NEW f, NEW g, SeparatedIn(f), SeparatedIn(g), DOMAIN g = DOMAIN f,
         \A n \in DOMAIN f : g[n].digest[MinLevel] = f[n].digest[MinLevel]
  PROVE  OwnerIn(g) = OwnerIn(f)
<1>1. Owners(g) = Owners(f)
  BY DEF Owners
<1>2. OwnerIn(g) = [o \in Owners(g) |-> OwnerIn(g)[o]]
  BY DEF OwnerIn
<1>3. \A n \in DOMAIN f : f[n].digest[MinLevel] # None
                            => OwnerIn(g)[f[n].digest[MinLevel]] = n
  BY OwnerFacts
<1>4. QED
  BY <1>1, <1>2, <1>3, OwnerIsUnique

LEMMA SeenGrows ==
  ASSUME NEW as, NEW bs, NEW new, bs = as \cup {new}
  PROVE  Seen(bs) = Seen(as) \cup {[conv |-> new.conv, root |-> new.root]}
BY DEF Seen

LEMMA JoinRefines ==
  ASSUME IndexInv, IndexInv', NEW conv \in Conversations, NEW n \in DOMAIN live, Join(conv, n)
  PROVE  /\ HasOpening(conv) /\ Opening(conv) \in DOMAIN OwnerIn(live)
         /\ Seen(answers') = Seen(answers) \cup
              {[conv |-> conv, root |-> OwnerIn(live)[Opening(conv)]]}
         /\ OwnerIn(live') = OwnerIn(live) /\ next' = next
<1>1. SeparatedIn(live) /\ SeparatedIn(live')
  BY DEF IndexInv, Separated, SeparatedIn
<1>2. /\ Key(conv) # None /\ live[n].digest[MinLevel] = Key(conv)
      /\ DOMAIN live' = DOMAIN live /\ next' = next
      /\ \A k \in DOMAIN live : k # n => live'[k] = live[k]
      /\ live'[n].digest[MinLevel] = Key(conv)
  BY JoinFacts
<1>3. \A k \in DOMAIN live : live'[k].digest[MinLevel] = live[k].digest[MinLevel]
  BY <1>2
<1>4. OwnerIn(live') = OwnerIn(live)
  BY <1>1, <1>2, <1>3, SameOwners
<1>5. Key(conv) \in Owners(live) /\ OwnerIn(live)[Key(conv)] = n
  BY <1>1, <1>2, OwnerFacts
<1>6. DOMAIN OwnerIn(live) = Owners(live)
  BY DEF OwnerIn
<1>7. HasOpening(conv) /\ Key(conv) = Opening(conv)
  BY <1>2, KeyIsOpening
<1>8. Seen(answers') = Seen(answers) \cup {[conv |-> conv, root |-> n]}
  <2>1. PICK sh \in Nat : answers' = answers \cup
                            {[conv |-> conv, root |-> n, shared |-> sh]}
    BY JoinFacts
  <2> DEFINE new == [conv |-> conv, root |-> n, shared |-> sh]
  <2>2. new.conv = conv /\ new.root = n /\ answers' = answers \cup {new}
    BY <2>1
  <2> HIDE DEF new
  <2>3. QED BY <2>2, SeenGrows
<1>9. QED
  BY <1>2, <1>4, <1>5, <1>6, <1>7, <1>8

LEMMA OpenRefines ==
  ASSUME IndexInv, IndexInv', NEW conv \in Conversations, Open(conv)
  PROVE  /\ next' = next + 1
         /\ Seen(answers') = Seen(answers) \cup {[conv |-> conv, root |-> next + 1]}
         /\ IF HasOpening(conv)
            THEN /\ Opening(conv) \notin DOMAIN OwnerIn(live)
                 /\ OwnerIn(live') =
                      [o \in DOMAIN OwnerIn(live) \cup {Opening(conv)} |->
                         IF o = Opening(conv) THEN next + 1 ELSE OwnerIn(live)[o]]
            ELSE OwnerIn(live') = OwnerIn(live)
<1> DEFINE top == next + 1
<1>1. SeparatedIn(live) /\ SeparatedIn(live')
  BY DEF IndexInv, Separated, SeparatedIn
<1>2. /\ next' = top /\ top \notin DOMAIN live
      /\ DOMAIN live' = DOMAIN live \cup {top}
      /\ \A k \in DOMAIN live : live'[k] = live[k]
      /\ live'[top].digest = Digest(conv)
      /\ Key(conv) = None \/ \A k \in DOMAIN live : live[k].digest[MinLevel] # Key(conv)
      /\ answers' = answers \cup {[conv |-> conv, root |-> top, shared |-> 0]}
  BY OpenFacts
<1> HIDE DEF top
<1>3. Seen(answers') = Seen(answers) \cup {[conv |-> conv, root |-> top]}
  <2> DEFINE new == [conv |-> conv, root |-> top, shared |-> 0]
  <2>1. new.conv = conv /\ new.root = top /\ answers' = answers \cup {new}
    BY <1>2
  <2> HIDE DEF new
  <2>2. QED BY <2>1, SeenGrows
<1>4. DOMAIN OwnerIn(live) = Owners(live)
  BY DEF OwnerIn
<1>5. live'[top].digest[MinLevel] = Key(conv)
  BY <1>2 DEF Key
<1>6. CASE HasOpening(conv)
  <2>1. Key(conv) = Opening(conv) /\ Key(conv) # None
    BY <1>6, KeyIsOpening
  <2>2. Key(conv) \notin Owners(live)
    BY <1>2, <2>1 DEF Owners
  <2> DEFINE D == Owners(live) \cup {Key(conv)}
             g == [o \in D |-> IF o = Key(conv) THEN top ELSE OwnerIn(live)[o]]
  <2>3. D = Owners(live')
    <3>1. {live'[k].digest[MinLevel] : k \in DOMAIN live'}
            = {live[k].digest[MinLevel] : k \in DOMAIN live} \cup {Key(conv)}
      BY <1>2, <1>5
    <3>2. QED BY <2>1, <3>1 DEF Owners
  <2>4. ASSUME NEW k \in DOMAIN live', live'[k].digest[MinLevel] # None
        PROVE  g[live'[k].digest[MinLevel]] = k
    <3>1. CASE k = top
      BY <1>5, <3>1
    <3>2. CASE k \in DOMAIN live
      <4>1. live'[k].digest[MinLevel] = live[k].digest[MinLevel]
        BY <1>2, <3>2
      <4>2. /\ live[k].digest[MinLevel] \in Owners(live)
            /\ OwnerIn(live)[live[k].digest[MinLevel]] = k
        BY <1>1, <2>4, <3>2, <4>1, OwnerFacts
      <4>3. QED BY <2>2, <4>1, <4>2
    <3>3. QED BY <1>2, <3>1, <3>2
  <2>5. g = [o \in D |-> g[o]]
    OBVIOUS
  <2>6. \A k \in DOMAIN live' : live'[k].digest[MinLevel] # None
                                  => g[live'[k].digest[MinLevel]] = k
    BY <2>4
  <2> HIDE DEF g, D
  <2>7. g = OwnerIn(live')
    BY <1>1, <2>3, <2>5, <2>6, OwnerIsUnique
  <2>8. QED BY <1>2, <1>3, <1>4, <1>6, <2>1, <2>2, <2>7 DEF g, D, top
<1>7. CASE ~HasOpening(conv)
  <2>1. Key(conv) = None
    BY <1>7, KeyIsOpening
  <2>2. Owners(live') = Owners(live)
    <3>1. {live'[k].digest[MinLevel] : k \in DOMAIN live'}
            = {live[k].digest[MinLevel] : k \in DOMAIN live} \cup {None}
      BY <1>2, <1>5, <2>1
    <3>2. QED BY <3>1 DEF Owners
  <2>3. ASSUME NEW k \in DOMAIN live', live'[k].digest[MinLevel] # None
        PROVE  OwnerIn(live)[live'[k].digest[MinLevel]] = k
    <3>1. k \in DOMAIN live /\ live'[k] = live[k]
      BY <1>2, <1>5, <2>1, <2>3
    <3>2. QED BY <1>1, <2>3, <3>1, OwnerFacts
  <2>4. OwnerIn(live) = [o \in Owners(live) |-> OwnerIn(live)[o]]
    BY DEF OwnerIn
  <2>5. OwnerIn(live) = OwnerIn(live')
    BY <1>1, <2>2, <2>3, <2>4, OwnerIsUnique
  <2>6. QED BY <1>2, <1>3, <1>7, <2>5 DEF top
<1>8. QED
  BY <1>6, <1>7

LEMMA RetainRefines ==
  ASSUME IndexInv, IndexInv', Retain
  PROVE  /\ \E kept \in SUBSET DOMAIN OwnerIn(live) :
              OwnerIn(live') = [o \in kept |-> OwnerIn(live)[o]]
         /\ Retaining /\ next' = next /\ answers' = answers
<1>1. SeparatedIn(live) /\ SeparatedIn(live')
  BY DEF IndexInv, Separated, SeparatedIn
<1>2. PICK kept \in SUBSET DOMAIN live : live' = [n \in kept |-> live[n]]
  BY DEF Retain
<1>3. DOMAIN live' = kept /\ \A k \in kept : live'[k] = live[k]
  BY <1>2
<1>4. Owners(live') \subseteq Owners(live)
  BY <1>3 DEF Owners
<1>5. DOMAIN OwnerIn(live) = Owners(live)
  BY DEF OwnerIn
<1> DEFINE g == [o \in Owners(live') |-> OwnerIn(live)[o]]
<1>6. ASSUME NEW k \in DOMAIN live', live'[k].digest[MinLevel] # None
      PROVE  g[live'[k].digest[MinLevel]] = k
  <2>1. live'[k].digest[MinLevel] \in Owners(live')
    BY <1>1, <1>6, OwnerFacts
  <2>2. OwnerIn(live)[live[k].digest[MinLevel]] = k
    BY <1>1, <1>3, <1>6, OwnerFacts
  <2>3. QED BY <1>3, <2>1, <2>2
<1>7. g = [o \in Owners(live') |-> g[o]]
  OBVIOUS
<1>8. g = OwnerIn(live')
  <2>1. \A k \in DOMAIN live' : live'[k].digest[MinLevel] # None
                                  => g[live'[k].digest[MinLevel]] = k
    BY <1>6
  <2> HIDE DEF g
  <2>2. QED BY <1>1, <1>7, <2>1, OwnerIsUnique
<1>9. Retaining /\ next' = next /\ answers' = answers
  BY DEF Retain
<1>10. QED
  BY <1>4, <1>5, <1>8, <1>9

\* Every step of the index is a step of Sessions, or changes nothing there.
LEMMA StepRefines ==
  ASSUME IndexInv, IndexInv', Next
  PROVE  Abstract!AbsNext \/ UNCHANGED Abstract!absVars
<1> DEFINE ow == [o \in {live[n].digest[MinLevel] : n \in DOMAIN live} \ {None} |->
                    CHOOSE n \in DOMAIN live : live[n].digest[MinLevel] = o]
           sn == {[conv |-> a.conv, root |-> a.root] : a \in answers}
<1>1. ow = OwnerIn(live) /\ ow' = OwnerIn(live')
  BY DEF OwnerIn, Owners
<1>2. sn = Seen(answers) /\ sn' = Seen(answers')
  BY DEF Seen
<1>3. ASSUME NEW conv \in Conversations, NEW n \in DOMAIN live, Join(conv, n)
      PROVE  Abstract!Continue(conv)
  <2>1. /\ HasOpening(conv) /\ Opening(conv) \in DOMAIN ow
        /\ sn' = sn \cup {[conv |-> conv, root |-> ow[Opening(conv)]]}
        /\ ow' = ow /\ next' = next
    BY <1>1, <1>2, <1>3, JoinRefines
  <2> HIDE DEF ow, sn
  <2>2. QED BY <2>1 DEF Abstract!Continue, Abstract!HasOpening, Abstract!Opening,
                        Abstract!Answered, HasOpening, Opening, ow, sn
<1>4. ASSUME NEW conv \in Conversations, Open(conv)
      PROVE  Abstract!Start(conv) \/ Abstract!Single(conv)
  <2>1. /\ next' = next + 1
        /\ sn' = sn \cup {[conv |-> conv, root |-> next + 1]}
        /\ IF HasOpening(conv)
           THEN /\ Opening(conv) \notin DOMAIN ow
                /\ ow' = [o \in DOMAIN ow \cup {Opening(conv)} |->
                            IF o = Opening(conv) THEN next + 1 ELSE ow[o]]
           ELSE ow' = ow
    <3> HIDE DEF ow, sn
    <3>1. QED BY <1>1, <1>2, <1>4, OpenRefines
  <2>2. CASE HasOpening(conv)
    BY <2>1, <2>2 DEF Abstract!Start, Abstract!HasOpening, Abstract!Opening,
                      Abstract!Answered, HasOpening, Opening
  <2>3. CASE ~HasOpening(conv)
    BY <2>1, <2>3 DEF Abstract!Single, Abstract!HasOpening, Abstract!Answered, HasOpening
  <2>4. QED BY <2>2, <2>3
<1>5. ASSUME Anonymous PROVE Abstract!Single(<<>>)
  <2>1. ~HasOpening(<<>>)
    <3>1. Depth \in Nat \ {0}
      BY LevelFacts DEF Depth
    <3>2. QED BY <3>1 DEF HasOpening
  <2>2. next' = next + 1 /\ live' = live
    BY <1>5 DEF Anonymous
  <2>3. sn' = sn \cup {[conv |-> <<>>, root |-> next + 1]}
    <3> DEFINE new == [conv |-> <<>>, root |-> next + 1, shared |-> 0]
    <3>1. new.conv = <<>> /\ new.root = next + 1 /\ answers' = answers \cup {new}
      BY <1>5 DEF Anonymous, Answer
    <3> HIDE DEF sn, new
    <3>2. QED BY <1>2, <3>1, SeenGrows
  <2>4. ow' = ow
    BY <2>2
  <2>5. QED BY <2>1, <2>2, <2>3, <2>4
            DEF Abstract!Single, Abstract!HasOpening, Abstract!Answered, HasOpening
<1>6. ASSUME Retain PROVE Abstract!Forget
  <2>1. /\ \E kept \in SUBSET DOMAIN ow : ow' = [o \in kept |-> ow[o]]
        /\ Retaining /\ next' = next /\ answers' = answers
    <3> HIDE DEF ow, sn
    <3>1. QED BY <1>1, <1>6, RetainRefines
  <2>2. sn' = sn
    BY <2>1
  <2>3. QED BY <2>1, <2>2 DEF Abstract!Forget
<1>7. ASSUME Full PROVE UNCHANGED Abstract!absVars
  BY <1>7 DEF Full, vars, Abstract!absVars
<1>8. QED
  BY <1>3, <1>4, <1>5, <1>6, <1>7 DEF Next, Resolve, Abstract!AbsNext

\* The index implements Sessions, sessions dropped at any time included.
THEOREM IndexRefinesSessions == Spec => ImplementsSessions
<1>1. Init => Abstract!AbsInit
  BY DEF Init, Abstract!AbsInit
<1>2. IndexInv /\ IndexInv' /\ [Next]_vars => [Abstract!AbsNext]_(Abstract!absVars)
  <2>1. UNCHANGED vars => UNCHANGED Abstract!absVars
    BY DEF vars, Abstract!absVars
  <2>2. QED BY <2>1, StepRefines
<1>3. QED
  BY <1>1, <1>2, IndexInvariant, PTL DEF Spec, ImplementsSessions, Abstract!AbsSpec
=============================================================================
