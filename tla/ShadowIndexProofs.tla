-------------------------- MODULE ShadowIndexProofs -------------------------
(***************************************************************************)
(* Proofs about ShadowIndex, for every set of conversations and minimum    *)
(* level, any number of requests and tasks, and any order of the tasks.    *)
(***************************************************************************)
EXTENDS ShadowIndex, SessionIndexProofs, SequenceTheorems

\* What is proved about one index, of the second one.
Second == INSTANCE SessionIndexProofs WITH
  live <- shadow_live, next <- shadow_next, answers <- shadow_answers

\* Root r of the live index is the session of a conversation with a key; the
\* same for the shadow.
KeyedRoot(r) ==
  \E a \in answers : a.root = r /\ a.conv \in Conversations /\ Key(a.conv) # None
KeyedShadow(r) ==
  \E a \in shadow_answers : a.root = r /\ a.conv \in Conversations /\ Key(a.conv) # None

ShadowTypeOK ==
  /\ spawned \in Seq([conv : Conversations \cup {<<>>}, root : Nat])
  /\ notes \in Seq([live_root : Nat, shadow_root : Nat])

\* Nothing is ever dropped from the shadow.
ShadowTracked ==
  \A b \in shadow_answers : b.conv \in Conversations => b.root \in DOMAIN shadow_live

\* A waiting task carries what the live index answered.
Spawned ==
  \A i \in DOMAIN spawned :
    \E a \in answers : a.conv = spawned[i].conv /\ a.root = spawned[i].root

\* A comparison is of two answers to one conversation.
Noted ==
  \A i \in DOMAIN notes : \E a \in answers, b \in shadow_answers :
    /\ a.conv = b.conv
    /\ a.root = notes[i].live_root /\ b.root = notes[i].shadow_root

\* Two tasks, a task and a comparison, or two comparisons meet in one session
\* only if it is that of a key: one without was answered once, and is compared
\* once.
TasksMeet ==
  \A i, j \in DOMAIN spawned :
    spawned[i].root = spawned[j].root => i = j \/ KeyedRoot(spawned[i].root)
TaskMeetsNote ==
  \A i \in DOMAIN spawned, j \in DOMAIN notes :
    spawned[i].root = notes[j].live_root => KeyedRoot(spawned[i].root)
NotesMeet ==
  \A i, j \in DOMAIN notes :
    notes[i].live_root = notes[j].live_root => i = j \/ KeyedRoot(notes[i].live_root)
NotesMeetInShadow ==
  \A i, j \in DOMAIN notes :
    notes[i].shadow_root = notes[j].shadow_root
      => i = j \/ KeyedShadow(notes[i].shadow_root)

\* The inductive invariant.
ShadowInv ==
  /\ IndexInv /\ Second!IndexInv /\ ShadowTypeOK /\ ShadowTracked
  /\ Spawned /\ Noted /\ TasksMeet /\ TaskMeetsNote /\ NotesMeet /\ NotesMeetInShadow

-----------------------------------------------------------------------------
\* The second index is under the same assumptions, and its operations are the
\* ones ShadowIndex names.
LEMMA SecondAssumption == Second!IndexAssumption
BY IndexAssumption DEF Second!IndexAssumption, Level, Second!Level, NumLevels,
                       Second!NumLevels

LEMMA SameDigest ==
  ASSUME NEW conv
  PROVE  Second!Key(conv) = Key(conv) /\ Second!Digest(conv) = Shadow!Digest(conv)
BY DEF Second!Key, Key, Second!Digest, Digest, Shadow!Digest, Second!Level, Level,
       Shadow!Level, Second!LEVELS, LEVELS, Shadow!LEVELS, Second!NumLevels, NumLevels,
       Shadow!NumLevels

LEMMA SameMatch ==
  ASSUME NEW d, NEW n
  PROVE  /\ Second!Matching(d) = Shadow!Matching(d)
         /\ Second!IsBest(n, d) <=> Shadow!IsBest(n, d)
         /\ \A e : Second!MatchLevel(e, d) = Shadow!MatchLevel(e, d)
<1>1. \A e : Second!MatchLevel(e, d) = Shadow!MatchLevel(e, d)
  BY DEF Second!MatchLevel, Shadow!MatchLevel, Second!AgreeUpTo, Shadow!AgreeUpTo,
         Second!NumLevels, Shadow!NumLevels
<1>2. Second!Matching(d) = Shadow!Matching(d)
  BY <1>1 DEF Second!Matching, Shadow!Matching
<1>3. Second!IsBest(n, d) <=> Shadow!IsBest(n, d)
  BY <1>1, <1>2 DEF Second!IsBest, Shadow!IsBest
<1>4. QED
  BY <1>1, <1>2, <1>3

\* One run of a shadow task is one call of resolve.
LEMMA ShadowResolves ==
  ASSUME NEW conv \in Conversations \cup {<<>>}, NEW root,
         \/ conv # <<>> /\ Shadow!Open(conv) /\ root = shadow_next + 1
         \/ conv # <<>> /\ root \in DOMAIN shadow_live /\ Shadow!Join(conv, root)
         \/ conv = <<>> /\ Shadow!Anonymous /\ root = shadow_next + 1
  PROVE  Second!Resolves(conv, root)
<1>1. CASE conv # <<>> /\ Shadow!Open(conv) /\ root = shadow_next + 1
  BY <1>1, SameDigest, SameMatch DEF Second!Resolves, Second!Open, Shadow!Open,
     Second!Answer, Shadow!Answer
<1>2. CASE conv # <<>> /\ root \in DOMAIN shadow_live /\ Shadow!Join(conv, root)
  BY <1>2, SameDigest, SameMatch DEF Second!Resolves, Second!Join, Shadow!Join,
     Second!Answer, Shadow!Answer, Second!LEVELS, Shadow!LEVELS
<1>3. CASE conv = <<>> /\ Shadow!Anonymous /\ root = shadow_next + 1
  BY <1>3 DEF Second!Resolves, Second!Anonymous, Shadow!Anonymous, Second!Answer,
     Shadow!Answer
<1>4. QED
  BY <1>1, <1>2, <1>3

\* A comparison is added at the end, and at most the oldest one goes.
LEMMA NoteFacts ==
  ASSUME NEW T, notes \in Seq(T), NEW lr, NEW sr,
         [live_root |-> lr, shadow_root |-> sr] \in T, Note(lr, sr)
  PROVE  /\ notes' \in Seq(T)
         /\ \E off \in {0, 1} : \A i \in DOMAIN notes' :
              \/ i + off = Len(notes) + 1 /\ notes'[i] = [live_root |-> lr, shadow_root |-> sr]
              \/ i + off \in DOMAIN notes /\ notes'[i] = notes[i + off]
<1> DEFINE new == [live_root |-> lr, shadow_root |-> sr]
           all == Append(notes, new)
<1>1. /\ all \in Seq(T) /\ Len(all) = Len(notes) + 1 /\ Len(notes) \in Nat
      /\ all[Len(notes) + 1] = new
      /\ \A i \in 1..Len(notes) : all[i] = notes[i]
  OBVIOUS
<1>2. PICK from \in {1, 2} : notes' = SubSeq(all, from, Len(all))
  BY DEF Note
<1> HIDE DEF all, new
<1>3. /\ notes' \in Seq(T)
      /\ \A i \in DOMAIN notes' : i + from - 1 \in 1..Len(all) /\ notes'[i] = all[i + from - 1]
  BY <1>1, <1>2
<1>4. from - 1 \in {0, 1}
  BY <1>2
<1>5. \A i \in DOMAIN notes' :
        \/ i + (from - 1) = Len(notes) + 1 /\ notes'[i] = new
        \/ i + (from - 1) \in DOMAIN notes /\ notes'[i] = notes[i + (from - 1)]
  <2>1. SUFFICES ASSUME NEW i \in DOMAIN notes'
                 PROVE  \/ i + (from - 1) = Len(notes) + 1 /\ notes'[i] = new
                        \/ i + (from - 1) \in DOMAIN notes /\ notes'[i] = notes[i + (from - 1)]
    OBVIOUS
  <2>2. i \in Int /\ i + (from - 1) = i + from - 1
    BY <1>2, <1>3
  <2>3. DOMAIN notes = 1..Len(notes)
    OBVIOUS
  <2>4. QED BY <1>1, <1>2, <1>3, <2>2, <2>3, SMTT(40)
<1>6. QED
  BY <1>3, <1>4, <1>5 DEF new

\* A task that has run is gone, and the others keep their order.
LEMMA RemoveFacts ==
  ASSUME NEW T, NEW s \in Seq(T), NEW k \in DOMAIN s
  PROVE  /\ RemoveAt(s, k) \in Seq(T)
         /\ \A i \in DOMAIN RemoveAt(s, k) :
              LET o == IF i < k THEN i ELSE i + 1
              IN  o \in DOMAIN s /\ o # k /\ RemoveAt(s, k)[i] = s[o]
<1>1. k \in 1..Len(s) /\ Len(s) \in Nat
  OBVIOUS
<1> DEFINE a == SubSeq(s, 1, k - 1)
           b == SubSeq(s, k + 1, Len(s))
<1>2. a \in Seq(T) /\ Len(a) = k - 1 /\ \A i \in 1..(k - 1) : a[i] = s[i]
  BY <1>1
<1>3. b \in Seq(T) /\ Len(b) = Len(s) - k /\ \A i \in 1..(Len(s) - k) : b[i] = s[i + k]
  BY <1>1
<1>4. RemoveAt(s, k) = a \o b
  BY DEF RemoveAt
<1> HIDE DEF a, b
<1>5. /\ a \o b \in Seq(T) /\ Len(a \o b) = Len(s) - 1
      /\ \A i \in 1..(k - 1) : (a \o b)[i] = a[i]
      /\ \A i \in k..(Len(s) - 1) : (a \o b)[i] = b[i - (k - 1)]
  <2>1. a \o b \in Seq(T) /\ Len(a \o b) = Len(a) + Len(b)
    BY <1>2, <1>3, ConcatProperties
  <2>2. \A i \in 1..(Len(a) + Len(b)) :
          (a \o b)[i] = IF i <= Len(a) THEN a[i] ELSE b[i - Len(a)]
    BY <1>2, <1>3, ConcatProperties
  <2> DEFINE c == a \o b
  <2>3. Len(a) = k - 1 /\ Len(b) = Len(s) - k
    BY <1>2, <1>3
  <2> HIDE DEF c
  <2>4. c \in Seq(T) /\ Len(c) = Len(s) - 1
    BY <1>1, <2>1, <2>3 DEF c
  <2>5. \A i \in 1..(Len(s) - 1) : c[i] = IF i <= k - 1 THEN a[i] ELSE b[i - (k - 1)]
    BY <1>1, <2>2, <2>3, SMTT(40) DEF c
  <2>6. \A i \in 1..(k - 1) : c[i] = a[i]
    BY <1>1, <2>5
  <2>7. \A i \in k..(Len(s) - 1) : c[i] = b[i - (k - 1)]
    BY <1>1, <2>5
  <2>8. QED BY <2>4, <2>6, <2>7 DEF c
<1>6. ASSUME NEW i \in 1..(Len(s) - 1)
      PROVE  LET o == IF i < k THEN i ELSE i + 1
             IN  o \in DOMAIN s /\ o # k /\ (a \o b)[i] = s[o]
  <2>1. CASE i < k
    BY <1>1, <1>2, <1>5, <2>1
  <2>2. CASE ~(i < k)
    <3>1. i - (k - 1) \in 1..(Len(s) - k) /\ i - (k - 1) + k = i + 1 /\ i \in k..(Len(s) - 1)
      BY <1>1, <2>2
    <3>2. (a \o b)[i] = s[i + 1]
      <4>1. b[i - (k - 1)] = s[i - (k - 1) + k]
        BY <1>3, <3>1
      <4>2. QED BY <1>5, <3>1, <4>1
    <3>3. i + 1 \in 1..Len(s) /\ i + 1 # k
      BY <1>1, <2>2
    <3>4. QED BY <2>2, <3>2, <3>3
  <2>3. QED BY <2>1, <2>2
<1>7. DOMAIN (a \o b) = 1..(Len(s) - 1)
  BY <1>5
<1>8. QED
  BY <1>4, <1>5, <1>6, <1>7

-----------------------------------------------------------------------------
LEMMA ShadowInitInv == ShadowInit => ShadowInv
<1>1. SUFFICES ASSUME ShadowInit PROVE ShadowInv
  OBVIOUS
<1>2. IndexInv
  BY <1>1, InitInv DEF ShadowInit
<1>3. Second!Init
  BY <1>1 DEF ShadowInit, Shadow!Init, Second!Init
<1>4. Second!IndexInv
  BY <1>3, SecondAssumption, Second!InitInv
<1>5. shadow_answers = {} /\ spawned = <<>> /\ notes = <<>>
  BY <1>1, <1>3 DEF ShadowInit, Second!Init
<1>6. QED
  BY <1>2, <1>4, <1>5 DEF ShadowInv, ShadowTypeOK, ShadowTracked, Spawned, Noted, TasksMeet,
     TaskMeetsNote, NotesMeet, NotesMeetInShadow

\* What a request does to the live index and what relay_inner goes on with.
LEMMA RequestFacts ==
  ASSUME ShadowInv, Request
  PROVE  \E conv, root : Resolves(conv, root) /\ Handled(conv, root)
<1>1. CASE \E conv \in Conversations : Open(conv) /\ Handled(conv, next + 1)
  BY <1>1 DEF Resolves
<1>2. CASE \E conv \in Conversations : \E n \in DOMAIN live : Join(conv, n) /\ Handled(conv, n)
  BY <1>2 DEF Resolves
<1>3. CASE Anonymous /\ Handled(<<>>, next + 1)
  BY <1>3 DEF Resolves
<1>4. QED
  BY <1>1, <1>2, <1>3 DEF Request

LEMMA RequestInv ==
  ASSUME ShadowInv, Request
  PROVE  ShadowInv'
<1> USE DEF ShadowInv
<1>1. PICK conv, root : Resolves(conv, root) /\ Handled(conv, root)
  BY RequestFacts
<1>2. /\ IndexInv' /\ conv \in Conversations \cup {<<>>} /\ root \in Nat
      /\ \/ \A a \in answers : a.root # root
         \/ conv \in Conversations /\ Key(conv) # None
  BY <1>1, ResolveFacts
<1>3. PICK sh : answers' = answers \cup {[conv |-> conv, root |-> root, shared |-> sh]}
  BY <1>1, ResolveFacts
<1> DEFINE new == [conv |-> conv, root |-> root, shared |-> sh]
<1>4. answers \subseteq answers' /\ new \in answers' /\ new.conv = conv /\ new.root = root
  BY <1>3
<1> HIDE DEF new
<1>5. /\ UNCHANGED <<shadow_live, shadow_next, shadow_answers, notes>>
      /\ spawned' = spawned \/ spawned' = Append(spawned, [conv |-> conv, root |-> root])
  BY <1>1 DEF Handled, shadowIndex
<1>6. Second!IndexInv' /\ ShadowTracked' /\ NotesMeetInShadow'
  BY <1>5 DEF ShadowTracked, NotesMeetInShadow, KeyedShadow, Key, Digest, Second!IndexInv,
     Second!TypeOK, Second!Sourced, Second!Keyed, Second!Separated, Second!Merged,
     Second!Tracked
<1>7. \A r : KeyedRoot(r) => KeyedRoot(r)'
  BY <1>4 DEF KeyedRoot, Key, Digest
<1>8. (\A a \in answers : a.root # root) \/ KeyedRoot(root)'
  BY <1>2, <1>4 DEF KeyedRoot, Key, Digest
<1>9. Noted' /\ NotesMeet'
  <2>1. Noted'
    BY <1>4, <1>5 DEF Noted
  <2>2. NotesMeet'
    BY <1>5, <1>7 DEF NotesMeet
  <2>3. QED BY <2>1, <2>2
<1>10. /\ spawned' \in Seq([conv : Conversations \cup {<<>>}, root : Nat])
       /\ \A i \in DOMAIN spawned' :
            \/ i \in DOMAIN spawned /\ spawned'[i] = spawned[i]
            \/ /\ i \notin DOMAIN spawned /\ i = Len(spawned) + 1
               /\ spawned'[i] = [conv |-> conv, root |-> root]
  <2> DEFINE T == [conv : Conversations \cup {<<>>}, root : Nat]
             task == [conv |-> conv, root |-> root]
  <2>1. task \in T /\ spawned \in Seq(T)
    BY <1>2 DEF ShadowTypeOK
  <2> HIDE DEF T, task
  <2>2. CASE spawned' = spawned
    BY <2>1, <2>2 DEF T
  <2>3. CASE spawned' = Append(spawned, task)
    <3>1. /\ spawned' \in Seq(T) /\ Len(spawned') = Len(spawned) + 1 /\ Len(spawned) \in Nat
          /\ \A i \in 1..Len(spawned) : spawned'[i] = spawned[i]
          /\ spawned'[Len(spawned) + 1] = task
      BY <2>1, <2>3, AppendProperties, LenProperties
    <3>2. DOMAIN spawned = 1..Len(spawned) /\ DOMAIN spawned' = 1..(Len(spawned) + 1)
      BY <2>1, <3>1, LenProperties
    <3>3. \A i \in DOMAIN spawned' :
            i \in DOMAIN spawned \/ (i \notin DOMAIN spawned /\ i = Len(spawned) + 1)
      BY <3>1, <3>2
    <3>4. QED BY <3>1, <3>2, <3>3 DEF T, task
  <2>4. QED BY <1>5, <2>2, <2>3 DEF task
<1>11. \A i \in DOMAIN spawned : \E a \in answers : a.root = spawned[i].root
  BY DEF Spawned
<1>12. \A j \in DOMAIN notes : \E a \in answers : a.root = notes[j].live_root
  BY DEF Noted
<1>13. Spawned'
  BY <1>4, <1>10 DEF Spawned
<1>14. TasksMeet'
  BY <1>7, <1>8, <1>10, <1>11, SMTT(40) DEF TasksMeet
<1>15. TaskMeetsNote'
  BY <1>5, <1>7, <1>8, <1>10, <1>12, SMTT(40) DEF TaskMeetsNote
<1>16. ShadowTypeOK'
  BY <1>5, <1>10 DEF ShadowTypeOK
<1>17. QED
  BY <1>2, <1>6, <1>9, <1>13, <1>14, <1>15, <1>16

LEMMA SpawnedType ==
  ASSUME ShadowTypeOK, NEW k \in DOMAIN spawned
  PROVE  spawned[k].conv \in Conversations \cup {<<>>} /\ spawned[k].root \in Nat
<1>1. spawned[k] \in [conv : Conversations \cup {<<>>}, root : Nat]
  BY LenProperties, ZenonT(60) DEF ShadowTypeOK
<1>2. QED
  BY <1>1

\* What a shadow task does: the second index resolves the conversation again,
\* and the two answers become a comparison.
LEMMA ObserveFacts ==
  ASSUME ShadowInv, NEW k \in DOMAIN spawned, Observe(k)
  PROVE  \E root : /\ Second!Resolves(spawned[k].conv, root)
                   /\ Note(spawned[k].root, root)
                   /\ spawned' = RemoveAt(spawned, k)
                   /\ UNCHANGED vars
<1> DEFINE conv == spawned[k].conv
<1>1. conv \in Conversations \cup {<<>>}
  BY SpawnedType DEF ShadowInv
<1>2. \E root : /\ \/ conv # <<>> /\ Shadow!Open(conv) /\ root = shadow_next + 1
                   \/ conv # <<>> /\ root \in DOMAIN shadow_live /\ Shadow!Join(conv, root)
                   \/ conv = <<>> /\ Shadow!Anonymous /\ root = shadow_next + 1
                /\ Note(spawned[k].root, root)
  <2>1. CASE conv # <<>> /\ Shadow!Open(conv) /\ Note(spawned[k].root, shadow_next + 1)
    BY <2>1
  <2>2. CASE \E n \in DOMAIN shadow_live :
               conv # <<>> /\ Shadow!Join(conv, n) /\ Note(spawned[k].root, n)
    BY <2>2
  <2>3. CASE conv = <<>> /\ Shadow!Anonymous /\ Note(spawned[k].root, shadow_next + 1)
    BY <2>3
  <2>4. QED BY <2>1, <2>2, <2>3 DEF Observe
<1>3. \E root : Second!Resolves(conv, root) /\ Note(spawned[k].root, root)
  <2> HIDE DEF conv
  <2>1. QED BY <1>1, <1>2, ShadowResolves
<1>4. spawned' = RemoveAt(spawned, k) /\ UNCHANGED vars
  BY DEF Observe
<1>5. QED
  BY <1>3, <1>4

LEMMA ObserveInv ==
  ASSUME ShadowInv, NEW k \in DOMAIN spawned, Observe(k)
  PROVE  ShadowInv'
<1> USE DEF ShadowInv
<1> DEFINE conv == spawned[k].conv
           lr   == spawned[k].root
<1>1. PICK root : /\ Second!Resolves(conv, root) /\ Note(lr, root)
                  /\ spawned' = RemoveAt(spawned, k) /\ UNCHANGED vars
  BY ObserveFacts
<1>2. live' = live /\ next' = next /\ answers' = answers
  BY <1>1 DEF vars
<1>3. conv \in Conversations \cup {<<>>} /\ lr \in Nat
  BY SpawnedType
<1>4. \E a \in answers : a.conv = conv /\ a.root = lr
  BY DEF Spawned
<1>5. /\ Second!IndexInv' /\ root \in Nat
      /\ DOMAIN shadow_live \subseteq DOMAIN shadow_live'
      /\ conv \in Conversations => root \in DOMAIN shadow_live'
      /\ \/ \A b \in shadow_answers : b.root # root
         \/ conv \in Conversations /\ Key(conv) # None
  <2> HIDE DEF conv
  <2>1. QED BY <1>1, SecondAssumption, Second!ResolveFacts, SameDigest
<1>6. PICK sh : shadow_answers' = shadow_answers \cup
                  {[conv |-> conv, root |-> root, shared |-> sh]}
  <2> HIDE DEF conv
  <2>1. QED BY <1>1, SecondAssumption, Second!ResolveFacts
<1> DEFINE new == [conv |-> conv, root |-> root, shared |-> sh]
<1>7. /\ shadow_answers \subseteq shadow_answers' /\ new \in shadow_answers'
      /\ new.conv = conv /\ new.root = root
      /\ \A b \in shadow_answers' : b \in shadow_answers \/ b = new
  BY <1>6
<1> HIDE DEF new, conv, lr
<1>8. IndexInv'
  BY <1>2 DEF IndexInv, TypeOK, Sourced, Keyed, Separated, Merged, Tracked, Key
<1>9. ShadowTracked'
  BY <1>5, <1>7 DEF ShadowTracked
<1>10. \A r : KeyedRoot(r)' <=> KeyedRoot(r)
  BY <1>2 DEF KeyedRoot, Key, Digest
<1>11. \A r : KeyedShadow(r) => KeyedShadow(r)'
  BY <1>7 DEF KeyedShadow, Key, Digest
<1>12. (\A b \in shadow_answers : b.root # root) \/ KeyedShadow(root)'
  BY <1>5, <1>7 DEF KeyedShadow, Key, Digest
<1> DEFINE T == [live_root : Nat, shadow_root : Nat]
           note == [live_root |-> lr, shadow_root |-> root]
           U == [conv : Conversations \cup {<<>>}, root : Nat]
<1>13. note \in T /\ note.live_root = lr /\ note.shadow_root = root
  BY <1>3, <1>5
<1>14. notes \in Seq(T) /\ spawned \in Seq(U)
  BY DEF ShadowTypeOK
<1> HIDE DEF T, note, U
<1>15. /\ notes' \in Seq(T)
       /\ \E off \in {0, 1} : \A i \in DOMAIN notes' :
            \/ i + off = Len(notes) + 1 /\ notes'[i] = note
            \/ i + off \in DOMAIN notes /\ notes'[i] = notes[i + off]
  BY <1>1, <1>13, <1>14, NoteFacts, SMTT(40) DEF note
<1>16. PICK off \in {0, 1} : \A i \in DOMAIN notes' :
            \/ i + off = Len(notes) + 1 /\ notes'[i] = note
            \/ i + off \in DOMAIN notes /\ notes'[i] = notes[i + off]
  BY <1>15
<1>17. \A i, j \in DOMAIN notes' : i + off = j + off => i = j
  <2>1. \A i \in DOMAIN notes' : i \in Nat
    BY <1>15, LenProperties
  <2>2. QED BY <1>16, <2>1
<1>18. /\ spawned' \in Seq(U)
       /\ \A i \in DOMAIN spawned' :
            LET o == IF i < k THEN i ELSE i + 1
            IN  o \in DOMAIN spawned /\ o # k /\ spawned'[i] = spawned[o]
  BY <1>1, <1>14, RemoveFacts
<1> DEFINE Old(i) == IF i < k THEN i ELSE i + 1
<1>19. /\ \A i \in DOMAIN spawned' : Old(i) \in DOMAIN spawned /\ Old(i) # k
                                      /\ spawned'[i] = spawned[Old(i)]
       /\ \A i, j \in DOMAIN spawned' : Old(i) = Old(j) => i = j
  <2>1. \A i \in DOMAIN spawned' : i \in Nat
    BY <1>18, LenProperties
  <2>2. k \in Nat
    BY <1>14, LenProperties
  <2>3. QED BY <1>18, <2>1, <2>2
<1> HIDE DEF Old
<1>20. ShadowTypeOK'
  BY <1>15, <1>18 DEF ShadowTypeOK, T, U
<1>21. Spawned'
  BY <1>2, <1>19 DEF Spawned
<1>22. Noted'
  BY <1>2, <1>4, <1>7, <1>13, <1>16 DEF Noted
<1>23. TasksMeet'
  BY <1>10, <1>19 DEF TasksMeet
<1>24. TaskMeetsNote'
  <2>1. SUFFICES ASSUME NEW i \in DOMAIN spawned', NEW j \in DOMAIN notes',
                        spawned'[i].root = notes'[j].live_root
                 PROVE  KeyedRoot(spawned'[i].root)
    BY <1>10 DEF TaskMeetsNote
  <2>2. CASE notes'[j] = note
    <3>1. spawned[Old(i)].root = spawned[k].root /\ Old(i) \in DOMAIN spawned /\ Old(i) # k
      BY <1>13, <1>19, <2>1, <2>2 DEF lr
    <3>2. QED BY <1>19, <3>1 DEF TasksMeet
  <2>3. CASE j + off \in DOMAIN notes /\ notes'[j] = notes[j + off]
    BY <1>19, <2>1, <2>3 DEF TaskMeetsNote
  <2>4. QED BY <1>16, <2>2, <2>3
<1>25. NotesMeet'
  <2>1. SUFFICES ASSUME NEW i \in DOMAIN notes', NEW j \in DOMAIN notes', i # j,
                        NEW r, notes'[i].live_root = r, notes'[j].live_root = r
                 PROVE  KeyedRoot(r)
    BY <1>10 DEF NotesMeet
  <2>2. \A m \in DOMAIN notes : notes[m].live_root = lr => KeyedRoot(lr)
    BY DEF TaskMeetsNote, lr
  <2>3. i + off # j + off
    BY <1>17, <2>1
  <2>4. CASE r = lr
    <3>1. \/ i + off \in DOMAIN notes /\ notes[i + off].live_root = lr
          \/ j + off \in DOMAIN notes /\ notes[j + off].live_root = lr
      BY <1>16, <2>1, <2>3, <2>4
    <3>2. QED BY <2>2, <2>4, <3>1
  <2>5. CASE r # lr
    <3>1. /\ i + off \in DOMAIN notes /\ notes[i + off].live_root = r
          /\ j + off \in DOMAIN notes /\ notes[j + off].live_root = r
      BY <1>13, <1>16, <2>1, <2>5
    <3>2. QED BY <2>3, <3>1 DEF NotesMeet
  <2>6. QED BY <2>4, <2>5
<1>26. NotesMeetInShadow'
  <2>1. SUFFICES ASSUME NEW i \in DOMAIN notes', NEW j \in DOMAIN notes', i # j,
                        NEW r, notes'[i].shadow_root = r, notes'[j].shadow_root = r
                 PROVE  KeyedShadow(r)'
    BY DEF NotesMeetInShadow, KeyedShadow
  <2>2. \A m \in DOMAIN notes : notes[m].shadow_root = root => KeyedShadow(root)'
    BY <1>12 DEF Noted
  <2>3. i + off # j + off
    BY <1>17, <2>1
  <2>4. \A m, n \in DOMAIN notes :
          m # n /\ notes[m].shadow_root = r /\ notes[n].shadow_root = r => KeyedShadow(r)'
    BY <1>11 DEF NotesMeetInShadow
  <2>5. CASE r = root
    <3>1. \/ i + off \in DOMAIN notes /\ notes[i + off].shadow_root = root
          \/ j + off \in DOMAIN notes /\ notes[j + off].shadow_root = root
      BY <1>16, <2>1, <2>3, <2>5
    <3>2. QED BY <2>2, <2>5, <3>1
  <2>6. CASE r # root
    <3>1. /\ i + off \in DOMAIN notes /\ notes[i + off].shadow_root = r
          /\ j + off \in DOMAIN notes /\ notes[j + off].shadow_root = r
      BY <1>13, <1>16, <2>1, <2>6
    <3>2. QED BY <2>3, <2>4, <3>1
  <2>7. QED BY <2>5, <2>6
<1>27. QED
  BY <1>5, <1>8, <1>9, <1>20, <1>21, <1>22, <1>23, <1>24, <1>25, <1>26

LEMMA ShadowStepInv == ShadowInv /\ [ShadowNext]_shadowVars => ShadowInv'
<1>1. SUFFICES ASSUME ShadowInv, [ShadowNext]_shadowVars PROVE ShadowInv'
  OBVIOUS
<1>2. CASE Request
  BY <1>1, <1>2, RequestInv
<1>3. CASE \E k \in DOMAIN spawned : Observe(k)
  BY <1>1, <1>3, ObserveInv
<1>4. ASSUME IndexInv', answers' = answers, UNCHANGED <<shadowIndex, spawned, notes>>
      PROVE  ShadowInv'
  <2>1. UNCHANGED <<shadow_live, shadow_next, shadow_answers, spawned, notes>>
    BY <1>4 DEF shadowIndex
  <2>2. Second!IndexInv'
    BY <1>1, <2>1 DEF ShadowInv, Second!IndexInv, Second!TypeOK, Second!Sourced,
       Second!Keyed, Second!Separated, Second!Merged, Second!Tracked
  <2>3. ShadowTypeOK' /\ ShadowTracked' /\ Spawned' /\ Noted'
    BY <1>1, <1>4, <2>1 DEF ShadowInv, ShadowTypeOK, ShadowTracked, Spawned, Noted
  <2>4. TasksMeet' /\ TaskMeetsNote' /\ NotesMeet' /\ NotesMeetInShadow'
    BY <1>1, <1>4, <2>1 DEF ShadowInv, TasksMeet, TaskMeetsNote, NotesMeet,
       NotesMeetInShadow, KeyedRoot, KeyedShadow, Key
  <2>5. QED BY <1>4, <2>2, <2>3, <2>4 DEF ShadowInv
<1>5. CASE (Retain \/ Full) /\ UNCHANGED <<shadowIndex, spawned, notes>>
  <2>1. IndexInv'
    BY <1>1, <1>5, NextInv DEF Next, ShadowInv
  <2>2. answers' = answers
    BY <1>5 DEF Retain, Full, vars
  <2>3. QED BY <1>4, <1>5, <2>1, <2>2
<1>6. CASE UNCHANGED shadowVars
  <2>1. UNCHANGED vars /\ UNCHANGED <<shadowIndex, spawned, notes>>
    BY <1>6 DEF shadowVars
  <2>2. IndexInv'
    BY <1>1, <2>1, NextInv DEF ShadowInv
  <2>3. answers' = answers
    BY <2>1 DEF vars
  <2>4. QED BY <1>4, <2>1, <2>2, <2>3
<1>7. QED
  BY <1>1, <1>2, <1>3, <1>5, <1>6 DEF ShadowNext

\* The strengthened invariant of the two indexes, their waiting tasks and the
\* comparisons kept holds of every reachable state.
THEOREM ShadowInvariant == ShadowSpec => []ShadowInv
<1>1. ShadowInit => ShadowInv
  BY ShadowInitInv
<1>2. ShadowInv /\ [ShadowNext]_shadowVars => ShadowInv'
  BY ShadowStepInv
<1>3. QED
  BY <1>1, <1>2, PTL DEF ShadowSpec

\* The shadow index of observe_request partitions requests as the live one does,
\* for any number of requests, denied or not, and any order of the tasks.
THEOREM ShadowAgrees == ShadowSpec => []SamePartition
<1>1. ShadowInv => SamePartition
  <2>1. SUFFICES ASSUME ShadowInv, NEW i \in DOMAIN notes, NEW j \in DOMAIN notes, i # j
                 PROVE  /\ notes[i].live_root = notes[j].live_root
                             => notes[i].shadow_root = notes[j].shadow_root
                        /\ notes[i].shadow_root = notes[j].shadow_root =>
                             \/ notes[i].live_root = notes[j].live_root
                             \/ /\ Retaining
                                /\ ~({notes[i].live_root, notes[j].live_root} \subseteq DOMAIN live)
    BY DEF SamePartition
  <2> USE DEF ShadowInv
  <2>2. PICK a \in answers, c \in shadow_answers :
          a.conv = c.conv /\ a.root = notes[i].live_root /\ c.root = notes[i].shadow_root
    BY <2>1 DEF Noted
  <2>3. PICK b \in answers, d \in shadow_answers :
          b.conv = d.conv /\ b.root = notes[j].live_root /\ d.root = notes[j].shadow_root
    BY <2>1 DEF Noted
  <2>4. ASSUME a.conv \in Conversations, b.conv \in Conversations,
               Key(a.conv) = Key(b.conv), Key(a.conv) # None
        PROVE  /\ c.root = d.root
               /\ a.root = b.root \/ (Retaining /\ ~({a.root, b.root} \subseteq DOMAIN live))
    <3>1. c.root \in DOMAIN shadow_live /\ d.root \in DOMAIN shadow_live
      BY <2>1, <2>2, <2>3, <2>4 DEF ShadowTracked
    <3>2. /\ shadow_live[c.root].digest[MinLevel] = Key(a.conv)
          /\ shadow_live[d.root].digest[MinLevel] = Key(b.conv)
      BY <2>1, <2>2, <2>3, <3>1, SameDigest DEF Second!IndexInv, Second!Keyed
    <3>3. c.root = d.root
      BY <2>1, <2>4, <3>1, <3>2 DEF Second!IndexInv, Second!Separated
    <3>4. {a.root, b.root} \subseteq DOMAIN live => a.root = b.root
      BY <2>1, <2>4 DEF IndexInv, Keyed, Separated
    <3>5. ~Retaining => {a.root, b.root} \subseteq DOMAIN live
      BY <2>1, <2>4 DEF IndexInv, Tracked
    <3>6. QED BY <3>3, <3>4, <3>5, IndexAssumption
  <2>5. CASE notes[i].live_root = notes[j].live_root
    <3>1. PICK e \in answers : e.root = a.root /\ e.conv \in Conversations /\ Key(e.conv) # None
      BY <2>1, <2>2, <2>5 DEF NotesMeet, KeyedRoot
    <3>2. /\ a.conv \in Conversations /\ Key(a.conv) = Key(e.conv)
          /\ b.conv \in Conversations /\ Key(b.conv) = Key(e.conv)
      BY <2>1, <2>2, <2>3, <2>5, <3>1 DEF IndexInv, Merged
    <3>3. QED BY <2>2, <2>3, <2>4, <2>5, <3>1, <3>2
  <2>6. CASE notes[i].shadow_root = notes[j].shadow_root
    <3>1. PICK e \in shadow_answers :
            e.root = c.root /\ e.conv \in Conversations /\ Key(e.conv) # None
      BY <2>1, <2>2, <2>6 DEF NotesMeetInShadow, KeyedShadow
    <3>2. /\ c.conv \in Conversations /\ Key(c.conv) = Key(e.conv)
          /\ d.conv \in Conversations /\ Key(d.conv) = Key(e.conv)
      BY <2>1, <2>2, <2>3, <2>6, <3>1, SameDigest DEF Second!IndexInv, Second!Merged
    <3>3. QED BY <2>2, <2>3, <2>4, <2>6, <3>1, <3>2
  <2>7. QED BY <2>5, <2>6
<1>2. QED
  BY <1>1, ShadowInvariant, PTL

\* The shadow never touches what it shadows: beside it the live index still
\* behaves as SessionIndex, so every theorem about that specification holds of
\* this one.
THEOREM LiveIndexIsUntouched == ShadowSpec => Spec
<1>1. ShadowInit => Init
  BY DEF ShadowInit
<1>2. [ShadowNext]_shadowVars => [Next]_vars
  <2>1. Request => Resolve
    BY DEF Request, Resolve
  <2>2. \A k \in DOMAIN spawned : Observe(k) => UNCHANGED vars
    BY DEF Observe
  <2>3. UNCHANGED shadowVars => UNCHANGED vars
    BY DEF shadowVars
  <2>4. QED BY <2>1, <2>2, <2>3 DEF ShadowNext, Next
<1>3. QED
  BY <1>1, <1>2, PTL DEF ShadowSpec, Spec
=============================================================================
