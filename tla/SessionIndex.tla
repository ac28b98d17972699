---------------------------- MODULE SessionIndex ----------------------------
(***************************************************************************)
(* Prefix inference, crates/tailfin-ident: how a request that declares no  *)
(* identity is attached to a conversation already seen.  The proxy keeps   *)
(* the index behind a mutex and calls `resolve` once per request, so one   *)
(* call is one step.                                                       *)
(*                                                                         *)
(* A conversation is a non-empty list of canonical messages.  FNV-1a is    *)
(* taken to be injective on them, so a digest level holds the prefix it    *)
(* hashes.  `live` is a Vec to which sessions are pushed as they are       *)
(* numbered and from which retain removes without reordering: here a       *)
(* function on the numbers, whose order is the order of the Vec.           *)
(***************************************************************************)
EXTENDS Integers, Sequences, FiniteSets

CONSTANTS
  None,
  Messages,       \* canonical messages
  Conversations,  \* what messages_from_body finds in request bodies
  MinLevel,       \* min_level_idx, counted from 1 (the proxy uses LEVELS[2])
  Retaining,      \* whether retain is called (the proxy never does)
  MaxAnswers      \* bound on the history

LEVELS == <<1, 2, 4, 8, 16, 32>>
NumLevels == 6
Level == 1..NumLevels

ASSUME IndexAssumption ==
  /\ Conversations \subseteq Seq(Messages) \ {<<>>}
  /\ \A conv \in Conversations : \A d \in 1..Len(conv) : SubSeq(conv, 1, d) # None
  /\ MinLevel \in Level
  /\ Retaining \in BOOLEAN
  /\ MaxAnswers \in Nat

VARIABLES
  live,     \* session number -> [digest, depth_seen]
  next,     \* the last number given out
  answers   \* history: [conv, root, shared] of every answer given

vars == <<live, next, answers>>

-----------------------------------------------------------------------------
\* PrefixDigest::from_messages.
Digest(conv) ==
  [l \in Level |-> IF Len(conv) >= LEVELS[l] THEN SubSeq(conv, 1, LEVELS[l])
                   ELSE None]

\* Mutant of AgreeUpTo: two conversations too short for a level agree on it.
AgreeOnNothing(d, e, l) == \A i \in 1..l : d[i] = e[i]

AgreeUpTo(d, e, l) == \A i \in 1..l : d[i] # None /\ d[i] = e[i]

\* PrefixDigest::match_level: the deepest level up to which all agree; 0 is
\* Option::None.
MatchLevel(d, e) ==
  CHOOSE l \in 0..NumLevels :
    AgreeUpTo(d, e, l) /\ (l < NumLevels => ~AgreeUpTo(d, e, l + 1))

\* Mutant of Matching: the minimum level itself is not enough.
MatchingAbove(d) == {n \in DOMAIN live : MatchLevel(live[n].digest, d) > MinLevel}

Matching(d) == {n \in DOMAIN live : MatchLevel(live[n].digest, d) >= MinLevel}

\* The scan of `live` keeps the first session of the deepest level.
IsBest(n, d) ==
  /\ n \in Matching(d)
  /\ \A m \in Matching(d) :
       LET lm == MatchLevel(live[m].digest, d)
           ln == MatchLevel(live[n].digest, d)
       IN  lm < ln \/ (lm = ln /\ n <= m)

Answer(conv, root, shared) ==
  answers' = answers \cup {[conv |-> conv, root |-> root, shared |-> shared]}

-----------------------------------------------------------------------------
Init == live = <<>> /\ next = 0 /\ answers = {}

\* Mutant of Join: the depth claimed is that of the next level.
JoinDeeper(conv, n) ==
  LET d      == Digest(conv)
      level  == MatchLevel(live[n].digest, d)
      shared == LEVELS[IF level < NumLevels THEN level + 1 ELSE level]
  IN  /\ IsBest(n, d)
      /\ live' = IF shared > live[n].depth_seen
                 THEN [live EXCEPT ![n] = [digest |-> d, depth_seen |-> shared]]
                 ELSE live
      /\ Answer(conv, n, shared)
      /\ UNCHANGED next

\* resolve finds a session.  Its digest is replaced when the two share more
\* than was ever shared before.
Join(conv, n) ==
  LET d      == Digest(conv)
      shared == LEVELS[MatchLevel(live[n].digest, d)]
  IN  /\ IsBest(n, d)
      /\ live' = IF shared > live[n].depth_seen
                 THEN [live EXCEPT ![n] = [digest |-> d, depth_seen |-> shared]]
                 ELSE live
      /\ Answer(conv, n, shared)
      /\ UNCHANGED next

\* Mutants of Open: the number is not used up, or no session is looked for.
OpenReusesNumber(conv) ==
  /\ Matching(Digest(conv)) = {}
  /\ live' = [n \in DOMAIN live \cup {next + 1} |->
                IF n = next + 1 THEN [digest |-> Digest(conv), depth_seen |-> 0]
                ELSE live[n]]
  /\ Answer(conv, next + 1, 0)
  /\ UNCHANGED next

OpenAlways(conv) ==
  /\ next' = next + 1
  /\ live' = [n \in DOMAIN live \cup {next + 1} |->
                IF n = next + 1 THEN [digest |-> Digest(conv), depth_seen |-> 0]
                ELSE live[n]]
  /\ Answer(conv, next + 1, 0)

\* resolve finds none and opens one.
Open(conv) ==
  LET d == Digest(conv)
  IN  /\ Matching(d) = {}
      /\ next' = next + 1
      /\ live' = [n \in DOMAIN live \cup {next + 1} |->
                    IF n = next + 1 THEN [digest |-> d, depth_seen |-> 0]
                    ELSE live[n]]
      /\ Answer(conv, next + 1, 0)

\* Mutant of Anonymous: the number is not used up.
AnonymousReusesNumber == Answer(<<>>, next + 1, 0) /\ UNCHANGED <<live, next>>

\* No messages in the body: a number of its own, no session.
Anonymous ==
  /\ next' = next + 1
  /\ Answer(<<>>, next + 1, 0)
  /\ UNCHANGED live

Resolve ==
  /\ Cardinality(answers) < MaxAnswers
  /\ \/ \E conv \in Conversations : Open(conv) \/ \E n \in DOMAIN live : Join(conv, n)
     \/ Anonymous

\* Sessions not seen recently are dropped.
Retain ==
  /\ Retaining
  /\ \E kept \in SUBSET DOMAIN live : live' = [n \in kept |-> live[n]]
  /\ UNCHANGED <<next, answers>>

\* The bound on the history is reached.
Full == Cardinality(answers) = MaxAnswers /\ UNCHANGED vars

Next == Resolve \/ Retain \/ Full

Spec == Init /\ [][Next]_vars

-----------------------------------------------------------------------------
Digests == {Digest(conv) : conv \in Conversations}

\* Type invariant: sessions are numbered up to `next`, and hold the digest of
\* some conversation.
TypeOK ==
  /\ next \in Nat
  /\ DOMAIN live \subseteq 1..next
  /\ live \in [DOMAIN live -> [digest : Digests, depth_seen : Nat]]
  /\ answers \subseteq [conv : Conversations \cup {<<>>}, root : 1..next, shared : Nat]

Depth == LEVELS[MinLevel]
HasOpening(conv) == Len(conv) >= Depth
Opening(conv) == SubSeq(conv, 1, Depth)

\* No false merge (resolve, the digest swap included): two requests attributed
\* to one session start with the same Depth messages; one too short for that
\* shares its session with nobody.
NoFalseMerge ==
  \A a, b \in answers :
    a.root = b.root =>
      \/ a = b
      \/ HasOpening(a.conv) /\ HasOpening(b.conv) /\ Opening(a.conv) = Opening(b.conv)

\* No false split: two requests that start with the same Depth messages are
\* attributed to one session, whatever was resolved in between and however the
\* stored digest changed; where sessions are dropped, they are never two that
\* are both live.
NoFalseSplit ==
  \A a, b \in answers :
    HasOpening(a.conv) /\ HasOpening(b.conv) /\ Opening(a.conv) = Opening(b.conv)
      => a.root = b.root \/ (Retaining /\ ~({a.root, b.root} \subseteq DOMAIN live))

\* The scan never has to choose: at most one live session reaches the minimum
\* level with any conversation.
OneCandidate ==
  \A conv \in Conversations : Cardinality(Matching(Digest(conv))) <= 1

\* IdentitySource::Inferred { shared_depth }: the depth a request is answered
\* with, which becomes its confidence, is a prefix it really shares with an
\* earlier request of the session.
SharedDepthIsHonest ==
  [][\A a \in answers' \ answers :
       a.shared > 0 =>
         \E b \in answers :
           /\ b.root = a.root
           /\ Len(a.conv) >= a.shared /\ Len(b.conv) >= a.shared
           /\ SubSeq(a.conv, 1, a.shared) = SubSeq(b.conv, 1, a.shared)]_vars

\* The index implements Sessions: a session is found by its opening alone.
Abstract == INSTANCE Sessions WITH
  owner   <- [o \in {live[n].digest[MinLevel] : n \in DOMAIN live} \ {None} |->
                CHOOSE n \in DOMAIN live : live[n].digest[MinLevel] = o],
  answers <- {[conv |-> a.conv, root |-> a.root] : a \in answers}
ImplementsSessions == Abstract!AbsSpec
=============================================================================
