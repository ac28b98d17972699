------------------------------ MODULE Sessions ------------------------------
(***************************************************************************)
(* What the session index promises: conversations are told apart by their  *)
(* opening, the first Depth messages, and by nothing else.  Requests that  *)
(* share an opening are one session; a conversation too short to have one, *)
(* or a body without messages, is a session of its own.                    *)
(***************************************************************************)
EXTENDS Integers, Sequences

CONSTANTS Conversations,  \* the message lists requests carry
          Depth,          \* how many messages make an opening
          Retaining       \* whether sessions may be dropped

VARIABLES owner,    \* opening -> number of its session
          next,     \* the last session number given out
          answers   \* history: [conv, root] of every answer given

absVars == <<owner, next, answers>>

Opening(conv) == SubSeq(conv, 1, Depth)
HasOpening(conv) == Len(conv) >= Depth

AbsInit == owner = <<>> /\ next = 0 /\ answers = {}

Answered(conv, root) == answers' = answers \cup {[conv |-> conv, root |-> root]}

\* A known opening.
Continue(conv) ==
  /\ HasOpening(conv) /\ Opening(conv) \in DOMAIN owner
  /\ Answered(conv, owner[Opening(conv)])
  /\ UNCHANGED <<owner, next>>

\* An opening not seen before.
Start(conv) ==
  /\ HasOpening(conv) /\ Opening(conv) \notin DOMAIN owner
  /\ next' = next + 1
  /\ owner' = [o \in DOMAIN owner \cup {Opening(conv)} |->
                 IF o = Opening(conv) THEN next + 1 ELSE owner[o]]
  /\ Answered(conv, next + 1)

\* No opening: a new number, and nothing to find it by.
Single(conv) ==
  /\ ~HasOpening(conv)
  /\ next' = next + 1
  /\ Answered(conv, next + 1)
  /\ UNCHANGED owner

Forget ==
  /\ Retaining
  /\ \E kept \in SUBSET DOMAIN owner : owner' = [o \in kept |-> owner[o]]
  /\ UNCHANGED <<next, answers>>

AbsNext ==
  \/ \E conv \in Conversations \cup {<<>>} :
       Continue(conv) \/ Start(conv) \/ Single(conv)
  \/ Forget

AbsSpec == AbsInit /\ [][AbsNext]_absVars
=============================================================================
