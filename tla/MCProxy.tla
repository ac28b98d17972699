------------------------------ MODULE MCProxy -------------------------------
(***************************************************************************)
(* Instances of Proxy for TLC.  Requests carry the headers of Claude Code  *)
(* or of Codex, and resolve to tree positions as module Identity has it.   *)
(***************************************************************************)
EXTENDS Proxy, TLC

CONSTANTS r1, r2, r3, r4, s, x, y, z

I == INSTANCE Identity

Claude(session, agent, parent) ==
  I!DeclaredRef(I!FromHeaders(I!Headers(
    [session |-> session, agent |-> agent, parent |-> parent], I!NoCodex)))

Codex(root, turn, parent) ==
  I!DeclaredRef(I!FromHeaders(I!Headers(I!NoClaude,
    [root_turn |-> root, session |-> None, turn |-> turn, parent_turn |-> parent])))

\* A session s with its main thread and subagents, nested or side by side; and
\* a Codex task s with a second turn y.
MainOnly   == {Claude(s, None, None)}
MainAndX   == MainOnly \cup {Claude(s, x, None)}
Wide       == MainAndX \cup {Claude(s, y, None), Claude(s, z, x)}
Subagents  == Wide \ MainOnly
Turns      == {Codex(s, s, None), Codex(s, y, s)}

ThreeQuarters == [num |-> 3, den |-> 4]

\* Every start with an http upstream, or https after a restart.
Http == [k \in 0..MaxRestarts |-> "http"]
HttpThenHttps == [k \in 0..MaxRestarts |-> IF k = 0 THEN "http" ELSE "https"]

ASSUME RefsAssumption == CoherentRefs /\ OneParent

ReqSymmetry == Permutations(Reqs)
=============================================================================
