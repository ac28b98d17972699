---------------------------- MODULE MCLedgerFile ----------------------------
(* Instances of LedgerFile for TLC. *)
EXTENDS LedgerFile, TLC

CONSTANTS s, x, z

I == INSTANCE Identity

Claude(agent, parent) ==
  I!DeclaredRef(I!FromHeaders(I!Headers(
    [session |-> s, agent |-> agent, parent |-> parent], I!NoCodex)))

\* A session, a subagent of it, and a subagent of that one.
Nested == {Claude(None, None), Claude(x, None), Claude(z, x)}

Endings == {[usage |-> 2, incomplete |-> FALSE], [usage |-> 3, incomplete |-> TRUE]}

ProcSymmetry == Permutations(Procs)
=============================================================================
