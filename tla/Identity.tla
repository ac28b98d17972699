------------------------------ MODULE Identity ------------------------------
(***************************************************************************)
(* Identity that agents declare, crates/tailfin-ident: from the headers of *)
(* a request to its place in a task tree.  A header that is absent, is not *)
(* text or does not scrape is None.  Stateless: a declared request never   *)
(* touches the session index.                                              *)
(***************************************************************************)
CONSTANT None

Or(x, y) == IF x # None THEN x ELSE y

\* A request's headers: claude = x-claude-code-{session,agent,parent-agent}-id,
\* codex = the fields of x-codex-turn-metadata.
Headers(claude, codex) == [claude |-> claude, codex |-> codex]
NoClaude == [session |-> None, agent |-> None, parent |-> None]
NoCodex == [root_turn |-> None, session |-> None, turn |-> None, parent_turn |-> None]

\* from_headers: Claude Code's session header wins; a Codex blob counts when it
\* names a root turn or at least a session.
FromHeaders(h) ==
  LET codexRoot == Or(h.codex.root_turn, h.codex.session)
  IN  IF h.claude.session # None
      THEN [session |-> h.claude.session, node |-> h.claude.agent,
            parent |-> h.claude.parent]
      ELSE IF codexRoot # None
      THEN [session |-> codexRoot, node |-> h.codex.turn,
            parent |-> h.codex.parent_turn]
      ELSE None

\* The declared branch of SessionIndex::resolve: a subagent without a declared
\* parent hangs below the session.
DeclaredRef(src) ==
  [root   |-> src.session,
   node   |-> Or(src.node, src.session),
   parent |-> Or(src.parent, IF src.node # None THEN src.session ELSE None)]
=============================================================================
