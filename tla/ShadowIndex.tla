----------------------------- MODULE ShadowIndex ----------------------------
(***************************************************************************)
(* The shadow index of the proxy (observe_request): a second SessionIndex  *)
(* that resolves every admitted request again, in a task spawned for it,   *)
(* to compare its answer with the live one.  The spawned tasks run in any  *)
(* order and as late as they like, and requests the budget denies are      *)
(* never shown to the shadow, so the two indexes see different histories.  *)
(* Requests that declare who they are touch neither (module Identity).     *)
(***************************************************************************)
EXTENDS SessionIndex, SequencesExt

CONSTANTS
  MaxSpawned,  \* bound on the tasks waiting to run
  NotesKept    \* how many comparisons are kept; 64 in the code

ASSUME ShadowAssumption == {MaxSpawned, NotesKept} \subseteq Nat \ {0}

VARIABLES
  shadow_live, shadow_next, shadow_answers,  \* the second index
  spawned,  \* requests whose task has not run: [conv, root], in order of arrival
  notes     \* shadow_notes: [live_root, shadow_root] of the last comparisons

shadowIndex == <<shadow_live, shadow_next, shadow_answers>>
shadowVars  == <<vars, shadowIndex, spawned, notes>>

Shadow == INSTANCE SessionIndex WITH
  live <- shadow_live, next <- shadow_next, answers <- shadow_answers

-----------------------------------------------------------------------------
ShadowInit == Init /\ Shadow!Init /\ spawned = <<>> /\ notes = <<>>

\* relay_inner goes on with the live answer: the request is denied, or admitted
\* and its task spawned.
Handled(conv, root) ==
  /\ \/ UNCHANGED spawned
     \/ /\ Len(spawned) < MaxSpawned
        /\ spawned' = Append(spawned, [conv |-> conv, root |-> root])
  /\ UNCHANGED <<shadowIndex, notes>>

Request ==
  /\ Cardinality(answers) < MaxAnswers
  /\ \/ \E conv \in Conversations :
          \/ Open(conv) /\ Handled(conv, next + 1)
          \/ \E n \in DOMAIN live : Join(conv, n) /\ Handled(conv, n)
     \/ Anonymous /\ Handled(<<>>, next + 1)

\* A comparison is pushed, and the oldest drained.
Note(live_root, shadow_root) ==
  LET all == Append(notes, [live_root |-> live_root, shadow_root |-> shadow_root])
  IN  notes' = SubSeq(all, IF Len(all) > NotesKept THEN 2 ELSE 1, Len(all))

\* Mutant of Observe: answers are compared in the order the requests came in.
ObservePairsInOrder(k) ==
  LET conv == spawned[k].conv
      root == spawned[1].root
  IN  /\ \/ conv # <<>> /\ Shadow!Open(conv) /\ Note(root, shadow_next + 1)
         \/ \E n \in DOMAIN shadow_live :
              conv # <<>> /\ Shadow!Join(conv, n) /\ Note(root, n)
         \/ conv = <<>> /\ Shadow!Anonymous /\ Note(root, shadow_next + 1)
      /\ spawned' = RemoveAt(spawned, k)
      /\ UNCHANGED vars

\* The k-th waiting task runs.
Observe(k) ==
  LET conv == spawned[k].conv
      root == spawned[k].root
  IN  /\ \/ conv # <<>> /\ Shadow!Open(conv) /\ Note(root, shadow_next + 1)
         \/ \E n \in DOMAIN shadow_live :
              conv # <<>> /\ Shadow!Join(conv, n) /\ Note(root, n)
         \/ conv = <<>> /\ Shadow!Anonymous /\ Note(root, shadow_next + 1)
      /\ spawned' = RemoveAt(spawned, k)
      /\ UNCHANGED vars

ShadowNext ==
  \/ Request
  \/ \E k \in DOMAIN spawned : Observe(k)
  \/ (Retain \/ Full) /\ UNCHANGED <<shadowIndex, spawned, notes>>

ShadowSpec == ShadowInit /\ [][ShadowNext]_shadowVars

-----------------------------------------------------------------------------
\* The two indexes agree on who belongs together (observe_request): of any two
\* comparisons that are kept, the live index has the requests in one session if
\* and only if the shadow has, whatever was denied, in whatever order the tasks
\* ran and however each index swapped its digests; only a session that the live
\* index has dropped since may be one for the shadow and two for it.
SamePartition ==
  \A i, j \in DOMAIN notes :
    LET a == notes[i]
        b == notes[j]
    IN  /\ a.live_root = b.live_root => a.shadow_root = b.shadow_root
        /\ a.shadow_root = b.shadow_root =>
             \/ a.live_root = b.live_root
             \/ Retaining /\ ~({a.live_root, b.live_root} \subseteq DOMAIN live)
=============================================================================
