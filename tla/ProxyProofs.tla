---------------------------- MODULE ProxyProofs -----------------------------
(***************************************************************************)
(* Proofs about Proxy: what it counts, what it writes to the ledger, what  *)
(* a task may spend, who is stopped and how, what vouchers add up to, and  *)
(* what the ledger tells of all that.  For every set of requests, nodes,   *)
(* costs and faults, every rate, ceiling and share, and any number of      *)
(* restarts.                                                               *)
(***************************************************************************)
EXTENDS Proxy, TaskTreeProofs, SequenceTheorems

-----------------------------------------------------------------------------
(***************************************************************************)
(* The counting invariant.                                                 *)
(***************************************************************************)
Counted == Unfinished \cup {"leaked"}
Counting(root) == InState(root, Counted)

RequestsOK ==
  /\ pc \in [Reqs -> Unfinished \cup Settled]
  /\ at \in [Reqs -> Refs \cup {None}]
  /\ born \in [Reqs -> Nat \cup {None}]
  /\ lifetime \in Nat

ArenaOK ==
  /\ arena = [root \in Roots |-> arena[root]]
  /\ \A root \in Roots : /\ DOMAIN arena[root] = TaskFields
                         /\ arena[root].live \in Nat /\ arena[root].peak \in Nat

\* A request has a node exactly once it has begun, and those that count do so
\* in the current lifetime.
Placed ==
  \A r \in Reqs :
    /\ pc[r] = "idle" => at[r] = None
    /\ pc[r] \in Counted => at[r] \in Refs /\ born[r] = lifetime

Balanced == \A root \in Roots : arena[root].live = Cardinality(Counting(root))

PeakBetween ==
  \A root \in Roots : /\ arena[root].live <= arena[root].peak
                      /\ arena[root].peak <= Cardinality(Mine(root))

\* The inductive invariant.
CountInv == RequestsOK /\ ArenaOK /\ Placed /\ Balanced /\ PeakBetween

\* Everything the requests of a root are counted by is finite.
LEMMA FiniteRequests ==
  ASSUME NEW root
  PROVE  /\ IsFiniteSet(Mine(root)) /\ IsFiniteSet(Counting(root))
         /\ IsFiniteSet(InState(root, Unfinished))
         /\ Cardinality(Mine(root)) \in Nat /\ Cardinality(Counting(root)) \in Nat
         /\ Cardinality(InState(root, Unfinished)) \in Nat
         /\ Cardinality(Counting(root)) <= Cardinality(Mine(root))
         /\ Cardinality(InState(root, Unfinished)) <= Cardinality(Counting(root))
<1>1. IsFiniteSet(Reqs)
  BY ProxyAssumption
<1>2. /\ Mine(root) \subseteq Reqs /\ Counting(root) \subseteq Mine(root)
      /\ InState(root, Unfinished) \subseteq Counting(root)
  BY DEF Mine, Counting, InState, Counted
<1>3. IsFiniteSet(Mine(root))
  BY <1>1, <1>2, FS_Subset
<1>4. IsFiniteSet(Counting(root)) /\ Cardinality(Counting(root)) <= Cardinality(Mine(root))
  BY <1>2, <1>3, FS_Subset
<1>5. /\ IsFiniteSet(InState(root, Unfinished))
      /\ Cardinality(InState(root, Unfinished)) <= Cardinality(Counting(root))
  BY <1>2, <1>4, FS_Subset
<1>6. QED
  BY <1>3, <1>4, <1>5, FS_CardinalityType

LEMMA CountInit == Init => CountInv
<1>1. SUFFICES ASSUME Init PROVE CountInv
  OBVIOUS
<1>2. \A root \in Roots : Mine(root) = {} /\ Counting(root) = {}
  BY <1>1 DEF Init, Mine, Counting, InState
<1>3. \A root \in Roots : Cardinality(Mine(root)) = 0 /\ Cardinality(Counting(root)) = 0
  BY <1>2, FS_EmptySet
<1>4. \A root \in Roots : DOMAIN arena[root] = TaskFields /\ arena[root].live = 0
                            /\ arena[root].peak = 0
  BY <1>1, NewTaskFields DEF Init, FreshArena
<1>5. ArenaOK
  BY <1>1, <1>4 DEF Init, FreshArena, ArenaOK
<1>6. RequestsOK
  BY <1>1 DEF Init, RequestsOK, Settled
<1>7. Placed
  BY <1>1 DEF Init, Placed, Counted, Unfinished
<1>8. Balanced /\ PeakBetween
  BY <1>3, <1>4 DEF Balanced, PeakBetween
<1>9. QED
  BY <1>5, <1>6, <1>7, <1>8 DEF CountInv

\* A request that enters is counted once more, at its own root only.
LEMMA EnterCounts ==
  ASSUME CountInv, NEW r \in Reqs, NEW a \in Refs, NEW task, NEW answer, NEW where \in Unfinished,
         DOMAIN task = TaskFields,
         task.live = arena[a.root].live + 1,
         task.peak = IF arena[a.root].live + 1 > arena[a.root].peak
                     THEN arena[a.root].live + 1 ELSE arena[a.root].peak,
         Enter(r, a, task, answer, where)
  PROVE  CountInv'
<1> USE DEF CountInv
<1>1. /\ pc[r] = "idle" /\ pc' = [pc EXCEPT ![r] = where]
      /\ arena' = [arena EXCEPT ![a.root] = task]
      /\ at' = [at EXCEPT ![r] = a] /\ born' = [born EXCEPT ![r] = lifetime]
      /\ lifetime' = lifetime
  BY DEF Enter, Goto
<1>2. at[r] = None /\ a.root \in Roots /\ a # None
  BY <1>1, ProxyAssumption DEF Placed, Roots
<1>3. RequestsOK'
  BY <1>1, <1>2 DEF RequestsOK
<1>4. Placed'
  BY <1>1, <1>2 DEF Placed, RequestsOK, Counted, Unfinished
<1>5. ASSUME NEW root \in Roots, root # a.root
      PROVE  Mine(root)' = Mine(root) /\ Counting(root)' = Counting(root)
  BY <1>1, <1>2, <1>5 DEF Mine, Counting, InState, RequestsOK
<1>6. /\ Mine(a.root)' = Mine(a.root) \cup {r} /\ r \notin Mine(a.root)
      /\ Counting(a.root)' = Counting(a.root) \cup {r} /\ r \notin Counting(a.root)
  BY <1>1, <1>2 DEF Mine, Counting, InState, Counted, RequestsOK
<1>7. /\ Cardinality(Mine(a.root)') = Cardinality(Mine(a.root)) + 1
      /\ Cardinality(Counting(a.root)') = Cardinality(Counting(a.root)) + 1
  BY <1>6, FiniteRequests, FS_AddElement, ZenonT(60)
<1>8. \A root \in Roots : root # a.root => arena'[root] = arena[root]
  BY <1>1 DEF ArenaOK
<1>9. arena'[a.root] = task
  BY <1>1, <1>2 DEF ArenaOK
<1>10. task.live \in Nat /\ task.peak \in Nat /\ task.live <= task.peak
         /\ task.peak <= Cardinality(Mine(a.root)) + 1
  BY <1>2, FiniteRequests DEF ArenaOK, Balanced, PeakBetween
<1>11. ArenaOK'
  <2>1. arena' = [root \in Roots |-> arena'[root]]
    BY <1>1, <1>2 DEF ArenaOK
  <2>2. QED BY <1>8, <1>9, <1>10, <2>1 DEF ArenaOK
<1>12. Balanced'
  BY <1>2, <1>5, <1>7, <1>8, <1>9 DEF Balanced
<1>13. PeakBetween'
  BY <1>2, <1>5, <1>7, <1>8, <1>9, <1>10 DEF PeakBetween
<1>14. QED
  BY <1>3, <1>4, <1>11, <1>12, <1>13

LEMMA ArriveCounts ==
  ASSUME CountInv, NEW r \in Reqs, NEW a \in Refs, Arrive(r, a) \/ ArriveWs(r, a)
  PROVE  CountInv'
<1> DEFINE begun == Begin(arena[a.root], a)
<1>1. DOMAIN arena[a.root] = TaskFields
  BY DEF CountInv, ArenaOK, Roots
<1>2. /\ DOMAIN begun = TaskFields /\ begun.live = arena[a.root].live + 1
      /\ begun.peak = IF arena[a.root].live + 1 > arena[a.root].peak
                      THEN arena[a.root].live + 1 ELSE arena[a.root].peak
  BY <1>1, BeginFields
<1>3. CASE Arrive(r, a)
  <2> DEFINE task == Admission(a).task
             where == IF Admission(a).verdict = "Deny" THEN "denied" ELSE "admitted"
  <2>1. /\ DOMAIN task = TaskFields /\ task.live = begun.live /\ task.peak = begun.peak
    <3>1. task = begun \/ task = AdmitAt(begun, a).task
      BY DEF Admission
    <3> HIDE DEF begun, task
    <3>2. QED BY <1>2, <3>1, AdmitAtFields
  <2>2. where \in Unfinished
    BY DEF Unfinished
  <2>3. Enter(r, a, task, Admission(a).verdict, where)
    BY <1>3 DEF Arrive
  <2> HIDE DEF begun, task, where
  <2>4. QED BY <1>2, <2>1, <2>2, <2>3, EnterCounts
<1>4. CASE ArriveWs(r, a)
  <2>1. Enter(r, a, begun, "Unchecked", "handshake") /\ "handshake" \in Unfinished
    BY <1>4 DEF ArriveWs, Unfinished
  <2> HIDE DEF begun
  <2>2. QED BY <1>2, <2>1, EnterCounts
<1>5. QED
  BY <1>3, <1>4

\* A step that moves a counted request to a counted state counts the same.
LEMMA MoveCounts ==
  ASSUME CountInv, NEW r \in Reqs, NEW to \in Counted, pc[r] \in Unfinished,
         pc' = [pc EXCEPT ![r] = to],
         UNCHANGED <<at, born, lifetime>>,
         arena' = [root \in Roots |-> arena'[root]],
         \A root \in Roots : /\ DOMAIN arena'[root] = TaskFields
                             /\ arena'[root].live = arena[root].live
                             /\ arena'[root].peak = arena[root].peak
  PROVE  CountInv'
<1> USE DEF CountInv
<1>1. to \in Unfinished \cup Settled
  BY DEF Counted, Settled
<1>2. RequestsOK' /\ ArenaOK'
  BY <1>1 DEF RequestsOK, ArenaOK
<1>3. Placed'
  <2>1. at[r] \in Refs /\ born[r] = lifetime /\ to # "idle"
    BY DEF Placed, Counted, Unfinished
  <2>2. QED BY <2>1 DEF Placed, RequestsOK
<1>4. \A root \in Roots : Mine(root)' = Mine(root)
  BY DEF Mine
<1>5. \A root \in Roots : Counting(root)' = Counting(root)
  <2>1. \A q \in Reqs : pc'[q] \in Counted <=> pc[q] \in Counted
    BY DEF RequestsOK, Counted
  <2>2. QED BY <1>4, <2>1 DEF Counting, InState, Mine
<1>6. Balanced' /\ PeakBetween'
  BY <1>4, <1>5 DEF Balanced, PeakBetween
<1>7. QED
  BY <1>2, <1>3, <1>6

LEMMA StepCounts ==
  ASSUME CountInv, NEW r \in Reqs, NEW from \in SUBSET Unfinished, NEW to \in Counted,
         Step(r, from, to)
  PROVE  CountInv'
<1>1. /\ pc[r] \in Unfinished /\ pc' = [pc EXCEPT ![r] = to]
      /\ UNCHANGED <<at, born, lifetime>> /\ arena' = arena
  BY DEF Step, Goto
<1>2. QED
  BY <1>1, MoveCounts DEF CountInv, ArenaOK

LEMMA StopCounts ==
  ASSUME CountInv, NEW r \in Reqs, Stop(r)
  PROVE  CountInv'
<1> DEFINE task == TakeStop(arena[at[r].root]).task
<1>1. /\ pc[r] = "denied" /\ pc' = [pc EXCEPT ![r] = "stopping"]
      /\ arena' = [arena EXCEPT ![at[r].root] = task]
      /\ UNCHANGED <<at, born, lifetime>>
  BY DEF Stop, Goto
<1>2. at[r].root \in Roots
  BY <1>1 DEF CountInv, Placed, Counted, Unfinished, Roots
<1>3. /\ DOMAIN task = TaskFields /\ task.live = arena[at[r].root].live
      /\ task.peak = arena[at[r].root].peak
  BY <1>2, TakeStopFields DEF CountInv, ArenaOK
<1> HIDE DEF task
<1>4. /\ arena' = [root \in Roots |-> arena'[root]]
      /\ \A root \in Roots : /\ DOMAIN arena'[root] = TaskFields
                             /\ arena'[root].live = arena[root].live
                             /\ arena'[root].peak = arena[root].peak
  BY <1>1, <1>2, <1>3 DEF CountInv, ArenaOK
<1>5. "stopping" \in Counted /\ "denied" \in Unfinished
  BY DEF Counted, Unfinished
<1>6. QED
  BY <1>1, <1>4, <1>5, MoveCounts

\* finish_locked takes one from the count, and there is one to take.
LEMMA FinishCounts ==
  ASSUME CountInv, NEW r \in Reqs, NEW usage, NEW complete, pc[r] \in Unfinished,
         FinishLocked(r, usage, complete)
  PROVE  CountInv'
<1> USE DEF CountInv
<1>0. PICK home : home = at[r].root
  OBVIOUS
<1> DEFINE task == Finish(arena[home], at[r], usage, complete)
<1>1. /\ arena' = [arena EXCEPT ![home] = task]
      /\ pc' = [pc EXCEPT ![r] = "done"] /\ UNCHANGED <<at, born, lifetime>>
  BY <1>0 DEF FinishLocked, Goto
<1>2. at[r] \in Refs /\ born[r] = lifetime /\ home \in Roots /\ at[r] # None
  BY <1>0, ProxyAssumption DEF Placed, Counted, Roots
<1>3. DOMAIN task = TaskFields /\ task.live = SaturatingSub(arena[home].live, 1)
        /\ task.peak = arena[home].peak
  BY <1>2, FinishFields DEF ArenaOK
<1> HIDE DEF task
<1>4. RequestsOK'
  BY <1>1 DEF RequestsOK, Settled
<1>5. "done" \notin Counted /\ "done" # "idle"
  BY DEF Counted, Unfinished
<1>6. Placed'
  BY <1>1, <1>5 DEF Placed, RequestsOK
<1>7. \A root \in Roots : Mine(root)' = Mine(root)
  BY <1>1 DEF Mine
<1>8. \A q \in Reqs : q # r => pc'[q] = pc[q]
  BY <1>1 DEF RequestsOK
<1>9. pc'[r] = "done"
  BY <1>1 DEF RequestsOK
<1>10. ASSUME NEW root \in Roots, root # home
       PROVE  Counting(root)' = Counting(root)
  <2>1. r \notin Mine(root)
    BY <1>0, <1>10 DEF Mine
  <2>2. Mine(root) \subseteq Reqs
    BY DEF Mine
  <2>3. {q \in Mine(root) : pc'[q] \in Counted} = {q \in Mine(root) : pc[q] \in Counted}
    BY <1>8, <2>1, <2>2
  <2>4. QED BY <1>7, <2>3 DEF Counting, InState
<1>11. Counting(home)' = Counting(home) \ {r} /\ r \in Counting(home)
  <2>1. r \in Mine(home) /\ Mine(home) \subseteq Reqs
    BY <1>0, <1>2 DEF Mine
  <2>2. Mine(home)' = Mine(home)
    BY <1>2, <1>7
  <2>3. {q \in Mine(home) : pc'[q] \in Counted} = {q \in Mine(home) : pc[q] \in Counted} \ {r}
    BY <1>5, <1>8, <1>9, <2>1
  <2>4. r \in Counting(home)
    BY <2>1 DEF Counting, InState, Counted
  <2>5. QED BY <2>2, <2>3, <2>4 DEF Counting, InState
<1>12. Cardinality(Counting(home)') = Cardinality(Counting(home)) - 1
  BY <1>11, FiniteRequests, FS_RemoveElement
<1>13. Cardinality(Counting(home)) \in Nat \ {0}
  BY <1>11, FiniteRequests, FS_EmptySet
<1>14. task.live = arena[home].live - 1 /\ task.live \in Nat
  BY <1>2, <1>3, <1>13 DEF SaturatingSub, Balanced
<1>15. /\ \A root \in Roots : root # home => arena'[root] = arena[root]
       /\ arena'[home] = task /\ arena' = [root \in Roots |-> arena'[root]]
  BY <1>1, <1>2 DEF ArenaOK
<1>16. ArenaOK'
  BY <1>2, <1>3, <1>14, <1>15 DEF ArenaOK
<1>17. Balanced'
  BY <1>2, <1>10, <1>12, <1>14, <1>15 DEF Balanced
<1>18. PeakBetween'
  BY <1>2, <1>3, <1>7, <1>14, <1>15 DEF PeakBetween, ArenaOK
<1>19. QED
  BY <1>4, <1>6, <1>16, <1>17, <1>18

LEMMA RestartCounts ==
  ASSUME CountInv, Restart
  PROVE  CountInv'
<1> USE DEF CountInv
<1>1. /\ arena' = FreshArena /\ lifetime' = lifetime + 1 /\ UNCHANGED <<at, born>>
      /\ pc' = [r \in Reqs |-> IF pc[r] \in Counted THEN "lost" ELSE pc[r]]
  BY DEF Restart, Counted
<1>2. "lost" \in Settled /\ "lost" \notin Counted /\ "lost" # "idle"
  BY DEF Settled, Counted, Unfinished
<1>3. \A r \in Reqs : pc'[r] \notin Counted /\ (pc'[r] = "idle" => pc[r] = "idle")
  BY <1>1, <1>2
<1>4. RequestsOK'
  BY <1>1, <1>2 DEF RequestsOK
<1>5. Placed'
  BY <1>1, <1>3 DEF Placed
<1>6. \A root \in Roots : Counting(root)' = {}
  BY <1>3 DEF Counting, InState, Mine
<1>7. \A root \in Roots : /\ arena'[root].live = 0 /\ arena'[root].peak = 0
                          /\ DOMAIN arena'[root] = TaskFields
  BY <1>1, NewTaskFields DEF FreshArena
<1>8. ArenaOK'
  BY <1>1, <1>7 DEF ArenaOK, FreshArena
<1>9. Balanced'
  BY <1>6, <1>7, FS_EmptySet DEF Balanced
<1>10. \A root \in Roots : Cardinality(Mine(root)') \in Nat
  <2>1. ASSUME NEW root \in Roots PROVE Mine(root)' \subseteq Reqs
    BY DEF Mine
  <2>2. IsFiniteSet(Reqs)
    BY ProxyAssumption
  <2>3. \A root \in Roots : IsFiniteSet(Mine(root)')
    BY <2>1, <2>2, FS_Subset
  <2>4. QED BY <2>3, FS_CardinalityType
<1>11. PeakBetween'
  BY <1>7, <1>10 DEF PeakBetween
<1>12. QED
  BY <1>4, <1>5, <1>8, <1>9, <1>11

\* A request's step is one of four kinds: it arrives, takes its stop style,
\* finishes, or moves on from one unfinished state without touching the tree.
LEMMA RelayKinds ==
  ASSUME NEW r \in Reqs, Relay(r)
  PROVE  \/ \E a \in Refs : Arrive(r, a) \/ ArriveWs(r, a)
         \/ Stop(r)
         \/ /\ pc[r] \in Unfinished
            /\ \E usage \in Nat, complete \in BOOLEAN : FinishLocked(r, usage, complete)
         \/ \E from \in SUBSET Unfinished, to \in Counted : Step(r, from, to)
<1>1. CASE \/ Refuse(r) \/ UpstreamFails(r) \/ HandshakeRefused(r) \/ UpgradeFails(r)
  <2>1. pc[r] \in Unfinished
    BY <1>1 DEF Refuse, UpstreamFails, HandshakeRefused, UpgradeFails, Unfinished
  <2>2. FinishLocked(r, 0, TRUE) \/ FinishLocked(r, 0, FALSE)
    BY <1>1 DEF Refuse, UpstreamFails, HandshakeRefused, UpgradeFails
  <2> QED BY <2>1, <2>2
<1>2. CASE \E u \in Usages, c \in BOOLEAN : MeterFinishes(r, u, c) \/ TunnelEnds(r, u, c)
  <2>1. PICK u \in Usages, c \in BOOLEAN : MeterFinishes(r, u, c) \/ TunnelEnds(r, u, c)
    BY <1>2
  <2>2. pc[r] \in Unfinished /\ FinishLocked(r, u, c) /\ u \in Nat
    BY <2>1, ProxyAssumption DEF MeterFinishes, TunnelEnds, Unfinished
  <2> QED BY <2>2
<1>3. CASE \/ RewriteFails(r) \/ ClientGone(r) \/ UpstreamResponds(r) \/ StreamEnds(r)
           \/ HandshakeFails(r) \/ TunnelOpens(r)
  <2>1. {"leaked", "streaming", "metering", "tunnel"} \subseteq Counted
    BY DEF Counted, Unfinished
  <2>2. /\ {"admitted"} \cup (IF Scheme[lifetime] = "https" THEN {"handshake"} ELSE {})
             \in SUBSET Unfinished
        /\ {"admitted", "handshake"} \in SUBSET Unfinished
        /\ {"streaming"} \in SUBSET Unfinished /\ {"handshake"} \in SUBSET Unfinished
    BY DEF Unfinished
  <2> QED
    BY <1>3, <2>1, <2>2 DEF RewriteFails, ClientGone, UpstreamResponds, StreamEnds,
                            HandshakeFails, TunnelOpens
<1>4. QED
  BY <1>1, <1>2, <1>3 DEF Relay

LEMMA CountNext == CountInv /\ [Next]_vars => CountInv'
<1>1. SUFFICES ASSUME CountInv, [Next]_vars PROVE CountInv'
  OBVIOUS
<1>2. ASSUME NEW r \in Reqs, Relay(r) PROVE CountInv'
  BY <1>1, <1>2, RelayKinds, ArriveCounts, StopCounts, FinishCounts, StepCounts
<1>3. CASE Restart
  BY <1>1, <1>3, RestartCounts
<1>4. CASE Quiet \/ UNCHANGED vars
  BY <1>1, <1>4, ZenonT(60) DEF Quiet, vars, CountInv, RequestsOK, ArenaOK, Placed, Balanced,
                    PeakBetween, Counting, InState, Mine
<1>5. QED
  BY <1>1, <1>2, <1>3, <1>4 DEF Next

\* The counting invariant holds of every reachable state.
THEOREM CountInvariant == Spec => []CountInv
<1>1. Init => CountInv
  BY CountInit
<1>2. CountInv /\ [Next]_vars => CountInv'
  BY CountNext
<1>3. QED
  BY <1>1, <1>2, PTL DEF Spec

\* Task.live is exact: open requests plus the ones that leaked.
THEOREM LiveIsExact == Spec => []LiveCountsOpenAndLeaked
<1>1. CountInv => LiveCountsOpenAndLeaked
  BY DEF CountInv, Balanced, Counting, Counted, LiveCountsOpenAndLeaked
<1>2. QED
  BY <1>1, CountInvariant, PTL

\* A step other than a restart leaves the peak of a task alone, or begins a
\* request there.
LEMMA RelayPeak ==
  ASSUME CountInv, NEW r \in Reqs, Relay(r), NEW root \in Roots
  PROVE  /\ lifetime' = lifetime
         /\ \/ arena'[root].peak = arena[root].peak
            \/ /\ arena'[root].live = arena[root].live + 1
               /\ arena'[root].peak = IF arena[root].live + 1 > arena[root].peak
                                      THEN arena[root].live + 1 ELSE arena[root].peak
<1> USE DEF CountInv
<1>1. ASSUME NEW a \in Refs, Arrive(r, a) \/ ArriveWs(r, a)
      PROVE  /\ lifetime' = lifetime
             /\ \/ arena'[root] = arena[root]
                \/ /\ arena'[root].live = arena[root].live + 1
                   /\ arena'[root].peak = IF arena[root].live + 1 > arena[root].peak
                                          THEN arena[root].live + 1 ELSE arena[root].peak
  <2> DEFINE begun == Begin(arena[a.root], a)
             task == Admission(a).task
  <2>1. a.root \in Roots /\ DOMAIN arena[a.root] = TaskFields
    BY DEF ArenaOK, Roots
  <2>2. /\ DOMAIN begun = TaskFields /\ begun.live = arena[a.root].live + 1
        /\ begun.peak = IF arena[a.root].live + 1 > arena[a.root].peak
                        THEN arena[a.root].live + 1 ELSE arena[a.root].peak
    BY <2>1, BeginFields
  <2>3. task = begun \/ task = AdmitAt(begun, a).task
    BY DEF Admission
  <2>4. /\ lifetime' = lifetime
        /\ \/ arena' = [arena EXCEPT ![a.root] = task]
           \/ arena' = [arena EXCEPT ![a.root] = begun]
    BY <1>1 DEF Arrive, ArriveWs, Enter
  <2> HIDE DEF begun, task
  <2>5. task.live = begun.live /\ task.peak = begun.peak
    BY <2>2, <2>3, AdmitAtFields
  <2>6. root # a.root => arena'[root] = arena[root]
    BY <2>1, <2>4 DEF ArenaOK
  <2>7. root = a.root => arena'[root] = task \/ arena'[root] = begun
    BY <2>1, <2>4 DEF ArenaOK
  <2>8. QED BY <2>2, <2>4, <2>5, <2>6, <2>7
<1>2. CASE Stop(r)
  <2> DEFINE task == TakeStop(arena[at[r].root]).task
  <2>1. at[r].root \in Roots
    BY <1>2 DEF Stop, Placed, Counted, Unfinished, Roots
  <2>2. task.peak = arena[at[r].root].peak
    BY <2>1, TakeStopFields DEF ArenaOK
  <2>3. lifetime' = lifetime /\ arena' = [arena EXCEPT ![at[r].root] = task]
    BY <1>2 DEF Stop
  <2> HIDE DEF task
  <2>4. QED BY <2>1, <2>2, <2>3 DEF ArenaOK
<1>3. ASSUME NEW usage \in Nat, NEW complete \in BOOLEAN, pc[r] \in Unfinished,
             FinishLocked(r, usage, complete)
      PROVE  lifetime' = lifetime /\ arena'[root].peak = arena[root].peak
  <2> DEFINE task == Finish(arena[at[r].root], at[r], usage, complete)
  <2>1. at[r].root \in Roots
    BY <1>3 DEF Placed, Counted, Roots
  <2>2. task.peak = arena[at[r].root].peak
    BY <2>1, FinishFields DEF ArenaOK
  <2>3. lifetime' = lifetime /\ arena' = [arena EXCEPT ![at[r].root] = task]
    BY <1>3 DEF FinishLocked
  <2> HIDE DEF task
  <2>4. QED BY <2>1, <2>2, <2>3 DEF ArenaOK
<1>4. ASSUME NEW from, NEW to, Step(r, from, to)
      PROVE  lifetime' = lifetime /\ arena' = arena
  BY <1>4 DEF Step
<1>5. QED
  BY <1>1, <1>2, <1>3, <1>4, RelayKinds

\* Task.peak_concurrency follows what is open or leaked at a task exactly, and
\* nothing but a restart takes it back.
THEOREM PeakIsExact == Spec => PeakIsHighWater
<1> DEFINE Follows(root) ==
             arena'[root].peak =
               IF lifetime' # lifetime THEN 0
               ELSE IF Cardinality(InState(root, Unfinished \cup {"leaked"})') > arena[root].peak
                    THEN Cardinality(InState(root, Unfinished \cup {"leaked"})')
                    ELSE arena[root].peak
<1>1. ASSUME CountInv, CountInv', [Next]_vars, NEW root \in Roots
      PROVE  Follows(root) \/ UNCHANGED vars
  <2>1. /\ arena'[root].live = Cardinality(InState(root, Unfinished \cup {"leaked"})')
        /\ arena'[root].live <= arena'[root].peak
        /\ arena[root].live \in Nat /\ arena[root].peak \in Nat
        /\ arena'[root].live \in Nat /\ arena'[root].peak \in Nat
    BY <1>1 DEF CountInv, ArenaOK, Balanced, PeakBetween, Counting, Counted
  <2>2. ASSUME NEW r \in Reqs, Relay(r) PROVE Follows(root)
    <3>1. /\ lifetime' = lifetime
          /\ \/ arena'[root].peak = arena[root].peak
             \/ /\ arena'[root].live = arena[root].live + 1
                /\ arena'[root].peak = IF arena[root].live + 1 > arena[root].peak
                                       THEN arena[root].live + 1 ELSE arena[root].peak
      BY <1>1, <2>2, RelayPeak
    <3>2. QED BY <2>1, <3>1
  <2>3. CASE Restart
    <3>1. lifetime' = lifetime + 1 /\ lifetime \in Nat /\ arena' = FreshArena
      BY <1>1, <2>3 DEF Restart, CountInv, RequestsOK
    <3>2. arena'[root].peak = 0
      BY <3>1, NewTaskFields DEF FreshArena
    <3>3. QED BY <3>1, <3>2
  <2>4. CASE Quiet \/ UNCHANGED vars
    BY <2>4 DEF Quiet
  <2>5. QED BY <1>1, <2>2, <2>3, <2>4 DEF Next
<1>2. CountInv /\ CountInv' /\ [Next]_vars => [\A root \in Roots : Follows(root)]_vars
  BY <1>1
<1>3. QED
  BY <1>2, CountInvariant, PTL DEF Spec, PeakIsHighWater

-----------------------------------------------------------------------------
(***************************************************************************)
(* The ledger and the requests that have finished are in step.             *)
(***************************************************************************)
Records == [at : Refs, usage : Nat, incomplete : BOOLEAN, peak : Nat, req : Reqs,
            lifetime : Nat]

\* Every record is of a request that is done, at its node and in its lifetime.
RecordsAreOwned ==
  \A i \in DOMAIN ledger :
    /\ pc[ledger[i].req] = "done"
    /\ ledger[i].lifetime = born[ledger[i].req] /\ ledger[i].at = at[ledger[i].req]

RecordsDiffer ==
  \A i, j \in DOMAIN ledger : ledger[i].req = ledger[j].req => i = j

DoneIsRecorded ==
  "ledger_write" \notin Faults =>
    \A r \in Reqs : pc[r] = "done" => \E i \in DOMAIN ledger : ledger[i].req = r

LedgerInv ==
  ledger \in Seq(Records) /\ RecordsAreOwned /\ RecordsDiffer /\ DoneIsRecorded

LEMMA RecordsHaveRequests ==
  ASSUME NEW log \in Seq(Records), NEW i \in DOMAIN log
  PROVE  log[i].req \in Reqs
<1>1. log[i] \in Records
  OBVIOUS
<1>2. \A rec \in Records : rec.req \in Reqs
  BY DEF Records
<1>3. QED
  BY <1>1, <1>2

\* A step that appends nothing and leaves finished requests as they are.
LEMMA NoRecord ==
  ASSUME CountInv, LedgerInv, UNCHANGED ledger, pc' \in [Reqs -> Unfinished \cup Settled],
         \A r \in Reqs : pc[r] = "done" => pc'[r] = "done" /\ at'[r] = at[r] /\ born'[r] = born[r],
         \A r \in Reqs : pc'[r] = "done" => pc[r] = "done"
  PROVE  LedgerInv'
<1>1. \A i \in DOMAIN ledger : ledger[i].req \in Reqs
  BY RecordsHaveRequests DEF LedgerInv
<1>2. QED
  BY <1>1 DEF LedgerInv, RecordsAreOwned, RecordsDiffer, DoneIsRecorded

\* finish_locked appends the record of a request that had none.
LEMMA FinishRecords ==
  ASSUME CountInv, LedgerInv, NEW r \in Reqs, pc[r] \in Unfinished,
         NEW usage \in Nat, NEW complete \in BOOLEAN, FinishLocked(r, usage, complete)
  PROVE  LedgerInv'
<1> USE DEF LedgerInv
<1>0. PICK home : home = at[r].root
  OBVIOUS
<1> DEFINE task == Finish(arena[home], at[r], usage, complete)
           rec == [at |-> at[r], usage |-> usage, incomplete |-> ~complete,
                   peak |-> task.peak, req |-> r, lifetime |-> lifetime]
<1>1. /\ pc' = [pc EXCEPT ![r] = "done"] /\ UNCHANGED <<at, born, lifetime>>
      /\ \/ ledger' = Append(ledger, rec)
         \/ "ledger_write" \in Faults /\ ledger' = ledger
  BY <1>0 DEF FinishLocked, Goto
<1>2. at[r] \in Refs /\ born[r] = lifetime /\ home \in Roots /\ lifetime \in Nat
  BY <1>0 DEF CountInv, Placed, Counted, RequestsOK, Roots
<1>3. task.peak \in Nat
  BY <1>2, FinishFields DEF CountInv, ArenaOK
<1>4. rec \in Records /\ rec.req = r /\ rec.at = at[r] /\ rec.lifetime = lifetime
  <2> HIDE DEF task
  <2> QED BY <1>2, <1>3 DEF Records
<1> HIDE DEF rec
<1>5. pc[r] # "done"
  BY DEF Unfinished
<1>6. /\ \A q \in Reqs : q # r => pc'[q] = pc[q]
      /\ pc'[r] = "done"
  BY <1>1 DEF CountInv, RequestsOK
<1>7. \A i \in DOMAIN ledger : ledger[i].req \in Reqs \ {r}
  BY <1>5, RecordsHaveRequests DEF RecordsAreOwned
<1>8. CASE ledger' = ledger /\ "ledger_write" \in Faults
  BY <1>1, <1>6, <1>7, <1>8 DEF RecordsAreOwned, RecordsDiffer, DoneIsRecorded
<1>9. CASE ledger' = Append(ledger, rec)
  <2>1. /\ ledger' \in Seq(Records) /\ Len(ledger) \in Nat
        /\ DOMAIN ledger = 1..Len(ledger) /\ DOMAIN ledger' = 1..(Len(ledger) + 1)
        /\ \A i \in DOMAIN ledger : ledger'[i] = ledger[i]
        /\ ledger'[Len(ledger) + 1] = rec
    BY <1>4, <1>9
  <2>2. \A i \in DOMAIN ledger' : i \in DOMAIN ledger \/ i = Len(ledger) + 1
    BY <2>1
  <2>3. RecordsAreOwned'
    BY <1>1, <1>2, <1>4, <1>6, <1>7, <2>1, <2>2 DEF RecordsAreOwned
  <2>4. RecordsDiffer'
    BY <1>4, <1>7, <2>1, <2>2 DEF RecordsDiffer
  <2>5. DoneIsRecorded'
    <3>1. DOMAIN ledger \subseteq DOMAIN ledger' /\ Len(ledger) + 1 \in DOMAIN ledger'
      BY <2>1
    <3>2. QED BY <1>4, <1>6, <2>1, <3>1 DEF DoneIsRecorded
  <2>6. QED BY <2>1, <2>3, <2>4, <2>5
<1>10. QED
  BY <1>1, <1>8, <1>9

LEMMA LedgerNext == CountInv /\ LedgerInv /\ [Next]_vars => LedgerInv'
<1>1. SUFFICES ASSUME CountInv, LedgerInv, [Next]_vars PROVE LedgerInv'
  OBVIOUS
<1>2. RequestsOK /\ RequestsOK'
  BY <1>1, CountNext DEF CountInv
<1>3. ASSUME NEW r \in Reqs, Relay(r) PROVE LedgerInv'
  <2>1. CASE \E a \in Refs : Arrive(r, a) \/ ArriveWs(r, a)
    <3>1. PICK a, task, answer, where : /\ Enter(r, a, task, answer, where)
                                        /\ where \in Unfinished
      BY <2>1 DEF Arrive, ArriveWs, Unfinished
    <3>2. /\ pc[r] = "idle" /\ pc' = [pc EXCEPT ![r] = where] /\ UNCHANGED ledger
          /\ at' = [at EXCEPT ![r] = a] /\ born' = [born EXCEPT ![r] = lifetime]
      BY <3>1 DEF Enter, Goto
    <3>3. where # "done"
      BY <3>1 DEF Unfinished
    <3>4. QED BY <1>1, <1>2, <3>2, <3>3, NoRecord DEF RequestsOK
  <2>2. CASE Stop(r)
    <3>1. /\ pc[r] = "denied" /\ pc' = [pc EXCEPT ![r] = "stopping"]
          /\ UNCHANGED <<ledger, at, born>>
      BY <2>2 DEF Stop, Goto
    <3>2. QED BY <1>1, <1>2, <3>1, NoRecord DEF RequestsOK
  <2>3. CASE \E from \in SUBSET Unfinished, to \in Counted : Step(r, from, to)
    <3>1. PICK from \in SUBSET Unfinished, to \in Counted : Step(r, from, to)
      BY <2>3
    <3>2. /\ pc[r] \in Unfinished /\ pc' = [pc EXCEPT ![r] = to]
          /\ UNCHANGED <<ledger, at, born>>
      BY <3>1 DEF Step, Goto
    <3>3. pc[r] # "done" /\ to # "done"
      BY <3>1, <3>2 DEF Unfinished, Counted
    <3>4. QED BY <1>1, <1>2, <3>2, <3>3, NoRecord DEF RequestsOK
  <2>4. QED BY <1>1, <1>3, <2>1, <2>2, <2>3, RelayKinds, FinishRecords
<1>4. CASE Restart
  <2>1. /\ UNCHANGED <<ledger, at, born>>
        /\ \A r \in Reqs : pc'[r] = IF pc[r] \in Counted THEN "lost" ELSE pc[r]
    BY <1>4 DEF Restart, Counted
  <2>2. "done" \notin Counted
    BY DEF Counted, Unfinished
  <2>3. QED BY <1>1, <1>2, <2>1, <2>2, NoRecord DEF RequestsOK
<1>5. CASE Quiet \/ UNCHANGED vars
  <2>1. UNCHANGED <<ledger, pc, at, born>>
    BY <1>5 DEF Quiet, vars
  <2>2. QED BY <1>1, <1>2, <2>1, NoRecord DEF RequestsOK
<1>6. QED
  BY <1>1, <1>3, <1>4, <1>5 DEF Next

\* Every request that ended has exactly one record, of its node and lifetime
\* (at most one if appends may fail), and no other request has any.
THEOREM LedgerIsExact == Spec => []OneRecordPerRequest
<1>1. Init => LedgerInv
  BY DEF Init, LedgerInv, RecordsAreOwned, RecordsDiffer, DoneIsRecorded
<1>2. LedgerInv => OneRecordPerRequest
  <2>1. SUFFICES ASSUME LedgerInv, NEW r \in Reqs
                 PROVE  LET recs == {i \in DOMAIN ledger : ledger[i].req = r}
                        IN  /\ Cardinality(recs) <= IF pc[r] = "done" THEN 1 ELSE 0
                            /\ pc[r] = "done" /\ "ledger_write" \notin Faults => recs # {}
                            /\ \A i \in recs : /\ ledger[i].lifetime = born[r]
                                               /\ ledger[i].at = at[r]
    BY DEF OneRecordPerRequest
  <2> DEFINE recs == {i \in DOMAIN ledger : ledger[i].req = r}
  <2>2. pc[r] # "done" => recs = {}
    BY <2>1 DEF LedgerInv, RecordsAreOwned
  <2>3. recs = {} \/ \E i : recs = {i}
    BY <2>1 DEF LedgerInv, RecordsDiffer
  <2>4. recs = {} => Cardinality(recs) = 0
    BY FS_EmptySet
  <2>5. (\E i : recs = {i}) => Cardinality(recs) = 1
    BY FS_Singleton
  <2>6. Cardinality(recs) <= IF pc[r] = "done" THEN 1 ELSE 0
    BY <2>2, <2>3, <2>4, <2>5
  <2>7. QED BY <2>1, <2>6 DEF LedgerInv, RecordsAreOwned, DoneIsRecorded
<1>3. QED
  BY <1>1, <1>2, LedgerNext, CountInvariant, PTL DEF Spec

-----------------------------------------------------------------------------
(***************************************************************************)
(* The trees stay well formed, and a request of this lifetime finds its    *)
(* node where it left it.                                                  *)
(***************************************************************************)
TreesOK ==
  \A root \in Roots :
    LET t == arena[root]
    IN  /\ TreeOK(t) /\ t.root = root /\ t.ceiling = Ceiling /\ t.share = Share
        /\ root \in DOMAIN t.nodes
        /\ DOMAIN t.nodes \subseteq {root} \cup {a.node : a \in Refs}

Homes ==
  \A r \in Reqs : at[r] # None =>
    /\ born[r] \in 0..lifetime
    /\ born[r] = lifetime => at[r].node \in DOMAIN arena[at[r].root].nodes

AnswersOK ==
  /\ verdict \in [Reqs -> Verdicts \cup {None}]
  /\ style \in [Reqs -> Styles \cup {None}]
  /\ lifetime \in 0..MaxRestarts
  /\ \A r \in Reqs : at[r] = None => verdict[r] = None /\ style[r] = None /\ born[r] = None
  /\ \A r \in Reqs : style[r] # None => pc[r] \in {"stopping", "done"}

BaseInv == TreesOK /\ Homes /\ AnswersOK

\* A task remembers whether it has stopped anybody, and whoever was first got
\* the synthetic answer.
Stopped(root) == {r \in Mine(root) : style[r] # None}
Synthetic(root) == {r \in Mine(root) : style[r] = "SyntheticEndTurn"}

StopInv ==
  \A root \in Roots :
    IF arena[root].synthetic
    THEN Stopped(root) # {} /\ \E r \in Reqs : Synthetic(root) = {r}
    ELSE Stopped(root) = {}

\* What the spend may come to while the requests now let through are metered.
Billed(root) == InState(root, {"admitted", "streaming", "metering"})

Slack(t) == t.peak + (IF t.sealed THEN 1 ELSE 0)
Within(t, n) == SpentMicros(t) + MaxCost * n <= SaturatingSub(Ceiling, 1) + MaxCost * Slack(t)

SpendInv ==
  Ceiling # None =>
    \A root \in Roots : /\ InState(root, {"handshake", "tunnel"}) = {}
                        /\ Within(arena[root], Cardinality(Billed(root)))

\* A seal stands for a budget that is used up, and a denial for a seal.
DenyInv ==
  \A root \in Roots :
    LET t == arena[root]
    IN  /\ t.sealed => Ceiling # None /\ SpentMicros(t) >= Ceiling
        /\ \A n \in DOMAIN t.nodes :
             t.nodes[n].sealed => /\ t.nodes[n].allowance # None
                                  /\ SubtreeSpentMicros(t, n) >= t.nodes[n].allowance
        /\ \A r \in Mine(root) :
             verdict[r] = "Deny" => t.sealed \/ t.nodes[at[r].node].sealed

\* Every node but the root has a parent, one level above it, from which the
\* root is reached, and (where vouchers are minted) a voucher; and the vouchers
\* below a node add up to no more than its own.
GrownTask(root, t) ==
  /\ DOMAIN t.nodes \subseteq Subtree(t, root)
  /\ t.nodes[root].parent = None /\ t.nodes[root].allowance = Ceiling
  /\ \A n \in DOMAIN t.nodes \ {root} :
       /\ t.nodes[n].parent \in DOMAIN t.nodes
       /\ t.nodes[n].allowance = None <=> Share = None
       /\ LET above == t.nodes[t.nodes[n].parent].depth
          IN  t.nodes[n].depth = IF above >= U8Max THEN U8Max ELSE above + 1

Conserves(t) ==
  \A p \in DOMAIN t.nodes :
    t.nodes[p].allowance # None => SumOf(Vouchers(t), Minted(t, p)) <= t.nodes[p].allowance

GrownInv == \A root \in Roots : GrownTask(root, arena[root]) /\ Conserves(arena[root])

-----------------------------------------------------------------------------
(***************************************************************************)
(* What the steps do, in the terms of these invariants.                    *)
(***************************************************************************)
SealedNodes(t) == {n \in DOMAIN t.nodes : t.nodes[n].sealed}

\* An arrival: the task it is begun on, what is answered, and where it leaves
\* the request.
Begun(t, a, task, answer, where) ==
  \/ /\ Ceiling = None /\ task = Begin(t, a) /\ answer = "Allow" /\ where = "admitted"
  \/ /\ Upgrades /\ task = Begin(t, a) /\ answer = "Unchecked" /\ where = "handshake"
  \/ /\ Ceiling # None
     /\ task = AdmitAt(Begin(t, a), a).task /\ answer = AdmitAt(Begin(t, a), a).verdict
     /\ where = IF answer = "Deny" THEN "denied" ELSE "admitted"

LEMMA EnterKinds ==
  ASSUME NEW r \in Reqs, NEW a \in Refs, Arrive(r, a) \/ ArriveWs(r, a)
  PROVE  \E task, answer, where : /\ Enter(r, a, task, answer, where)
                                  /\ Begun(arena[a.root], a, task, answer, where)
<1> DEFINE begun == Begin(arena[a.root], a)
           adm == Admission(a)
           where == IF adm.verdict = "Deny" THEN "denied" ELSE "admitted"
<1>1. CASE Arrive(r, a)
  <2>1. Enter(r, a, adm.task, adm.verdict, where)
    BY <1>1 DEF Arrive
  <2>2. CASE Ceiling = None
    <3>1. adm = [task |-> begun, verdict |-> "Allow"]
      BY <2>2 DEF Admission
    <3>2. adm.task = begun /\ adm.verdict = "Allow"
      BY <3>1
    <3> HIDE DEF adm, begun
    <3>3. Begun(arena[a.root], a, adm.task, adm.verdict, where)
      BY <2>2, <3>2 DEF Begun, begun
    <3>4. QED BY <2>1, <3>3
  <2>3. CASE Ceiling # None
    <3>1. adm = AdmitAt(begun, a)
      BY <2>3 DEF Admission
    <3>2. Begun(arena[a.root], a, adm.task, adm.verdict, where)
      <4> HIDE DEF adm, begun
      <4> QED BY <2>3, <3>1 DEF Begun, begun
    <3> HIDE DEF adm, begun, where
    <3>3. QED BY <2>1, <3>2
  <2>4. QED BY <2>2, <2>3
<1>2. CASE ArriveWs(r, a)
  <2>1. Enter(r, a, begun, "Unchecked", "handshake") /\ Upgrades
    BY <1>2 DEF ArriveWs
  <2>2. Begun(arena[a.root], a, begun, "Unchecked", "handshake")
    BY <2>1 DEF Begun
  <2> HIDE DEF begun
  <2>3. QED BY <2>1, <2>2
<1>3. QED BY <1>1, <1>2

\* What an arrival does to its task.
LEMMA BegunTask ==
  ASSUME NEW t, TreeOK(t), t.ceiling = Ceiling, NEW a, NEW task, NEW answer, NEW where,
         Begun(t, a, task, answer, where)
  PROVE  LET begun == Begin(t, a)
         IN  /\ TreeOK(task) /\ SameTask(t, task) /\ task.synthetic = t.synthetic
             /\ DOMAIN task.nodes = DOMAIN t.nodes \cup {a.node}
             /\ \A n \in DOMAIN t.nodes \ {a.node} : task.nodes[n] = t.nodes[n]
             /\ \A n \in DOMAIN t.nodes \cup {a.node} :
                  /\ task.nodes[n].allowance = begun.nodes[n].allowance
                  /\ task.nodes[n].parent = begun.nodes[n].parent
                  /\ task.nodes[n].depth = begun.nodes[n].depth
                  /\ task.nodes[n].usage = begun.nodes[n].usage
             /\ SpentMicros(task) = SpentMicros(t)
             /\ answer \in Verdicts
             /\ where \in {"admitted", "denied", "handshake"}
             /\ where = "denied" <=> answer = "Deny"
             /\ where = "handshake" => Upgrades
             /\ \/ /\ answer \in {"Allow", "Unchecked"}
                   /\ task.sealed = t.sealed /\ SealedNodes(task) = SealedNodes(t)
                   /\ answer = "Allow" /\ Ceiling # None
                        => ~t.sealed /\ ~(SpentMicros(t) >= Ceiling)
                \/ /\ answer = "Deny" /\ Ceiling # None
                   /\ task.sealed = t.sealed /\ SealedNodes(task) = SealedNodes(t)
                   /\ t.sealed \/ a.node \in SealedNodes(t)
                \/ /\ answer = "Last" /\ Ceiling # None /\ ~t.sealed /\ task.sealed
                   /\ SealedNodes(task) = SealedNodes(t) /\ SpentMicros(t) >= Ceiling
                \/ /\ answer = "Last" /\ Ceiling # None /\ ~t.sealed /\ ~task.sealed
                   /\ ~(SpentMicros(t) >= Ceiling)
                   /\ a.node \notin SealedNodes(t)
                   /\ SealedNodes(task) = SealedNodes(t) \cup {a.node}
                   /\ task.nodes[a.node].allowance # None
                   /\ SubtreeSpentMicros(task, a.node) >= task.nodes[a.node].allowance
<1> DEFINE b == Begin(t, a)
<1>0. None \notin Nat
  BY ProxyAssumption
<1>1. /\ TreeOK(b) /\ SameTask(t, b) /\ b.sealed = t.sealed /\ b.synthetic = t.synthetic
      /\ DOMAIN b.nodes = DOMAIN t.nodes \cup {a.node}
      /\ \A n \in DOMAIN t.nodes \ {a.node} : b.nodes[n] = t.nodes[n]
      /\ \A n \in DOMAIN t.nodes : /\ b.nodes[n].usage = t.nodes[n].usage
                                   /\ b.nodes[n].sealed = t.nodes[n].sealed
      /\ a.node \notin DOMAIN t.nodes => b.nodes[a.node].usage = 0 /\ ~b.nodes[a.node].sealed
  <2>1. /\ TreeOK(b) /\ SameTask(t, b) /\ b.sealed = t.sealed /\ b.synthetic = t.synthetic
        /\ DOMAIN b.nodes = DOMAIN t.nodes \cup {a.node}
        /\ \A n \in DOMAIN t.nodes \ {a.node} : b.nodes[n] = t.nodes[n]
        /\ KeepsNodes(t, b) /\ AddsNode(t, a, b)
    BY <1>0, BeginTree
  <2> HIDE DEF b
  <2>2. QED BY <2>1 DEF KeepsNodes, AddsNode
<1>2. Begun(t, a, task, answer, where) <=>
        \/ /\ Ceiling = None /\ task = b /\ answer = "Allow" /\ where = "admitted"
        \/ /\ Upgrades /\ task = b /\ answer = "Unchecked" /\ where = "handshake"
        \/ /\ Ceiling # None /\ task = AdmitAt(b, a).task /\ answer = AdmitAt(b, a).verdict
           /\ where = IF answer = "Deny" THEN "denied" ELSE "admitted"
  BY DEF Begun
<1> HIDE DEF b
<1>3. SpentMicros(b) = SpentMicros(t)
  BY <1>1, SpentSame
<1>4. SealedNodes(b) = SealedNodes(t)
  BY <1>1 DEF SealedNodes
<1>5. CASE task = b /\ answer \in {"Allow", "Unchecked"} /\ (answer = "Allow" => Ceiling = None)
           /\ where \in {"admitted", "handshake"} /\ (where = "handshake" => Upgrades)
  BY <1>1, <1>3, <1>4, <1>5, SMTT(40) DEF b, Verdicts
<1>6. CASE /\ Ceiling # None /\ task = AdmitAt(b, a).task /\ answer = AdmitAt(b, a).verdict
           /\ where = IF answer = "Deny" THEN "denied" ELSE "admitted"
  <2>1. a.node \in DOMAIN b.nodes /\ b.ceiling = Ceiling
    BY <1>1 DEF SameTask
  <2>2. /\ TreeOK(task) /\ SameTask(b, task) /\ task.synthetic = b.synthetic
        /\ DOMAIN task.nodes = DOMAIN b.nodes
        /\ \A n \in DOMAIN b.nodes \ {a.node} : task.nodes[n] = b.nodes[n]
        /\ \/ /\ answer = "Allow" /\ task = b /\ ~b.sealed /\ ~(SpentMicros(b) >= b.ceiling)
           \/ /\ answer = "Deny" /\ task = b
              /\ b.sealed \/ (b.nodes[a.node].sealed /\ ~b.sealed)
           \/ /\ answer = "Last" /\ ~b.sealed /\ task.sealed
              /\ task.nodes = b.nodes /\ SpentMicros(b) >= b.ceiling
           \/ /\ answer = "Last" /\ task.sealed = b.sealed
              /\ ~b.sealed /\ ~(SpentMicros(b) >= b.ceiling)
              /\ ~b.nodes[a.node].sealed /\ b.nodes[a.node].allowance # None
              /\ task.nodes[a.node] = [b.nodes[a.node] EXCEPT !.sealed = TRUE]
              /\ SubtreeSpentMicros(b, a.node) >= b.nodes[a.node].allowance
    BY <1>1, <1>6, <2>1, AdmitAtTree
  <2>3. NodeOK(b.nodes[a.node])
    BY <1>1, <2>1 DEF TreeOK, NodesOK
  <2>4. /\ task.nodes[a.node].allowance = b.nodes[a.node].allowance
        /\ task.nodes[a.node].parent = b.nodes[a.node].parent
        /\ task.nodes[a.node].depth = b.nodes[a.node].depth
        /\ task.nodes[a.node].usage = b.nodes[a.node].usage
    BY <2>2, <2>3 DEF NodeOK, NodeFields
  <2>5. \A n \in DOMAIN b.nodes : /\ task.nodes[n].allowance = b.nodes[n].allowance
                                  /\ task.nodes[n].parent = b.nodes[n].parent
                                  /\ task.nodes[n].depth = b.nodes[n].depth
                                  /\ task.nodes[n].usage = b.nodes[n].usage
    BY <2>2, <2>4
  <2>6. SpentMicros(task) = SpentMicros(b)
    <3>1. DOMAIN task.nodes = DOMAIN b.nodes \cup {a.node}
      BY <2>1, <2>2
    <3>2. QED BY <1>1, <2>1, <2>2, <2>5, <3>1, SpentSame
  <2>7. \A n \in DOMAIN b.nodes : b.nodes[n].usage \in Nat
    BY <1>1 DEF TreeOK, NodesOK, NodeOK
  <2>8. SubtreeSpentMicros(b, a.node) <= SubtreeSpentMicros(task, a.node)
          /\ SubtreeSpentMicros(b, a.node) \in Nat /\ SubtreeSpentMicros(task, a.node) \in Nat
    <3>1. \A n \in DOMAIN b.nodes : \E more \in Nat : task.nodes[n].usage = b.nodes[n].usage + more
      BY <2>5, <2>7
    <3>2. QED BY <1>1, <2>2, <2>5, <3>1, SubtreeSpentGrows
  <2>9. CASE answer = "Allow" /\ task = b /\ ~b.sealed /\ ~(SpentMicros(b) >= b.ceiling)
    BY <1>1, <1>3, <1>4, <1>6, <2>1, <2>9 DEF b, Verdicts
  <2>10. CASE answer = "Deny" /\ task = b /\ (b.sealed \/ b.nodes[a.node].sealed)
    <3>1. b.sealed \/ a.node \in SealedNodes(b)
      BY <2>1, <2>10 DEF SealedNodes
    <3>2. QED BY <1>1, <1>3, <1>4, <1>6, <2>1, <2>10, <3>1 DEF b, Verdicts
  <2>11. /\ SameTask(t, task) /\ task.synthetic = t.synthetic
         /\ DOMAIN task.nodes = DOMAIN t.nodes \cup {a.node}
         /\ \A n \in DOMAIN t.nodes \ {a.node} : task.nodes[n] = t.nodes[n]
         /\ SpentMicros(task) = SpentMicros(t)
    BY <1>1, <1>3, <2>2, <2>6 DEF SameTask
  <2>12. CASE /\ answer = "Last" /\ ~b.sealed /\ task.sealed
              /\ task.nodes = b.nodes /\ SpentMicros(b) >= b.ceiling
    <3>1. SealedNodes(task) = SealedNodes(b)
      BY <2>12 DEF SealedNodes
    <3>2. ~t.sealed /\ SpentMicros(t) >= Ceiling
      BY <1>1, <1>3, <2>1, <2>12, SMTT(40)
    <3>3. QED BY <1>1, <1>4, <1>6, <2>2, <2>5, <2>11, <2>12, <3>1, <3>2 DEF b, Verdicts
  <2>13. CASE /\ answer = "Last" /\ task.sealed = b.sealed
              /\ ~b.sealed /\ ~(SpentMicros(b) >= b.ceiling)
              /\ ~b.nodes[a.node].sealed /\ b.nodes[a.node].allowance # None
              /\ task.nodes[a.node] = [b.nodes[a.node] EXCEPT !.sealed = TRUE]
              /\ SubtreeSpentMicros(b, a.node) >= b.nodes[a.node].allowance
    <3>1. task.nodes[a.node].sealed
      BY <2>3, <2>13 DEF NodeOK, NodeFields
    <3>2. SealedNodes(task) = SealedNodes(b) \cup {a.node} /\ a.node \notin SealedNodes(b)
      BY <2>1, <2>2, <2>13, <3>1 DEF SealedNodes
    <3>3. ~t.sealed /\ ~(SpentMicros(t) >= Ceiling) /\ ~task.sealed
      BY <1>1, <1>3, <2>1, <2>13
    <3>4. /\ task.nodes[a.node].allowance # None
          /\ SubtreeSpentMicros(task, a.node) >= task.nodes[a.node].allowance
      <4>1. b.nodes[a.node].allowance \in Nat
        BY <2>3, <2>13 DEF NodeOK
      <4>2. QED BY <2>4, <2>8, <2>13, <4>1
    <3>5. QED BY <1>1, <1>4, <1>6, <2>2, <2>5, <2>11, <2>13, <3>2, <3>3, <3>4 DEF b, Verdicts
  <2>14. QED BY <2>2, <2>9, <2>10, <2>12, <2>13
<1>7. QED BY <1>2, <1>5, <1>6

\* What a step leaves of the requests that do not take it.
OthersKept(r) ==
  \A q \in Reqs \ {r} : /\ pc'[q] = pc[q] /\ at'[q] = at[q] /\ born'[q] = born[q]
                        /\ verdict'[q] = verdict[q] /\ style'[q] = style[q]

LEMMA EnterFacts ==
  ASSUME CountInv, BaseInv, NEW r \in Reqs, NEW a \in Refs, NEW task, NEW answer, NEW where,
         Enter(r, a, task, answer, where)
  PROVE  /\ pc[r] = "idle" /\ at[r] = None /\ style[r] = None /\ a.root \in Roots /\ a # None
         /\ pc'[r] = where /\ at'[r] = a /\ born'[r] = lifetime /\ verdict'[r] = answer
         /\ style'[r] = None /\ OthersKept(r) /\ lifetime' = lifetime
         /\ style' = style /\ verdict' = [verdict EXCEPT ![r] = answer]
         /\ arena'[a.root] = task /\ \A root \in Roots \ {a.root} : arena'[root] = arena[root]
         /\ Mine(a.root)' = Mine(a.root) \cup {r} /\ r \notin Mine(a.root)
         /\ \A root \in Roots \ {a.root} : Mine(root)' = Mine(root)
         /\ OrderlyClients => ClientMaySend(a)
<1>1. /\ pc[r] = "idle" /\ pc' = [pc EXCEPT ![r] = where]
      /\ arena' = [arena EXCEPT ![a.root] = task]
      /\ at' = [at EXCEPT ![r] = a] /\ born' = [born EXCEPT ![r] = lifetime]
      /\ verdict' = [verdict EXCEPT ![r] = answer] /\ style' = style /\ lifetime' = lifetime
      /\ OrderlyClients => ClientMaySend(a)
  BY DEF Enter, Goto
<1>2. /\ at[r] = None /\ a.root \in Roots /\ a # None /\ style[r] = None
  BY <1>1, ProxyAssumption DEF CountInv, BaseInv, AnswersOK, Placed, Roots
<1>3. /\ pc'[r] = where /\ at'[r] = a /\ born'[r] = lifetime /\ verdict'[r] = answer
      /\ style'[r] = None /\ OthersKept(r)
  BY <1>1, <1>2 DEF CountInv, BaseInv, AnswersOK, RequestsOK, OthersKept
<1>4. arena'[a.root] = task /\ \A root \in Roots \ {a.root} : arena'[root] = arena[root]
  BY <1>1, <1>2 DEF CountInv, ArenaOK
<1>5. Mine(a.root)' = Mine(a.root) \cup {r} /\ r \notin Mine(a.root)
  BY <1>1, <1>2, <1>3 DEF Mine, OthersKept
<1>6. ASSUME NEW root \in Roots \ {a.root} PROVE Mine(root)' = Mine(root)
  BY <1>1, <1>2, <1>3 DEF Mine, OthersKept
<1>7. QED
  BY <1>1, <1>2, <1>3, <1>4, <1>5, <1>6

LEMMA StopFacts ==
  ASSUME CountInv, BaseInv, NEW r \in Reqs, Stop(r)
  PROVE  LET home == at[r].root
         IN  /\ pc[r] = "denied" /\ at[r] \in Refs /\ at[r] # None /\ born[r] = lifetime
             /\ home \in Roots /\ r \in Mine(home) /\ style[r] = None
             /\ pc'[r] = "stopping" /\ at' = at /\ born' = born /\ verdict' = verdict
             /\ style' = [style EXCEPT ![r] = TakeStop(arena[home]).style]
             /\ OthersKept(r) /\ lifetime' = lifetime
             /\ arena'[home] = TakeStop(arena[home]).task
             /\ \A root \in Roots \ {home} : arena'[root] = arena[root]
             /\ \A root \in Roots : Mine(root)' = Mine(root)
<1> DEFINE home == at[r].root
           stop == TakeStop(arena[home])
<1>1. /\ pc[r] = "denied" /\ pc' = [pc EXCEPT ![r] = "stopping"]
      /\ arena' = [arena EXCEPT ![home] = stop.task]
      /\ style' = [style EXCEPT ![r] = stop.style]
      /\ UNCHANGED <<at, verdict, born, lifetime>>
  BY DEF Stop, Goto
<1>2. at[r] \in Refs /\ at[r] # None /\ born[r] = lifetime /\ style[r] = None
  BY <1>1, ProxyAssumption DEF CountInv, Placed, Counted, Unfinished, BaseInv, AnswersOK
<1> HIDE DEF stop
<1>3. home \in Roots /\ r \in Mine(home)
  BY <1>2 DEF Roots, Mine
<1>4. pc'[r] = "stopping" /\ OthersKept(r)
  BY <1>1 DEF CountInv, RequestsOK, OthersKept, BaseInv, AnswersOK
<1>5. arena'[home] = stop.task /\ \A root \in Roots \ {home} : arena'[root] = arena[root]
  BY <1>1, <1>3 DEF CountInv, ArenaOK
<1>6. \A root \in Roots : Mine(root)' = Mine(root)
  BY <1>1 DEF Mine
<1>7. QED
  BY <1>1, <1>2, <1>3, <1>4, <1>5, <1>6 DEF stop

LEMMA FinishFacts ==
  ASSUME CountInv, BaseInv, NEW r \in Reqs, NEW usage, NEW complete, pc[r] \in Unfinished,
         FinishLocked(r, usage, complete)
  PROVE  LET home == at[r].root
         IN  /\ at[r] \in Refs /\ at[r] # None /\ born[r] = lifetime
             /\ home \in Roots /\ r \in Mine(home) /\ at[r].node \in DOMAIN arena[home].nodes
             /\ pc'[r] = "done" /\ at' = at /\ born' = born /\ verdict' = verdict
             /\ style' = style /\ OthersKept(r) /\ lifetime' = lifetime
             /\ arena'[home] = Finish(arena[home], at[r], usage, complete)
             /\ \A root \in Roots \ {home} : arena'[root] = arena[root]
             /\ \A root \in Roots : Mine(root)' = Mine(root)
<1> DEFINE home == at[r].root
           task == Finish(arena[home], at[r], usage, complete)
<1>1. /\ pc' = [pc EXCEPT ![r] = "done"] /\ arena' = [arena EXCEPT ![home] = task]
      /\ UNCHANGED <<at, verdict, style, born, lifetime>>
  BY DEF FinishLocked, Goto
<1>2. at[r] \in Refs /\ at[r] # None /\ born[r] = lifetime
  BY ProxyAssumption DEF CountInv, Placed, Counted
<1> HIDE DEF task
<1>3. home \in Roots /\ r \in Mine(home) /\ at[r].node \in DOMAIN arena[home].nodes
  BY <1>2 DEF Roots, Mine, BaseInv, Homes
<1>4. pc'[r] = "done" /\ OthersKept(r)
  BY <1>1 DEF CountInv, RequestsOK, OthersKept
<1>5. arena'[home] = task /\ \A root \in Roots \ {home} : arena'[root] = arena[root]
  BY <1>1, <1>3 DEF CountInv, ArenaOK
<1>6. \A root \in Roots : Mine(root)' = Mine(root)
  BY <1>1 DEF Mine
<1>7. QED
  BY <1>1, <1>2, <1>3, <1>4, <1>5, <1>6 DEF task

LEMMA StepFacts ==
  ASSUME CountInv, NEW r \in Reqs, NEW from, NEW to, Step(r, from, to)
  PROVE  /\ pc[r] \in from /\ pc'[r] = to /\ OthersKept(r)
         /\ UNCHANGED <<arena, at, verdict, style, born, lifetime>>
         /\ \A root \in Roots : Mine(root)' = Mine(root)
BY DEF Step, Goto, CountInv, RequestsOK, OthersKept, Mine

\* Nobody who arrived before a restart belongs to the lifetime after it.
LEMMA RestartFacts ==
  ASSUME CountInv, BaseInv, Restart
  PROVE  /\ arena' = FreshArena /\ lifetime' = lifetime + 1 /\ lifetime' \in 0..MaxRestarts
         /\ UNCHANGED <<at, verdict, style, born>>
         /\ \A r \in Reqs : style[r] # None => pc'[r] = pc[r]
         /\ \A root \in Roots : Mine(root)' = {}
<1>1. /\ arena' = FreshArena /\ lifetime' = lifetime + 1 /\ lifetime < MaxRestarts
      /\ UNCHANGED <<at, verdict, style, born>>
      /\ \A r \in Reqs : pc[r] \notin {"denied", "stopping"}
      /\ \A r \in Reqs : pc'[r] = IF pc[r] \in Unfinished \cup {"leaked"} THEN "lost" ELSE pc[r]
  BY DEF Restart
<1>2. lifetime \in Nat /\ MaxRestarts \in Nat
  BY ProxyAssumption DEF CountInv, RequestsOK
<1>3. \A r \in Reqs : style[r] # None => pc'[r] = pc[r]
  BY <1>1 DEF BaseInv, AnswersOK, Unfinished
<1>4. \A r \in Reqs : at[r] # None => born[r] # lifetime + 1
  BY <1>2 DEF BaseInv, Homes
<1>5. \A root \in Roots : Mine(root)' = {}
  BY <1>1, <1>4 DEF Mine
<1>6. QED
  BY <1>1, <1>2, <1>3, <1>5

-----------------------------------------------------------------------------
LEMMA FreshTrees ==
  \A root \in Roots :
    LET t == FreshArena[root]
    IN  /\ TreeOK(t) /\ DOMAIN t.nodes = {root} /\ t.nodes[root] = NewNode(None, 0, Ceiling)
        /\ t.root = root /\ t.ceiling = Ceiling /\ t.share = Share
        /\ ~t.sealed /\ ~t.synthetic
<1>1. ShareOK(Share) /\ Ceiling \in Nat \cup {None}
  BY ProxyAssumption DEF ShareOK
<1>2. SUFFICES ASSUME NEW root \in Roots
               PROVE  LET t == FreshArena[root]
                      IN  /\ TreeOK(t) /\ DOMAIN t.nodes = {root}
                          /\ t.nodes[root] = NewNode(None, 0, Ceiling)
                          /\ t.root = root /\ t.ceiling = Ceiling /\ t.share = Share
                          /\ ~t.sealed /\ ~t.synthetic
  OBVIOUS
<1>3. FreshArena[root] = NewTask(root, Ceiling, Share)
  BY DEF FreshArena
<1>4. QED
  BY <1>1, <1>3, NewTaskTree

LEMMA BaseInit == Init => BaseInv
<1>1. SUFFICES ASSUME Init PROVE BaseInv
  OBVIOUS
<1>2. /\ arena = FreshArena /\ at = [r \in Reqs |-> None] /\ verdict = [r \in Reqs |-> None]
      /\ style = [r \in Reqs |-> None] /\ born = [r \in Reqs |-> None] /\ lifetime = 0
  BY <1>1 DEF Init
<1>3. TreesOK
  BY <1>2, FreshTrees DEF TreesOK
<1>4. Homes /\ AnswersOK
  BY <1>2, ProxyAssumption DEF Homes, AnswersOK
<1>5. QED
  BY <1>3, <1>4 DEF BaseInv

\* Within a lifetime trees only grow, and whoever arrives has a node.
LEMMA TreesGrow ==
  ASSUME CountInv, BaseInv, lifetime' = lifetime,
         \A root \in Roots :
           /\ TreeOK(arena'[root]) /\ SameTask(arena[root], arena'[root])
           /\ DOMAIN arena[root].nodes \subseteq DOMAIN arena'[root].nodes
           /\ DOMAIN arena'[root].nodes \subseteq DOMAIN arena[root].nodes
                                                    \cup {a.node : a \in Refs},
         \A q \in Reqs : at'[q] # None =>
           \/ at'[q] = at[q] /\ born'[q] = born[q]
           \/ /\ at'[q] \in Refs /\ born'[q] = lifetime
              /\ at'[q].node \in DOMAIN arena'[at'[q].root].nodes
  PROVE  TreesOK' /\ Homes'
<1> DEFINE names == {a.node : a \in Refs}
<1>1. TreesOK'
  <2> HIDE DEF names
  <2>1. SUFFICES ASSUME NEW root \in Roots
                 PROVE  LET t == arena'[root]
                        IN  /\ TreeOK(t) /\ t.root = root /\ t.ceiling = Ceiling /\ t.share = Share
                            /\ root \in DOMAIN t.nodes
                            /\ DOMAIN t.nodes \subseteq {root} \cup names
    BY DEF TreesOK, names
  <2>2. /\ arena[root].root = root /\ arena[root].ceiling = Ceiling /\ arena[root].share = Share
        /\ root \in DOMAIN arena[root].nodes /\ DOMAIN arena[root].nodes \subseteq {root} \cup names
    BY DEF BaseInv, TreesOK, names
  <2>3. DOMAIN arena'[root].nodes \subseteq DOMAIN arena[root].nodes \cup names
    BY DEF names
  <2>4. QED BY <2>2, <2>3 DEF SameTask
<1>2. Homes'
  <2>1. SUFFICES ASSUME NEW q \in Reqs, at'[q] # None
                 PROVE  /\ born'[q] \in 0..lifetime
                        /\ born'[q] = lifetime => at'[q].node \in DOMAIN arena'[at'[q].root].nodes
    BY DEF Homes
  <2>2. lifetime \in 0..lifetime
    BY DEF CountInv, RequestsOK
  <2>3. CASE at'[q] = at[q] /\ born'[q] = born[q]
    <3>1. at[q] # None /\ at[q] \in Refs /\ at[q].root \in Roots
      BY <2>1, <2>3 DEF CountInv, RequestsOK, Roots
    <3>2. QED BY <2>3, <3>1 DEF BaseInv, Homes
  <2>4. QED BY <2>1, <2>2, <2>3
<1>3. QED
  BY <1>1, <1>2

LEMMA BaseEnter ==
  ASSUME CountInv, BaseInv, NEW r \in Reqs, NEW a \in Refs, Arrive(r, a) \/ ArriveWs(r, a)
  PROVE  BaseInv'
<1>1. PICK task, answer, where : /\ Enter(r, a, task, answer, where)
                                 /\ Begun(arena[a.root], a, task, answer, where)
  BY EnterKinds
<1>2. /\ pc[r] = "idle" /\ at[r] = None /\ style[r] = None /\ a.root \in Roots /\ a # None
      /\ pc'[r] = where /\ at'[r] = a /\ born'[r] = lifetime /\ verdict'[r] = answer
      /\ style'[r] = None /\ OthersKept(r) /\ lifetime' = lifetime
      /\ style' = style /\ verdict' = [verdict EXCEPT ![r] = answer]
      /\ arena'[a.root] = task /\ \A root \in Roots \ {a.root} : arena'[root] = arena[root]
  BY <1>1, EnterFacts
<1>3. TreeOK(arena[a.root]) /\ arena[a.root].ceiling = Ceiling
  BY <1>2 DEF BaseInv, TreesOK
<1>4. /\ TreeOK(task) /\ SameTask(arena[a.root], task)
      /\ DOMAIN task.nodes = DOMAIN arena[a.root].nodes \cup {a.node}
      /\ answer \in Verdicts
  BY <1>1, <1>3, BegunTask
<1>5. TreesOK' /\ Homes'
  <2>1. ASSUME NEW root \in Roots
        PROVE  /\ TreeOK(arena'[root]) /\ SameTask(arena[root], arena'[root])
               /\ DOMAIN arena[root].nodes \subseteq DOMAIN arena'[root].nodes
               /\ DOMAIN arena'[root].nodes \subseteq DOMAIN arena[root].nodes
                                                        \cup {b.node : b \in Refs}
    <3>1. CASE root = a.root
      BY <1>2, <1>4, <3>1
    <3>2. CASE root # a.root
      BY <1>2, <3>2 DEF BaseInv, TreesOK, SameTask
    <3>3. QED BY <3>1, <3>2
  <2>2. \A q \in Reqs : \/ at'[q] = at[q] /\ born'[q] = born[q]
                        \/ /\ at'[q] \in Refs /\ born'[q] = lifetime
                           /\ at'[q].node \in DOMAIN arena'[at'[q].root].nodes
    BY <1>2, <1>4 DEF OthersKept
  <2>3. QED BY <1>2, <2>1, <2>2, TreesGrow
<1>6. AnswersOK'
  <2>1. \A q \in Reqs : at'[q] = None => at[q] = None /\ q # r
    BY <1>2 DEF OthersKept
  <2>2. \A q \in Reqs : at'[q] = None => verdict'[q] = None /\ style'[q] = None /\ born'[q] = None
    BY <1>2, <2>1 DEF BaseInv, AnswersOK, OthersKept
  <2>3. \A q \in Reqs : style'[q] # None => pc'[q] \in {"stopping", "done"}
    BY <1>2 DEF BaseInv, AnswersOK, OthersKept
  <2>4. QED BY <1>2, <1>4, <2>2, <2>3 DEF BaseInv, AnswersOK
<1>7. QED
  BY <1>5, <1>6 DEF BaseInv

LEMMA BaseStop ==
  ASSUME CountInv, BaseInv, NEW r \in Reqs, Stop(r)
  PROVE  BaseInv'
<1>0. PICK home : home = at[r].root
  OBVIOUS
<1>1. /\ home \in Roots /\ at' = at /\ born' = born /\ verdict' = verdict
      /\ pc'[r] = "stopping" /\ OthersKept(r) /\ lifetime' = lifetime /\ at[r] # None
      /\ style' = [style EXCEPT ![r] = TakeStop(arena[home]).style]
      /\ arena'[home] = TakeStop(arena[home]).task
      /\ \A root \in Roots \ {home} : arena'[root] = arena[root]
  BY <1>0, StopFacts
<1>2. TreeOK(arena[home])
  BY <1>1 DEF BaseInv, TreesOK
<1>3. /\ TreeOK(arena'[home]) /\ SameTask(arena[home], arena'[home])
      /\ arena'[home].nodes = arena[home].nodes
      /\ TakeStop(arena[home]).style \in {"SyntheticEndTurn", "RetryableFalse429"}
  BY <1>1, <1>2, TakeStopTree
<1>4. TreesOK' /\ Homes'
  <2>1. ASSUME NEW root \in Roots
        PROVE  /\ TreeOK(arena'[root]) /\ SameTask(arena[root], arena'[root])
               /\ arena'[root].nodes = arena[root].nodes
    <3>1. CASE root = home
      BY <1>3, <3>1
    <3>2. CASE root # home
      BY <1>1, <3>2 DEF BaseInv, TreesOK, SameTask
    <3>3. QED BY <3>1, <3>2
  <2>2. QED BY <1>1, <2>1, TreesGrow
<1>5. AnswersOK'
  BY <1>1, <1>3 DEF Styles, BaseInv, AnswersOK, OthersKept
<1>6. QED
  BY <1>4, <1>5 DEF BaseInv

LEMMA BaseFinish ==
  ASSUME CountInv, BaseInv, NEW r \in Reqs, NEW usage \in Nat, NEW complete, pc[r] \in Unfinished,
         FinishLocked(r, usage, complete)
  PROVE  BaseInv'
<1>0. PICK home : home = at[r].root
  OBVIOUS
<1>1. /\ home \in Roots /\ at' = at /\ born' = born /\ verdict' = verdict /\ style' = style
      /\ pc'[r] = "done" /\ OthersKept(r) /\ lifetime' = lifetime /\ at[r] \in Refs
      /\ arena'[home] = Finish(arena[home], at[r], usage, complete)
      /\ \A root \in Roots \ {home} : arena'[root] = arena[root]
  BY <1>0, FinishFacts
<1>2. TreeOK(arena[home])
  BY <1>1 DEF BaseInv, TreesOK
<1>3. /\ TreeOK(arena'[home]) /\ SameTask(arena[home], arena'[home])
      /\ DOMAIN arena'[home].nodes = DOMAIN arena[home].nodes \cup {at[r].node}
  <2> DEFINE task == Finish(arena[home], at[r], usage, complete)
  <2>1. /\ TreeOK(task) /\ SameTask(arena[home], task)
        /\ DOMAIN task.nodes = DOMAIN arena[home].nodes \cup {at[r].node}
    BY <1>2, FinishTree
  <2>2. QED BY <1>1, <2>1
<1>4. TreesOK' /\ Homes'
  <2>1. ASSUME NEW root \in Roots
        PROVE  /\ TreeOK(arena'[root]) /\ SameTask(arena[root], arena'[root])
               /\ DOMAIN arena[root].nodes \subseteq DOMAIN arena'[root].nodes
               /\ DOMAIN arena'[root].nodes \subseteq DOMAIN arena[root].nodes
                                                        \cup {b.node : b \in Refs}
    <3>1. CASE root = home
      BY <1>1, <1>3, <3>1
    <3>2. CASE root # home
      BY <1>1, <3>2 DEF BaseInv, TreesOK, SameTask
    <3>3. QED BY <3>1, <3>2
  <2>2. QED BY <1>1, <2>1, TreesGrow
<1>5. AnswersOK'
  BY <1>1 DEF BaseInv, AnswersOK, OthersKept
<1>6. QED
  BY <1>4, <1>5 DEF BaseInv

\* The kinds of RelayKinds, with what a finish is billed and where a step leads.
Waiting == {"admitted", "handshake", "streaming"}
Onward == {"leaked", "streaming", "metering", "tunnel"}

Finishes(r, usage, complete) ==
  /\ pc[r] \in Unfinished \ {"denied"} /\ usage \in Nat /\ FinishLocked(r, usage, complete)
  /\ usage = 0 \/ (usage \in Usages /\ pc[r] \in {"metering", "tunnel"})

LEMMA BudgetKinds ==
  ASSUME NEW r \in Reqs, Relay(r)
  PROVE  \/ \E a \in Refs : Arrive(r, a) \/ ArriveWs(r, a)
         \/ Stop(r)
         \/ \E usage, complete : Finishes(r, usage, complete)
         \/ \E from \in SUBSET Waiting, to \in Onward :
              Step(r, from, to) /\ (to = "tunnel" => pc[r] = "handshake")
<1>1. CASE \/ Refuse(r) \/ UpstreamFails(r) \/ HandshakeRefused(r) \/ UpgradeFails(r)
  <2>1. pc[r] \in Unfinished \ {"denied"}
    BY <1>1 DEF Refuse, UpstreamFails, HandshakeRefused, UpgradeFails, Unfinished
  <2>2. FinishLocked(r, 0, TRUE) \/ FinishLocked(r, 0, FALSE)
    BY <1>1 DEF Refuse, UpstreamFails, HandshakeRefused, UpgradeFails
  <2>3. QED BY <2>1, <2>2 DEF Finishes
<1>2. CASE \E u \in Usages, c \in BOOLEAN : MeterFinishes(r, u, c) \/ TunnelEnds(r, u, c)
  <2>1. PICK u \in Usages, c \in BOOLEAN : MeterFinishes(r, u, c) \/ TunnelEnds(r, u, c)
    BY <1>2
  <2>2. Finishes(r, u, c)
    BY <2>1, ProxyAssumption DEF MeterFinishes, TunnelEnds, Unfinished, Finishes
  <2>3. QED BY <2>2
<1>3. CASE \/ RewriteFails(r) \/ ClientGone(r) \/ UpstreamResponds(r) \/ StreamEnds(r)
           \/ HandshakeFails(r) \/ TunnelOpens(r)
  <2>1. /\ {"admitted"} \cup (IF Scheme[lifetime] = "https" THEN {"handshake"} ELSE {}) \in SUBSET Waiting
        /\ {"admitted", "handshake"} \in SUBSET Waiting
        /\ {"streaming"} \in SUBSET Waiting /\ {"handshake"} \in SUBSET Waiting
    BY DEF Waiting
  <2>2. CASE TunnelOpens(r)
    BY <2>1, <2>2 DEF TunnelOpens, Onward, Step
  <2>3. CASE RewriteFails(r) \/ ClientGone(r) \/ HandshakeFails(r)
    <3>1. \E from \in SUBSET Waiting : Step(r, from, "leaked")
      BY <2>1, <2>3 DEF RewriteFails, ClientGone, HandshakeFails
    <3>2. QED BY <3>1 DEF Onward
  <2>4. CASE UpstreamResponds(r) \/ StreamEnds(r)
    <3>1. \E from \in SUBSET Waiting : Step(r, from, "streaming") \/ Step(r, from, "metering")
      BY <2>1, <2>4 DEF UpstreamResponds, StreamEnds
    <3>2. QED BY <3>1 DEF Onward
  <2>5. QED BY <1>3, <2>2, <2>3, <2>4
<1>4. QED
  BY <1>1, <1>2, <1>3 DEF Relay

LEMMA BaseNext == CountInv /\ BaseInv /\ [Next]_vars => BaseInv'
<1>1. SUFFICES ASSUME CountInv, BaseInv, [Next]_vars PROVE BaseInv'
  OBVIOUS
<1>2. ASSUME NEW r \in Reqs, NEW from \in SUBSET Waiting, NEW to \in Onward, Step(r, from, to)
      PROVE  BaseInv'
  <2>1. /\ pc[r] \in from /\ pc'[r] = to /\ OthersKept(r)
        /\ UNCHANGED <<arena, at, verdict, style, born, lifetime>>
    BY <1>1, <1>2, StepFacts
  <2>2. style[r] = None
    BY <1>1, <1>2, <2>1 DEF BaseInv, AnswersOK, Waiting
  <2>3. QED BY <1>1, <2>1, <2>2 DEF BaseInv, TreesOK, Homes, AnswersOK, OthersKept
<1>3. ASSUME NEW r \in Reqs, NEW usage, NEW complete, Finishes(r, usage, complete)
      PROVE  BaseInv'
  BY <1>1, <1>3, BaseFinish DEF Finishes
<1>4. CASE Restart
  <2>1. /\ arena' = FreshArena /\ lifetime' = lifetime + 1 /\ lifetime' \in 0..MaxRestarts
        /\ UNCHANGED <<at, verdict, style, born>>
        /\ \A r \in Reqs : style[r] # None => pc'[r] = pc[r]
    BY <1>1, <1>4, RestartFacts
  <2>2. TreesOK'
    BY <2>1, FreshTrees DEF TreesOK
  <2>3. Homes'
    BY <1>1, <2>1 DEF BaseInv, Homes, CountInv, RequestsOK
  <2>4. AnswersOK'
    BY <1>1, <2>1 DEF BaseInv, AnswersOK
  <2>5. QED BY <2>2, <2>3, <2>4 DEF BaseInv
<1>5. CASE Quiet \/ UNCHANGED vars
  BY <1>1, <1>5 DEF Quiet, vars, BaseInv, TreesOK, Homes, AnswersOK
<1>6. QED
  <2>1. ASSUME NEW r \in Reqs, Relay(r) PROVE BaseInv'
    BY <1>1, <1>2, <1>3, <2>1, BudgetKinds, BaseEnter, BaseStop
  <2>2. QED BY <1>1, <1>4, <1>5, <2>1 DEF Next

\* The trees stay well formed and requests find their nodes.
THEOREM BaseInvariant == Spec => []BaseInv
<1>1. QED
  BY BaseInit, BaseNext, CountInvariant, PTL DEF Spec

LEMMA LedgerInit == Init => LedgerInv
BY DEF Init, LedgerInv, RecordsAreOwned, RecordsDiffer, DoneIsRecorded

LEMMA BaseTypes ==
  ASSUME CountInv, BaseInv, LedgerInv
  PROVE  TypeOK
<1>1. ASSUME NEW root \in Roots PROVE TaskOK(arena[root])
  <2>1. /\ TreeOK(arena[root]) /\ arena[root].root = root
        /\ DOMAIN arena[root].nodes \subseteq {root} \cup {a.node : a \in Refs}
    BY DEF BaseInv, TreesOK
  <2>2. arena[root].live \in Nat /\ arena[root].peak \in Nat
    BY DEF CountInv, ArenaOK
  <2>3. QED BY <2>1, <2>2 DEF TaskOK, TreeOK, NodesOK, NodeOK, TaskFields
<1>2. ASSUME NEW i \in DOMAIN ledger
      PROVE  /\ ledger[i].at \in Refs /\ ledger[i].req \in Reqs
             /\ ledger[i].usage \in Nat /\ ledger[i].peak \in Nat
             /\ ledger[i].incomplete \in BOOLEAN /\ ledger[i].lifetime \in 0..lifetime
  <2>1. ledger \in Seq(Records)
    BY DEF LedgerInv
  <2>2. ledger[i] \in Records
    BY <2>1
  <2>3. /\ ledger[i].at \in Refs /\ ledger[i].req \in Reqs /\ ledger[i].usage \in Nat
        /\ ledger[i].peak \in Nat /\ ledger[i].incomplete \in BOOLEAN
    BY <2>2 DEF Records
  <2>4. ledger[i].lifetime = born[ledger[i].req] /\ ledger[i].at = at[ledger[i].req]
    BY DEF LedgerInv, RecordsAreOwned
  <2>5. QED BY <2>3, <2>4, ProxyAssumption DEF BaseInv, Homes
<1>3. DOMAIN arena = Roots
  BY DEF CountInv, ArenaOK
<1>4. /\ pc \in [Reqs -> Unfinished \cup Settled] /\ at \in [Reqs -> Refs \cup {None}]
      /\ born \in [Reqs -> Nat \cup {None}] /\ lifetime \in Nat
  BY DEF CountInv, RequestsOK
<1>5. lifetime \in 0..MaxRestarts
  BY DEF BaseInv, AnswersOK
<1>6. ASSUME NEW r \in Reqs PROVE born[r] \in 0..MaxRestarts \cup {None}
  <2>1. CASE at[r] = None
    BY <2>1 DEF BaseInv, AnswersOK
  <2>2. CASE at[r] # None
    BY <1>4, <1>5, <2>2, ProxyAssumption DEF BaseInv, Homes
  <2>3. QED BY <2>1, <2>2
<1>7. born \in [Reqs -> 0..MaxRestarts \cup {None}]
  BY <1>4, <1>6
<1>8. QED
  BY <1>1, <1>2, <1>3, <1>4, <1>5, <1>7 DEF TypeOK, BaseInv, AnswersOK

\* The arena, the ledger and every relay future hold what their types say,
\* whatever the clients, the upstream and the restarts do.
THEOREM RelayTypeCorrect == Spec => []TypeOK
<1>1. QED
  BY BaseInvariant, BaseTypes, LedgerInit, LedgerNext, CountInvariant, PTL DEF Spec

-----------------------------------------------------------------------------
(***************************************************************************)
(* One stop of a task is synthetic.                                        *)
(***************************************************************************)
\* A step that takes nobody's stop style.
LEMMA StopsSame ==
  ASSUME NEW root \in Roots, style' = style,
         \/ Mine(root)' = Mine(root)
         \/ \E r : style[r] = None /\ Mine(root)' = Mine(root) \cup {r}
  PROVE  Stopped(root)' = Stopped(root) /\ Synthetic(root)' = Synthetic(root)
<1>1. None # "SyntheticEndTurn"
  BY ProxyAssumption DEF Styles
<1>2. /\ {r \in Mine(root)' : style[r] # None} = {r \in Mine(root) : style[r] # None}
      /\ {r \in Mine(root)' : style[r] = "SyntheticEndTurn"}
           = {r \in Mine(root) : style[r] = "SyntheticEndTurn"}
  BY <1>1
<1>3. QED
  BY <1>2 DEF Stopped, Synthetic

\* take_stop: the first request stopped is the synthetic one.
LEMMA StopStops ==
  ASSUME CountInv, BaseInv, StopInv, NEW r \in Reqs, Stop(r)
  PROVE  StopInv'
<1>0. PICK home : home = at[r].root
  OBVIOUS
<1>1. /\ home \in Roots /\ r \in Mine(home) /\ style[r] = None
      /\ style' = [style EXCEPT ![r] = TakeStop(arena[home]).style]
      /\ arena'[home] = TakeStop(arena[home]).task
      /\ \A root \in Roots \ {home} : arena'[root] = arena[root]
      /\ \A root \in Roots : Mine(root)' = Mine(root)
  BY <1>0, StopFacts
<1>2. /\ arena'[home].synthetic
      /\ TakeStop(arena[home]).style = IF arena[home].synthetic THEN "RetryableFalse429"
                                       ELSE "SyntheticEndTurn"
  <2>1. TreeOK(arena[home])
    BY <1>1 DEF BaseInv, TreesOK
  <2>2. QED BY <1>1, <2>1, TakeStopTree
<1>3. "RetryableFalse429" # None /\ "SyntheticEndTurn" # None
  BY ProxyAssumption DEF Styles
<1>4. style'[r] = TakeStop(arena[home]).style /\ \A q \in Reqs \ {r} : style'[q] = style[q]
  BY <1>1 DEF BaseInv, AnswersOK
<1>5. \A root : Mine(root) \subseteq Reqs
  BY DEF Mine
<1>6. ASSUME NEW root \in Roots, root # home
      PROVE  Stopped(root)' = Stopped(root) /\ Synthetic(root)' = Synthetic(root)
  <2>1. r \notin Mine(root)
    BY <1>0, <1>6 DEF Mine
  <2>2. /\ {q \in Mine(root) : style'[q] # None} = {q \in Mine(root) : style[q] # None}
        /\ {q \in Mine(root) : style'[q] = "SyntheticEndTurn"}
             = {q \in Mine(root) : style[q] = "SyntheticEndTurn"}
    BY <1>4, <1>5, <2>1
  <2>3. QED BY <1>1, <2>2 DEF Stopped, Synthetic
<1>7. Stopped(home)' # {}
  BY <1>1, <1>2, <1>3, <1>4 DEF Stopped
<1>8. \E q \in Reqs : Synthetic(home)' = {q}
  <2>1. Synthetic(home)' = {q \in Mine(home) : style'[q] = "SyntheticEndTurn"}
    BY <1>1 DEF Synthetic
  <2>2. CASE arena[home].synthetic
    <3>1. style'[r] = "RetryableFalse429"
      BY <1>2, <1>4, <2>2
    <3>2. {q \in Mine(home) : style'[q] = "SyntheticEndTurn"} = Synthetic(home)
      BY <1>1, <1>3, <1>4, <1>5, <3>1 DEF Synthetic
    <3>3. QED BY <1>1, <2>1, <2>2, <3>2 DEF StopInv
  <2>3. CASE ~arena[home].synthetic
    <3>1. style'[r] = "SyntheticEndTurn"
      BY <1>2, <1>4, <2>3
    <3>2. \A q \in Mine(home) : style[q] = None
      BY <1>1, <2>3 DEF StopInv, Stopped
    <3>3. {q \in Mine(home) : style'[q] = "SyntheticEndTurn"} = {r}
      BY <1>1, <1>3, <1>4, <1>5, <3>1, <3>2
    <3>4. QED BY <2>1, <3>3
  <2>4. QED BY <2>2, <2>3
<1>9. ASSUME NEW root \in Roots
      PROVE  IF arena'[root].synthetic
             THEN Stopped(root)' # {} /\ \E q \in Reqs : Synthetic(root)' = {q}
             ELSE Stopped(root)' = {}
  <2>1. CASE root = home
    BY <1>2, <1>7, <1>8, <2>1
  <2>2. CASE root # home
    BY <1>1, <1>6, <2>2 DEF StopInv
  <2>3. QED BY <2>1, <2>2
<1>10. QED
  BY <1>9 DEF StopInv

LEMMA StopNext == CountInv /\ BaseInv /\ StopInv /\ [Next]_vars => StopInv'
<1>1. SUFFICES ASSUME CountInv, BaseInv, StopInv, [Next]_vars PROVE StopInv'
  OBVIOUS
<1>2. ASSUME \A root \in Roots : /\ arena'[root].synthetic = arena[root].synthetic
                                 /\ Stopped(root)' = Stopped(root)
                                 /\ Synthetic(root)' = Synthetic(root)
      PROVE  StopInv'
  BY <1>1, <1>2 DEF StopInv
<1>3. ASSUME NEW r \in Reqs, NEW a \in Refs, Arrive(r, a) \/ ArriveWs(r, a)
      PROVE  StopInv'
  <2>1. PICK task, answer, where : /\ Enter(r, a, task, answer, where)
                                   /\ Begun(arena[a.root], a, task, answer, where)
    BY <1>3, EnterKinds
  <2>2. /\ a.root \in Roots /\ style' = style /\ style[r] = None
        /\ arena'[a.root] = task /\ \A root \in Roots \ {a.root} : arena'[root] = arena[root]
        /\ Mine(a.root)' = Mine(a.root) \cup {r}
        /\ \A root \in Roots \ {a.root} : Mine(root)' = Mine(root)
    BY <1>1, <2>1, EnterFacts
  <2>3. TreeOK(arena[a.root]) /\ arena[a.root].ceiling = Ceiling
    BY <1>1, <2>2 DEF BaseInv, TreesOK
  <2>4. task.synthetic = arena[a.root].synthetic
    BY <2>1, <2>3, BegunTask
  <2>5. \A root \in Roots : Stopped(root)' = Stopped(root) /\ Synthetic(root)' = Synthetic(root)
    BY <2>2, StopsSame
  <2>6. QED BY <1>2, <2>2, <2>4, <2>5
<1>4. ASSUME NEW r \in Reqs, NEW usage, NEW complete, Finishes(r, usage, complete)
      PROVE  StopInv'
  <2>0. PICK home : home = at[r].root
    OBVIOUS
  <2>1. /\ home \in Roots /\ style' = style
        /\ arena'[home] = Finish(arena[home], at[r], usage, complete)
        /\ \A root \in Roots \ {home} : arena'[root] = arena[root]
        /\ \A root \in Roots : Mine(root)' = Mine(root)
    BY <1>1, <1>4, <2>0, FinishFacts DEF Finishes
  <2>2. TreeOK(arena[home]) /\ usage \in Nat
    BY <1>1, <1>4, <2>1 DEF BaseInv, TreesOK, Finishes
  <2>3. Finish(arena[home], at[r], usage, complete).synthetic = arena[home].synthetic
    BY <2>2, FinishFields DEF TreeOK
  <2>4. \A root \in Roots : Stopped(root)' = Stopped(root) /\ Synthetic(root)' = Synthetic(root)
    BY <2>1, StopsSame
  <2>5. QED BY <1>2, <2>1, <2>3, <2>4
<1>5. ASSUME NEW r \in Reqs, NEW from, NEW to, Step(r, from, to)
      PROVE  StopInv'
  BY <1>1, <1>2, <1>5, StepFacts, StopsSame
<1>6. CASE Restart
  <2>1. arena' = FreshArena /\ \A root \in Roots : Mine(root)' = {}
    BY <1>1, <1>6, RestartFacts
  <2>2. \A root \in Roots : ~arena'[root].synthetic
    BY <2>1, FreshTrees
  <2>3. QED BY <2>1, <2>2 DEF StopInv, Stopped
<1>7. CASE Quiet \/ UNCHANGED vars
  <2>1. style' = style /\ arena' = arena /\ \A root \in Roots : Mine(root)' = Mine(root)
    BY <1>7 DEF Quiet, vars, Mine
  <2>2. QED BY <1>2, <2>1, StopsSame
<1>8. QED
  <2>1. ASSUME NEW r \in Reqs, Relay(r) PROVE StopInv'
    BY <1>1, <1>3, <1>4, <1>5, <2>1, BudgetKinds, StopStops
  <2>2. QED BY <1>1, <1>6, <1>7, <2>1 DEF Next

\* Of all the requests a task has stopped, in whatever order their two lock
\* sections interleave, exactly one got the synthetic end_turn.
THEOREM FirstStopIsSynthetic == Spec => []OneSyntheticStop
<1>1. Init => StopInv
  <2>1. SUFFICES ASSUME Init PROVE StopInv
    OBVIOUS
  <2>2. arena = FreshArena /\ \A root \in Roots : Mine(root) = {}
    BY <2>1 DEF Init, Mine
  <2>3. QED BY <2>2, FreshTrees DEF StopInv, Stopped
<1>2. StopInv => OneSyntheticStop
  <2>1. SUFFICES ASSUME StopInv, NEW root \in Roots
                 PROVE  Cardinality({r \in Stopped(root) : style[r] = "SyntheticEndTurn"})
                          = IF Stopped(root) = {} THEN 0 ELSE 1
    BY DEF OneSyntheticStop, Stopped
  <2>2. "SyntheticEndTurn" # None
    BY ProxyAssumption DEF Styles
  <2>3. {r \in Stopped(root) : style[r] = "SyntheticEndTurn"} = Synthetic(root)
    BY <2>2 DEF Stopped, Synthetic
  <2>4. CASE arena[root].synthetic
    <3>1. PICK r : Synthetic(root) = {r}
      BY <2>1, <2>4 DEF StopInv
    <3>2. QED BY <2>1, <2>3, <2>4, <3>1, FS_Singleton DEF StopInv
  <2>5. CASE ~arena[root].synthetic
    <3>1. Stopped(root) = {} /\ Synthetic(root) = {}
      BY <2>1, <2>3, <2>5 DEF StopInv
    <3>2. QED BY <2>3, <3>1, FS_EmptySet
  <2>6. QED BY <2>4, <2>5
<1>3. QED
  BY <1>1, <1>2, StopNext, BaseInvariant, CountInvariant, PTL DEF Spec

-----------------------------------------------------------------------------
(***************************************************************************)
(* Arrivals alone seal, create and give vouchers.                          *)
(***************************************************************************)
Undisturbed(t, u) ==
  /\ SameTask(t, u) /\ u.sealed = t.sealed /\ DOMAIN u.nodes = DOMAIN t.nodes
  /\ \A n \in DOMAIN t.nodes :
       /\ u.nodes[n].parent = t.nodes[n].parent /\ u.nodes[n].depth = t.nodes[n].depth
       /\ u.nodes[n].allowance = t.nodes[n].allowance
       /\ u.nodes[n].sealed = t.nodes[n].sealed
       /\ \E more \in Nat : u.nodes[n].usage = t.nodes[n].usage + more

LEMMA UndisturbedSame ==
  ASSUME NEW t, TreeOK(t), NEW u, u.nodes = t.nodes, u.sealed = t.sealed, SameTask(t, u)
  PROVE  Undisturbed(t, u)
<1>1. \A n \in DOMAIN t.nodes : t.nodes[n].usage \in Nat
  BY DEF TreeOK, NodesOK, NodeOK
<1>2. \A n \in DOMAIN t.nodes : \E more \in Nat : t.nodes[n].usage = t.nodes[n].usage + more
  BY <1>1
<1>3. QED
  BY <1>2 DEF Undisturbed

LEMMA UndisturbedFinish ==
  ASSUME NEW t, TreeOK(t), NEW a, a.node \in DOMAIN t.nodes, NEW usage \in Nat, NEW complete
  PROVE  Undisturbed(t, Finish(t, a, usage, complete))
<1> DEFINE u == Finish(t, a, usage, complete)
<1>1. /\ SameTask(t, u) /\ u.sealed = t.sealed
      /\ DOMAIN u.nodes = DOMAIN t.nodes \cup {a.node} /\ Bills(t, a, usage, u)
  BY FinishTree
<1> HIDE DEF u
<1>2. \A n \in DOMAIN t.nodes : t.nodes[n].usage \in Nat
  BY DEF TreeOK, NodesOK, NodeOK
<1>3. ASSUME NEW n \in DOMAIN t.nodes
      PROVE  \E more \in Nat : u.nodes[n].usage = t.nodes[n].usage + more
  <2>1. CASE n = a.node
    BY <1>1, <2>1 DEF Bills
  <2>2. CASE n # a.node
    <3>1. u.nodes[n].usage = t.nodes[n].usage + 0
      BY <1>1, <1>2, <2>2 DEF Bills
    <3>2. QED BY <3>1
  <2>3. QED BY <2>1, <2>2
<1>4. Undisturbed(t, u)
  BY <1>1, <1>3 DEF Undisturbed, Bills
<1>5. QED
  BY <1>4 DEF u

LEMMA LaterSteps ==
  ASSUME CountInv, BaseInv, NEW r \in Reqs, Relay(r), ~\E a \in Refs : Arrive(r, a) \/ ArriveWs(r, a)
  PROVE  /\ at' = at /\ verdict' = verdict /\ born' = born /\ lifetime' = lifetime
         /\ \A root \in Roots : /\ Mine(root)' = Mine(root)
                                /\ Undisturbed(arena[root], arena'[root])
<1>0. \A root \in Roots : TreeOK(arena[root])
  BY DEF BaseInv, TreesOK
<1>1. \A root \in Roots : arena'[root] = arena[root] => Undisturbed(arena[root], arena'[root])
  BY <1>0, UndisturbedSame DEF SameTask
<1>2. CASE Stop(r)
  <2>0. PICK home : home = at[r].root
    OBVIOUS
  <2>1. /\ home \in Roots /\ at' = at /\ born' = born /\ verdict' = verdict /\ lifetime' = lifetime
        /\ arena'[home] = TakeStop(arena[home]).task
        /\ \A root \in Roots \ {home} : arena'[root] = arena[root]
        /\ \A root \in Roots : Mine(root)' = Mine(root)
    BY <1>2, <2>0, StopFacts
  <2>2. Undisturbed(arena[home], arena'[home])
    BY <1>0, <2>1, TakeStopTree, UndisturbedSame
  <2>3. QED BY <1>1, <2>1, <2>2
<1>3. ASSUME NEW usage, NEW complete, Finishes(r, usage, complete)
      PROVE  /\ at' = at /\ verdict' = verdict /\ born' = born /\ lifetime' = lifetime
             /\ \A root \in Roots : /\ Mine(root)' = Mine(root)
                                    /\ Undisturbed(arena[root], arena'[root])
  <2>0. PICK home : home = at[r].root
    OBVIOUS
  <2>1. /\ home \in Roots /\ at' = at /\ born' = born /\ verdict' = verdict /\ lifetime' = lifetime
        /\ at[r].node \in DOMAIN arena[home].nodes
        /\ arena'[home] = Finish(arena[home], at[r], usage, complete)
        /\ \A root \in Roots \ {home} : arena'[root] = arena[root]
        /\ \A root \in Roots : Mine(root)' = Mine(root)
    BY <1>3, <2>0, FinishFacts DEF Finishes
  <2>2. usage \in Nat
    BY <1>3 DEF Finishes
  <2>3. Undisturbed(arena[home], arena'[home])
    BY <1>0, <2>1, <2>2, UndisturbedFinish
  <2>4. QED BY <1>1, <2>1, <2>3
<1>4. ASSUME NEW from, NEW to, Step(r, from, to)
      PROVE  /\ at' = at /\ verdict' = verdict /\ born' = born /\ lifetime' = lifetime
             /\ \A root \in Roots : /\ Mine(root)' = Mine(root)
                                    /\ Undisturbed(arena[root], arena'[root])
  BY <1>1, <1>4, StepFacts
<1>5. QED
  BY <1>2, <1>3, <1>4, BudgetKinds

-----------------------------------------------------------------------------
(***************************************************************************)
(* Every seal has its one Last.                                            *)
(***************************************************************************)
Lasts(root) == {r \in Mine(root) : verdict[r] = "Last"}

SealCount(t) == Cardinality(SealedNodes(t)) + (IF t.sealed THEN 1 ELSE 0)

SealInv == \A root \in Roots : Cardinality(Lasts(root)) = SealCount(arena[root])

LEMMA SealCountNat ==
  ASSUME NEW t, TreeOK(t)
  PROVE  IsFiniteSet(SealedNodes(t)) /\ Cardinality(SealedNodes(t)) \in Nat
<1>1. IsFiniteSet(DOMAIN t.nodes) /\ SealedNodes(t) \subseteq DOMAIN t.nodes
  BY DEF TreeOK, NodesOK, SealedNodes
<1>2. QED
  BY <1>1, FS_Subset, FS_CardinalityType

LEMMA FreshSeals ==
  ASSUME NEW root \in Roots
  PROVE  SealCount(FreshArena[root]) = 0 /\ SealedNodes(FreshArena[root]) = {}
<1>1. /\ DOMAIN FreshArena[root].nodes = {root} /\ ~FreshArena[root].sealed
      /\ FreshArena[root].nodes[root] = NewNode(None, 0, Ceiling)
  BY FreshTrees
<1>2. ~NewNode(None, 0, Ceiling).sealed
  BY DEF NewNode
<1>3. SealedNodes(FreshArena[root]) = {}
  BY <1>1, <1>2 DEF SealedNodes
<1>4. QED
  BY <1>1, <1>3, FS_EmptySet DEF SealCount

LEMMA LastsFinite ==
  ASSUME NEW root
  PROVE  IsFiniteSet(Lasts(root)) /\ Cardinality(Lasts(root)) \in Nat
<1>1. IsFiniteSet(Mine(root)) /\ Lasts(root) \subseteq Mine(root)
  BY FiniteRequests DEF Lasts
<1>2. QED
  BY <1>1, FS_Subset, FS_CardinalityType

LEMMA SealEnter ==
  ASSUME CountInv, BaseInv, SealInv, NEW r \in Reqs, NEW a \in Refs,
         Arrive(r, a) \/ ArriveWs(r, a)
  PROVE  SealInv'
<1>1. PICK task, answer, where : /\ Enter(r, a, task, answer, where)
                                 /\ Begun(arena[a.root], a, task, answer, where)
  BY EnterKinds
<1>0. PICK home : home = a.root
  OBVIOUS
<1>2. /\ home \in Roots /\ verdict'[r] = answer /\ OthersKept(r)
      /\ arena'[home] = task /\ \A root \in Roots \ {home} : arena'[root] = arena[root]
      /\ Mine(home)' = Mine(home) \cup {r} /\ r \notin Mine(home) /\ at[r] = None
      /\ \A root \in Roots \ {home} : Mine(root)' = Mine(root)
  BY <1>0, <1>1, EnterFacts
<1>3. TreeOK(arena[home]) /\ arena[home].ceiling = Ceiling
  BY <1>2 DEF BaseInv, TreesOK
<1>4. \/ /\ answer # "Last" /\ task.sealed = arena[home].sealed
         /\ SealedNodes(task) = SealedNodes(arena[home])
      \/ /\ answer = "Last" /\ ~arena[home].sealed /\ task.sealed
         /\ SealedNodes(task) = SealedNodes(arena[home])
      \/ /\ answer = "Last" /\ ~arena[home].sealed /\ ~task.sealed
         /\ a.node \notin SealedNodes(arena[home])
         /\ SealedNodes(task) = SealedNodes(arena[home]) \cup {a.node}
  BY <1>0, <1>1, <1>3, BegunTask
<1>5. \A root : Mine(root) \subseteq Reqs
  BY DEF Mine
<1>6. ASSUME NEW root \in Roots, root # home
      PROVE  Lasts(root)' = Lasts(root)
  <2>1. r \notin Mine(root)
    BY <1>2 DEF Mine
  <2>2. {q \in Mine(root) : verdict'[q] = "Last"} = {q \in Mine(root) : verdict[q] = "Last"}
    BY <1>2, <1>5, <2>1 DEF OthersKept
  <2>3. QED BY <1>2, <1>6, <2>2 DEF Lasts
<1>7. /\ answer # "Last" => Lasts(home)' = Lasts(home)
      /\ answer = "Last" => Lasts(home)' = Lasts(home) \cup {r} /\ r \notin Lasts(home)
  <2>1. \A q \in Mine(home) : verdict'[q] = verdict[q]
    BY <1>2, <1>5 DEF OthersKept
  <2>2. Lasts(home)' = {q \in Mine(home) \cup {r} : verdict'[q] = "Last"}
    BY <1>2 DEF Lasts
  <2>3. QED BY <1>2, <2>1, <2>2 DEF Lasts
<1>8. /\ IsFiniteSet(Lasts(home)) /\ Cardinality(Lasts(home)) \in Nat
      /\ IsFiniteSet(SealedNodes(arena[home])) /\ Cardinality(SealedNodes(arena[home])) \in Nat
  BY <1>3, LastsFinite, SealCountNat
<1>9. Cardinality(Lasts(home)) = SealCount(arena[home])
  BY <1>2 DEF SealInv
<1>10. Cardinality(Lasts(home)') = SealCount(task)
  <2>1. CASE answer # "Last"
    BY <1>4, <1>7, <1>9, <2>1 DEF SealCount
  <2>2. CASE answer = "Last"
    <3>1. Cardinality(Lasts(home)') = Cardinality(Lasts(home)) + 1
      BY <1>7, <1>8, <2>2, FS_AddElement
    <3>2. CASE ~arena[home].sealed /\ task.sealed /\ SealedNodes(task) = SealedNodes(arena[home])
      BY <1>8, <1>9, <3>1, <3>2 DEF SealCount
    <3>3. CASE /\ ~arena[home].sealed /\ ~task.sealed /\ a.node \notin SealedNodes(arena[home])
               /\ SealedNodes(task) = SealedNodes(arena[home]) \cup {a.node}
      <4>1. Cardinality(SealedNodes(task)) = Cardinality(SealedNodes(arena[home])) + 1
        BY <1>8, <3>3, FS_AddElement
      <4>2. QED BY <1>8, <1>9, <3>1, <3>3, <4>1 DEF SealCount
    <3>4. QED BY <1>4, <2>2, <3>2, <3>3
  <2>3. QED BY <2>1, <2>2
<1>11. QED
  BY <1>2, <1>6, <1>10 DEF SealInv

LEMMA SealNext == CountInv /\ BaseInv /\ SealInv /\ [Next]_vars => SealInv'
<1>1. SUFFICES ASSUME CountInv, BaseInv, SealInv, [Next]_vars PROVE SealInv'
  OBVIOUS
<1>2. ASSUME NEW r \in Reqs, Relay(r), ~\E a \in Refs : Arrive(r, a) \/ ArriveWs(r, a)
      PROVE  SealInv'
  <2>1. /\ verdict' = verdict
        /\ \A root \in Roots : /\ Mine(root)' = Mine(root)
                               /\ Undisturbed(arena[root], arena'[root])
    BY <1>1, <1>2, LaterSteps
  <2>2. ASSUME NEW root \in Roots
        PROVE  Lasts(root)' = Lasts(root) /\ SealCount(arena'[root]) = SealCount(arena[root])
    <3>1. Lasts(root)' = Lasts(root)
      BY <2>1 DEF Lasts
    <3>2. SealedNodes(arena'[root]) = SealedNodes(arena[root])
      BY <2>1 DEF Undisturbed, SealedNodes
    <3>3. QED BY <2>1, <3>1, <3>2 DEF SealCount, Undisturbed
  <2>3. QED BY <1>1, <2>2 DEF SealInv
<1>3. CASE Restart
  <2>1. arena' = FreshArena /\ \A root \in Roots : Mine(root)' = {}
    BY <1>1, <1>3, RestartFacts
  <2>2. ASSUME NEW root \in Roots PROVE SealCount(FreshArena[root]) = 0
    BY FreshSeals
  <2>3. \A root \in Roots : Lasts(root)' = {}
    BY <2>1 DEF Lasts
  <2>4. QED BY <2>1, <2>2, <2>3, FS_EmptySet DEF SealInv
<1>4. CASE Quiet \/ UNCHANGED vars
  BY <1>1, <1>4 DEF Quiet, vars, SealInv, Lasts, Mine
<1>5. QED
  BY <1>1, <1>2, <1>3, <1>4, SealEnter DEF Next

\* However many requests reach a budget at once, one of them is let through
\* as Last for each seal, and each Last has sealed something.
THEOREM SealsArePaidFor == Spec => []OneLastPerSeal
<1>1. Init => SealInv
  <2>1. SUFFICES ASSUME Init PROVE SealInv
    OBVIOUS
  <2>2. arena = FreshArena /\ \A root \in Roots : Lasts(root) = {}
    BY <2>1 DEF Init, Mine, Lasts
  <2>3. QED BY <2>2, FreshSeals, FS_EmptySet DEF SealInv
<1>2. SealInv => OneLastPerSeal
  BY DEF SealInv, OneLastPerSeal, Lasts, SealCount, SealedNodes
<1>3. QED
  BY <1>1, <1>2, SealNext, BaseInvariant, CountInvariant, PTL DEF Spec

-----------------------------------------------------------------------------
(***************************************************************************)
(* Nobody is stopped under budget.                                         *)
(***************************************************************************)
\* What an arrival leaves of the nodes it finds, and of the one it creates;
\* a seal is the only thing it may add.
LEMMA BegunKeeps ==
  ASSUME NEW t, TreeOK(t), t.ceiling = Ceiling, NEW a, NEW task, NEW answer, NEW where,
         Begun(t, a, task, answer, where)
  PROVE  /\ \A n \in DOMAIN t.nodes :
              /\ task.nodes[n].parent = t.nodes[n].parent
              /\ task.nodes[n].depth = t.nodes[n].depth
              /\ task.nodes[n].usage = t.nodes[n].usage
              /\ t.nodes[n].allowance # None => task.nodes[n].allowance = t.nodes[n].allowance
         /\ a.node \notin DOMAIN t.nodes => /\ task.nodes[a.node].usage = 0
                                            /\ task.nodes[a.node].parent = a.parent
<1> DEFINE b == Begin(t, a)
<1>1. KeepsNodes(t, b) /\ AddsNode(t, a, b)
  BY ProxyAssumption, BeginTree
<1>2. \A n \in DOMAIN t.nodes \cup {a.node} :
        /\ task.nodes[n].allowance = b.nodes[n].allowance
        /\ task.nodes[n].parent = b.nodes[n].parent
        /\ task.nodes[n].depth = b.nodes[n].depth
        /\ task.nodes[n].usage = b.nodes[n].usage
  BY BegunTask
<1> HIDE DEF b
<1>3. QED
  BY <1>1, <1>2 DEF KeepsNodes, AddsNode

\* Budgets that are used up stay used up while trees only grow.
LEMMA StaysSpent ==
  ASSUME NEW t, TreeOK(t), NEW u, TreeOK(u), DOMAIN t.nodes \subseteq DOMAIN u.nodes,
         \A n \in DOMAIN t.nodes :
           /\ u.nodes[n].parent = t.nodes[n].parent
           /\ \E more \in Nat : u.nodes[n].usage = t.nodes[n].usage + more
           /\ t.nodes[n].allowance # None => u.nodes[n].allowance = t.nodes[n].allowance
  PROVE  /\ Ceiling # None /\ SpentMicros(t) >= Ceiling => SpentMicros(u) >= Ceiling
         /\ \A n \in DOMAIN t.nodes :
              /\ t.nodes[n].allowance # None
              /\ SubtreeSpentMicros(t, n) >= t.nodes[n].allowance
              => /\ u.nodes[n].allowance # None
                 /\ SubtreeSpentMicros(u, n) >= u.nodes[n].allowance
<1>1. ASSUME NEW n
      PROVE  /\ SubtreeSpentMicros(t, n) <= SubtreeSpentMicros(u, n)
             /\ SubtreeSpentMicros(t, n) \in Nat /\ SubtreeSpentMicros(u, n) \in Nat
             /\ SpentMicros(t) <= SpentMicros(u)
  BY SubtreeSpentGrows
<1>2. SpentMicros(t) \in Nat /\ SpentMicros(u) \in Nat
  BY CostsNat
<1>3. \A n \in DOMAIN t.nodes : t.nodes[n].allowance \in Nat \cup {None}
  BY DEF TreeOK, NodesOK, NodeOK
<1>4. Ceiling # None /\ SpentMicros(t) >= Ceiling => SpentMicros(u) >= Ceiling
  <2>1. SpentMicros(t) <= SpentMicros(u)
    BY <1>1
  <2>2. Ceiling \in Nat \cup {None}
    BY ProxyAssumption
  <2>3. QED BY <1>2, <2>1, <2>2
<1>5. ASSUME NEW n \in DOMAIN t.nodes, t.nodes[n].allowance # None,
             SubtreeSpentMicros(t, n) >= t.nodes[n].allowance
      PROVE  u.nodes[n].allowance # None /\ SubtreeSpentMicros(u, n) >= u.nodes[n].allowance
  BY <1>1, <1>3, <1>5
<1>6. QED
  BY <1>4, <1>5

LEMMA DenyEnter ==
  ASSUME CountInv, BaseInv, BaseInv', DenyInv, NEW r \in Reqs, NEW a \in Refs,
         Arrive(r, a) \/ ArriveWs(r, a)
  PROVE  DenyInv'
<1>1. PICK task, answer, where : /\ Enter(r, a, task, answer, where)
                                 /\ Begun(arena[a.root], a, task, answer, where)
  BY EnterKinds
<1>0. PICK home : home = a.root
  OBVIOUS
<1>2. /\ home \in Roots /\ verdict'[r] = answer /\ at'[r] = a /\ OthersKept(r)
      /\ arena'[home] = task /\ \A root \in Roots \ {home} : arena'[root] = arena[root]
      /\ Mine(home)' = Mine(home) \cup {r} /\ r \notin Mine(home) /\ at[r] = None
      /\ \A root \in Roots \ {home} : Mine(root)' = Mine(root)
  BY <1>0, <1>1, EnterFacts
<1>10. PICK t : t = arena[home]
  OBVIOUS
<1>3. TreeOK(t) /\ t.ceiling = Ceiling /\ Begun(t, a, task, answer, where)
  BY <1>0, <1>1, <1>2, <1>10 DEF BaseInv, TreesOK
<1>4. /\ TreeOK(task) /\ DOMAIN task.nodes = DOMAIN t.nodes \cup {a.node}
      /\ SpentMicros(task) = SpentMicros(t)
  BY <1>3, BegunTask
<1>5. \/ /\ answer # "Deny" /\ task.sealed = t.sealed /\ SealedNodes(task) = SealedNodes(t)
      \/ /\ answer = "Deny" /\ task.sealed = t.sealed /\ SealedNodes(task) = SealedNodes(t)
         /\ t.sealed \/ a.node \in SealedNodes(t)
      \/ /\ answer = "Last" /\ Ceiling # None /\ task.sealed
         /\ SealedNodes(task) = SealedNodes(t) /\ SpentMicros(t) >= Ceiling
      \/ /\ answer = "Last" /\ ~t.sealed /\ ~task.sealed
         /\ SealedNodes(task) = SealedNodes(t) \cup {a.node}
         /\ task.nodes[a.node].allowance # None
         /\ SubtreeSpentMicros(task, a.node) >= task.nodes[a.node].allowance
  BY <1>3, BegunTask
<1>6. \A n \in DOMAIN t.nodes :
        /\ task.nodes[n].parent = t.nodes[n].parent /\ task.nodes[n].usage = t.nodes[n].usage
        /\ t.nodes[n].allowance # None => task.nodes[n].allowance = t.nodes[n].allowance
  BY <1>3, BegunKeeps
<1>7. /\ Ceiling # None /\ SpentMicros(t) >= Ceiling => SpentMicros(task) >= Ceiling
      /\ \A n \in DOMAIN t.nodes :
           /\ t.nodes[n].allowance # None
           /\ SubtreeSpentMicros(t, n) >= t.nodes[n].allowance
           => /\ task.nodes[n].allowance # None
              /\ SubtreeSpentMicros(task, n) >= task.nodes[n].allowance
  <2>1. \A n \in DOMAIN t.nodes : \E more \in Nat : task.nodes[n].usage = t.nodes[n].usage + more
    <3>1. \A n \in DOMAIN t.nodes : t.nodes[n].usage \in Nat
      BY <1>3 DEF TreeOK, NodesOK, NodeOK
    <3>2. QED BY <1>6, <3>1
  <2>2. DOMAIN t.nodes \subseteq DOMAIN task.nodes
    BY <1>4
  <2>3. QED BY <1>3, <1>4, <1>6, <2>1, <2>2, StaysSpent
<1>8. /\ t.sealed => Ceiling # None /\ SpentMicros(t) >= Ceiling
      /\ \A n \in SealedNodes(t) : /\ t.nodes[n].allowance # None
                                   /\ SubtreeSpentMicros(t, n) >= t.nodes[n].allowance
      /\ \A q \in Mine(home) : verdict[q] = "Deny" => t.sealed \/ t.nodes[at[q].node].sealed
  BY <1>2, <1>10 DEF DenyInv, SealedNodes
<1>9. SealedNodes(t) \subseteq DOMAIN t.nodes
  BY DEF SealedNodes
<1>11. task.sealed => Ceiling # None /\ SpentMicros(task) >= Ceiling
  BY <1>4, <1>5, <1>8
<1>12. ASSUME NEW n \in SealedNodes(task)
       PROVE  /\ task.nodes[n].allowance # None
              /\ SubtreeSpentMicros(task, n) >= task.nodes[n].allowance
  <2>1. CASE n \in SealedNodes(t)
    BY <1>7, <1>8, <1>9, <2>1
  <2>2. CASE n \notin SealedNodes(t)
    BY <1>5, <1>12, <2>2
  <2>3. QED BY <2>1, <2>2
<1>13. ASSUME NEW q \in Mine(home)', verdict'[q] = "Deny"
       PROVE  task.sealed \/ task.nodes[at'[q].node].sealed
  <2>1. CASE q = r
    <3>1. answer = "Deny" /\ at'[q] = a
      BY <1>2, <1>13, <2>1
    <3>2. t.sealed \/ a.node \in SealedNodes(t)
      BY <1>5, <3>1
    <3>3. task.sealed = t.sealed /\ SealedNodes(task) = SealedNodes(t)
      BY <1>5, <3>1
    <3>4. QED BY <3>1, <3>2, <3>3 DEF SealedNodes
  <2>2. CASE q # r
    <3>1. q \in Mine(home) /\ q \in Reqs
      BY <1>2, <1>13, <2>2 DEF Mine
    <3>2. verdict[q] = "Deny" /\ at'[q] = at[q]
      BY <1>2, <1>13, <2>2, <3>1 DEF OthersKept
    <3>3. at[q].node \in DOMAIN t.nodes
      BY <1>10, <3>1 DEF BaseInv, Homes, Mine
    <3>4. t.sealed \/ at[q].node \in SealedNodes(t)
      BY <1>8, <3>1, <3>2, <3>3 DEF SealedNodes
    <3>5. task.sealed \/ at[q].node \in SealedNodes(task)
      BY <1>5, <3>4
    <3>6. QED BY <3>2, <3>5 DEF SealedNodes
  <2>3. QED BY <2>1, <2>2
<1>14. \A n \in DOMAIN task.nodes : task.nodes[n].sealed => n \in SealedNodes(task)
  BY DEF SealedNodes
<1>15. ASSUME NEW root \in Roots, root # home, NEW q \in Mine(root)', verdict'[q] = "Deny"
       PROVE  arena'[root].sealed \/ arena'[root].nodes[at'[q].node].sealed
  <2>1. q \in Mine(root) /\ q \in Reqs /\ q # r
    BY <1>2, <1>15 DEF Mine
  <2>2. verdict[q] = "Deny" /\ at'[q] = at[q]
    BY <1>2, <1>15, <2>1 DEF OthersKept
  <2>3. QED BY <1>2, <1>15, <2>1, <2>2 DEF DenyInv
<1>16. ASSUME NEW root \in Roots
       PROVE  LET u == arena'[root]
              IN  /\ u.sealed => Ceiling # None /\ SpentMicros(u) >= Ceiling
                  /\ \A n \in DOMAIN u.nodes :
                       u.nodes[n].sealed => /\ u.nodes[n].allowance # None
                                            /\ SubtreeSpentMicros(u, n) >= u.nodes[n].allowance
                  /\ \A q \in Mine(root)' :
                       verdict'[q] = "Deny" => u.sealed \/ u.nodes[at'[q].node].sealed
  <2>1. CASE root = home
    BY <1>2, <1>11, <1>12, <1>13, <1>14, <2>1
  <2>2. CASE root # home
    BY <1>2, <1>15, <2>2 DEF DenyInv
  <2>3. QED BY <2>1, <2>2
<1>17. QED
  BY <1>16 DEF DenyInv

LEMMA DenyNext == CountInv /\ BaseInv /\ DenyInv /\ [Next]_vars => DenyInv'
<1>1. SUFFICES ASSUME CountInv, BaseInv, DenyInv, [Next]_vars PROVE DenyInv'
  OBVIOUS
<1>2. BaseInv'
  BY <1>1, BaseNext
<1>3. ASSUME NEW r \in Reqs, Relay(r), ~\E a \in Refs : Arrive(r, a) \/ ArriveWs(r, a)
      PROVE  DenyInv'
  <2>1. /\ verdict' = verdict /\ at' = at
        /\ \A root \in Roots : /\ Mine(root)' = Mine(root)
                               /\ Undisturbed(arena[root], arena'[root])
    BY <1>1, <1>3, LaterSteps
  <2>2. SUFFICES ASSUME NEW root \in Roots
                 PROVE  LET u == arena'[root]
                        IN  /\ u.sealed => Ceiling # None /\ SpentMicros(u) >= Ceiling
                            /\ \A n \in DOMAIN u.nodes :
                                 u.nodes[n].sealed
                                   => /\ u.nodes[n].allowance # None
                                      /\ SubtreeSpentMicros(u, n) >= u.nodes[n].allowance
                            /\ \A q \in Mine(root)' :
                                 verdict'[q] = "Deny" => u.sealed \/ u.nodes[at'[q].node].sealed
    BY DEF DenyInv
  <2>3. PICK t : t = arena[root]
    OBVIOUS
  <2>4. PICK u : u = arena'[root]
    OBVIOUS
  <2>5. TreeOK(t) /\ TreeOK(u) /\ Undisturbed(t, u)
    BY <1>1, <1>2, <2>1, <2>3, <2>4 DEF BaseInv, TreesOK
  <2>6. /\ Ceiling # None /\ SpentMicros(t) >= Ceiling => SpentMicros(u) >= Ceiling
        /\ \A n \in DOMAIN t.nodes :
             /\ t.nodes[n].allowance # None
             /\ SubtreeSpentMicros(t, n) >= t.nodes[n].allowance
             => /\ u.nodes[n].allowance # None
                /\ SubtreeSpentMicros(u, n) >= u.nodes[n].allowance
    <3>1. DOMAIN t.nodes \subseteq DOMAIN u.nodes
      BY <2>5 DEF Undisturbed
    <3>2. \A n \in DOMAIN t.nodes :
            /\ u.nodes[n].parent = t.nodes[n].parent
            /\ \E more \in Nat : u.nodes[n].usage = t.nodes[n].usage + more
            /\ t.nodes[n].allowance # None => u.nodes[n].allowance = t.nodes[n].allowance
      BY <2>5 DEF Undisturbed
    <3>3. QED BY <2>5, <3>1, <3>2, StaysSpent
  <2>7. /\ t.sealed => Ceiling # None /\ SpentMicros(t) >= Ceiling
        /\ \A n \in DOMAIN t.nodes :
             t.nodes[n].sealed => /\ t.nodes[n].allowance # None
                                  /\ SubtreeSpentMicros(t, n) >= t.nodes[n].allowance
        /\ \A q \in Mine(root) : verdict[q] = "Deny" => t.sealed \/ t.nodes[at[q].node].sealed
    BY <1>1, <2>3 DEF DenyInv
  <2>8. \A q \in Mine(root) : at[q].node \in DOMAIN t.nodes
    BY <1>1, <2>3 DEF BaseInv, Homes, Mine
  <2>9. /\ u.sealed = t.sealed /\ DOMAIN u.nodes = DOMAIN t.nodes
        /\ \A n \in DOMAIN t.nodes : u.nodes[n].sealed = t.nodes[n].sealed
    BY <2>5 DEF Undisturbed
  <2>10. QED BY <2>1, <2>4, <2>6, <2>7, <2>8, <2>9
<1>4. CASE Restart
  <2>1. arena' = FreshArena /\ \A root \in Roots : Mine(root)' = {}
    BY <1>1, <1>4, RestartFacts
  <2>2. \A root \in Roots : ~FreshArena[root].sealed
    BY FreshTrees
  <2>3. \A root \in Roots : \A n \in DOMAIN FreshArena[root].nodes :
          ~FreshArena[root].nodes[n].sealed
    BY FreshSeals DEF SealedNodes
  <2>4. QED BY <2>1, <2>2, <2>3 DEF DenyInv
<1>5. CASE Quiet \/ UNCHANGED vars
  BY <1>1, <1>5 DEF Quiet, vars, DenyInv, Mine
<1>6. QED
  BY <1>1, <1>2, <1>3, <1>4, <1>5, DenyEnter DEF Next

\* A request that was denied belongs to a task over its ceiling or to a node
\* over its voucher, and no later step of anybody takes that back.
THEOREM DenialsAreJust == Spec => []NoFalseDenial
<1>1. Init => DenyInv
  <2>1. SUFFICES ASSUME Init PROVE DenyInv
    OBVIOUS
  <2>2. arena = FreshArena /\ \A root \in Roots : Mine(root) = {}
    BY <2>1 DEF Init, Mine
  <2>3. \A root \in Roots : ~FreshArena[root].sealed
    BY FreshTrees
  <2>4. \A root \in Roots : \A n \in DOMAIN FreshArena[root].nodes :
          ~FreshArena[root].nodes[n].sealed
    BY FreshSeals DEF SealedNodes
  <2>5. QED BY <2>2, <2>3, <2>4 DEF DenyInv
<1>2. BaseInv /\ DenyInv => NoFalseDenial
  <2>1. SUFFICES ASSUME BaseInv, DenyInv, NEW root \in Roots, NEW r \in Mine(root),
                        verdict[r] = "Deny"
                 PROVE  LET t == arena[root]
                        IN  \/ SpentMicros(t) >= Ceiling
                            \/ /\ t.nodes[at[r].node].allowance # None
                               /\ SubtreeSpentMicros(t, at[r].node)
                                    >= t.nodes[at[r].node].allowance
    BY DEF NoFalseDenial
  <2>2. at[r].node \in DOMAIN arena[root].nodes
    BY <2>1 DEF BaseInv, Homes, Mine
  <2>3. QED BY <2>1, <2>2 DEF DenyInv
<1>3. QED
  BY <1>1, <1>2, DenyNext, BaseInvariant, CountInvariant, PTL DEF Spec

-----------------------------------------------------------------------------
(***************************************************************************)
(* How far a task can go over its ceiling.                                 *)
(***************************************************************************)
LEMMA HasMax ==
  ASSUME NEW S \in SUBSET Nat, IsFiniteSet(S), S # {}
  PROVE  Max(S) \in S /\ \A k \in S : k <= Max(S)
<1> DEFINE Bounded(R) == \E m \in R : \A k \in R : m >= k
           F == {R \in SUBSET Nat : R = {} \/ Bounded(R)}
<1>1. ASSUME NEW R \in SUBSET Nat, R # {}, \A x \in R : R \ {x} \in F
      PROVE  R \in F
  <2>1. PICK x \in R : TRUE
    BY <1>1
  <2>2. CASE R \ {x} = {}
    <3>1. \A k \in R : x >= k
      BY <1>1, <2>2
    <3>2. Bounded(R)
      BY <3>1
    <3>3. QED BY <3>2
  <2>3. CASE R \ {x} # {}
    <3>1. PICK m \in R \ {x} : \A k \in R \ {x} : m >= k
      BY <1>1, <2>3
    <3>2. CASE x >= m
      <4>1. \A k \in R : x >= k
        BY <3>1, <3>2
      <4>2. Bounded(R)
        BY <4>1
      <4>3. QED BY <4>2
    <3>3. CASE ~(x >= m)
      <4>1. \A k \in R : m >= k
        BY <3>1, <3>3
      <4>2. Bounded(R)
        BY <3>1, <4>1
      <4>3. QED BY <4>2
    <3>4. QED BY <3>2, <3>3
  <2>4. QED BY <2>2, <2>3
<1>2. {} \in F /\ F \in SUBSET (SUBSET Nat)
  OBVIOUS
<1>3. S \in F
  <2> HIDE DEF F
  <2>1. \A R \in SUBSET Nat : IsFiniteSet(R) => R \in F
    BY <1>1, <1>2, SetInd
  <2>2. QED BY <2>1
<1>4. \E m \in S : \A k \in S : m >= k
  BY <1>3
<1>5. Max(S) = CHOOSE m \in S : \A k \in S : m >= k
  BY DEF Max
<1>6. Max(S) \in S /\ \A k \in S : Max(S) >= k
  BY <1>4, <1>5
<1>7. QED
  BY <1>6

\* No answer costs more than MaxCost.
LEMMA MaxCostBounds ==
  /\ MaxCost \in Nat
  /\ \A usage \in Usages : CostOf(usage) \in Nat /\ CostOf(usage) <= MaxCost
<1>1. Usages \in SUBSET Nat /\ IsFiniteSet(Usages) /\ Usages # {}
  BY ProxyAssumption
<1>2. Max(Usages) \in Nat /\ \A usage \in Usages : usage <= Max(Usages)
  BY <1>1, HasMax
<1>3. MaxCost = CostOf(Max(Usages))
  BY DEF MaxCost, CostOf
<1>4. QED
  BY <1>1, <1>2, <1>3, MicrosNat, CostOfMonotone

LEMMA TimesMore ==
  ASSUME NEW m \in Nat, NEW n \in Nat, NEW k \in Nat, n <= k
  PROVE  m * n \in Nat /\ m * k \in Nat /\ m * n <= m * k /\ m * (n + 1) = m * n + m
<1>1. PICK d \in Nat : k = n + d
  <2>1. k - n \in Nat /\ k = n + (k - n)
    OBVIOUS
  <2>2. QED BY <2>1
<1>2. m * (n + d) = m * n + m * d /\ m * d \in Nat /\ m * n \in Nat
  OBVIOUS
<1>3. m * (n + 1) = m * n + m
  OBVIOUS
<1>4. QED
  BY <1>1, <1>2, <1>3

LEMMA BegunCounts ==
  ASSUME NEW t, DOMAIN t = TaskFields, t.live \in Nat, t.peak \in Nat,
         NEW a, NEW task, NEW answer, NEW where, Begun(t, a, task, answer, where)
  PROVE  task.peak \in Nat /\ t.peak <= task.peak /\ t.live + 1 <= task.peak
<1> DEFINE b == Begin(t, a)
<1>1. /\ DOMAIN b = TaskFields
      /\ b.peak = IF t.live + 1 > t.peak THEN t.live + 1 ELSE t.peak
  BY BeginFields
<1>2. task = b \/ task = AdmitAt(b, a).task
  BY DEF Begun
<1> HIDE DEF b
<1>3. task.peak = b.peak
  BY <1>1, <1>2, AdmitAtFields
<1>4. QED
  BY <1>1, <1>3

LEMMA BilledFinite ==
  ASSUME NEW root
  PROVE  IsFiniteSet(Billed(root)) /\ Cardinality(Billed(root)) \in Nat
           /\ Cardinality(Billed(root)) <= Cardinality(Counting(root))
<1>1. Billed(root) \subseteq Counting(root)
  BY DEF Billed, Counting, InState, Counted, Unfinished
<1>2. QED
  BY <1>1, FiniteRequests, FS_Subset, FS_CardinalityType

LEMMA FreshSpend ==
  ASSUME NEW root \in Roots
  PROVE  SpentMicros(FreshArena[root]) = 0
<1>1. /\ TreeOK(FreshArena[root]) /\ DOMAIN FreshArena[root].nodes = {root}
      /\ FreshArena[root].nodes[root] = NewNode(None, 0, Ceiling)
  BY FreshTrees
<1>2. NewNode(None, 0, Ceiling).usage = 0
  BY DEF NewNode
<1> DEFINE g == Costs(FreshArena[root])
<1>3. g[root] = 0
  BY <1>1, <1>2, CostsNat, MicrosZero
<1> HIDE DEF g
<1>4. {root} \ {root} = {} /\ IsFiniteSet({root})
  BY FS_Singleton
<1>5. SumOf(g, {root}) = g[root] + SumOf(g, {root} \ {root})
  BY <1>3, <1>4, SumOfTakeOut
<1>6. SumOf(g, {root}) = 0
  BY <1>3, <1>4, <1>5, SumOfEmpty
<1>7. QED
  BY <1>1, <1>6 DEF SpentMicros, SpentOn, g

LEMMA WithinLess ==
  ASSUME NEW t, NEW u, NEW n \in Nat, NEW k \in Nat, k <= n, Within(t, n), Ceiling \in Nat,
         SpentMicros(t) \in Nat, SpentMicros(u) = SpentMicros(t),
         Slack(t) \in Nat, Slack(u) \in Nat, Slack(t) <= Slack(u)
  PROVE  Within(u, k)
<1>1. MaxCost \in Nat
  BY MaxCostBounds
<1>2. MaxCost * k <= MaxCost * n /\ MaxCost * k \in Nat /\ MaxCost * n \in Nat
  BY <1>1, TimesMore
<1>3. /\ MaxCost * Slack(t) <= MaxCost * Slack(u)
      /\ MaxCost * Slack(t) \in Nat /\ MaxCost * Slack(u) \in Nat
  BY <1>1, TimesMore
<1>4. SaturatingSub(Ceiling, 1) \in Nat
  BY DEF SaturatingSub
<1>5. QED
  BY <1>2, <1>3, <1>4 DEF Within

\* A finish trades a billed request for what its answer cost.
LEMMA WithinFinish ==
  ASSUME NEW t, NEW u, NEW n \in Nat, Within(t, n + 1), Ceiling \in Nat,
         SpentMicros(t) \in Nat, SpentMicros(u) \in Nat, SpentMicros(u) <= SpentMicros(t) + MaxCost,
         Slack(t) \in Nat, Slack(u) = Slack(t)
  PROVE  Within(u, n)
<1>1. MaxCost \in Nat
  BY MaxCostBounds
<1>2. MaxCost * (n + 1) = MaxCost * n + MaxCost /\ MaxCost * n \in Nat
  BY <1>1, TimesMore
<1>3. MaxCost * Slack(t) \in Nat
  BY <1>1, TimesMore
<1>4. SaturatingSub(Ceiling, 1) \in Nat
  BY DEF SaturatingSub
<1>5. QED
  BY <1>1, <1>2, <1>3, <1>4 DEF Within

\* Under the ceiling there is room for everybody in the concurrency peak.
LEMMA WithinUnder ==
  ASSUME NEW u, NEW n \in Nat, Ceiling \in Nat, SpentMicros(u) \in Nat,
         ~(SpentMicros(u) >= Ceiling), Slack(u) \in Nat, n <= Slack(u)
  PROVE  Within(u, n)
<1>1. MaxCost \in Nat
  BY MaxCostBounds
<1>2. /\ MaxCost * n <= MaxCost * Slack(u)
      /\ MaxCost * n \in Nat /\ MaxCost * Slack(u) \in Nat
  BY <1>1, TimesMore
<1>3. SpentMicros(u) <= SaturatingSub(Ceiling, 1) /\ SaturatingSub(Ceiling, 1) \in Nat
  BY DEF SaturatingSub
<1>4. QED
  BY <1>2, <1>3 DEF Within

\* Who seals the task is one more.
LEMMA WithinLast ==
  ASSUME NEW t, NEW u, NEW n \in Nat, Within(t, n), Ceiling \in Nat,
         SpentMicros(t) \in Nat, SpentMicros(u) = SpentMicros(t),
         Slack(t) \in Nat, Slack(u) \in Nat, Slack(t) + 1 <= Slack(u)
  PROVE  Within(u, n + 1)
<1>1. MaxCost \in Nat
  BY MaxCostBounds
<1>2. MaxCost * (n + 1) = MaxCost * n + MaxCost /\ MaxCost * n \in Nat
  BY <1>1, TimesMore
<1>3. MaxCost * (Slack(t) + 1) = MaxCost * Slack(t) + MaxCost /\ MaxCost * Slack(t) \in Nat
  BY <1>1, TimesMore
<1>4. MaxCost * (Slack(t) + 1) <= MaxCost * Slack(u) /\ MaxCost * Slack(u) \in Nat
  <2>1. Slack(t) + 1 \in Nat
    OBVIOUS
  <2>2. QED BY <1>1, <2>1, TimesMore
<1>5. SaturatingSub(Ceiling, 1) \in Nat
  BY DEF SaturatingSub
<1>6. QED
  BY <1>1, <1>2, <1>3, <1>4, <1>5 DEF Within

LEMMA SpendEnter ==
  ASSUME ~Upgrades, Ceiling # None, CountInv, BaseInv, SpendInv, NEW r \in Reqs, NEW a \in Refs,
         Arrive(r, a) \/ ArriveWs(r, a)
  PROVE  SpendInv'
<1>1. PICK task, answer, where : /\ Enter(r, a, task, answer, where)
                                 /\ Begun(arena[a.root], a, task, answer, where)
  BY EnterKinds
<1>0. PICK home : home = a.root
  OBVIOUS
<1>2. /\ home \in Roots /\ pc'[r] = where /\ OthersKept(r)
      /\ arena'[home] = task /\ \A root \in Roots \ {home} : arena'[root] = arena[root]
      /\ Mine(home)' = Mine(home) \cup {r} /\ r \notin Mine(home) /\ at[r] = None
      /\ \A root \in Roots \ {home} : Mine(root)' = Mine(root)
  BY <1>0, <1>1, EnterFacts
<1>3. PICK t : t = arena[home]
  OBVIOUS
<1>4. /\ TreeOK(t) /\ t.ceiling = Ceiling /\ Begun(t, a, task, answer, where)
      /\ Ceiling \in Nat /\ DOMAIN t = TaskFields /\ t.live \in Nat /\ t.peak \in Nat
      /\ t.live = Cardinality(Counting(home))
  BY <1>0, <1>1, <1>2, <1>3, ProxyAssumption DEF BaseInv, TreesOK, CountInv, ArenaOK, Balanced
<1>5. task.peak \in Nat /\ t.peak <= task.peak /\ t.live + 1 <= task.peak
  BY <1>4, BegunCounts
<1>6. /\ TreeOK(task) /\ SpentMicros(task) = SpentMicros(t)
      /\ where \in {"admitted", "denied"} /\ (where = "denied" <=> answer = "Deny")
      /\ \/ answer = "Allow" /\ task.sealed = t.sealed /\ ~(SpentMicros(t) >= Ceiling)
         \/ answer = "Deny" /\ task.sealed = t.sealed
         \/ answer = "Last" /\ ~t.sealed /\ task.sealed
         \/ answer = "Last" /\ task.sealed = t.sealed /\ ~(SpentMicros(t) >= Ceiling)
  <2>1. /\ TreeOK(task) /\ SpentMicros(task) = SpentMicros(t)
        /\ where \in {"admitted", "denied", "handshake"} /\ (where = "denied" <=> answer = "Deny")
        /\ where = "handshake" => Upgrades
    BY <1>4, BegunTask
  <2>2. answer # "Unchecked"
    <3>1. answer = "Allow" \/ answer = AdmitAt(Begin(t, a), a).verdict
      BY <1>4 DEF Begun
    <3>2. CASE answer = AdmitAt(Begin(t, a), a).verdict
      <4> DEFINE b == Begin(t, a)
      <4>1. TreeOK(b) /\ SameTask(t, b) /\ DOMAIN b.nodes = DOMAIN t.nodes \cup {a.node}
        BY <1>4, ProxyAssumption, BeginTree
      <4> HIDE DEF b
      <4>2. TreeOK(b) /\ a.node \in DOMAIN b.nodes /\ b.ceiling # None
        BY <1>4, <4>1 DEF SameTask
      <4>3. AdmitAt(b, a).verdict \in {"Allow", "Deny", "Last"}
        BY <4>2, AdmitAtTree, ZenonT(60)
      <4>4. QED BY <3>2, <4>3 DEF b
    <3>3. QED BY <3>1, <3>2
  <2>3. \/ answer = "Allow" /\ task.sealed = t.sealed /\ ~(SpentMicros(t) >= Ceiling)
        \/ answer = "Deny" /\ task.sealed = t.sealed
        \/ answer = "Last" /\ ~t.sealed /\ task.sealed
        \/ answer = "Last" /\ task.sealed = t.sealed /\ ~(SpentMicros(t) >= Ceiling)
    <3>1. \/ /\ answer \in {"Allow", "Unchecked"} /\ task.sealed = t.sealed
             /\ answer = "Allow" /\ Ceiling # None => ~t.sealed /\ ~(SpentMicros(t) >= Ceiling)
          \/ answer = "Deny" /\ task.sealed = t.sealed
          \/ answer = "Last" /\ ~t.sealed /\ task.sealed
          \/ answer = "Last" /\ ~t.sealed /\ ~task.sealed /\ ~(SpentMicros(t) >= Ceiling)
      BY <1>4, BegunTask
    <3>2. t.sealed \in BOOLEAN /\ task.sealed \in BOOLEAN
      BY <1>4, <2>1 DEF TreeOK
    <3>3. QED BY <2>2, <3>1, <3>2
  <2>4. QED BY <2>1, <2>3
<1>7. SpentMicros(t) \in Nat /\ Slack(t) \in Nat /\ Slack(task) \in Nat /\ task.peak <= Slack(task)
  <2>1. SpentMicros(t) \in Nat
    BY <1>4, CostsNat
  <2>2. t.sealed \in BOOLEAN /\ task.sealed \in BOOLEAN
    BY <1>4, <1>6 DEF TreeOK
  <2>3. QED BY <1>4, <1>5, <2>1, <2>2 DEF Slack
<1>8. \A root : Mine(root) \subseteq Reqs
  BY DEF Mine
<1>9. ASSUME NEW root \in Roots, root # home, NEW S
      PROVE  InState(root, S)' = InState(root, S)
  <2>1. r \notin Mine(root)
    BY <1>2 DEF Mine
  <2>2. {q \in Mine(root) : pc'[q] \in S} = {q \in Mine(root) : pc[q] \in S}
    BY <1>2, <1>8, <2>1 DEF OthersKept
  <2>3. QED BY <1>2, <1>9, <2>2 DEF InState
<1>10. ASSUME NEW S
       PROVE  /\ where \in S => InState(home, S)' = InState(home, S) \cup {r}
              /\ where \notin S => InState(home, S)' = InState(home, S)
              /\ r \notin InState(home, S)
  <2>1. \A q \in Mine(home) : pc'[q] = pc[q]
    BY <1>2, <1>8 DEF OthersKept
  <2>2. InState(home, S)' = {q \in Mine(home) \cup {r} : pc'[q] \in S}
    BY <1>2 DEF InState
  <2>3. QED BY <1>2, <2>1, <2>2 DEF InState
<1>11. InState(home, {"handshake", "tunnel"})' = {}
  BY <1>2, <1>6, <1>10 DEF SpendInv
<1>12. PICK n : n = Cardinality(Billed(home))
  OBVIOUS
<1>13. n \in Nat /\ n <= t.live /\ IsFiniteSet(Billed(home)) /\ Within(t, n)
  BY <1>2, <1>3, <1>4, <1>12, BilledFinite DEF SpendInv
<1>14. /\ where = "denied" => Cardinality(Billed(home)') = n
       /\ where = "admitted" => Cardinality(Billed(home)') = n + 1
  <2>1. where = "denied" => Billed(home)' = Billed(home)
    BY <1>10 DEF Billed
  <2>2. where = "admitted" => Billed(home)' = Billed(home) \cup {r} /\ r \notin Billed(home)
    BY <1>10 DEF Billed
  <2>3. QED BY <1>12, <1>13, <2>1, <2>2, FS_AddElement
<1>15. Within(task, Cardinality(Billed(home)'))
  <2>1. CASE answer = "Deny" /\ task.sealed = t.sealed
    <3>1. Slack(t) <= Slack(task)
      BY <1>4, <1>5, <2>1 DEF Slack
    <3>2. Within(task, n)
      BY <1>4, <1>6, <1>7, <1>13, <3>1, WithinLess
    <3>3. QED BY <1>6, <1>14, <2>1, <3>2
  <2>2. CASE answer # "Deny" /\ ~(SpentMicros(t) >= Ceiling)
    <3>1. n + 1 \in Nat /\ n + 1 <= Slack(task)
      BY <1>4, <1>5, <1>7, <1>13
    <3>2. Within(task, n + 1)
      BY <1>4, <1>6, <1>7, <2>2, <3>1, WithinUnder
    <3>3. QED BY <1>6, <1>14, <2>2, <3>2
  <2>3. CASE answer = "Last" /\ ~t.sealed /\ task.sealed
    <3>1. Slack(t) + 1 <= Slack(task)
      BY <1>4, <1>5, <2>3 DEF Slack
    <3>2. Within(task, n + 1)
      BY <1>4, <1>6, <1>7, <1>13, <3>1, WithinLast
    <3>3. QED BY <1>6, <1>14, <2>3, <3>2
  <2>4. QED BY <1>6, <2>1, <2>2, <2>3
<1>16. ASSUME NEW root \in Roots
       PROVE  /\ InState(root, {"handshake", "tunnel"})' = {}
              /\ Within(arena'[root], Cardinality(Billed(root)'))
  <2>1. CASE root = home
    BY <1>2, <1>11, <1>15, <2>1
  <2>2. CASE root # home
    <3>1. Billed(root)' = Billed(root)
      BY <1>9, <2>2 DEF Billed
    <3>2. QED BY <1>2, <1>9, <2>2, <3>1 DEF SpendInv
  <2>3. QED BY <2>1, <2>2
<1>17. QED
  BY <1>16 DEF SpendInv

\* A step of one request that is not an arrival: where it leaves the counts.
LEMMA LaterStates ==
  ASSUME NEW r \in Reqs, OthersKept(r), NEW root, Mine(root)' = Mine(root), NEW S
  PROVE  /\ pc'[r] \notin S => InState(root, S)' = InState(root, S) \ {r}
         /\ pc[r] \in S => InState(root, S)' \subseteq InState(root, S)
         /\ pc[r] \notin S /\ pc'[r] \notin S => InState(root, S)' = InState(root, S)
         /\ r \notin Mine(root) => InState(root, S)' = InState(root, S)
<1>1. Mine(root) \subseteq Reqs
  BY DEF Mine
<1>2. \A q \in Mine(root) \ {r} : pc'[q] = pc[q]
  BY <1>1 DEF OthersKept
<1>3. InState(root, S)' = {q \in Mine(root) : pc'[q] \in S}
  BY DEF InState
<1>4. QED
  BY <1>2, <1>3 DEF InState

LEMMA SpendFinish ==
  ASSUME Ceiling # None, CountInv, BaseInv, SpendInv, NEW r \in Reqs, NEW usage, NEW complete,
         Finishes(r, usage, complete)
  PROVE  SpendInv'
<1>0. PICK home : home = at[r].root
  OBVIOUS
<1>1. /\ home \in Roots /\ pc'[r] = "done" /\ OthersKept(r) /\ r \in Mine(home)
      /\ arena'[home] = Finish(arena[home], at[r], usage, complete)
      /\ \A root \in Roots \ {home} : arena'[root] = arena[root]
      /\ \A root \in Roots : Mine(root)' = Mine(root)
  BY <1>0, FinishFacts DEF Finishes
<1>2. PICK t : t = arena[home]
  OBVIOUS
<1>3. PICK u : u = Finish(t, at[r], usage, complete)
  OBVIOUS
<1>4. /\ TreeOK(t) /\ DOMAIN t = TaskFields /\ t.peak \in Nat
      /\ usage \in Nat /\ Ceiling \in Nat
  BY <1>1, <1>2, ProxyAssumption DEF BaseInv, TreesOK, CountInv, ArenaOK, Finishes
<1>5. u.peak = t.peak /\ u.sealed = t.sealed
  BY <1>3, <1>4, FinishFields
<1>6. Slack(u) = Slack(t) /\ Slack(t) \in Nat
  BY <1>4, <1>5 DEF Slack, TreeOK
<1>7. /\ SpentMicros(t) <= SpentMicros(u) /\ SpentMicros(u) <= SpentMicros(t) + CostOf(usage)
      /\ usage = 0 => SpentMicros(u) = SpentMicros(t)
  BY <1>3, <1>4, SpentFinish
<1>8. SpentMicros(t) \in Nat /\ SpentMicros(u) \in Nat
  <2>1. TreeOK(u)
    BY <1>3, <1>4, FinishTree
  <2>2. QED BY <1>4, <2>1, CostsNat
<1>9. ASSUME NEW root \in Roots
      PROVE  InState(root, {"handshake", "tunnel"})' = {}
  BY <1>1, <1>9, LaterStates DEF SpendInv
<1>10. Billed(home)' = Billed(home) \ {r}
  BY <1>1, LaterStates DEF Billed
<1>11. PICK n : n = Cardinality(Billed(home))
  OBVIOUS
<1>12. IsFiniteSet(Billed(home)) /\ n \in Nat /\ Within(t, n)
  BY <1>1, <1>2, <1>11, BilledFinite DEF SpendInv
<1>13. Within(u, Cardinality(Billed(home)'))
  <2>1. CASE r \in Billed(home)
    <3>1. PICK k : k = Cardinality(Billed(home)')
      OBVIOUS
    <3>2. k \in Nat /\ n = k + 1
      <4>1. Cardinality(Billed(home) \ {r}) = n - 1
        BY <1>11, <1>12, <2>1, FS_RemoveElement
      <4>2. n # 0
        BY <1>11, <1>12, <2>1, FS_EmptySet
      <4>3. QED BY <1>10, <1>12, <3>1, <4>1, <4>2
    <3>3. SpentMicros(u) <= SpentMicros(t) + MaxCost
      <4>1. CASE usage = 0
        BY <1>7, <1>8, <4>1, MaxCostBounds
      <4>2. CASE usage \in Usages
        BY <1>7, <1>8, <4>2, MaxCostBounds
      <4>3. QED BY <4>1, <4>2 DEF Finishes
    <3>4. Within(t, k + 1)
      BY <1>12, <3>2
    <3>5. Within(u, k)
      BY <1>4, <1>6, <1>8, <3>2, <3>3, <3>4, WithinFinish
    <3>6. QED BY <3>1, <3>5
  <2>2. CASE r \notin Billed(home)
    <3>1. pc[r] \notin {"metering", "tunnel"}
      <4>1. r \notin InState(home, {"handshake", "tunnel"})
        BY <1>1 DEF SpendInv
      <4>2. QED BY <1>1, <2>2, <4>1 DEF Billed, InState
    <3>2. usage = 0
      BY <3>1 DEF Finishes
    <3>3. Billed(home)' = Billed(home)
      BY <1>10, <2>2
    <3>4. Within(u, n)
      BY <1>4, <1>6, <1>7, <1>8, <1>12, <3>2, WithinLess
    <3>5. QED BY <1>11, <3>3, <3>4
  <2>3. QED BY <2>1, <2>2
<1>14. ASSUME NEW root \in Roots
       PROVE  Within(arena'[root], Cardinality(Billed(root)'))
  <2>1. CASE root = home
    BY <1>1, <1>2, <1>3, <1>13, <2>1
  <2>2. CASE root # home
    <3>1. r \notin Mine(root)
      BY <1>0, <2>2 DEF Mine
    <3>2. Billed(root)' = Billed(root)
      BY <1>1, <3>1, LaterStates DEF Billed
    <3>3. QED BY <1>1, <2>2, <3>2 DEF SpendInv
  <2>3. QED BY <2>1, <2>2
<1>15. QED
  BY <1>9, <1>14 DEF SpendInv

LEMMA SpendStep ==
  ASSUME Ceiling # None, CountInv, BaseInv, SpendInv, NEW r \in Reqs, NEW from \in SUBSET Waiting,
         NEW to \in Onward, Step(r, from, to), to = "tunnel" => pc[r] = "handshake"
  PROVE  SpendInv'
<1>1. /\ pc[r] \in from /\ pc'[r] = to /\ OthersKept(r) /\ arena' = arena
      /\ \A root \in Roots : Mine(root)' = Mine(root)
  BY StepFacts
<1>2. at[r] \in Refs /\ at[r].root \in Roots /\ r \in Mine(at[r].root)
  <2>1. pc[r] \in Counted
    BY <1>1 DEF Waiting, Counted, Unfinished
  <2>2. at[r] \in Refs /\ born[r] = lifetime
    BY <2>1 DEF CountInv, Placed
  <2>3. QED BY <2>2, ProxyAssumption DEF Roots, Mine
<1>3. pc[r] \in {"admitted", "streaming"}
  <2>1. r \notin InState(at[r].root, {"handshake", "tunnel"})
    BY <1>2 DEF SpendInv
  <2>2. QED BY <1>1, <1>2, <2>1 DEF InState, Waiting
<1>4. to \notin {"handshake", "tunnel"}
  BY <1>3 DEF Onward
<1>5. ASSUME NEW root \in Roots
      PROVE  /\ InState(root, {"handshake", "tunnel"})' = {}
             /\ Within(arena'[root], Cardinality(Billed(root)'))
  <2>1. InState(root, {"handshake", "tunnel"})' = {}
    BY <1>1, <1>4, LaterStates DEF SpendInv
  <2>2. Billed(root)' \subseteq Billed(root)
    BY <1>1, <1>3, LaterStates DEF Billed
  <2>3. PICK n, k : n = Cardinality(Billed(root)) /\ k = Cardinality(Billed(root)')
    OBVIOUS
  <2>4. n \in Nat /\ k \in Nat /\ k <= n
    BY <2>2, <2>3, BilledFinite, FS_Subset, FS_CardinalityType
  <2>5. /\ Within(arena[root], n) /\ TreeOK(arena[root]) /\ arena[root].peak \in Nat
        /\ Ceiling \in Nat
    BY <2>3, ProxyAssumption DEF SpendInv, BaseInv, TreesOK, CountInv, ArenaOK
  <2>6. SpentMicros(arena[root]) \in Nat /\ Slack(arena[root]) \in Nat
    BY <2>5, CostsNat DEF Slack
  <2>7. Within(arena[root], k)
    BY <2>4, <2>5, <2>6, WithinLess
  <2>8. QED BY <1>1, <2>1, <2>3, <2>7
<1>6. QED
  BY <1>5 DEF SpendInv

LEMMA SpendStop ==
  ASSUME Ceiling # None, CountInv, BaseInv, SpendInv, NEW r \in Reqs, Stop(r)
  PROVE  SpendInv'
<1>0. PICK home : home = at[r].root
  OBVIOUS
<1>1. /\ home \in Roots /\ pc[r] = "denied" /\ pc'[r] = "stopping" /\ OthersKept(r)
      /\ arena'[home] = TakeStop(arena[home]).task
      /\ \A root \in Roots \ {home} : arena'[root] = arena[root]
      /\ \A root \in Roots : Mine(root)' = Mine(root)
  BY <1>0, StopFacts
<1>2. \A root \in Roots : /\ InState(root, {"handshake", "tunnel"})' = {}
                          /\ Billed(root)' = Billed(root)
  BY <1>1, LaterStates DEF SpendInv, Billed
<1>3. Within(arena'[home], Cardinality(Billed(home)))
  <2>1. PICK t : t = arena[home]
    OBVIOUS
  <2>2. PICK u : u = TakeStop(t).task
    OBVIOUS
  <2>3. TreeOK(t) /\ DOMAIN t = TaskFields
    BY <1>1, <2>1 DEF BaseInv, TreesOK, TreeOK
  <2>4. u.nodes = t.nodes /\ u.sealed = t.sealed /\ u.peak = t.peak
    BY <2>2, <2>3, TakeStopTree, TakeStopFields
  <2>5. SpentMicros(u) = SpentMicros(t) /\ Slack(u) = Slack(t)
    BY <2>4 DEF SpentMicros, SpentOn, Costs, Slack
  <2>6. Within(t, Cardinality(Billed(home)))
    BY <1>1, <2>1 DEF SpendInv
  <2>7. QED BY <1>1, <2>1, <2>2, <2>5, <2>6 DEF Within
<1>4. QED
  BY <1>1, <1>2, <1>3 DEF SpendInv

LEMMA SpendFresh ==
  ASSUME Ceiling # None, NEW root \in Roots
  PROVE  Within(FreshArena[root], 0)
<1>1. FreshArena[root].peak = 0 /\ ~FreshArena[root].sealed
  BY NewTaskFields DEF FreshArena
<1>2. Slack(FreshArena[root]) = 0 /\ SpentMicros(FreshArena[root]) = 0
  BY <1>1, FreshSpend DEF Slack
<1>3. Ceiling \in Nat /\ MaxCost \in Nat
  BY ProxyAssumption, MaxCostBounds
<1>4. QED
  BY <1>2, <1>3 DEF Within, SaturatingSub

LEMMA SpendNext ==
  ASSUME ~Upgrades, CountInv, BaseInv, SpendInv, [Next]_vars
  PROVE  SpendInv'
<1>1. CASE Ceiling = None
  BY <1>1 DEF SpendInv
<1>2. CASE Ceiling # None
  <2>1. ASSUME NEW r \in Reqs, Relay(r) PROVE SpendInv'
    BY <1>2, <2>1, BudgetKinds, SpendEnter, SpendStop, SpendFinish, SpendStep
  <2>2. CASE Restart
    <3>1. arena' = FreshArena /\ \A root \in Roots : Mine(root)' = {}
      BY <2>2, RestartFacts
    <3>2. \A root \in Roots : InState(root, {"handshake", "tunnel"})' = {} /\ Billed(root)' = {}
      BY <3>1 DEF InState, Billed
    <3>3. \A root \in Roots : Cardinality(Billed(root)') = 0
      BY <3>2, FS_EmptySet
    <3>4. QED BY <1>2, <3>1, <3>2, <3>3, SpendFresh DEF SpendInv
  <2>3. CASE Quiet \/ UNCHANGED vars
    BY <2>3 DEF Quiet, vars, SpendInv, Billed, InState, Mine
  <2>4. QED BY <2>1, <2>2, <2>3 DEF Next
<1>3. QED
  BY <1>1, <1>2

\* Where every request is asked for admission, the spend of a task, with what
\* its open requests may still be metered at, is below the ceiling plus one
\* answer for each request of the concurrency peak and one for the sealing
\* request: the overshoot admission before metering really has.
THEOREM OvershootIsBounded ==
  ASSUME ~Upgrades
  PROVE  Spec => []CeilingBound
<1>1. Init => SpendInv
  <2>1. SUFFICES ASSUME Init, Ceiling # None, NEW root \in Roots
                 PROVE  /\ InState(root, {"handshake", "tunnel"}) = {}
                        /\ Within(arena[root], Cardinality(Billed(root)))
    BY DEF SpendInv
  <2>2. arena = FreshArena /\ Mine(root) = {}
    BY <2>1 DEF Init, Mine
  <2>3. InState(root, {"handshake", "tunnel"}) = {} /\ Billed(root) = {}
    BY <2>2 DEF InState, Billed
  <2>4. Cardinality(Billed(root)) = 0
    BY <2>3, FS_EmptySet
  <2>5. QED BY <2>1, <2>2, <2>3, <2>4, SpendFresh
<1>2. CountInv /\ BaseInv /\ SpendInv /\ [Next]_vars => SpendInv'
  BY SpendNext
<1>3. CountInv /\ BaseInv /\ SpendInv => CeilingBound
  <2>1. SUFFICES ASSUME CountInv, BaseInv, SpendInv, Ceiling # None, NEW root \in Roots
                 PROVE  SpentMicros(arena[root]) + MaxCost * Cardinality(Billed(root))
                          <= SaturatingSub(Ceiling, 1) + MaxCost * (arena[root].peak + 1)
    BY DEF CeilingBound, Billed
  <2>2. /\ Within(arena[root], Cardinality(Billed(root))) /\ TreeOK(arena[root])
        /\ arena[root].peak \in Nat
    BY <2>1 DEF SpendInv, BaseInv, TreesOK, CountInv, ArenaOK
  <2>3. Slack(arena[root]) \in Nat /\ Slack(arena[root]) <= arena[root].peak + 1
    BY <2>2 DEF Slack
  <2>4. PICK high : high = arena[root].peak + 1
    OBVIOUS
  <2>5. /\ MaxCost * Slack(arena[root]) <= MaxCost * high
        /\ MaxCost * Slack(arena[root]) \in Nat /\ MaxCost * high \in Nat
    <3>1. high \in Nat /\ MaxCost \in Nat /\ Slack(arena[root]) <= high
      BY <2>2, <2>3, <2>4, MaxCostBounds
    <3>2. QED BY <2>3, <3>1, TimesMore
  <2>6. /\ SpentMicros(arena[root]) \in Nat /\ SaturatingSub(Ceiling, 1) \in Nat
        /\ MaxCost * Cardinality(Billed(root)) \in Nat
    <3>1. SpentMicros(arena[root]) \in Nat
      BY <2>2, CostsNat
    <3>2. SaturatingSub(Ceiling, 1) \in Nat
      BY <2>1, ProxyAssumption DEF SaturatingSub
    <3>3. Cardinality(Billed(root)) \in Nat /\ MaxCost \in Nat
      BY BilledFinite, MaxCostBounds
    <3>4. QED BY <3>1, <3>2, <3>3, TimesMore
  <2>7. QED BY <2>2, <2>4, <2>5, <2>6 DEF Within
<1>4. QED
  BY <1>1, <1>2, <1>3, BaseInvariant, CountInvariant, PTL DEF Spec

-----------------------------------------------------------------------------
(***************************************************************************)
(* The shape of the tree and the vouchers in it, for clients that start a  *)
(* subagent from a node that has made a request, in one process lifetime.  *)
(***************************************************************************)
\* What an arrival leaves of the tree: the nodes it found as they were, or one
\* more below a node that was there, at its depth and with its share.
Grown(t, a, task) ==
  \/ /\ DOMAIN task.nodes = DOMAIN t.nodes
     /\ \A n \in DOMAIN t.nodes : task.nodes[n].allowance = t.nodes[n].allowance
  \/ /\ a.node \notin DOMAIN t.nodes /\ a.parent \in DOMAIN t.nodes
     /\ DOMAIN task.nodes = DOMAIN t.nodes \cup {a.node}
     /\ \A n \in DOMAIN t.nodes : task.nodes[n].allowance = t.nodes[n].allowance
     /\ LET new == task.nodes[a.node]
            above == t.nodes[a.parent]
        IN  /\ new.parent = a.parent
            /\ new.depth = IF above.depth >= U8Max THEN U8Max ELSE above.depth + 1
            /\ Share = None => new.allowance = None
            /\ Share # None => new.allowance \in Nat
            /\ Share # None /\ above.allowance # None
                 => new.allowance <= SaturatingSub(above.allowance,
                                                   SumOf(Vouchers(t), Minted(t, a.parent)))

LEMMA OrderlyEnter ==
  ASSUME OrderlyClients, MaxRestarts = 0, CoherentRefs, CountInv, BaseInv, GrownInv,
         NEW r \in Reqs, NEW a \in Refs, NEW task, NEW answer, NEW where,
         Enter(r, a, task, answer, where), Begun(arena[a.root], a, task, answer, where)
  PROVE  Grown(arena[a.root], a, task)
<1>1. PICK t : t = arena[a.root]
  OBVIOUS
<1>2. a.root \in Roots /\ ClientMaySend(a) /\ a.node # None /\ None \notin Nat
  BY EnterFacts, ProxyAssumption
<1>3. /\ TreeOK(t) /\ t.root = a.root /\ t.ceiling = Ceiling /\ t.share = Share
      /\ a.root \in DOMAIN t.nodes /\ Begun(t, a, task, answer, where)
  BY <1>1, <1>2 DEF BaseInv, TreesOK
<1>4. PICK b : b = Begin(t, a)
  OBVIOUS
<1>5. /\ DOMAIN task.nodes = DOMAIN t.nodes \cup {a.node}
      /\ \A n \in DOMAIN t.nodes \ {a.node} : task.nodes[n] = t.nodes[n]
      /\ \A n \in DOMAIN t.nodes \cup {a.node} :
           /\ task.nodes[n].allowance = b.nodes[n].allowance
           /\ task.nodes[n].depth = b.nodes[n].depth
  BY <1>3, <1>4, BegunTask
<1>6. CASE a.node \in DOMAIN t.nodes
  <2>1. t.share = None \/ a.node = a.root \/ t.nodes[a.node].allowance # None
    BY <1>1, <1>2, <1>3, <1>6 DEF GrownInv, GrownTask
  <2>2. b.nodes = t.nodes
    BY <1>2, <1>3, <1>4, <1>6, <2>1, BeginAgain
  <2>3. Grown(t, a, task)
    BY <1>5, <1>6, <2>2 DEF Grown
  <2>4. QED BY <1>1, <2>3
<1>7. CASE a.node \notin DOMAIN t.nodes
  <2>1. a.node # a.root /\ a.parent # None
    BY <1>3, <1>7 DEF CoherentRefs
  <2>2. a.parent \in DOMAIN t.nodes
    <3>1. CASE a.parent = a.root
      BY <1>3, <3>1
    <3>2. CASE \E q \in Reqs : at[q] # None /\ at[q].node = a.parent
      <4>1. PICK q \in Reqs : at[q] # None /\ at[q].node = a.parent
        BY <3>2
      <4>2. at[q] \in Refs
        BY <4>1 DEF CountInv, RequestsOK
      <4>3. at[q].root = a.root
        BY <4>1, <4>2 DEF CoherentRefs
      <4>4. born[q] = lifetime
        BY <4>1 DEF BaseInv, Homes, AnswersOK
      <4>5. QED BY <1>1, <4>1, <4>3, <4>4 DEF BaseInv, Homes
    <3>3. QED BY <1>2, <2>1, <3>1, <3>2 DEF ClientMaySend
  <2> DEFINE new == b.nodes[a.node]
             above == t.nodes[a.parent]
  <2>3. /\ new.depth = IF above.depth >= U8Max THEN U8Max ELSE above.depth + 1
        /\ Share = None => new.allowance = None
        /\ Share # None => new.allowance \in Nat
        /\ Share # None /\ above.allowance # None
             => new.allowance <= SaturatingSub(above.allowance,
                                               SumOf(Vouchers(t), Minted(t, a.parent)))
    BY <1>2, <1>3, <1>4, <1>7, <2>1, <2>2, BeginFirst
  <2>4. task.nodes[a.node].parent = a.parent
    BY <1>3, <1>7, BegunKeeps
  <2>5. Grown(t, a, task)
    <3> HIDE DEF above
    <3>1. task.nodes[a.node].depth = new.depth /\ task.nodes[a.node].allowance = new.allowance
      BY <1>5
    <3>2. \A n \in DOMAIN t.nodes : task.nodes[n].allowance = t.nodes[n].allowance
      BY <1>5, <1>7
    <3> HIDE DEF new
    <3>3. QED BY <1>5, <1>7, <2>2, <2>3, <2>4, <3>1, <3>2 DEF Grown, above
  <2>6. QED BY <1>1, <2>5
<1>8. QED
  BY <1>6, <1>7

LEMMA SameShape ==
  ASSUME NEW root, NEW t, TreeOK(t), NEW u, TreeOK(u), root \in DOMAIN t.nodes,
         GrownTask(root, t), Conserves(t), DOMAIN u.nodes = DOMAIN t.nodes,
         \A n \in DOMAIN t.nodes : /\ u.nodes[n].parent = t.nodes[n].parent
                                   /\ u.nodes[n].depth = t.nodes[n].depth
                                   /\ u.nodes[n].allowance = t.nodes[n].allowance
  PROVE  GrownTask(root, u) /\ Conserves(u)
<1>1. Subtree(t, root) \subseteq Subtree(u, root)
  BY SubtreeGrows
<1>2. GrownTask(root, u)
  BY <1>1 DEF GrownTask
<1>3. \A p : SumOf(Vouchers(u), Minted(u, p)) = SumOf(Vouchers(t), Minted(t, p))
  BY VouchersSame
<1>4. QED
  BY <1>2, <1>3 DEF Conserves

LEMMA OneMore ==
  ASSUME NEW root, NEW t, TreeOK(t), NEW u, TreeOK(u), root \in DOMAIN t.nodes, NEW a \in Refs,
         GrownTask(root, t), Conserves(t), Grown(t, a, u), a.node \notin DOMAIN t.nodes,
         DOMAIN u.nodes # DOMAIN t.nodes,
         \A n \in DOMAIN t.nodes : /\ u.nodes[n].parent = t.nodes[n].parent
                                   /\ u.nodes[n].depth = t.nodes[n].depth
  PROVE  GrownTask(root, u) /\ Conserves(u)
<1> DEFINE new == u.nodes[a.node]
           above == t.nodes[a.parent]
           given == SumOf(Vouchers(t), Minted(t, a.parent))
<1>1. /\ a.parent \in DOMAIN t.nodes /\ DOMAIN u.nodes = DOMAIN t.nodes \cup {a.node}
      /\ \A n \in DOMAIN t.nodes : u.nodes[n].allowance = t.nodes[n].allowance
      /\ new.parent = a.parent
      /\ new.depth = IF above.depth >= U8Max THEN U8Max ELSE above.depth + 1
      /\ Share = None => new.allowance = None
      /\ Share # None => new.allowance \in Nat
      /\ Share # None /\ above.allowance # None
           => new.allowance <= SaturatingSub(above.allowance, given)
  BY DEF Grown
<1>2. None \notin Nat /\ a.node # None
  BY ProxyAssumption
<1>3. /\ DOMAIN t.nodes \subseteq Subtree(t, root) /\ Subtree(t, root) \subseteq Subtree(u, root)
      /\ \A p \in Subtree(t, root) : Children(u, p) \subseteq Subtree(u, root)
  <2>1. DOMAIN t.nodes \subseteq DOMAIN u.nodes /\ DOMAIN t.nodes # DOMAIN u.nodes
    BY <1>1
  <2>2. QED BY <2>1, SubtreeGrows DEF GrownTask
<1>4. a.node \in Children(u, a.parent)
  BY <1>1 DEF Children
<1>5. DOMAIN u.nodes \subseteq Subtree(u, root)
  BY <1>1, <1>3, <1>4
<1>6. GrownTask(root, u)
  <2>1. u.nodes[root].parent = None /\ u.nodes[root].allowance = Ceiling
    BY <1>1 DEF GrownTask
  <2>2. ASSUME NEW n \in DOMAIN u.nodes \ {root}
        PROVE  /\ u.nodes[n].parent \in DOMAIN u.nodes
               /\ u.nodes[n].allowance = None <=> Share = None
               /\ LET over == u.nodes[u.nodes[n].parent].depth
                  IN  u.nodes[n].depth = IF over >= U8Max THEN U8Max ELSE over + 1
    <3>1. CASE n = a.node
      BY <1>1, <1>2, <3>1
    <3>2. CASE n # a.node
      <4>1. n \in DOMAIN t.nodes \ {root}
        BY <1>1, <2>2, <3>2
      <4>2. QED BY <1>1, <4>1 DEF GrownTask
    <3>3. QED BY <3>1, <3>2
  <2>3. QED BY <1>5, <2>1, <2>2 DEF GrownTask
<1>7. \A p : /\ new.parent # p \/ new.allowance = None
                  => SumOf(Vouchers(u), Minted(u, p)) = SumOf(Vouchers(t), Minted(t, p))
             /\ new.parent = p /\ new.allowance # None
                  => SumOf(Vouchers(u), Minted(u, p))
                       = SumOf(Vouchers(t), Minted(t, p)) + new.allowance
  BY <1>1, VouchersAfter
<1> HIDE DEF new, above, given
<1>8. ASSUME NEW p \in DOMAIN u.nodes, u.nodes[p].allowance # None
      PROVE  SumOf(Vouchers(u), Minted(u, p)) <= u.nodes[p].allowance
  <2>1. CASE p = a.node
    <3>1. Minted(t, p) = {}
      <4>1. \A n \in DOMAIN t.nodes : t.nodes[n].parent # a.node
        <5>1. t.nodes[root].parent # a.node
          BY <1>2 DEF GrownTask
        <5>2. QED BY <5>1 DEF GrownTask
      <4>2. QED BY <2>1, <4>1 DEF Minted, Children
    <3>2. new.parent # p
      BY <1>1, <2>1
    <3>3. SumOf(Vouchers(u), Minted(u, p)) = 0
      BY <1>7, <3>1, <3>2, SumOfEmpty
    <3>4. u.nodes[p].allowance \in Nat
      BY <1>8 DEF TreeOK, NodesOK, NodeOK
    <3>5. QED BY <3>3, <3>4
  <2>2. CASE p # a.node
    <3>1. p \in DOMAIN t.nodes /\ u.nodes[p].allowance = t.nodes[p].allowance
      BY <1>1, <2>2
    <3>2. /\ SumOf(Vouchers(t), Minted(t, p)) <= t.nodes[p].allowance
          /\ t.nodes[p].allowance \in Nat
      BY <1>8, <3>1 DEF Conserves, TreeOK, NodesOK, NodeOK
    <3>3. CASE new.parent # p \/ new.allowance = None
      BY <1>7, <3>1, <3>2, <3>3
    <3>4. CASE new.parent = p /\ new.allowance # None
      <4>1. p = a.parent /\ Share # None
        BY <1>1, <3>4
      <4>2. given \in Nat
        BY MintedNat DEF given
      <4>3. /\ new.allowance \in Nat /\ above = t.nodes[p]
            /\ new.allowance <= SaturatingSub(t.nodes[p].allowance, given)
            /\ given <= t.nodes[p].allowance
        BY <1>1, <1>8, <3>1, <3>2, <4>1 DEF above, given
      <4>4. given + new.allowance <= t.nodes[p].allowance
        BY <3>2, <4>2, <4>3 DEF SaturatingSub
      <4>5. SumOf(Vouchers(u), Minted(u, p)) = given + new.allowance
        BY <1>7, <3>4, <4>1 DEF given
      <4>6. QED BY <3>1, <4>4, <4>5
    <3>5. QED BY <3>3, <3>4
  <2>3. QED BY <2>1, <2>2
<1>9. QED
  BY <1>6, <1>8 DEF Conserves

LEMMA GrownNext ==
  ASSUME OrderlyClients, MaxRestarts = 0, CoherentRefs, CountInv, BaseInv, GrownInv, [Next]_vars
  PROVE  GrownInv'
<1>1. BaseInv'
  BY BaseNext
<1>2. \A root \in Roots : /\ TreeOK(arena[root]) /\ TreeOK(arena'[root])
                          /\ root \in DOMAIN arena[root].nodes
  BY <1>1 DEF BaseInv, TreesOK
<1>3. ASSUME NEW r \in Reqs, NEW a \in Refs, Arrive(r, a) \/ ArriveWs(r, a)
      PROVE  GrownInv'
  <2>1. PICK task, answer, where : /\ Enter(r, a, task, answer, where)
                                   /\ Begun(arena[a.root], a, task, answer, where)
    BY <1>3, EnterKinds
  <2>2. PICK home : home = a.root
    OBVIOUS
  <2>3. /\ home \in Roots /\ arena'[home] = task
        /\ \A root \in Roots \ {home} : arena'[root] = arena[root]
    BY <2>1, <2>2, EnterFacts
  <2>4. PICK t : t = arena[home]
    OBVIOUS
  <2>5. /\ TreeOK(t) /\ TreeOK(task) /\ home \in DOMAIN t.nodes
        /\ GrownTask(home, t) /\ Conserves(t)
    BY <1>2, <2>3, <2>4 DEF GrownInv
  <2>6. Grown(t, a, task)
    BY <2>1, <2>2, <2>4, OrderlyEnter
  <2>7. \A n \in DOMAIN t.nodes : /\ task.nodes[n].parent = t.nodes[n].parent
                                  /\ task.nodes[n].depth = t.nodes[n].depth
    <3>1. t.ceiling = Ceiling /\ Begun(t, a, task, answer, where)
      BY <2>1, <2>2, <2>3, <2>4 DEF BaseInv, TreesOK
    <3>2. QED BY <2>5, <3>1, BegunKeeps
  <2>8. GrownTask(home, task) /\ Conserves(task)
    <3>1. CASE DOMAIN task.nodes = DOMAIN t.nodes
      <4>1. \A n \in DOMAIN t.nodes : task.nodes[n].allowance = t.nodes[n].allowance
        BY <2>6 DEF Grown
      <4>2. QED BY <2>5, <2>7, <3>1, <4>1, SameShape
    <3>2. CASE DOMAIN task.nodes # DOMAIN t.nodes
      <4>1. a.node \notin DOMAIN t.nodes
        BY <2>6, <3>2 DEF Grown
      <4>2. QED BY <2>5, <2>6, <2>7, <3>2, <4>1, OneMore
    <3>3. QED BY <3>1, <3>2
  <2>9. QED BY <2>3, <2>8 DEF GrownInv
<1>4. ASSUME NEW r \in Reqs, Relay(r), ~\E a \in Refs : Arrive(r, a) \/ ArriveWs(r, a)
      PROVE  GrownInv'
  <2>1. \A root \in Roots : Undisturbed(arena[root], arena'[root])
    BY <1>4, LaterSteps
  <2>2. ASSUME NEW root \in Roots
        PROVE  GrownTask(root, arena'[root]) /\ Conserves(arena'[root])
    <3>1. PICK t, u : t = arena[root] /\ u = arena'[root]
      OBVIOUS
    <3>2. /\ TreeOK(t) /\ TreeOK(u) /\ root \in DOMAIN t.nodes
          /\ GrownTask(root, t) /\ Conserves(t) /\ Undisturbed(t, u)
      BY <1>2, <2>1, <3>1 DEF GrownInv
    <3>3. GrownTask(root, u) /\ Conserves(u)
      BY <3>2, SameShape DEF Undisturbed
    <3>4. QED BY <3>1, <3>3
  <2>3. QED BY <2>2 DEF GrownInv
<1>5. ~Restart
  BY DEF Restart, BaseInv, AnswersOK
<1>6. CASE Quiet \/ UNCHANGED vars
  BY <1>6 DEF Quiet, vars, GrownInv
<1>7. QED
  BY <1>3, <1>4, <1>5, <1>6 DEF Next

LEMMA GrownInit == Init => GrownInv
<1>1. SUFFICES ASSUME Init, NEW root \in Roots
               PROVE  GrownTask(root, FreshArena[root]) /\ Conserves(FreshArena[root])
  BY DEF Init, GrownInv
<1>2. PICK t : t = FreshArena[root]
  OBVIOUS
<1>3. /\ TreeOK(t) /\ DOMAIN t.nodes = {root} /\ t.nodes[root] = NewNode(None, 0, Ceiling)
  BY <1>2, FreshTrees
<1>4. t.nodes[root].parent = None /\ t.nodes[root].allowance = Ceiling
  BY <1>3 DEF NewNode
<1>5. root # None
  BY ProxyAssumption DEF Roots
<1>6. root \in Subtree(t, root)
  BY <1>3, SubtreeHasRoot
<1>7. GrownTask(root, t)
  BY <1>3, <1>4, <1>6 DEF GrownTask
<1>8. Minted(t, root) = {}
  BY <1>3, <1>4, <1>5 DEF Minted, Children
<1>9. Conserves(t)
  <2>1. Ceiling # None => 0 <= Ceiling
    BY ProxyAssumption
  <2>2. SumOf(Vouchers(t), Minted(t, root)) = 0
    BY <1>8, SumOfEmpty
  <2>3. t.nodes[root].allowance # None => SumOf(Vouchers(t), Minted(t, root)) <= t.nodes[root].allowance
    BY <1>4, <2>1, <2>2
  <2>4. QED BY <1>3, <2>3 DEF Conserves
<1>10. QED
  BY <1>2, <1>7, <1>9

LEMMA GrownInvariant ==
  ASSUME OrderlyClients, MaxRestarts = 0, CoherentRefs
  PROVE  Spec => []GrownInv
<1>1. CountInv /\ BaseInv /\ GrownInv /\ [Next]_vars => GrownInv'
  BY GrownNext
<1>2. QED
  BY <1>1, GrownInit, BaseInvariant, CountInvariant, PTL DEF Spec

\* mint_voucher conserves: below no node do the vouchers add up to more than
\* the node's own allowance, whatever the ceiling, the share and the order in
\* which subagents arrive.
THEOREM VouchersConserve ==
  ASSUME OrderlyClients, MaxRestarts = 0, CoherentRefs
  PROVE  Spec => []VoucherConservation
<1>1. GrownInv => VoucherConservation
  BY DEF GrownInv, Conserves, VoucherConservation
<1>2. QED
  BY <1>1, GrownInvariant, PTL

\* Task::walk reaches every node from the root, and depths are the distances
\* from it, up to the limit of the u8.
THEOREM WalkReachesAll ==
  ASSUME OrderlyClients, MaxRestarts = 0, CoherentRefs
  PROVE  Spec => []TreeIsConnected
<1>1. BaseInv /\ GrownInv => TreeIsConnected
  <2>1. SUFFICES ASSUME BaseInv, GrownInv, NEW root \in Roots
                 PROVE  LET t == arena[root]
                        IN  /\ Walk(t) = DOMAIN t.nodes
                            /\ \A n \in DOMAIN t.nodes :
                                 t.nodes[n].parent \in DOMAIN t.nodes
                                   => LET above == t.nodes[t.nodes[n].parent].depth
                                      IN  t.nodes[n].depth = IF above >= U8Max THEN U8Max
                                                             ELSE above + 1
    BY DEF TreeIsConnected
  <2>2. PICK t : t = arena[root]
    OBVIOUS
  <2>3. /\ t.root = root /\ GrownTask(root, t)
        /\ DOMAIN t.nodes \subseteq {root} \cup {a.node : a \in Refs}
    BY <2>1, <2>2 DEF BaseInv, TreesOK, GrownInv
  <2>4. Walk(t) = DOMAIN t.nodes
    BY <2>3 DEF Walk, GrownTask
  <2>5. None \notin DOMAIN t.nodes
    BY <2>3, ProxyAssumption DEF Roots
  <2>6. ASSUME NEW n \in DOMAIN t.nodes, t.nodes[n].parent \in DOMAIN t.nodes
        PROVE  LET above == t.nodes[t.nodes[n].parent].depth
               IN  t.nodes[n].depth = IF above >= U8Max THEN U8Max ELSE above + 1
    <3>1. n # root
      BY <2>3, <2>5, <2>6 DEF GrownTask
    <3>2. QED BY <2>3, <2>6, <3>1 DEF GrownTask
  <2>7. QED BY <2>2, <2>4, <2>6
<1>2. QED
  BY <1>1, GrownInvariant, BaseInvariant, PTL

-----------------------------------------------------------------------------
(***************************************************************************)
(* What begin, admission and finish do to the account of a node.           *)
(***************************************************************************)
SameEntry(m, n) == SameAccount(m, n) /\ m.parent = n.parent

LEMMA BeginEntries ==
  ASSUME NEW t, TreeOK(t), NEW a, None \notin Nat
  PROVE  LET u == Begin(t, a)
         IN  /\ DOMAIN u.nodes = DOMAIN t.nodes \cup {a.node}
             /\ \A n \in DOMAIN t.nodes : SameEntry(u.nodes[n], t.nodes[n])
             /\ a.node \notin DOMAIN t.nodes
                  => /\ SameAccount(u.nodes[a.node], NewNode(None, 0, None))
                     /\ u.nodes[a.node].parent = a.parent
<1> DEFINE e == Ensure(t, a.node, a.parent)
           m == MintVoucher(e, a)
           u == Begin(t, a)
<1>1. /\ TreeOK(e) /\ DOMAIN e.nodes = DOMAIN t.nodes \cup {a.node}
      /\ \A n \in DOMAIN t.nodes : e.nodes[n] = t.nodes[n]
      /\ a.node \notin DOMAIN t.nodes
           => \E depth \in 0..U8Max : e.nodes[a.node] = NewNode(a.parent, depth, None)
  BY EnsureTree
<1> HIDE DEF e
<1>2. a.node \notin DOMAIN t.nodes
        => /\ SameAccount(e.nodes[a.node], NewNode(None, 0, None))
           /\ e.nodes[a.node].parent = a.parent
  <2>1. SUFFICES ASSUME a.node \notin DOMAIN t.nodes
                 PROVE  /\ SameAccount(e.nodes[a.node], NewNode(None, 0, None))
                        /\ e.nodes[a.node].parent = a.parent
    OBVIOUS
  <2>2. PICK depth \in 0..U8Max : e.nodes[a.node] = NewNode(a.parent, depth, None)
    BY <1>1, <2>1
  <2>3. QED BY <2>2 DEF NewNode, SameAccount
<1>3. /\ TreeOK(m) /\ DOMAIN m.nodes = DOMAIN e.nodes
      /\ \A n \in DOMAIN e.nodes \ {a.node} : m.nodes[n] = e.nodes[n]
      /\ m.nodes[a.node] = e.nodes[a.node]
         \/ /\ e.nodes[a.node].allowance = None
            /\ \E allot \in Nat :
                 m.nodes[a.node] = [e.nodes[a.node] EXCEPT !.allowance = allot]
  BY <1>1, MintTree
<1> HIDE DEF m
<1>4. \A n \in DOMAIN e.nodes : SameEntry(m.nodes[n], e.nodes[n])
  <2>1. NodeOK(e.nodes[a.node])
    BY <1>1 DEF TreeOK, NodesOK
  <2>2. SameEntry(m.nodes[a.node], e.nodes[a.node])
    BY <1>3, <2>1 DEF SameEntry, SameAccount, NodeOK, NodeFields
  <2>3. \A n \in DOMAIN e.nodes \ {a.node} : SameEntry(m.nodes[n], e.nodes[n])
    BY <1>3 DEF SameEntry, SameAccount
  <2>4. QED BY <2>2, <2>3
<1>5. u.nodes = m.nodes
  BY BeginTree DEF m, e
<1> HIDE DEF u
<1>6. /\ \A n \in DOMAIN t.nodes : SameEntry(u.nodes[n], t.nodes[n])
      /\ a.node \notin DOMAIN t.nodes
           => /\ SameAccount(u.nodes[a.node], NewNode(None, 0, None))
              /\ u.nodes[a.node].parent = a.parent
  BY <1>1, <1>2, <1>4, <1>5 DEF SameEntry, SameAccount
<1>7. DOMAIN u.nodes = DOMAIN t.nodes \cup {a.node}
  BY <1>1, <1>3, <1>5
<1>8. QED
  BY <1>6, <1>7 DEF u

\* finish bills one request to its node.
BilledOnce(n, m, usage, complete) ==
  /\ m.usage = n.usage + usage /\ m.requests = n.requests + 1
  /\ m.incomplete = IF complete THEN n.incomplete ELSE n.incomplete + 1
  /\ m.parent = n.parent

LEMMA FinishEntries ==
  ASSUME NEW t, TreeOK(t), NEW a, a.node \in DOMAIN t.nodes, NEW usage \in Nat, NEW complete
  PROVE  LET u == Finish(t, a, usage, complete)
         IN  /\ DOMAIN u.nodes = DOMAIN t.nodes
             /\ \A n \in DOMAIN t.nodes \ {a.node} : u.nodes[n] = t.nodes[n]
             /\ BilledOnce(t.nodes[a.node], u.nodes[a.node], usage, complete)
<1> DEFINE n == t.nodes[a.node]
           node == [n EXCEPT !.usage = n.usage + usage,
                             !.requests = n.requests + 1,
                             !.incomplete = IF complete THEN @ ELSE @ + 1]
           u == Finish(t, a, usage, complete)
<1>1. Ensure(t, a.node, a.parent) = t
  BY DEF Ensure
<1>2. u = [t EXCEPT !.nodes[a.node] = node, !.live = SaturatingSub(t.live, 1)]
  BY <1>1 DEF Finish
<1>3. NodeOK(n)
  BY DEF TreeOK, NodesOK
<1>4. BilledOnce(n, node, usage, complete)
  <2> HIDE DEF n
  <2> QED BY <1>3 DEF NodeOK, NodeFields, BilledOnce
<1> HIDE DEF node
<1>5. u.nodes = [t.nodes EXCEPT ![a.node] = node]
  <2> HIDE DEF u
  <2> QED BY <1>2 DEF TreeOK, TaskFields
<1> HIDE DEF u
<1>6. /\ DOMAIN u.nodes = DOMAIN t.nodes /\ u.nodes[a.node] = node
      /\ \A k \in DOMAIN t.nodes \ {a.node} : u.nodes[k] = t.nodes[k]
  BY <1>5
<1>7. QED
  BY <1>4, <1>6 DEF u

LEMMA BegunEntries ==
  ASSUME NEW t, TreeOK(t), t.ceiling = Ceiling, NEW a, NEW task, NEW answer, NEW where,
         Begun(t, a, task, answer, where)
  PROVE  /\ DOMAIN task.nodes = DOMAIN t.nodes \cup {a.node}
         /\ \A n \in DOMAIN t.nodes : SameEntry(task.nodes[n], t.nodes[n])
         /\ a.node \notin DOMAIN t.nodes
              => /\ SameAccount(task.nodes[a.node], NewNode(None, 0, None))
                 /\ task.nodes[a.node].parent = a.parent
<1> DEFINE b == Begin(t, a)
<1>0. None \notin Nat
  BY ProxyAssumption
<1>1. /\ DOMAIN b.nodes = DOMAIN t.nodes \cup {a.node}
      /\ \A n \in DOMAIN t.nodes : SameEntry(b.nodes[n], t.nodes[n])
      /\ a.node \notin DOMAIN t.nodes
           => /\ SameAccount(b.nodes[a.node], NewNode(None, 0, None))
              /\ b.nodes[a.node].parent = a.parent
  BY <1>0, BeginEntries
<1>2. TreeOK(b) /\ b.ceiling = Ceiling
  BY <1>0, BeginTree DEF SameTask
<1>3. CASE task = b
  <2> HIDE DEF b
  <2> QED BY <1>1, <1>3
<1>4. CASE Ceiling # None /\ task = AdmitAt(b, a).task
  <2> HIDE DEF b
  <2>1. a.node \in DOMAIN b.nodes
    BY <1>1
  <2>2. /\ DOMAIN task.nodes = DOMAIN b.nodes
        /\ \A n \in DOMAIN b.nodes \ {a.node} : task.nodes[n] = b.nodes[n]
        /\ \/ task.nodes = b.nodes
           \/ task.nodes[a.node] = [b.nodes[a.node] EXCEPT !.sealed = TRUE]
    BY <1>2, <1>4, <2>1, AdmitAtTree
  <2>3. NodeOK(b.nodes[a.node])
    BY <1>2, <2>1 DEF TreeOK, NodesOK
  <2>4. SameEntry(task.nodes[a.node], b.nodes[a.node])
    <3>1. PICK yes : yes = TRUE
      OBVIOUS
    <3>2. \/ task.nodes[a.node] = b.nodes[a.node]
          \/ task.nodes[a.node] = [b.nodes[a.node] EXCEPT !.sealed = yes]
      BY <2>2, <3>1
    <3>3. QED BY <2>3, <3>2 DEF SameEntry, SameAccount, NodeOK, NodeFields
  <2>5. \A n \in DOMAIN b.nodes : SameEntry(task.nodes[n], b.nodes[n])
    BY <2>2, <2>4 DEF SameEntry, SameAccount
  <2>6. QED BY <1>1, <2>1, <2>2, <2>5 DEF SameEntry, SameAccount
<1>5. QED
  BY <1>3, <1>4 DEF Begun

-----------------------------------------------------------------------------
(***************************************************************************)
(* One record more.                                                        *)
(***************************************************************************)
LEMMA RebuiltAppend ==
  ASSUME NEW S, NEW recs \in Seq(S), NEW rec \in S, NEW root
  PROVE  RebuiltTask(Append(recs, rec), root) = AddRecord(RebuiltTask(recs, root), rec, root)
<1> DEFINE more == Append(recs, rec)
<1>1. /\ Len(recs) \in Nat /\ Len(more) = Len(recs) + 1 /\ more[Len(recs) + 1] = rec
      /\ \A i \in 1..Len(recs) : more[i] = recs[i]
  BY AppendProperties, LenProperties
<1> HIDE DEF more
<1>2. PICK f : /\ f[0] = NewTask(root, None, None)
               /\ \A i \in 1..Len(recs) : f[i] = AddRecord(f[i-1], recs[i], root)
               /\ RebuiltTask(recs, root) = f[Len(recs)]
  BY <1>1, RebuildSteps
<1>2a. Len(more) \in Nat
  BY <1>1
<1>3. PICK g : /\ g[0] = NewTask(root, None, None)
               /\ \A i \in 1..Len(more) : g[i] = AddRecord(g[i-1], more[i], root)
               /\ RebuiltTask(more, root) = g[Len(more)]
  BY <1>2a, RebuildSteps
<1> DEFINE T == {i \in Nat : i <= Len(recs) => g[i] = f[i]}
<1>4. 0 \in T
  BY <1>2, <1>3
<1>5. ASSUME NEW i \in T PROVE i + 1 \in T
  <2>1. SUFFICES ASSUME i + 1 <= Len(recs) PROVE g[i+1] = f[i+1]
    OBVIOUS
  <2>2. i \in Nat /\ i + 1 \in 1..Len(recs) /\ i + 1 \in 1..Len(more) /\ (i + 1) - 1 = i
        /\ g[i] = f[i]
    BY <1>1, <2>1
  <2>3. f[i+1] = AddRecord(f[i], recs[i+1], root) /\ g[i+1] = AddRecord(g[i], more[i+1], root)
    BY <1>2, <1>3, <2>2
  <2>4. QED BY <1>1, <2>2, <2>3
<1>6. g[Len(recs)] = f[Len(recs)]
  <2> HIDE DEF T
  <2>1. T \in SUBSET Nat
    BY DEF T
  <2>2. Len(recs) \in T
    BY <1>1, <1>4, <1>5, <2>1, NatInd
  <2>3. QED BY <1>1, <2>2 DEF T
<1>7. Len(recs) + 1 \in 1..Len(more) /\ (Len(recs) + 1) - 1 = Len(recs)
  BY <1>1
<1>8. g[Len(recs) + 1] = AddRecord(g[Len(recs)], more[Len(recs) + 1], root)
  BY <1>3, <1>7
<1>9. QED
  BY <1>1, <1>2, <1>3, <1>6, <1>8 DEF more

LEMMA HasMaxZero ==
  ASSUME NEW P \in SUBSET Nat, IsFiniteSet(P)
  PROVE  /\ Max({0} \cup P) \in Nat /\ Max({0} \cup P) \in {0} \cup P
         /\ \A k \in {0} \cup P : k <= Max({0} \cup P)
<1> DEFINE Q == {0} \cup P
<1>1. IsFiniteSet(P \cup {0})
  BY FS_AddElement
<1>2. Q = P \cup {0}
  OBVIOUS
<1>3. IsFiniteSet(Q)
  BY <1>1, <1>2, Zenon
<1>4. Q \in SUBSET Nat /\ Q # {}
  OBVIOUS
<1> HIDE DEF Q
<1>5. Max(Q) \in Q /\ \A k \in Q : k <= Max(Q)
  BY <1>3, <1>4, HasMax
<1>6. QED
  BY <1>4, <1>5 DEF Q

LEMMA PeakRange ==
  ASSUME NEW recs, Len(recs) \in Nat, DOMAIN recs = 1..Len(recs), NEW root,
         \A i \in DOMAIN recs : recs[i].peak \in Nat
  PROVE  /\ PeakForTask(recs, root) \in Nat
         /\ \A i \in DOMAIN recs : recs[i].at.root = root => recs[i].peak <= PeakForTask(recs, root)
         /\ \/ PeakForTask(recs, root) = 0
            \/ \E i \in DOMAIN recs : recs[i].at.root = root /\ PeakForTask(recs, root) = recs[i].peak
<1> DEFINE I == {j \in DOMAIN recs : recs[j].at.root = root}
           P == {recs[i].peak : i \in I}
<1>1. IsFiniteSet(I)
  <2>1. IsFiniteSet(1..Len(recs)) /\ I \subseteq 1..Len(recs)
    BY FS_Interval
  <2>2. QED BY <2>1, FS_Subset
<1>2. IsFiniteSet(P)
  <2> DEFINE peaks == [i \in I |-> recs[i].peak]
  <2>1. peaks \in Surjection(I, P)
    BY DEF Surjection
  <2>2. QED BY <1>1, <2>1, FS_Surjection
<1>3. P \in SUBSET Nat
  OBVIOUS
<1>5. PeakForTask(recs, root) = Max({0} \cup P)
  BY DEF PeakForTask
<1> HIDE DEF P
<1> DEFINE m == Max({0} \cup P)
<1>6. m \in Nat /\ m \in {0} \cup P /\ \A k \in {0} \cup P : k <= m
  BY <1>2, <1>3, HasMaxZero
<1> HIDE DEF m
<1>7. m \in Nat /\ m \in {0} \cup P /\ \A k \in P : k <= m
  BY <1>6
<1>8. QED
  BY <1>5, <1>7 DEF P, m

\* What becomes of the records of this lifetime.
LEMMA LifetimeFacts ==
  ASSUME LedgerInv
  PROVE  /\ LifetimeLedger \in Seq(Records)
         /\ Len(LifetimeLedger) \in Nat /\ DOMAIN LifetimeLedger = 1..Len(LifetimeLedger)
<1> DEFINE earlier == {i \in DOMAIN ledger : ledger[i].lifetime # lifetime}
           k == Max({0} \cup earlier)
<1>1. ledger \in Seq(Records) /\ Len(ledger) \in Nat /\ DOMAIN ledger = 1..Len(ledger)
  BY LenProperties DEF LedgerInv
<1>2. IsFiniteSet(earlier) /\ earlier \in SUBSET Nat
  <2>1. IsFiniteSet(1..Len(ledger)) /\ earlier \subseteq 1..Len(ledger)
    BY <1>1, FS_Interval
  <2>2. IsFiniteSet(earlier)
    BY <2>1, FS_Subset
  <2> HIDE DEF earlier
  <2>3. QED BY <1>1, <2>1, <2>2
<1>3. k \in {0} \cup earlier
  <2> HIDE DEF earlier
  <2> QED BY <1>2, HasMaxZero
<1>4. k \in 0..Len(ledger)
  BY <1>1, <1>3
<1> HIDE DEF k
<1>5. \A i \in (k + 1)..Len(ledger) : ledger[i] \in Records
  BY <1>1, <1>4, ElementOfSeq
<1>6. SubSeq(ledger, k + 1, Len(ledger)) \in Seq(Records)
  BY <1>1, <1>4, <1>5, SubSeqProperties
<1>7. LifetimeLedger = SubSeq(ledger, k + 1, Len(ledger))
  BY DEF LifetimeLedger, k
<1>8. QED
  BY <1>6, <1>7, LenProperties

LEMMA SuffixAppend ==
  ASSUME NEW S, NEW s \in Seq(S), NEW e \in S, NEW k \in 0..Len(s)
  PROVE  SubSeq(Append(s, e), k + 1, Len(Append(s, e))) = Append(SubSeq(s, k + 1, Len(s)), e)
<1> DEFINE n == Len(s)
           w == Append(s, e)
           x == SubSeq(w, k + 1, n + 1)
           y == SubSeq(s, k + 1, n)
           z == Append(y, e)
<1>1. /\ n \in Nat /\ w \in Seq(S) /\ Len(w) = n + 1 /\ w[n + 1] = e
      /\ \A i \in 1..n : w[i] = s[i] /\ s[i] \in S
  BY AppendProperties, LenProperties, ElementOfSeq
<1> HIDE DEF w
<1>2. /\ k + 1 \in Int /\ n \in Int /\ n + 1 \in Int
      /\ \A i \in (k + 1)..n : s[i] \in S /\ w[i] \in S
      /\ \A i \in (k + 1)..(n + 1) : w[i] \in S
  <2>1. \A i \in 1..(n + 1) : w[i] \in S
    BY <1>1, ElementOfSeq
  <2>2. QED BY <1>1, <2>1
<1>3. /\ x \in Seq(S) /\ Len(x) = (n + 1) - (k + 1) + 1
      /\ \A i \in 1..((n + 1) - (k + 1) + 1) : x[i] = w[(k + 1) + i - 1]
  <2>1. /\ x \in Seq(S) /\ Len(x) = IF k + 1 <= n + 1 THEN (n + 1) - (k + 1) + 1 ELSE 0
        /\ \A i \in 1..((n + 1) - (k + 1) + 1) : x[i] = w[(k + 1) + i - 1]
    BY <1>2, SubSeqProperties
  <2> HIDE DEF x
  <2>2. QED BY <1>1, <2>1
<1>4. /\ y \in Seq(S) /\ Len(y) = n - k
      /\ \A i \in 1..(n - (k + 1) + 1) : y[i] = s[(k + 1) + i - 1]
  <2>1. /\ y \in Seq(S) /\ Len(y) = IF k + 1 <= n THEN n - (k + 1) + 1 ELSE 0
        /\ \A i \in 1..(n - (k + 1) + 1) : y[i] = s[(k + 1) + i - 1]
    BY <1>2, SubSeqProperties
  <2> HIDE DEF y
  <2>2. QED BY <1>1, <2>1
<1> HIDE DEF x, y
<1>5. /\ z \in Seq(S) /\ Len(z) = (n - k) + 1 /\ z[(n - k) + 1] = e
      /\ \A i \in 1..(n - k) : z[i] = y[i]
  BY <1>4, AppendProperties
<1> HIDE DEF z
<1>6. Len(x) = Len(z)
  BY <1>1, <1>3, <1>5
<1>7. ASSUME NEW i \in 1..Len(x) PROVE x[i] = z[i]
  <2>1. i \in 1..((n - k) + 1) /\ i \in 1..((n + 1) - (k + 1) + 1) /\ (k + 1) + i - 1 = k + i
    BY <1>1, <1>3
  <2>2. x[i] = w[k + i]
    BY <1>3, <2>1
  <2>3. CASE i = (n - k) + 1
    BY <1>1, <1>5, <2>2, <2>3
  <2>4. CASE i # (n - k) + 1
    <3>1. i \in 1..(n - k) /\ i \in 1..(n - (k + 1) + 1) /\ k + i \in 1..n
      BY <1>1, <2>1, <2>4
    <3>2. z[i] = s[k + i]
      BY <1>4, <1>5, <2>1, <3>1
    <3>3. QED BY <1>1, <2>2, <3>1, <3>2
  <2>5. QED BY <2>3, <2>4
<1>8. x = z
  BY <1>3, <1>5, <1>6, <1>7, SeqEqual
<1>9. QED
  BY <1>1, <1>8 DEF x, y, z, w

LEMMA LifetimeAppends ==
  ASSUME LedgerInv, NEW rec \in Records, rec.lifetime = lifetime,
         ledger' = Append(ledger, rec), lifetime' = lifetime
  PROVE  LifetimeLedger' = Append(LifetimeLedger, rec)
<1> DEFINE earlier == {i \in DOMAIN ledger : ledger[i].lifetime # lifetime}
           k == Max({0} \cup earlier)
<1>1. ledger \in Seq(Records) /\ Len(ledger) \in Nat /\ DOMAIN ledger = 1..Len(ledger)
  BY LenProperties DEF LedgerInv
<1>2. k \in 0..Len(ledger)
  <2>1. IsFiniteSet(1..Len(ledger)) /\ earlier \subseteq 1..Len(ledger)
    BY <1>1, FS_Interval
  <2>2. IsFiniteSet(earlier)
    BY <2>1, FS_Subset
  <2> HIDE DEF earlier
  <2>3. earlier \in SUBSET Nat
    BY <1>1, <2>1
  <2>4. k \in {0} \cup earlier
    BY <2>2, <2>3, HasMaxZero
  <2> HIDE DEF k
  <2>5. QED BY <1>1, <2>1, <2>4
<1>3. /\ Len(ledger') = Len(ledger) + 1 /\ DOMAIN ledger' = 1..(Len(ledger) + 1)
      /\ \A i \in 1..Len(ledger) : ledger'[i] = ledger[i]
      /\ ledger'[Len(ledger) + 1] = rec
  BY <1>1, AppendProperties, LenProperties
<1>4. {i \in DOMAIN ledger' : ledger'[i].lifetime # lifetime} = earlier
  BY <1>1, <1>3
<1>5. LifetimeLedger' = SubSeq(Append(ledger, rec), k + 1, Len(Append(ledger, rec)))
  BY <1>4 DEF LifetimeLedger
<1> HIDE DEF k
<1>6. SubSeq(Append(ledger, rec), k + 1, Len(Append(ledger, rec)))
        = Append(SubSeq(ledger, k + 1, Len(ledger)), rec)
  BY <1>1, <1>2, SuffixAppend
<1>7. QED
  BY <1>5, <1>6 DEF LifetimeLedger, k

LEMMA EmptyLifetime ==
  ASSUME ledger = <<>>
  PROVE  LifetimeLedger = <<>>
<1> DEFINE k == Max({0} \cup {i \in DOMAIN ledger : ledger[i].lifetime # lifetime})
<1>1. DOMAIN ledger = {} /\ Len(ledger) = 0
  OBVIOUS
<1>2. IsFiniteSet({}) /\ {} \in SUBSET Nat
  BY FS_EmptySet
<1>3. Max({0} \cup {}) \in Nat
  BY <1>2, HasMaxZero
<1>4. {i \in DOMAIN ledger : ledger[i].lifetime # lifetime} = {}
  BY <1>1
<1>5. k \in Nat
  BY <1>3, <1>4
<1>6. LifetimeLedger = SubSeq(ledger, k + 1, Len(ledger))
  BY DEF LifetimeLedger
<1> HIDE DEF k
<1>7. QED BY <1>1, <1>5, <1>6

LEMMA LifetimeFresh ==
  ASSUME LedgerInv, ledger' = ledger, \A i \in DOMAIN ledger : ledger[i].lifetime # lifetime'
  PROVE  LifetimeLedger' = <<>>
<1> DEFINE k == Max({0} \cup DOMAIN ledger)
<1>1. Len(ledger) \in Nat /\ DOMAIN ledger = 1..Len(ledger)
  BY LenProperties DEF LedgerInv
<1>2. k \in Nat /\ Len(ledger) <= k
  <2>1. IsFiniteSet(DOMAIN ledger) /\ DOMAIN ledger \in SUBSET Nat
    BY <1>1, FS_Interval
  <2>2. k \in Nat /\ \A i \in {0} \cup DOMAIN ledger : i <= k
    BY <2>1, HasMaxZero
  <2>3. Len(ledger) \in {0} \cup DOMAIN ledger
    BY <1>1
  <2>4. QED BY <2>2, <2>3
<1>3. {i \in DOMAIN ledger' : ledger'[i].lifetime # lifetime'} = DOMAIN ledger
  OBVIOUS
<1>4. LifetimeLedger' = SubSeq(ledger, k + 1, Len(ledger))
  BY <1>3 DEF LifetimeLedger
<1> HIDE DEF k
<1>5. QED
  BY <1>1, <1>2, <1>4, SubSeqEmpty

-----------------------------------------------------------------------------
(***************************************************************************)
(* The ledger read back is the arena.                                      *)
(***************************************************************************)
\* What the ledger rebuilds of the nodes of a task, and of their parents if
\* all requests of a node agree on it.
Mirrors(live, read) ==
  /\ DOMAIN read \subseteq DOMAIN live
  /\ \A n \in DOMAIN read : SameAccount(live[n], read[n])
  /\ OneParent => \A n \in DOMAIN read : live[n].parent = read[n].parent
  /\ \A n \in DOMAIN live \ DOMAIN read : SameAccount(live[n], NewNode(None, 0, None))

\* A node is below the parent that its requests name.
Declared(root, nodes) ==
  OneParent => \A a \in Refs : a.root = root /\ a.node \in DOMAIN nodes /\ a.node # root
                                 => nodes[a.node].parent = a.parent

MirrorInv ==
  \A root \in Roots :
    /\ Declared(root, arena[root].nodes)
    /\ "ledger_write" \notin Faults
         => Mirrors(arena[root].nodes, RebuiltTask(LifetimeLedger, root).nodes)

\* c is b with the node of a added to it.
Joined(b, c, a) ==
  /\ DOMAIN c.nodes = DOMAIN b.nodes \cup {a.node}
  /\ \A n \in DOMAIN b.nodes : SameEntry(c.nodes[n], b.nodes[n])
  /\ a.node \notin DOMAIN b.nodes
       => /\ SameAccount(c.nodes[a.node], NewNode(None, 0, None))
          /\ c.nodes[a.node].parent = a.parent

LEMMA BeginJoins == \A b, a : TreeOK(b) => Joined(b, Begin(b, a), a)
<1>0. None \notin Nat
  BY ProxyAssumption
<1>1. QED BY <1>0, BeginEntries DEF Joined

LEMMA MirrorFinish ==
  ASSUME NEW t, TreeOK(t), NEW b, TreeOK(b), NEW root, root \in DOMAIN b.nodes,
         NEW a, a.root = root, a.node \in DOMAIN t.nodes,
         OneParent /\ a.node # root => t.nodes[a.node].parent = a.parent,
         Mirrors(t.nodes, b.nodes),
         NEW usage \in Nat, NEW complete \in BOOLEAN, NEW rec,
         rec.at = a, rec.usage = usage, rec.incomplete = ~complete
  PROVE  Mirrors(Finish(t, a, usage, complete).nodes, AddRecord(b, rec, root).nodes)
<1> DEFINE u == Finish(t, a, usage, complete)
           c == Begin(b, a)
           d == Finish(c, a, usage, complete)
<1>0. None \notin Nat
  BY ProxyAssumption
<1>1. AddRecord(b, rec, root) = d
  <2>1. (~rec.incomplete) = complete
    OBVIOUS
  <2>2. AddRecord(b, rec, root) = Finish(c, a, usage, ~rec.incomplete)
    BY DEF AddRecord
  <2>3. QED BY <2>1, <2>2
<1>2. /\ DOMAIN u.nodes = DOMAIN t.nodes
      /\ \A n \in DOMAIN t.nodes \ {a.node} : u.nodes[n] = t.nodes[n]
      /\ BilledOnce(t.nodes[a.node], u.nodes[a.node], usage, complete)
  BY FinishEntries
<1>3. /\ DOMAIN c.nodes = DOMAIN b.nodes \cup {a.node}
      /\ \A n \in DOMAIN b.nodes : SameEntry(c.nodes[n], b.nodes[n])
      /\ a.node \notin DOMAIN b.nodes
           => /\ SameAccount(c.nodes[a.node], NewNode(None, 0, None))
              /\ c.nodes[a.node].parent = a.parent
  <2>1. Joined(b, c, a)
    BY BeginJoins
  <2> HIDE DEF c
  <2>2. QED BY <2>1 DEF Joined
<1>4. TreeOK(c)
  BY <1>0, BeginTree
<1> HIDE DEF u, c
<1>5. /\ DOMAIN d.nodes = DOMAIN c.nodes
      /\ \A n \in DOMAIN c.nodes \ {a.node} : d.nodes[n] = c.nodes[n]
      /\ BilledOnce(c.nodes[a.node], d.nodes[a.node], usage, complete)
  <2>1. a.node \in DOMAIN c.nodes
    BY <1>3
  <2>2. QED BY <1>4, <2>1, FinishEntries
<1> HIDE DEF d
<1>6. /\ DOMAIN b.nodes \subseteq DOMAIN t.nodes
      /\ \A n \in DOMAIN b.nodes : SameAccount(t.nodes[n], b.nodes[n])
      /\ OneParent => \A n \in DOMAIN b.nodes : t.nodes[n].parent = b.nodes[n].parent
      /\ \A n \in DOMAIN t.nodes \ DOMAIN b.nodes : SameAccount(t.nodes[n], NewNode(None, 0, None))
  BY DEF Mirrors
<1>7. SameAccount(t.nodes[a.node], c.nodes[a.node])
  <2>1. CASE a.node \in DOMAIN b.nodes
    BY <1>3, <1>6, <2>1 DEF SameEntry, SameAccount
  <2>2. CASE a.node \notin DOMAIN b.nodes
    <3> DEFINE new == NewNode(None, 0, None)
    <3>1. SameAccount(t.nodes[a.node], new) /\ SameAccount(c.nodes[a.node], new)
      BY <1>3, <1>6, <2>2
    <3> HIDE DEF new
    <3>2. QED BY <3>1 DEF SameAccount
  <2>3. QED BY <2>1, <2>2
<1>8. OneParent => t.nodes[a.node].parent = c.nodes[a.node].parent
  <2>1. CASE a.node \in DOMAIN b.nodes
    BY <1>3, <1>6, <2>1 DEF SameEntry
  <2>2. CASE a.node \notin DOMAIN b.nodes
    BY <1>3, <2>2
  <2>3. QED BY <2>1, <2>2
<1>9. /\ SameAccount(u.nodes[a.node], d.nodes[a.node])
      /\ OneParent => u.nodes[a.node].parent = d.nodes[a.node].parent
  BY <1>2, <1>5, <1>7, <1>8 DEF SameAccount, BilledOnce
<1>10. ASSUME NEW n \in DOMAIN d.nodes, n # a.node
       PROVE  /\ SameAccount(u.nodes[n], d.nodes[n])
              /\ OneParent => u.nodes[n].parent = d.nodes[n].parent
  <2>1. n \in DOMAIN b.nodes /\ n \in DOMAIN t.nodes
    BY <1>3, <1>5, <1>6, <1>10
  <2>2. u.nodes[n] = t.nodes[n] /\ d.nodes[n] = c.nodes[n]
    BY <1>2, <1>5, <1>10, <2>1
  <2>3. QED BY <1>3, <1>6, <2>1, <2>2 DEF SameEntry, SameAccount
<1>11. DOMAIN d.nodes \subseteq DOMAIN u.nodes
  BY <1>2, <1>3, <1>5, <1>6
<1>12. ASSUME NEW n \in DOMAIN u.nodes \ DOMAIN d.nodes
       PROVE  SameAccount(u.nodes[n], NewNode(None, 0, None))
  <2>1. n # a.node /\ n \in DOMAIN t.nodes \ DOMAIN b.nodes
    BY <1>2, <1>3, <1>5
  <2>2. u.nodes[n] = t.nodes[n]
    BY <1>2, <2>1
  <2>3. QED BY <1>6, <2>1, <2>2
<1>13. Mirrors(u.nodes, d.nodes)
  BY <1>9, <1>10, <1>11, <1>12 DEF Mirrors
<1>14. QED
  BY <1>1, <1>13 DEF u

LEMMA MirrorBegun ==
  ASSUME NEW t, TreeOK(t), t.ceiling = Ceiling, NEW a \in Refs, NEW task, NEW answer, NEW where,
         Begun(t, a, task, answer, where), Declared(a.root, t.nodes)
  PROVE  /\ Declared(a.root, task.nodes)
         /\ \A read : Mirrors(t.nodes, read) => Mirrors(task.nodes, read)
<1>1. /\ DOMAIN task.nodes = DOMAIN t.nodes \cup {a.node}
      /\ \A n \in DOMAIN t.nodes : SameEntry(task.nodes[n], t.nodes[n])
      /\ a.node \notin DOMAIN t.nodes
           => /\ SameAccount(task.nodes[a.node], NewNode(None, 0, None))
              /\ task.nodes[a.node].parent = a.parent
  BY BegunEntries
<1>2. Declared(a.root, task.nodes)
  <2>1. SUFFICES ASSUME OneParent, NEW b \in Refs, b.root = a.root,
                        b.node \in DOMAIN task.nodes, b.node # a.root
                 PROVE  task.nodes[b.node].parent = b.parent
    BY DEF Declared
  <2>2. CASE b.node \in DOMAIN t.nodes
    BY <1>1, <2>1, <2>2 DEF SameEntry, Declared
  <2>3. CASE b.node \notin DOMAIN t.nodes
    <3>1. b.node = a.node
      BY <1>1, <2>1, <2>3
    <3>2. a.parent = b.parent
      BY <2>1, <3>1 DEF OneParent
    <3>3. QED BY <1>1, <2>3, <3>1, <3>2
  <2>4. QED BY <2>2, <2>3
<1>3. ASSUME NEW read, Mirrors(t.nodes, read) PROVE Mirrors(task.nodes, read)
  <2>1. /\ DOMAIN read \subseteq DOMAIN t.nodes
        /\ \A n \in DOMAIN read : SameAccount(t.nodes[n], read[n])
        /\ OneParent => \A n \in DOMAIN read : t.nodes[n].parent = read[n].parent
        /\ \A n \in DOMAIN t.nodes \ DOMAIN read : SameAccount(t.nodes[n], NewNode(None, 0, None))
    BY <1>3 DEF Mirrors
  <2>2. \A n \in DOMAIN read : SameAccount(task.nodes[n], read[n])
    BY <1>1, <2>1 DEF SameEntry, SameAccount
  <2>3. OneParent => \A n \in DOMAIN read : task.nodes[n].parent = read[n].parent
    BY <1>1, <2>1 DEF SameEntry
  <2>4. ASSUME NEW n \in DOMAIN task.nodes \ DOMAIN read
        PROVE  SameAccount(task.nodes[n], NewNode(None, 0, None))
    <3> DEFINE new == NewNode(None, 0, None)
    <3>1. CASE n \in DOMAIN t.nodes
      <4>1. SameAccount(t.nodes[n], new) /\ SameAccount(task.nodes[n], t.nodes[n])
        BY <1>1, <2>1, <3>1 DEF SameEntry
      <4> HIDE DEF new
      <4>2. SameAccount(task.nodes[n], new)
        BY <4>1 DEF SameAccount
      <4>3. QED BY <4>2 DEF new
    <3>2. CASE n \notin DOMAIN t.nodes
      BY <1>1, <3>2
    <3>3. QED BY <3>1, <3>2
  <2>5. QED BY <1>1, <2>1, <2>2, <2>3, <2>4 DEF Mirrors
<1>4. QED
  BY <1>2, <1>3

\* RebuiltTask of the records of this lifetime is a tree with its root in it.
LEMMA LifetimeTree ==
  ASSUME LedgerInv, NEW root
  PROVE  LET b == RebuiltTask(LifetimeLedger, root)
         IN  TreeOK(b) /\ root \in DOMAIN b.nodes
<1> DEFINE recs == LifetimeLedger
           b == RebuiltTask(recs, root)
<1>1. /\ recs \in Seq(Records) /\ Len(recs) \in Nat
  BY LifetimeFacts
<1> HIDE DEF recs
<1>2. \A i \in 1..Len(recs) : recs[i] \in Records
  BY <1>1, ElementOfSeq
<1>3. \A i \in 1..Len(recs) : recs[i].usage \in Nat
  BY <1>2 DEF Records
<1>4. None \notin Nat
  BY ProxyAssumption
<1>5. RebuiltOK(b, recs, root, Len(recs))
  BY <1>1, <1>3, <1>4, RebuiltTree
<1> HIDE DEF b
<1>6. TreeOK(b) /\ root \in DOMAIN b.nodes
  BY <1>5 DEF RebuiltOK
<1>7. QED
  BY <1>6 DEF b, recs

LEMMA FreshMirrors ==
  ASSUME NEW root \in Roots
  PROVE  /\ Declared(root, FreshArena[root].nodes)
         /\ Mirrors(FreshArena[root].nodes, RebuiltTask(<<>>, root).nodes)
<1>1. DOMAIN FreshArena[root].nodes = {root} /\ FreshArena[root].nodes[root] = NewNode(None, 0, Ceiling)
  BY FreshTrees
<1>2. RebuiltTask(<<>>, root) = NewTask(root, None, None)
  <2> DEFINE e == <<>>
  <2>1. Len(e) = 0
    OBVIOUS
  <2> HIDE DEF e
  <2>2. PICK f : f[0] = NewTask(root, None, None) /\ RebuiltTask(e, root) = f[Len(e)]
    BY <2>1, RebuildSteps
  <2>3. QED BY <2>1, <2>2 DEF e
<1>3. NewTask(root, None, None).nodes = [n \in {root} |-> NewNode(None, 0, None)]
  BY DEF NewTask
<1> DEFINE live == FreshArena[root].nodes
           read == RebuiltTask(<<>>, root).nodes
<1>4. DOMAIN read = {root} /\ read[root] = NewNode(None, 0, None)
  BY <1>2, <1>3
<1>5. DOMAIN live = {root} /\ live[root] = NewNode(None, 0, Ceiling)
  BY <1>1
<1> HIDE DEF live, read
<1>6. SameAccount(live[root], read[root]) /\ live[root].parent = read[root].parent
  BY <1>4, <1>5 DEF NewNode, SameAccount
<1>7. Declared(root, live) /\ Mirrors(live, read)
  BY <1>4, <1>5, <1>6 DEF Declared, Mirrors
<1>8. QED
  BY <1>7 DEF live, read

LEMMA MirrorEnter ==
  ASSUME CountInv, BaseInv, MirrorInv, NEW r \in Reqs, NEW a \in Refs,
         Arrive(r, a) \/ ArriveWs(r, a)
  PROVE  MirrorInv'
<1>1. PICK task, answer, where : /\ Enter(r, a, task, answer, where)
                                 /\ Begun(arena[a.root], a, task, answer, where)
  BY EnterKinds
<1>2. /\ a.root \in Roots /\ lifetime' = lifetime
      /\ arena'[a.root] = task /\ \A root \in Roots \ {a.root} : arena'[root] = arena[root]
  BY <1>1, EnterFacts
<1>3. LifetimeLedger' = LifetimeLedger
  BY <1>1 DEF Enter, LifetimeLedger
<1>4. TreeOK(arena[a.root]) /\ arena[a.root].ceiling = Ceiling /\ Declared(a.root, arena[a.root].nodes)
  BY <1>2 DEF BaseInv, TreesOK, MirrorInv
<1>5. /\ Declared(a.root, task.nodes)
      /\ \A read : Mirrors(arena[a.root].nodes, read) => Mirrors(task.nodes, read)
  BY <1>1, <1>4, MirrorBegun
<1>6. ASSUME NEW root \in Roots
      PROVE  /\ Declared(root, arena'[root].nodes)
             /\ "ledger_write" \notin Faults
                  => Mirrors(arena'[root].nodes, RebuiltTask(LifetimeLedger, root).nodes)
  <2>1. CASE root = a.root
    BY <1>2, <1>5, <2>1 DEF MirrorInv
  <2>2. CASE root # a.root
    BY <1>2, <2>2 DEF MirrorInv
  <2>3. QED BY <2>1, <2>2
<1>7. QED
  BY <1>3, <1>6 DEF MirrorInv

\* A step that leaves the nodes and the ledger alone.
LEMMA MirrorSame ==
  ASSUME MirrorInv, UNCHANGED <<ledger, lifetime>>,
         \A root \in Roots : arena'[root].nodes = arena[root].nodes
  PROVE  MirrorInv'
<1>1. LifetimeLedger' = LifetimeLedger
  BY DEF LifetimeLedger
<1>2. QED
  BY <1>1 DEF MirrorInv

LEMMA MirrorStop ==
  ASSUME CountInv, BaseInv, MirrorInv, NEW r \in Reqs, Stop(r)
  PROVE  MirrorInv'
<1>0. PICK home : home = at[r].root
  OBVIOUS
<1>1. /\ home \in Roots /\ lifetime' = lifetime
      /\ arena'[home] = TakeStop(arena[home]).task
      /\ \A root \in Roots \ {home} : arena'[root] = arena[root]
  BY <1>0, StopFacts
<1>2. TreeOK(arena[home])
  BY <1>1 DEF BaseInv, TreesOK
<1>3. arena'[home].nodes = arena[home].nodes
  BY <1>1, <1>2, TakeStopTree
<1>4. \A root \in Roots : arena'[root].nodes = arena[root].nodes
  BY <1>1, <1>3
<1>5. ledger' = ledger
  BY DEF Stop
<1>6. QED
  BY <1>1, <1>4, <1>5, MirrorSame

\* finish_locked bills the same request to the arena and to the ledger.
LEMMA MirrorFinishes ==
  ASSUME CountInv, BaseInv, LedgerInv, MirrorInv, NEW r \in Reqs, pc[r] \in Unfinished,
         NEW usage \in Nat, NEW complete \in BOOLEAN, FinishLocked(r, usage, complete)
  PROVE  MirrorInv'
<1>0. PICK home, a : home = at[r].root /\ a = at[r]
  OBVIOUS
<1>1. /\ a \in Refs /\ a.root = home /\ home \in Roots /\ a.node \in DOMAIN arena[home].nodes
      /\ lifetime' = lifetime
      /\ arena'[home] = Finish(arena[home], a, usage, complete)
      /\ \A root \in Roots \ {home} : arena'[root] = arena[root]
  BY <1>0, FinishFacts
<1> DEFINE t == arena[home]
           u == Finish(t, a, usage, complete)
           rec == [at |-> a, usage |-> usage, incomplete |-> ~complete,
                   peak |-> u.peak, req |-> r, lifetime |-> lifetime]
<1>2. ledger' = Append(ledger, rec) \/ ("ledger_write" \in Faults /\ ledger' = ledger)
  BY <1>0 DEF FinishLocked
<1>3. TreeOK(t) /\ Declared(home, t.nodes)
  BY <1>1 DEF BaseInv, TreesOK, MirrorInv
<1>4. /\ DOMAIN u.nodes = DOMAIN t.nodes
      /\ \A n \in DOMAIN t.nodes : u.nodes[n].parent = t.nodes[n].parent
  <2>1. /\ DOMAIN u.nodes = DOMAIN t.nodes
        /\ \A n \in DOMAIN t.nodes \ {a.node} : u.nodes[n] = t.nodes[n]
        /\ BilledOnce(t.nodes[a.node], u.nodes[a.node], usage, complete)
    BY <1>1, <1>3, FinishEntries
  <2> HIDE DEF t, u
  <2>2. QED BY <2>1 DEF BilledOnce
<1>5. u.peak \in Nat
  BY <1>1, FinishFields DEF CountInv, ArenaOK
<1>6. arena'[home] = u
  BY <1>1
<1> HIDE DEF t, u
<1>7. Declared(home, u.nodes)
  BY <1>3, <1>4 DEF Declared
<1>8. \A root \in Roots : Declared(root, arena'[root].nodes)
  BY <1>1, <1>6, <1>7 DEF MirrorInv
<1>9. CASE "ledger_write" \in Faults
  BY <1>8, <1>9 DEF MirrorInv
<1>10. CASE "ledger_write" \notin Faults
  <2>1. rec \in Records /\ rec.lifetime = lifetime /\ rec.at = a /\ rec.usage = usage
        /\ rec.incomplete = ~complete
    BY <1>1, <1>5 DEF Records, CountInv, RequestsOK
  <2> HIDE DEF rec
  <2>2. ledger' = Append(ledger, rec)
    BY <1>2, <1>10
  <2>3. LifetimeLedger' = Append(LifetimeLedger, rec)
    BY <1>1, <2>1, <2>2, LifetimeAppends
  <2>4. ASSUME NEW root \in Roots
        PROVE  Mirrors(arena'[root].nodes, RebuiltTask(Append(LifetimeLedger, rec), root).nodes)
    <3> DEFINE b == RebuiltTask(LifetimeLedger, root)
    <3>1. RebuiltTask(Append(LifetimeLedger, rec), root) = AddRecord(b, rec, root)
      <4>1. LifetimeLedger \in Seq(Records)
        BY LifetimeFacts
      <4>2. QED BY <2>1, <4>1, RebuiltAppend
    <3>2. Mirrors(arena[root].nodes, b.nodes)
      BY <1>10 DEF MirrorInv
    <3>3. CASE root # home
      <4>1. AddRecord(b, rec, root) = b
        BY <1>1, <2>1, <3>3 DEF AddRecord
      <4>2. QED BY <1>1, <3>1, <3>2, <3>3, <4>1
    <3>4. CASE root = home
      <4>1. TreeOK(b) /\ root \in DOMAIN b.nodes
        BY LifetimeTree
      <4> HIDE DEF b
      <4>2. OneParent /\ a.node # root => t.nodes[a.node].parent = a.parent
        BY <1>1, <1>3, <3>4 DEF Declared, t
      <4>3. a.root = root /\ a.node \in DOMAIN t.nodes /\ Mirrors(t.nodes, b.nodes)
        BY <1>1, <3>2, <3>4 DEF t
      <4>4. Mirrors(Finish(t, a, usage, complete).nodes, AddRecord(b, rec, root).nodes)
        BY <1>3, <2>1, <4>1, <4>2, <4>3, MirrorFinish
      <4>5. QED BY <1>1, <3>1, <3>4, <4>4 DEF t
    <3>5. QED BY <3>3, <3>4
  <2>5. QED BY <1>8, <2>3, <2>4 DEF MirrorInv
<1>11. QED
  BY <1>9, <1>10

LEMMA MirrorRestart ==
  ASSUME CountInv, BaseInv, LedgerInv, Restart
  PROVE  MirrorInv' /\ LifetimeLedger' = <<>>
<1>1. arena' = FreshArena /\ lifetime' = lifetime + 1 /\ ledger' = ledger
  BY DEF Restart
<1>2. \A i \in DOMAIN ledger : ledger[i].lifetime # lifetime'
  <2>1. TypeOK
    BY BaseTypes
  <2>2. \A i \in DOMAIN ledger : ledger[i].lifetime \in 0..lifetime
    BY <2>1 DEF TypeOK
  <2>3. QED BY <1>1, <2>2 DEF CountInv, RequestsOK
<1>3. LifetimeLedger' = <<>>
  BY <1>1, <1>2, LifetimeFresh
<1>4. QED
  BY <1>1, <1>3, FreshMirrors DEF MirrorInv

LEMMA MirrorNext ==
  CountInv /\ BaseInv /\ LedgerInv /\ MirrorInv /\ [Next]_vars => MirrorInv'
<1>1. SUFFICES ASSUME CountInv, BaseInv, LedgerInv, MirrorInv, [Next]_vars PROVE MirrorInv'
  OBVIOUS
<1>2. ASSUME NEW r \in Reqs, NEW from, NEW to, Step(r, from, to) PROVE MirrorInv'
  <2>1. UNCHANGED <<arena, ledger, lifetime>>
    BY <1>2 DEF Step
  <2>2. QED BY <1>1, <2>1, MirrorSame
<1>3. CASE Quiet \/ UNCHANGED vars
  <2>1. UNCHANGED <<arena, ledger, lifetime>>
    BY <1>3 DEF Quiet, vars
  <2>2. QED BY <1>1, <2>1, MirrorSame
<1>4. ASSUME NEW r \in Reqs, Relay(r) PROVE MirrorInv'
  BY <1>1, <1>2, <1>4, RelayKinds, MirrorEnter, MirrorStop, MirrorFinishes
<1>5. QED
  BY <1>1, <1>3, <1>4, MirrorRestart DEF Next

LEMMA MirrorInvariant == Spec => [](MirrorInv /\ LedgerInv)
<1>1. Init => MirrorInv /\ LedgerInv
  <2>1. SUFFICES ASSUME Init PROVE MirrorInv /\ LedgerInv
    OBVIOUS
  <2>2. LedgerInv
    BY <2>1, LedgerInit
  <2>3. LifetimeLedger = <<>>
    BY <2>1, EmptyLifetime DEF Init
  <2>4. QED
    BY <2>1, <2>2, <2>3, FreshMirrors DEF Init, MirrorInv
<1>2. CountInv /\ BaseInv /\ (MirrorInv /\ LedgerInv) /\ [Next]_vars => (MirrorInv /\ LedgerInv)'
  BY LedgerNext, MirrorNext
<1>3. QED
  BY <1>1, <1>2, CountInvariant, BaseInvariant, PTL DEF Spec

\* The ledger rebuilds the arena: after every step Task::rebuild_from, run over
\* the records of this lifetime, gives each node the tokens, requests,
\* incomplete answers and parent that the arena has for it, and the nodes it
\* does not give have none.  OneParent: ensure keeps the first parent a node
\* was seen with, and the ledger sees the requests in another order.
THEOREM LedgerIsTheArena ==
  ASSUME OneParent
  PROVE  Spec => []LedgerRebuildsArena
<1>1. MirrorInv => LedgerRebuildsArena
  <2>1. SUFFICES ASSUME MirrorInv, "ledger_write" \notin Faults, NEW root \in Roots
                 PROVE  LET live == arena[root].nodes
                            read == RebuiltTask(LifetimeLedger, root).nodes
                        IN  /\ DOMAIN read \subseteq DOMAIN live
                            /\ \A n \in DOMAIN live :
                                 IF n \in DOMAIN read
                                 THEN SameAccount(live[n], read[n]) /\ live[n].parent = read[n].parent
                                 ELSE SameAccount(live[n], NewNode(None, 0, None))
    BY DEF LedgerRebuildsArena
  <2>2. Mirrors(arena[root].nodes, RebuiltTask(LifetimeLedger, root).nodes)
    BY <2>1 DEF MirrorInv
  <2>3. QED BY <2>2 DEF Mirrors
<1>2. QED
  BY <1>1, MirrorInvariant, PTL

-----------------------------------------------------------------------------
(***************************************************************************)
(* The peak read back is the peak of the arena.                            *)
(***************************************************************************)
AtMost(recs, root, peak) ==
  \A i \in DOMAIN recs : recs[i].at.root = root => recs[i].peak <= peak

LEMMA PeakAppend ==
  ASSUME NEW recs \in Seq(Records), NEW rec \in Records, NEW root
  PROVE  LET more == Append(recs, rec)
         IN  /\ \A p \in Nat : AtMost(more, root, p)
                   <=> AtMost(recs, root, p) /\ (rec.at.root = root => rec.peak <= p)
             /\ rec.at.root = root /\ AtMost(recs, root, rec.peak)
                  => PeakForTask(more, root) = rec.peak
             /\ rec.at.root # root => PeakForTask(more, root) = PeakForTask(recs, root)
<1> DEFINE more == Append(recs, rec)
<1>1. /\ more \in Seq(Records) /\ Len(recs) \in Nat /\ Len(more) = Len(recs) + 1
      /\ DOMAIN recs = 1..Len(recs) /\ DOMAIN more = 1..Len(more)
      /\ \A i \in 1..Len(recs) : more[i] = recs[i]
      /\ more[Len(more)] = rec
  BY AppendProperties, LenProperties
<1> HIDE DEF more
<1>2. \A i \in DOMAIN more : more[i].peak \in Nat
  <2>1. \A i \in 1..Len(more) : more[i] \in Records
    BY <1>1, ElementOfSeq
  <2>2. QED BY <1>1, <2>1 DEF Records
<1>3. ASSUME NEW p \in Nat
      PROVE  AtMost(more, root, p)
               <=> AtMost(recs, root, p) /\ (rec.at.root = root => rec.peak <= p)
  <2>1. ASSUME AtMost(more, root, p)
        PROVE  AtMost(recs, root, p) /\ (rec.at.root = root => rec.peak <= p)
    <3>1. Len(more) \in DOMAIN more /\ DOMAIN recs \subseteq DOMAIN more
      BY <1>1
    <3>2. QED BY <1>1, <2>1, <3>1 DEF AtMost
  <2>2. ASSUME AtMost(recs, root, p), rec.at.root = root => rec.peak <= p
        PROVE  AtMost(more, root, p)
    <3>1. ASSUME NEW i \in DOMAIN more, more[i].at.root = root PROVE more[i].peak <= p
      <4>1. i \in 1..Len(recs) \/ i = Len(more)
        BY <1>1
      <4>2. QED BY <1>1, <2>2, <3>1, <4>1 DEF AtMost
    <3>2. QED BY <3>1 DEF AtMost
  <2>3. QED BY <2>1, <2>2
<1>4. ASSUME rec.at.root = root, AtMost(recs, root, rec.peak)
      PROVE  PeakForTask(more, root) = rec.peak
  <2> DEFINE peak == PeakForTask(more, root)
  <2>1. /\ peak \in Nat
        /\ \A i \in DOMAIN more : more[i].at.root = root => more[i].peak <= peak
        /\ peak = 0 \/ \E i \in DOMAIN more : more[i].at.root = root /\ peak = more[i].peak
    BY <1>1, <1>2, PeakRange
  <2> HIDE DEF peak
  <2>2. rec.peak \in Nat
    BY DEF Records
  <2>3. \A i \in DOMAIN more : more[i].at.root = root => more[i].peak <= rec.peak
    BY <1>3, <1>4, <2>2 DEF AtMost
  <2>4. Len(more) \in DOMAIN more
    BY <1>1
  <2>5. rec.peak <= peak
    BY <1>1, <1>4, <2>1, <2>4
  <2>6. peak <= rec.peak
    BY <2>1, <2>2, <2>3
  <2>7. peak = rec.peak
    BY <2>1, <2>2, <2>5, <2>6
  <2>8. QED BY <2>7 DEF peak
<1>5. ASSUME rec.at.root # root PROVE PeakForTask(more, root) = PeakForTask(recs, root)
  <2>1. {j \in DOMAIN more : more[j].at.root = root} = {j \in DOMAIN recs : recs[j].at.root = root}
    <3>1. \A j \in DOMAIN more : more[j].at.root = root => j \in DOMAIN recs
      BY <1>1, <1>5
    <3>2. DOMAIN recs \subseteq DOMAIN more
      BY <1>1
    <3>3. QED BY <1>1, <3>1, <3>2
  <2> DEFINE I == {j \in DOMAIN recs : recs[j].at.root = root}
  <2>2. {more[i].peak : i \in I} = {recs[i].peak : i \in I}
    BY <1>1
  <2>3. QED BY <2>1, <2>2, Zenon DEF PeakForTask
<1>6. QED
  BY <1>3, <1>4, <1>5 DEF more

\* No record of this lifetime tells more than the peak of the arena, and once
\* nothing of the task is open one of them tells it.
PeakInv ==
  "ledger_write" \notin Faults =>
    \A root \in Roots :
      /\ AtMost(LifetimeLedger, root, arena[root].peak)
      /\ Counting(root) = {} => PeakForTask(LifetimeLedger, root) = arena[root].peak

LEMMA PeakFresh ==
  ASSUME NEW root \in Roots
  PROVE  AtMost(<<>>, root, 0) /\ PeakForTask(<<>>, root) = 0 /\ FreshArena[root].peak = 0
<1> DEFINE e == <<>>
<1>1. Len(e) = 0 /\ DOMAIN e = 1..Len(e) /\ DOMAIN e = {}
  OBVIOUS
<1>2. FreshArena[root].peak = 0
  BY DEF FreshArena, NewTask
<1> HIDE DEF e
<1>3. PeakForTask(e, root) = 0
  BY <1>1, PeakRange
<1>4. QED
  BY <1>1, <1>2, <1>3 DEF e, AtMost

\* A step that keeps the ledger, lets no peak fall, raises none but of a task
\* that is busy then, and settles nobody.
LEMMA PeakSame ==
  ASSUME CountInv, PeakInv, LedgerInv, UNCHANGED <<ledger, lifetime>>,
         \A root \in Roots :
           /\ arena'[root].peak \in Nat /\ arena[root].peak <= arena'[root].peak
           /\ Counting(root)' = {} => Counting(root) = {} /\ arena'[root].peak = arena[root].peak
  PROVE  PeakInv'
<1>1. LifetimeLedger' = LifetimeLedger
  BY DEF LifetimeLedger
<1>2. SUFFICES ASSUME "ledger_write" \notin Faults, NEW root \in Roots
               PROVE  /\ AtMost(LifetimeLedger, root, arena'[root].peak)
                      /\ Counting(root)' = {}
                           => PeakForTask(LifetimeLedger, root) = arena'[root].peak
  BY <1>1 DEF PeakInv
<1>3. \A i \in DOMAIN LifetimeLedger : LifetimeLedger[i].peak \in Nat
  <2> DEFINE recs == LifetimeLedger
  <2>1. recs \in Seq(Records) /\ Len(recs) \in Nat /\ DOMAIN recs = 1..Len(recs)
    BY LifetimeFacts
  <2> HIDE DEF recs
  <2>2. \A i \in 1..Len(recs) : recs[i] \in Records
    BY <2>1, ElementOfSeq
  <2>3. \A i \in DOMAIN recs : recs[i].peak \in Nat
    BY <2>1, <2>2 DEF Records
  <2>4. QED BY <2>3 DEF recs
<1>4. AtMost(LifetimeLedger, root, arena'[root].peak)
  <2> DEFINE recs == LifetimeLedger
  <2>1. /\ AtMost(recs, root, arena[root].peak) /\ arena[root].peak \in Nat
        /\ \A i \in DOMAIN recs : recs[i].peak \in Nat
    BY <1>2, <1>3 DEF PeakInv, CountInv, ArenaOK
  <2> HIDE DEF recs
  <2>2. AtMost(recs, root, arena'[root].peak)
    BY <1>2, <2>1 DEF AtMost
  <2>3. QED BY <2>2 DEF recs
<1>5. QED
  BY <1>2, <1>4 DEF PeakInv

LEMMA PeakEnter ==
  ASSUME CountInv, BaseInv, LedgerInv, PeakInv, NEW r \in Reqs, NEW a \in Refs,
         Arrive(r, a) \/ ArriveWs(r, a)
  PROVE  PeakInv'
<1>1. PICK task, answer, where : /\ Enter(r, a, task, answer, where)
                                 /\ Begun(arena[a.root], a, task, answer, where)
  BY EnterKinds
<1>2. /\ a.root \in Roots /\ a # None /\ lifetime' = lifetime /\ pc'[r] = where
      /\ OthersKept(r) /\ Mine(a.root)' = Mine(a.root) \cup {r}
      /\ \A root \in Roots \ {a.root} : Mine(root)' = Mine(root)
      /\ arena'[a.root] = task /\ \A root \in Roots \ {a.root} : arena'[root] = arena[root]
      /\ pc[r] = "idle"
  BY <1>1, EnterFacts
<1>3. ledger' = ledger
  BY <1>1 DEF Enter
<1>4. where \in Counted
  BY <1>1 DEF Begun, Counted, Unfinished
<1>5. task.peak \in Nat /\ arena[a.root].peak <= task.peak
  BY <1>1, <1>2, BegunCounts DEF CountInv, ArenaOK
<1>6. Counting(a.root)' # {}
  BY <1>2, <1>4 DEF Counting, InState
<1>7. ASSUME NEW root \in Roots, root # a.root
      PROVE  Counting(root)' = Counting(root)
  <2>1. \A q \in Mine(root) : pc'[q] \in Counted <=> pc[q] \in Counted
    <3>1. r \notin Mine(root)
      BY <1>2, ProxyAssumption DEF Mine, CountInv, Placed
    <3>2. QED BY <1>2, <3>1 DEF OthersKept, Mine
  <2>2. QED BY <1>2, <1>7, <2>1 DEF Counting, InState
<1>8. \A root \in Roots :
        /\ arena'[root].peak \in Nat /\ arena[root].peak <= arena'[root].peak
        /\ Counting(root)' = {} => Counting(root) = {} /\ arena'[root].peak = arena[root].peak
  <2>1. SUFFICES ASSUME NEW root \in Roots
                 PROVE  /\ arena'[root].peak \in Nat /\ arena[root].peak <= arena'[root].peak
                        /\ Counting(root)' = {}
                             => Counting(root) = {} /\ arena'[root].peak = arena[root].peak
    OBVIOUS
  <2>2. CASE root = a.root
    BY <1>2, <1>5, <1>6, <2>2
  <2>3. CASE root # a.root
    BY <1>2, <1>7, <2>3 DEF CountInv, ArenaOK
  <2>4. QED BY <2>2, <2>3
<1>9. QED
  BY <1>2, <1>3, <1>8, PeakSame

LEMMA PeakFinish ==
  ASSUME CountInv, BaseInv, LedgerInv, PeakInv, NEW r \in Reqs, pc[r] \in Unfinished,
         NEW usage \in Nat, NEW complete \in BOOLEAN, FinishLocked(r, usage, complete)
  PROVE  PeakInv'
<1>0. PICK home, a : home = at[r].root /\ a = at[r]
  OBVIOUS
<1>1. /\ a \in Refs /\ a.root = home /\ home \in Roots /\ lifetime' = lifetime
      /\ arena'[home] = Finish(arena[home], a, usage, complete)
      /\ \A root \in Roots \ {home} : arena'[root] = arena[root]
      /\ r \in Mine(home) /\ OthersKept(r) /\ \A root \in Roots : Mine(root)' = Mine(root)
  BY <1>0, FinishFacts
<1>2. SUFFICES ASSUME "ledger_write" \notin Faults PROVE PeakInv'
  BY DEF PeakInv
<1> DEFINE peak == arena[home].peak
           rec == [at |-> a, usage |-> usage, incomplete |-> ~complete,
                   peak |-> Finish(arena[home], a, usage, complete).peak, req |-> r,
                   lifetime |-> lifetime]
<1>3. ledger' = Append(ledger, rec)
  BY <1>0, <1>2 DEF FinishLocked
<1>4. Finish(arena[home], a, usage, complete).peak = peak /\ peak \in Nat
  BY <1>1, FinishFields DEF CountInv, ArenaOK
<1>5. /\ rec \in Records /\ rec.lifetime = lifetime /\ rec.at.root = home /\ rec.peak = peak
  BY <1>1, <1>4 DEF Records, CountInv, RequestsOK
<1>6. arena'[home].peak = peak
  BY <1>1, <1>4
<1> HIDE DEF rec
<1>7. LifetimeLedger' = Append(LifetimeLedger, rec) /\ LifetimeLedger \in Seq(Records)
  BY <1>1, <1>3, <1>5, LifetimeAppends, LifetimeFacts
<1>8. ASSUME NEW root \in Roots
      PROVE  /\ AtMost(Append(LifetimeLedger, rec), root, arena'[root].peak)
             /\ Counting(root)' = {}
                  => PeakForTask(Append(LifetimeLedger, rec), root) = arena'[root].peak
  <2>1. /\ AtMost(LifetimeLedger, root, arena[root].peak) /\ arena[root].peak \in Nat
        /\ Counting(root) = {} => PeakForTask(LifetimeLedger, root) = arena[root].peak
    BY <1>2 DEF PeakInv, CountInv, ArenaOK
  <2> DEFINE recs == LifetimeLedger
             more == Append(recs, rec)
  <2>2. /\ \A p \in Nat : AtMost(more, root, p)
                <=> AtMost(recs, root, p) /\ (rec.at.root = root => rec.peak <= p)
        /\ rec.at.root = root /\ AtMost(recs, root, rec.peak) => PeakForTask(more, root) = rec.peak
        /\ rec.at.root # root => PeakForTask(more, root) = PeakForTask(recs, root)
    BY <1>5, <1>7, PeakAppend
  <2> HIDE DEF more
  <2>3. CASE root = home
    <3>1. AtMost(recs, root, peak) /\ peak \in Nat /\ rec.at.root = root /\ rec.peak = peak
      BY <1>5, <2>1, <2>3
    <3> HIDE DEF recs, peak
    <3>2. AtMost(more, root, peak) /\ PeakForTask(more, root) = peak
      BY <2>2, <3>1
    <3>3. QED BY <1>6, <2>3, <3>2 DEF more, recs
  <2>4. CASE root # home
    <3>1. rec.at.root # root /\ arena'[root] = arena[root]
      BY <1>1, <1>5, <2>4
    <3>2. Counting(root)' = Counting(root)
      <4>1. r \notin Mine(root)
        BY <1>0, <1>1, <2>4 DEF Mine
      <4>2. QED BY <1>1, <4>1 DEF OthersKept, Counting, InState, Mine
    <3>3. QED BY <2>1, <2>2, <3>1, <3>2 DEF more
  <2>5. QED BY <2>3, <2>4
<1>9. QED
  BY <1>7, <1>8 DEF PeakInv

LEMMA PeakNext ==
  CountInv /\ BaseInv /\ LedgerInv /\ PeakInv /\ [Next]_vars => PeakInv'
<1>1. SUFFICES ASSUME CountInv, BaseInv, LedgerInv, PeakInv, [Next]_vars PROVE PeakInv'
  OBVIOUS
<1>2. ASSUME NEW r \in Reqs, NEW from \in SUBSET Unfinished, NEW to \in Counted, Step(r, from, to)
      PROVE  PeakInv'
  <2>1. /\ OthersKept(r) /\ UNCHANGED <<arena, lifetime>> /\ pc[r] \in from /\ pc'[r] = to
        /\ \A root \in Roots : Mine(root)' = Mine(root)
    BY <1>1, <1>2, StepFacts
  <2>2. ledger' = ledger
    BY <1>2 DEF Step
  <2>3. \A root \in Roots : Counting(root) \subseteq Counting(root)'
    BY <2>1, <1>2 DEF OthersKept, Counting, InState, Mine
  <2>4. QED BY <1>1, <2>1, <2>2, <2>3, PeakSame DEF CountInv, ArenaOK
<1>3. CASE Quiet \/ UNCHANGED vars
  <2>1. UNCHANGED <<arena, ledger, lifetime, pc, at, born>>
    BY <1>3 DEF Quiet, vars
  <2>2. \A root \in Roots : Counting(root)' = Counting(root)
    BY <2>1 DEF Counting, InState, Mine
  <2>3. QED BY <1>1, <2>1, <2>2, PeakSame DEF CountInv, ArenaOK
<1>4. ASSUME NEW r \in Reqs, Stop(r) PROVE PeakInv'
  <2>0. PICK home : home = at[r].root
    OBVIOUS
  <2>1. /\ home \in Roots /\ lifetime' = lifetime /\ pc'[r] = "stopping" /\ OthersKept(r)
        /\ arena'[home] = TakeStop(arena[home]).task
        /\ \A root \in Roots \ {home} : arena'[root] = arena[root]
        /\ \A root \in Roots : Mine(root)' = Mine(root)
    BY <1>1, <1>4, <2>0, StopFacts
  <2>2. ledger' = ledger
    BY <1>4 DEF Stop
  <2>3. arena'[home].peak = arena[home].peak
    BY <1>1, <2>1, TakeStopFields DEF CountInv, ArenaOK
  <2>4. \A root \in Roots : arena'[root].peak = arena[root].peak /\ arena[root].peak \in Nat
    BY <1>1, <2>1, <2>3 DEF CountInv, ArenaOK
  <2>5. \A root \in Roots : Counting(root) \subseteq Counting(root)'
    BY <2>1 DEF OthersKept, Counting, InState, Mine, Counted, Unfinished
  <2>6. QED BY <1>1, <2>1, <2>2, <2>4, <2>5, PeakSame
<1>5. ASSUME Restart PROVE PeakInv'
  <2>1. LifetimeLedger' = <<>> /\ arena' = FreshArena
    BY <1>1, <1>5, MirrorRestart DEF Restart
  <2>2. QED BY <2>1, PeakFresh DEF PeakInv
<1>6. ASSUME NEW r \in Reqs, Relay(r) PROVE PeakInv'
  BY <1>1, <1>2, <1>4, <1>6, RelayKinds, PeakEnter, PeakFinish
<1>7. QED
  BY <1>1, <1>3, <1>5, <1>6 DEF Next

\* peak_for_task recovers the peak of the arena from the records of the
\* lifetime, whenever no request of the task is open and none has leaked.
THEOREM PeakIsRecorded == Spec => []PeakSurvives
<1>1. Init => PeakInv
  BY EmptyLifetime, PeakFresh DEF Init, PeakInv
<1>2. PeakInv => PeakSurvives
  BY DEF PeakInv, PeakSurvives, Counting, Counted
<1>3. CountInv /\ BaseInv /\ LedgerInv /\ PeakInv /\ [Next]_vars => PeakInv'
  BY PeakNext
<1>4. QED
  BY <1>1, <1>2, <1>3, CountInvariant, BaseInvariant, MirrorInvariant, PTL DEF Spec
=============================================================================
