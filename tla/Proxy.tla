------------------------------- MODULE Proxy --------------------------------
(***************************************************************************)
(* The relay of crates/tailfin-proxy: many requests at once, each a tokio  *)
(* task, sharing the arena of task trees behind one mutex and the ledger   *)
(* file.  A step is what one request does between two points where another *)
(* one can get in: a lock released and taken again, or an await.           *)
(*                                                                         *)
(* A request is known by an element of Reqs and used once.  What it asks,  *)
(* the node it resolves to (module SessionIndex) and what its answer costs *)
(* are chosen from small sets.  A root absent from Arena.tasks and a task  *)
(* that was just created are the same to every operation, so the arena is  *)
(* total over the roots.                                                   *)
(***************************************************************************)
EXTENDS TaskTree

CONSTANTS
  Reqs,           \* request identities
  Refs,           \* the NodeRefs requests resolve to: [root, node, parent]
  Usages,         \* tokens one answer may be metered at
  Ceiling,        \* --max-per-task, or None (then there is no rate card)
  Share,          \* --subagent-share as [num, den], or None
  Scheme,         \* scheme of the upstream URI each start is given: lifetime -> scheme
  Upgrades,       \* whether clients open websockets
  Faults,         \* which faults happen; see FaultKinds
  MaxRestarts,    \* how often the process is stopped and started again
  OrderlyClients  \* whether clients keep to ClientMaySend

FaultKinds == {"client_gone", "rewrite", "ledger_write"}
Verdicts == {"Allow", "Last", "Deny", "Unchecked"}
Styles == {"SyntheticEndTurn", "RetryableFalse429"}

ASSUME ProxyAssumption ==
  /\ IsFiniteSet(Reqs) /\ None \notin Reqs
  /\ \A a \in Refs : DOMAIN a = {"root", "node", "parent"}
  /\ None \notin Refs /\ \A a \in Refs : a.root # None /\ a.node # None
  /\ Usages \subseteq Nat /\ IsFiniteSet(Usages) /\ Usages # {}
  /\ None \notin Nat \cup Verdicts \cup Styles /\ Ceiling \in Nat \cup {None}
  /\ \/ Share = None
     \/ /\ DOMAIN Share = {"num", "den"} /\ Share.num \in Nat
        /\ Share.den \in Nat \ {0} /\ Share.num <= Share.den
  /\ Scheme \in [0..MaxRestarts -> {"http", "https"}]
  /\ Upgrades \in BOOLEAN /\ OrderlyClients \in BOOLEAN
  /\ Faults \subseteq FaultKinds
  /\ MaxRestarts \in Nat

Roots == {a.root : a \in Refs}

VARIABLES
  arena,     \* Arc<Mutex<Arena>>: root -> task
  ledger,    \* the records of the ledger file, in order
  pc,        \* where each request is
  at,        \* the NodeRef it resolved to
  verdict,   \* what admission answered; "Unchecked" on the websocket path
  style,     \* the StopStyle it was answered with
  born,      \* history: the process lifetime in which it arrived
  lifetime   \* history: the current process lifetime

vars == <<arena, ledger, pc, at, verdict, style, born, lifetime>>

\* Begun and not finished: what Task.live counts.
Unfinished == {"admitted", "denied", "stopping", "handshake",
               "streaming", "metering", "tunnel"}
Settled == {"idle", "done", "leaked", "lost"}

Mine(root) == {r \in Reqs : at[r] # None /\ at[r].root = root /\ born[r] = lifetime}
InState(root, states) == {r \in Mine(root) : pc[r] \in states}

\* A subagent is spawned by a parent that has already made a request.
ClientMaySend(a) ==
  \/ a.parent \in {None, a.root}
  \/ \E q \in Reqs : at[q] # None /\ at[q].node = a.parent

\* A node id names one node of one task, and only a session is without a
\* parent (the declared branch of SessionIndex::resolve).
CoherentRefs ==
  /\ \A a \in Refs : a.parent = None => a.node = a.root
  /\ \A a, b \in Refs : a.parent = b.node => a.root = b.root

\* All requests of a node say the same of its parent (else a tree has the one
\* that began first, and a report the one that finished first).
OneParent ==
  \A a, b \in Refs :
    a.root = b.root /\ a.node = b.node /\ a.node # a.root => a.parent = b.parent

-----------------------------------------------------------------------------
FreshArena == [root \in Roots |-> NewTask(root, Ceiling, Share)]

Init ==
  /\ arena = FreshArena
  /\ ledger = <<>>
  /\ pc = [r \in Reqs |-> "idle"]
  /\ at = [r \in Reqs |-> None]
  /\ verdict = [r \in Reqs |-> None]
  /\ style = [r \in Reqs |-> None]
  /\ born = [r \in Reqs |-> None]
  /\ lifetime = 0

Goto(r, where) == pc' = [pc EXCEPT ![r] = where]

\* relay_inner / relay_ws up to the release of the arena lock: the request
\* becomes known at its node.
Enter(r, a, task, answer, where) ==
  /\ pc[r] = "idle"
  /\ OrderlyClients => ClientMaySend(a)
  /\ arena' = [arena EXCEPT ![a.root] = task]
  /\ at' = [at EXCEPT ![r] = a]
  /\ verdict' = [verdict EXCEPT ![r] = answer]
  /\ born' = [born EXCEPT ![r] = lifetime]
  /\ Goto(r, where)
  /\ UNCHANGED <<ledger, style, lifetime>>

\* begin and admit_at under one lock; without a rate card all is allowed.
Admission(a) ==
  LET begun == Begin(arena[a.root], a)
  IN  IF Ceiling = None THEN [task |-> begun, verdict |-> "Allow"]
      ELSE AdmitAt(begun, a)

Arrive(r, a) ==
  LET adm == Admission(a)
  IN  Enter(r, a, adm.task, adm.verdict,
            IF adm.verdict = "Deny" THEN "denied" ELSE "admitted")

\* A websocket upgrade begins, and is never asked for admission.
ArriveWs(r, a) ==
  /\ Upgrades
  /\ Enter(r, a, Begin(arena[a.root], a), "Unchecked", "handshake")

\* Mutants of FinishLocked: the record carries the requests still open instead
\* of the peak, and `complete` where `incomplete` is meant.
FinishLockedLive(r, usage, complete) ==
  LET task == Finish(arena[at[r].root], at[r], usage, complete)
  IN  /\ arena' = [arena EXCEPT ![at[r].root] = task]
      /\ ledger' = Append(ledger,
           [at |-> at[r], usage |-> usage, incomplete |-> ~complete,
            peak |-> task.live, req |-> r, lifetime |-> lifetime])
      /\ Goto(r, "done")
      /\ UNCHANGED <<at, verdict, style, born, lifetime>>

FinishLockedFlipped(r, usage, complete) ==
  LET task == Finish(arena[at[r].root], at[r], usage, complete)
  IN  /\ arena' = [arena EXCEPT ![at[r].root] = task]
      /\ ledger' = Append(ledger,
           [at |-> at[r], usage |-> usage, incomplete |-> complete,
            peak |-> task.peak, req |-> r, lifetime |-> lifetime])
      /\ Goto(r, "done")
      /\ UNCHANGED <<at, verdict, style, born, lifetime>>

\* finish_locked: the tree, the peak and the ledger line under one lock.  A
\* failed append is only logged.
FinishLocked(r, usage, complete) ==
  LET task == Finish(arena[at[r].root], at[r], usage, complete)
      rec  == [at |-> at[r], usage |-> usage, incomplete |-> ~complete,
               peak |-> task.peak, req |-> r, lifetime |-> lifetime]
  IN  /\ arena' = [arena EXCEPT ![at[r].root] = task]
      /\ \/ ledger' = Append(ledger, rec)
         \/ "ledger_write" \in Faults /\ UNCHANGED ledger
      /\ Goto(r, "done")
      /\ UNCHANGED <<at, verdict, style, born, lifetime>>

Step(r, from, to) ==
  /\ pc[r] \in from
  /\ Goto(r, to)
  /\ UNCHANGED <<arena, ledger, at, verdict, style, born, lifetime>>

-----------------------------------------------------------------------------
\* A denied request takes its stop style under a lock of its own ...
Stop(r) ==
  LET stop == TakeStop(arena[at[r].root])
  IN  /\ pc[r] = "denied"
      /\ arena' = [arena EXCEPT ![at[r].root] = stop.task]
      /\ style' = [style EXCEPT ![r] = stop.style]
      /\ Goto(r, "stopping")
      /\ UNCHANGED <<ledger, at, verdict, born, lifetime>>

\* ... and finishes, complete and at no cost, under the next.
Refuse(r) == pc[r] = "stopping" /\ FinishLocked(r, 0, TRUE)

\* rewrite_uri fails: `?` returns 502 past the begin, without a finish.  The
\* websocket path to an http upstream falls back to the path as it came.
RewriteFails(r) ==
  /\ "rewrite" \in Faults
  /\ Step(r, {"admitted"} \cup (IF Scheme[lifetime] = "https" THEN {"handshake"} ELSE {}),
          "leaked")

\* hyper drops the relay future of a client that hangs up while the upstream
\* has not answered: whatever was after the await does not run.
ClientGone(r) ==
  /\ "client_gone" \in Faults
  /\ Step(r, {"admitted", "handshake"}, "leaked")

\* Mutant of UpstreamFails: the error is returned without finish_node.
UpstreamFailsUnfinished(r) == Step(r, {"admitted"}, "done")

\* Client::request fails.
UpstreamFails(r) ==
  /\ pc[r] \in {"admitted"} \cup (IF Scheme[lifetime] = "https" THEN {"handshake"} ELSE {})
  /\ FinishLocked(r, 0, FALSE)

\* Response headers are in: the body goes to the client through the tee, and a
\* meter task is spawned.  A plain answer to an https upgrade goes the same way.
UpstreamResponds(r) ==
  Step(r, {"admitted"} \cup (IF Scheme[lifetime] = "https" THEN {"handshake"} ELSE {}),
       "streaming")

\* The body is dropped, ended or not: the tee's sender goes with it.
StreamEnds(r) == Step(r, {"streaming"}, "metering")

\* The meter task has drained its channel.
MeterFinishes(r, usage, complete) ==
  pc[r] = "metering" /\ FinishLocked(r, usage, complete)

\* http_handshake to an http upstream: an I/O error leaves through `?`,
\* without a finish ...
HandshakeFails(r) == Scheme[lifetime] = "http" /\ Step(r, {"handshake"}, "leaked")

\* ... a status other than 101 is recorded as incomplete ...
HandshakeRefused(r) ==
  Scheme[lifetime] = "http" /\ pc[r] = "handshake" /\ FinishLocked(r, 0, FALSE)

\* ... and 101 spawns the tunnel.
TunnelOpens(r) == Step(r, {"handshake"}, "tunnel")

\* splice returns, with what its text frames reported ...
TunnelEnds(r, usage, complete) ==
  pc[r] = "tunnel" /\ FinishLocked(r, usage, complete)

\* Mutant of UpgradeFails: the failure is logged, and that is all.
UpgradeFailsUnfinished(r) == Step(r, {"tunnel"}, "done")

\* ... or the connection could not be upgraded on either side.
UpgradeFails(r) == pc[r] = "tunnel" /\ FinishLocked(r, 0, FALSE)

\* serve leaves its accept loop and main returns: dropping the runtime drops
\* every task at its await.  A request between two lock sections has no await
\* to be dropped at.  The arena is gone, the ledger stays.
Restart ==
  /\ lifetime < MaxRestarts
  /\ \A r \in Reqs : pc[r] \notin {"denied", "stopping"}
  /\ lifetime' = lifetime + 1
  /\ arena' = FreshArena
  /\ pc' = [r \in Reqs |-> IF pc[r] \in Unfinished \cup {"leaked"} THEN "lost"
                           ELSE pc[r]]
  /\ UNCHANGED <<ledger, at, verdict, style, born>>

\* Every request has been answered or lost: the proxy waits for more.
Quiet == (\A r \in Reqs : pc[r] \in Settled \ {"idle"}) /\ UNCHANGED vars

Relay(r) ==
  \/ \E a \in Refs : Arrive(r, a) \/ ArriveWs(r, a)
  \/ Stop(r) \/ Refuse(r)
  \/ RewriteFails(r) \/ ClientGone(r) \/ UpstreamFails(r)
  \/ UpstreamResponds(r) \/ StreamEnds(r)
  \/ HandshakeFails(r) \/ HandshakeRefused(r) \/ TunnelOpens(r) \/ UpgradeFails(r)
  \/ \E u \in Usages, c \in BOOLEAN : MeterFinishes(r, u, c) \/ TunnelEnds(r, u, c)

Next == (\E r \in Reqs : Relay(r)) \/ Restart \/ Quiet

Spec == Init /\ [][Next]_vars

-----------------------------------------------------------------------------
(***************************************************************************)
(* Properties.                                                             *)
(***************************************************************************)
TaskOK(t) ==
  /\ DOMAIN t = {"root", "nodes", "ceiling", "share", "sealed", "live", "peak",
                 "synthetic"}
  /\ DOMAIN t.nodes \subseteq {t.root} \cup {a.node : a \in Refs}
  /\ \A n \in DOMAIN t.nodes :
       /\ t.nodes[n].depth \in 0..U8Max
       /\ t.nodes[n].allowance \in Nat \cup {None}
       /\ {t.nodes[n].usage, t.nodes[n].requests, t.nodes[n].incomplete} \subseteq Nat
       /\ t.nodes[n].sealed \in BOOLEAN
  /\ t.sealed \in BOOLEAN /\ t.synthetic \in BOOLEAN
  /\ t.live \in Nat /\ t.peak \in Nat

\* Type invariant: what the arena, the ledger and a relay future can hold.
TypeOK ==
  /\ DOMAIN arena = Roots /\ \A root \in Roots : TaskOK(arena[root])
  /\ \A i \in DOMAIN ledger :
       /\ ledger[i].at \in Refs /\ ledger[i].req \in Reqs
       /\ ledger[i].usage \in Nat /\ ledger[i].peak \in Nat
       /\ ledger[i].incomplete \in BOOLEAN /\ ledger[i].lifetime \in 0..lifetime
  /\ pc \in [Reqs -> Unfinished \cup Settled]
  /\ at \in [Reqs -> Refs \cup {None}]
  /\ verdict \in [Reqs -> Verdicts \cup {None}]
  /\ style \in [Reqs -> Styles \cup {None}]
  /\ born \in [Reqs -> 0..MaxRestarts \cup {None}]
  /\ lifetime \in 0..MaxRestarts

\* begin and finish balance (Task::begin, Task::finish, every early return of
\* relay_inner and relay_ws): the live counter of a task is the number of its
\* requests still open, plus those whose future died between the two calls,
\* so the saturating subtraction of finish never hides a second finish.
LiveCountsOpenAndLeaked ==
  \A root \in Roots :
    arena[root].live = Cardinality(InState(root, Unfinished \cup {"leaked"}))

\* Task.peak_concurrency is exactly the high-water mark of what Task.live
\* counts: it follows every rise and nothing else moves it before a restart
\* (begin; it is what a report prints as "peak conc").  A request that leaked
\* counts as open for the rest of the lifetime, so the peak may be above the
\* number of requests that were ever open at the same time.
PeakIsHighWater ==
  [][\A root \in Roots :
       LET open == Cardinality(InState(root, Unfinished \cup {"leaked"})')
           peak == arena[root].peak
       IN  arena'[root].peak = IF lifetime' # lifetime THEN 0
                               ELSE IF open > peak THEN open ELSE peak]_vars

\* What one answer can add to a task's spend, rounding included.
MaxCost == (Max(Usages) * Rate + Scale - 1) \div Scale

\* The overshoot the code really has, for tasks whose requests all pass
\* admission: spend already metered, plus the cost of every request let
\* through, stays below the ceiling plus one answer for each request of the
\* concurrency peak and one more for the `Last` request that seals the task.
CeilingBound ==
  Ceiling # None =>
    \A root \in Roots :
      SpentMicros(arena[root])
        + MaxCost * Cardinality(InState(root, {"admitted", "streaming", "metering"}))
      <= SaturatingSub(Ceiling, 1) + MaxCost * (arena[root].peak + 1)

\* Nobody is stopped under budget: a request that admit_at denied belongs to a
\* task over its ceiling, or to a node whose subtree is over its voucher, and
\* no later step (a voucher minted, a node moved) takes that back.
NoFalseDenial ==
  \A root \in Roots : \A r \in Mine(root) :
    verdict[r] = "Deny" =>
      LET t == arena[root]
      IN  \/ SpentMicros(t) >= Ceiling
          \/ /\ t.nodes[at[r].node].allowance # None
             /\ SubtreeSpentMicros(t, at[r].node) >= t.nodes[at[r].node].allowance

\* The seal of a task and the seal of each node is paid for by exactly one
\* request that was let through as `Last`, however many arrive at once
\* (begin and admit_at share one lock).
OneLastPerSeal ==
  \A root \in Roots :
    LET t == arena[root]
    IN  Cardinality({r \in Mine(root) : verdict[r] = "Last"})
          = Cardinality({n \in DOMAIN t.nodes : t.nodes[n].sealed})
              + (IF t.sealed THEN 1 ELSE 0)

\* Of all the requests a task has had stopped, exactly one was answered with
\* the synthetic end_turn and all others with the hard status, although the
\* verdict and the style are taken under two different locks.
OneSyntheticStop ==
  \A root \in Roots :
    LET stopped == {r \in Mine(root) : style[r] # None}
    IN  Cardinality({r \in stopped : style[r] = "SyntheticEndTurn"})
          = IF stopped = {} THEN 0 ELSE 1

\* finish_locked and Ledger::append: every request that ended has its one
\* record, made in the lifetime it arrived in, and no other request has any;
\* only a failed write loses one.
OneRecordPerRequest ==
  \A r \in Reqs :
    LET recs == {i \in DOMAIN ledger : ledger[i].req = r}
    IN  /\ Cardinality(recs) <= IF pc[r] = "done" THEN 1 ELSE 0
        /\ pc[r] = "done" /\ "ledger_write" \notin Faults => recs # {}
        /\ \A i \in recs : ledger[i].lifetime = born[r] /\ ledger[i].at = at[r]

\* What this lifetime has written: all that is behind the last record of an
\* earlier one (the ledger is only appended to).
LifetimeLedger ==
  LET earlier == {i \in DOMAIN ledger : ledger[i].lifetime # lifetime}
  IN  SubSeq(ledger, Max({0} \cup earlier) + 1, Len(ledger))

SameAccount(m, n) ==
  m.usage = n.usage /\ m.requests = n.requests /\ m.incomplete = n.incomplete

\* The report sees what the arena saw: folding the ledger with
\* tasks_from_records gives every node the tokens, requests and incomplete
\* count it has in memory, although records are in the order requests
\* finished and not in the order they began.
LedgerRebuildsArena ==
  "ledger_write" \notin Faults =>
    \A root \in Roots :
      LET live == arena[root].nodes
          read == RebuiltTask(LifetimeLedger, root).nodes
      IN  /\ DOMAIN read \subseteq DOMAIN live
          /\ \A n \in DOMAIN live :
               IF n \in DOMAIN read
               THEN SameAccount(live[n], read[n]) /\ live[n].parent = read[n].parent
               ELSE SameAccount(live[n], NewNode(None, 0, None))

\* peak_for_task recovers the peak of the arena from the records, as soon as
\* no request of the task is open and none has leaked.
PeakSurvives ==
  "ledger_write" \notin Faults =>
    \A root \in Roots :
      InState(root, Unfinished \cup {"leaked"}) = {}
        => PeakForTask(LifetimeLedger, root) = arena[root].peak

\* The vouchers of a node's children never add up to more than the node's own
\* allowance (mint_voucher; README.md: vouchers are minted "so the tree cannot
\* arithmetically exceed the root").
VoucherConservation ==
  \A root \in Roots : \A p \in DOMAIN arena[root].nodes :
    LET t == arena[root]
    IN  t.nodes[p].allowance # None
          => SumOf(Vouchers(t), Minted(t, p)) <= t.nodes[p].allowance

\* The tree is one tree: Task::walk reaches every node, and a child is one
\* deeper than its parent, as far as the u8 of Node.depth goes.
TreeIsConnected ==
  \A root \in Roots :
    LET t == arena[root]
    IN  /\ Walk(t) = DOMAIN t.nodes
        /\ \A n \in DOMAIN t.nodes :
             t.nodes[n].parent \in DOMAIN t.nodes
               => LET above == t.nodes[t.nodes[n].parent].depth
                  IN  t.nodes[n].depth = IF above >= U8Max THEN U8Max ELSE above + 1

-----------------------------------------------------------------------------
\* tokio runs a task that can go on: the refusal of a denied request, and a
\* meter whose channel has closed.  Nothing is assumed of the peers: there is no
\* timeout on connecting, on an answer, a body or a tunnel, so an upstream may
\* never answer and a client never read.
Fairness ==
  \A r \in Reqs :
    /\ WF_vars(Stop(r)) /\ WF_vars(Refuse(r))
    /\ WF_vars(\E u \in Usages, c \in BOOLEAN : MeterFinishes(r, u, c))

FairSpec == Spec /\ Fairness

Recorded(r) == \E i \in DOMAIN ledger : ledger[i].req = r

\* Nobody who has been denied or answered is forgotten, by whatever clients hang
\* up and rewrites fail: such a request gets into the ledger, unless the process
\* is stopped or its body or tunnel stays open for ever (relay_inner and relay_ws
\* behind their last early return, and the tasks they spawn).
AnswersAreRecorded ==
  \A r \in Reqs :
    pc[r] \in Unfinished \ {"admitted", "handshake"}
      ~> (Recorded(r) \/ pc[r] = "lost" \/ [](pc[r] \in {"streaming", "tunnel"}))

-----------------------------------------------------------------------------
(***************************************************************************)
(* What the documentation says, where the code does something else.        *)
(***************************************************************************)
\* docs/architecture.md: "a hard status for every subsequent request in that
\* task": what arrives at a sealed task is stopped.
SealedTaskStopsRequests ==
  [][\A r \in Reqs :
       pc[r] = "idle" /\ pc'[r] # "idle" /\ arena[at'[r].root].sealed
         => pc'[r] = "denied"]_vars

\* serve: after shutdown "in-flight requests finish".
ShutdownDrains ==
  [][\A r \in Reqs : pc[r] \in Unfinished => pc'[r] # "lost"]_vars

\* README.md: a ceiling "is hard only to within one in-flight request per
\* branch": a task is over its ceiling by no more than one answer for each of
\* its nodes.
OvershootPerBranch ==
  Ceiling # None => \A root \in Roots :
    SpentMicros(arena[root]) <= Ceiling + MaxCost * Cardinality(DOMAIN arena[root].nodes)
=============================================================================
