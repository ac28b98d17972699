------------------------------ MODULE TaskTree ------------------------------
(***************************************************************************)
(* The task tree of crates/tailfin-tree: what `Task` and `Arena` do to one *)
(* task.  Each `&mut self` method is an operator from the task it is       *)
(* called on to the task it leaves (and its answer, where it has one), so  *)
(* that Proxy.tla can compose the calls made under one lock in one step.   *)
(*                                                                         *)
(* The six token counters of `Usage` are one number of tokens, priced by   *)
(* one rate; labels and the first-seen order of nodes (both only printed)  *)
(* are left out.  The voucher share is a fraction num/den, on which the    *)
(* code's f64 product is exact for the amounts checked here.               *)
(***************************************************************************)
EXTENDS Integers, Sequences, FiniteSets, FiniteSetsExt

CONSTANTS
  None,       \* Option::None
  Rate,       \* RateCard: micro-dollars per Scale tokens
  Scale       \* the divisor of Usage::micros (1_000_000 in the code)

ASSUME RateAssumption == Rate \in Nat /\ Scale \in Nat \ {0}

U8Max == 255

\* The sum of g over S, a set of arguments of g.
SumOf(g, S) == MapThenSumSet(LAMBDA x : g[x], S)

-----------------------------------------------------------------------------
\* struct Node, as Task::new and Task::ensure create it.
NewNode(parent, depth, allowance) ==
  [parent |-> parent, depth |-> depth, allowance |-> allowance,
   usage |-> 0, requests |-> 0, incomplete |-> 0, sealed |-> FALSE]

\* Task::new + with_ceiling_micros + with_voucher_share, as Arena::task_mut
\* chains them: a ceiling is also the root node's allowance.
NewTask(root, ceiling, share) ==
  [root |-> root, nodes |-> [n \in {root} |-> NewNode(None, 0, ceiling)],
   ceiling |-> ceiling, share |-> share, sealed |-> FALSE,
   live |-> 0, peak |-> 0, synthetic |-> FALSE]

SetNode(t, id, node) == [t EXCEPT !.nodes[id] = node]

\* Usage::micros: integer division, so each node drops a fraction.
Micros(usage) == (usage * Rate) \div Scale

-----------------------------------------------------------------------------
Children(t, id) == {n \in DOMAIN t.nodes : t.nodes[n].parent = id}

\* What a stack of children_of calls with a seen-set visits (the body shared
\* by subtree_spent_micros and walk): id, whether or not it is a node, and
\* all that descends from it.
Subtree(t, id) ==
  LET reach[k \in Nat] ==
        IF k = 0 THEN {id}
        ELSE reach[k-1] \cup UNION {Children(t, p) : p \in reach[k-1]}
  IN  reach[Cardinality(DOMAIN t.nodes)]

\* Mutant of Walk: the root and its children only.
WalkShallow(t) == {t.root} \cup Children(t, t.root)

\* The nodes Task::walk yields.
Walk(t) == Subtree(t, t.root) \cap DOMAIN t.nodes

Costs(t) == [n \in DOMAIN t.nodes |-> Micros(t.nodes[n].usage)]

SpentOn(t, ids) == SumOf(Costs(t), ids)

SpentMicros(t) == SpentOn(t, DOMAIN t.nodes)

SubtreeSpentMicros(t, id) == SpentOn(t, Subtree(t, id) \cap DOMAIN t.nodes)

\* A node's own voucher, else the root ceiling, else nothing.
AllowanceOf(t, id) ==
  LET own == IF id \in DOMAIN t.nodes THEN t.nodes[id].allowance ELSE None
  IN  IF own # None THEN own ELSE IF t.ceiling # None THEN t.ceiling ELSE 0

SaturatingSub(a, b) == IF a >= b THEN a - b ELSE 0

-----------------------------------------------------------------------------
\* Mutant of Ensure: every new node is put right below the root.
EnsureShallow(t, id, parent) ==
  IF id \in DOMAIN t.nodes THEN t
  ELSE [t EXCEPT !.nodes = [n \in DOMAIN t.nodes \cup {id} |->
                              IF n = id THEN NewNode(parent, 1, None) ELSE t.nodes[n]]]

\* A node is created on its first request; its parent need not exist, and
\* then it is given depth 1.
Ensure(t, id, parent) ==
  IF id \in DOMAIN t.nodes THEN t
  ELSE LET depth == IF parent \in DOMAIN t.nodes
                    THEN IF t.nodes[parent].depth >= U8Max THEN U8Max
                         ELSE t.nodes[parent].depth + 1
                    ELSE 1
       IN  [t EXCEPT !.nodes = [n \in DOMAIN t.nodes \cup {id} |->
                                  IF n = id THEN NewNode(parent, depth, None)
                                  ELSE t.nodes[n]]]

\* Mutant of MintedBySiblings: what the siblings were given is forgotten.
MintedByNobody(t, parent, id) == 0

Vouchers(t) == [n \in DOMAIN t.nodes |-> t.nodes[n].allowance]

\* The children of a node that have been given a voucher.
Minted(t, parent) == {c \in Children(t, parent) : t.nodes[c].allowance # None}

\* What the vouchers of id's siblings under the parent add up to.
MintedBySiblings(t, parent, id) == SumOf(Vouchers(t), Minted(t, parent) \ {id})

\* The first request of a subagent mints its voucher: a share of what the
\* parent's allowance has left after its other children's vouchers (what the
\* parent itself has spent is not subtracted).
MintVoucher(t, at) ==
  IF \/ t.share = None
     \/ at.node = at.root
     \/ t.nodes[at.node].allowance # None
  THEN t
  ELSE LET parent    == IF at.parent = None THEN t.root ELSE at.parent
           remaining == SaturatingSub(AllowanceOf(t, parent),
                                      MintedBySiblings(t, parent, at.node))
       IN  [t EXCEPT !.nodes[at.node].allowance =
                       (remaining * t.share.num) \div t.share.den]

\* Mutant of Begin: the peak is taken before this request is counted.
BeginPeakFirst(t, at) ==
  LET u == MintVoucher(Ensure(t, at.node, at.parent), at)
  IN  [u EXCEPT !.live = t.live + 1,
                !.peak = IF t.live > t.peak THEN t.live ELSE t.peak]

\* Task::begin.
Begin(t, at) ==
  LET u == MintVoucher(Ensure(t, at.node, at.parent), at)
  IN  [u EXCEPT !.live = t.live + 1,
                !.peak = IF t.live + 1 > t.peak THEN t.live + 1 ELSE t.peak]

\* Mutant of Admit: the crossing request does not seal the task.
AdmitNeverSeals(t) ==
  [task |-> t,
   verdict |-> IF t.ceiling = None \/ SpentMicros(t) < t.ceiling THEN "Allow" ELSE "Last"]

\* Task::admit: the ceiling of the whole task.
Admit(t) ==
  IF t.ceiling = None THEN [task |-> t, verdict |-> "Allow"]
  ELSE IF t.sealed THEN [task |-> t, verdict |-> "Deny"]
  ELSE IF SpentMicros(t) >= t.ceiling
       THEN [task |-> [t EXCEPT !.sealed = TRUE], verdict |-> "Last"]
       ELSE [task |-> t, verdict |-> "Allow"]

\* Mutant of AdmitAt: a voucher is held against the spend of the whole task.
AdmitAtTaskSpend(t, at) ==
  LET root == Admit(t)
      node == root.task.nodes[at.node]
  IN  IF root.verdict # "Allow" THEN root
      ELSE IF node.sealed THEN [task |-> root.task, verdict |-> "Deny"]
      ELSE IF node.allowance # None /\ SpentMicros(t) >= node.allowance
           THEN [task |-> SetNode(root.task, at.node, [node EXCEPT !.sealed = TRUE]),
                 verdict |-> "Last"]
           ELSE root

\* Mutant of AdmitAt: the node is not sealed by its last request.
AdmitAtNeverSeals(t, at) ==
  LET root == Admit(t)
      node == root.task.nodes[at.node]
  IN  IF /\ root.verdict = "Allow" /\ node.allowance # None
         /\ SubtreeSpentMicros(t, at.node) >= node.allowance
      THEN [task |-> root.task, verdict |-> "Last"]
      ELSE root

\* Task::admit_at: the task's ceiling first, then the node's voucher.
AdmitAt(t, at) ==
  LET root == Admit(t)
      u    == root.task
      node == u.nodes[at.node]
      cap  == AllowanceOf(u, at.node)
  IN  IF root.verdict # "Allow" \/ (cap = 0 /\ u.ceiling = None) THEN root
      ELSE IF node.sealed THEN [task |-> u, verdict |-> "Deny"]
      ELSE IF SubtreeSpentMicros(u, at.node) >= cap /\ node.allowance # None
           THEN [task |-> SetNode(u, at.node, [node EXCEPT !.sealed = TRUE]),
                 verdict |-> "Last"]
           ELSE [task |-> u, verdict |-> "Allow"]

\* Mutant of TakeStop: synthetic_sent is never set.
TakeStopForgets(t) ==
  [task |-> t, style |-> IF t.synthetic THEN "RetryableFalse429" ELSE "SyntheticEndTurn"]

\* Task::take_stop: the first stop of a task is the synthetic end_turn, every
\* later one the hard status.  (StopStyle also has PaymentRequired402; no
\* method returns it.)
TakeStop(t) ==
  IF ~t.synthetic
  THEN [task |-> [t EXCEPT !.synthetic = TRUE], style |-> "SyntheticEndTurn"]
  ELSE [task |-> t, style |-> "RetryableFalse429"]

\* Mutant of Finish: usage is taken off the node instead of merged into it.
FinishRefunds(t, at, usage, complete) ==
  LET u == Ensure(t, at.node, at.parent)
  IN  [u EXCEPT !.nodes[at.node].usage = @ - usage,
                !.live = SaturatingSub(t.live, 1)]

\* Task::finish.
Finish(t, at, usage, complete) ==
  LET u == Ensure(t, at.node, at.parent)
      n == u.nodes[at.node]
  IN  [u EXCEPT !.nodes[at.node] =
                  [n EXCEPT !.usage = n.usage + usage,
                            !.requests = n.requests + 1,
                            !.incomplete = IF complete THEN @ ELSE @ + 1],
                !.live = SaturatingSub(t.live, 1)]

-----------------------------------------------------------------------------
\* What a report asks of a task.  A ratio is its two terms, or None.
UsageOf(t, ids) == SumOf([n \in DOMAIN t.nodes |-> t.nodes[n].usage], ids)

TotalUsage(t) == UsageOf(t, DOMAIN t.nodes)
RootUsage(t) == t.nodes[t.root].usage
SubagentUsage(t) == UsageOf(t, DOMAIN t.nodes \ {t.root})

FanOutMultiplier(t) == IF RootUsage(t) > 0 THEN <<TotalUsage(t), RootUsage(t)>> ELSE None

SubagentShare(t) ==
  IF SpentMicros(t) > 0 THEN <<SpentOn(t, DOMAIN t.nodes \ {t.root}), SpentMicros(t)>>
  ELSE None

IncompleteRequests(t) ==
  SumOf([n \in DOMAIN t.nodes |-> t.nodes[n].incomplete], DOMAIN t.nodes)

\* Task::by_cost, without its order: every node, reachable from the root or not.
ByCost(t) ==
  [n \in DOMAIN t.nodes |-> [tokens |-> t.nodes[n].usage, micros |-> Micros(t.nodes[n].usage)]]

-----------------------------------------------------------------------------
\* tasks_from_records folds the ledger into an arena without a budget: each
\* record is one begin and one finish.  peak_for_task reads the peaks instead
\* of the rebuilt ones.
RebuiltTask(records, root) ==
  LET fold[i \in 0..Len(records)] ==
        IF i = 0 THEN NewTask(root, None, None)
        ELSE LET rec == records[i]
             IN  IF rec.at.root = root
                 THEN Finish(Begin(fold[i-1], rec.at), rec.at, rec.usage, ~rec.incomplete)
                 ELSE fold[i-1]
  IN  fold[Len(records)]

PeakForTask(records, root) ==
  Max({0} \cup {records[i].peak :
                  i \in {j \in DOMAIN records : records[j].at.root = root}})
=============================================================================
