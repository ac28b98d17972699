----------------------------- MODULE LedgerFile -----------------------------
(***************************************************************************)
(* The ledger as a file (crates/tailfin-ledger): proxies append one line   *)
(* per finished request, and the commands report, stamp and blame read the *)
(* file back, also while a proxy is running.  Two proxies may be given the *)
(* same path, and a proxy may be killed or run out of disk inside          *)
(* write_all.                                                              *)
(*                                                                         *)
(* A line is the two halves of its JSON text and a newline (parts 1 to 3); *)
(* one write(2) on the O_APPEND descriptor puts a run of them at the end   *)
(* of the file.  What was cut or runs together is not JSON.  A record      *)
(* holds what the commands read: its place in the tree, tokens,            *)
(* `incomplete` and confidence (in hundredths); peaks are module Proxy's.  *)
(***************************************************************************)
EXTENDS TaskTree, SequencesExt

CONSTANTS
  Procs,        \* runs of a proxy on this ledger; a restart is one more
  DeclaredRefs, \* tree positions that agents declare (module Identity)
  Depths,       \* shared depths of requests that join an inferred session
  Outcomes,     \* how requests end: [usage, incomplete]
  Faults,       \* subset of FaultKinds
  MaxAppends    \* bound on the records ever appended

FaultKinds == {"short_write", "disk_full", "killed"}

ASSUME LedgerAssumption ==
  /\ Depths \subseteq Nat \ {0}
  /\ Outcomes \subseteq [usage : Nat, incomplete : BOOLEAN]
  /\ Faults \subseteq FaultKinds
  /\ MaxAppends \in Nat
  /\ None \notin Nat

VARIABLES
  file,      \* the bytes of the ledger
  phase,     \* process -> "new", "up" or "dead"
  next,      \* process -> SessionIndex.next, the last inferred number
  pending,   \* process -> what write_all has still to write
  out,       \* what the last command printed, if nothing happened since
  appended,  \* history: the records for which append was called
  acked,     \* history: the records for which append returned Ok, in order
  torn       \* history: a line did not get into the file in one piece

vars == <<file, phase, next, pending, out, appended, acked, torn>>

-----------------------------------------------------------------------------
CAPTURE_GRADE == 100

\* IdentitySource::confidence: depth / 32, clamped to 0.25 .. 0.99.
Confidence(source, depth) ==
  CASE source = "declared"  -> 100
    [] source = "inferred"  ->
         LET c == (depth * 100) \div 32
         IN  IF c < 25 THEN 25 ELSE IF c > 99 THEN 99 ELSE c
    [] source = "anonymous" -> 0

\* Record::from_finish.  `seq` and `real`, the conversation the request really
\* belongs to, are history.
FromFinish(at, confidence, o, real) ==
  [at |-> at, confidence |-> confidence, usage |-> o.usage, incomplete |-> o.incomplete,
   seq |-> Cardinality(appended) + 1, real |-> real]

Line(rec) == <<[rec |-> rec, part |-> 1], [rec |-> rec, part |-> 2],
               [rec |-> rec, part |-> 3]>>

-----------------------------------------------------------------------------
Parses(line) ==
  /\ Len(line) = 2
  /\ line[1].rec = line[2].rec /\ line[1].part = 1 /\ line[2].part = 2

\* Mutant of TakeLine: a line that does not parse is skipped.
TakeLineSkipping(r) ==
  [r EXCEPT !.line = <<>>,
            !.recs = IF Parses(r.line) THEN Append(@, r.line[1].rec) ELSE @]

\* The body of the loop: a blank line is skipped, and one that does not parse
\* fails the whole call.
TakeLine(r) ==
  IF r.line = <<>> \/ ~r.ok THEN [r EXCEPT !.line = <<>>]
  ELSE IF Parses(r.line)
  THEN [r EXCEPT !.line = <<>>, !.recs = Append(@, r.line[1].rec)]
  ELSE [line |-> <<>>, ok |-> FALSE, recs |-> <<>>]

\* Ledger::read_all, over the lines of the file; a last line without its newline
\* counts.  Nothing already in the file changes while it reads up to the end,
\* so it sees the file as it is when it gets there.
ReadAll(bytes) ==
  LET upto[i \in 0..Len(bytes)] ==
        IF i = 0 THEN [line |-> <<>>, ok |-> TRUE, recs |-> <<>>]
        ELSE LET r == upto[i-1]
             IN  IF bytes[i].part = 3 THEN TakeLine(r)
                 ELSE [r EXCEPT !.line = Append(@, bytes[i])]
      end == TakeLine(upto[Len(bytes)])
  IN  [ok |-> end.ok, recs |-> end.recs]

-----------------------------------------------------------------------------
TaskIds(recs) == {recs[i].at.root : i \in DOMAIN recs}

\* The rows of a report or of blame: every node when there is a rate card to
\* rank by, else what walk reaches from the root.
Rows(t, priced) ==
  IF priced THEN ByCost(t)
  ELSE [n \in Walk(t) |-> [tokens |-> ByCost(t)[n].tokens, micros |-> None]]

\* render_task.
RenderTask(t, priced) ==
  [tokens |-> TotalUsage(t), main |-> RootUsage(t), sub |-> SubagentUsage(t),
   fan_out |-> FanOutMultiplier(t), incomplete |-> IncompleteRequests(t),
   cost |-> IF priced THEN SpentMicros(t) ELSE None,
   share |-> IF priced THEN SubagentShare(t) ELSE None,
   rows |-> Rows(t, priced)]

Render(recs, priced) ==
  [id \in TaskIds(recs) |-> RenderTask(RebuiltTask(recs, id), priced)]

\* Mutant of StampAllowed: an identity that was inferred is good enough.
StampAllowedInferred(recs) ==
  recs # <<>> /\ \A i \in DOMAIN recs : recs[i].confidence > 0

\* stamp_allowed: declared identity only.
StampAllowed(recs) ==
  recs # <<>> /\ \A i \in DOMAIN recs : recs[i].confidence >= CAPTURE_GRADE

\* format_stamp: one line over all tasks of the ledger (its fan-out, the largest
\* of the tasks', and its confidence, always 1.00 here, are left out).
FormatStamp(recs, priced) ==
  LET tasks == {RebuiltTask(recs, id) : id \in TaskIds(recs)}
  IN  [tasks |-> Cardinality(TaskIds(recs)),
       incomplete |-> MapThenSumSet(IncompleteRequests, tasks),
       cost |-> IF priced THEN MapThenSumSet(SpentMicros, tasks) ELSE None]

FormatBlame(recs, priced) ==
  [id \in TaskIds(recs) |-> Rows(RebuiltTask(recs, id), priced)]

-----------------------------------------------------------------------------
Init ==
  /\ file = <<>> /\ out = None
  /\ phase = [p \in Procs |-> "new"]
  /\ next = [p \in Procs |-> 0] /\ pending = [p \in Procs |-> <<>>]
  /\ appended = {} /\ acked = <<>> /\ torn = FALSE

\* run: Ledger::open creates the file or appends to it as it is; the session
\* index is new and counts from 1.
Start(p) ==
  /\ phase[p] = "new"
  /\ phase' = [phase EXCEPT ![p] = "up"]
  /\ out' = None
  /\ UNCHANGED <<file, next, pending, appended, acked, torn>>

\* The first half of append: the line is made and the file's lock taken, by one
\* request of the process at a time.
BeginAppend(p, rec) ==
  /\ phase[p] = "up" /\ pending[p] = <<>> /\ Cardinality(appended) < MaxAppends
  /\ pending' = [pending EXCEPT ![p] = Line(rec)]
  /\ appended' = appended \cup {rec}
  /\ out' = None
  /\ UNCHANGED <<file, phase, acked, torn>>

\* The request that finishes declared who it is ...
FinishDeclared(p) ==
  /\ \E at \in DeclaredRefs, o \in Outcomes :
       BeginAppend(p, FromFinish(at, Confidence("declared", 0), o, at.root))
  /\ UNCHANGED next

\* ... or was attached to the n-th conversation this process has seen, or was
\* the first of one ...
FinishInferred(p) ==
  \E n \in 1..next[p] + 1, d \in Depths, o \in Outcomes :
    LET id == <<"inferred", n>>
    IN  /\ BeginAppend(p, FromFinish([root |-> id, node |-> id, parent |-> None],
                             Confidence("inferred", IF n > next[p] THEN 0 ELSE d),
                             o, <<p, n>>))
        /\ next' = [next EXCEPT ![p] = IF n > @ THEN n ELSE @]

\* ... or could not be read at all.
FinishAnonymous(p) ==
  LET n  == next[p] + 1
      id == <<"anon", n>>
  IN  /\ \E o \in Outcomes :
           BeginAppend(p, FromFinish([root |-> id, node |-> id, parent |-> None],
                                     Confidence("anonymous", 0), o, <<p, n>>))
      /\ next' = [next EXCEPT ![p] = n]

HalfWritten(p) == pending[p] # <<>> /\ pending[p][1].part # 1

\* One write(2) of write_all; the last one is followed by flush and Ok.
Write(p, n) ==
  /\ pending[p] # <<>>
  /\ n < Len(pending[p]) => "short_write" \in Faults
  /\ file' = file \o SubSeq(pending[p], 1, n)
  /\ pending' = [pending EXCEPT ![p] = SubSeq(@, n + 1, Len(@))]
  /\ acked' = IF n = Len(pending[p]) THEN Append(acked, pending[p][1].rec) ELSE acked
  /\ torn' = (torn \/ \E q \in Procs \ {p} : HalfWritten(q))
  /\ out' = None
  /\ UNCHANGED <<phase, next, appended>>

\* write(2) fails: append returns Err, which finish_locked only logs.
WriteFails(p) ==
  /\ "disk_full" \in Faults /\ pending[p] # <<>>
  /\ torn' = (torn \/ HalfWritten(p))
  /\ pending' = [pending EXCEPT ![p] = <<>>]
  /\ out' = None
  /\ UNCHANGED <<file, phase, next, appended, acked>>

\* The process dies, between two records or inside write_all.
Kill(p) ==
  /\ "killed" \in Faults /\ phase[p] = "up"
  /\ phase' = [phase EXCEPT ![p] = "dead"]
  /\ torn' = (torn \/ HalfWritten(p))
  /\ pending' = [pending EXCEPT ![p] = <<>>]
  /\ out' = None
  /\ UNCHANGED <<file, next, appended, acked>>

\* A command reads the ledger and prints, or prints the error.
Show(cmd, priced, text) ==
  /\ out' = [cmd |-> cmd, priced |-> priced, read |-> ReadAll(file), text |-> text]
  /\ UNCHANGED <<file, phase, next, pending, appended, acked, torn>>

Report(priced) ==
  Show("report", priced,
        IF ReadAll(file).ok THEN Render(ReadAll(file).recs, priced) ELSE None)

\* The stamp is refused, with an error, below capture grade.
Stamp(priced) ==
  Show("stamp", priced,
        IF ReadAll(file).ok /\ StampAllowed(ReadAll(file).recs)
        THEN FormatStamp(ReadAll(file).recs, priced) ELSE None)

Blame(priced) ==
  Show("blame", priced,
        IF ReadAll(file).ok THEN FormatBlame(ReadAll(file).recs, priced) ELSE None)

Next ==
  \/ \E p \in Procs :
       \/ Start(p) \/ FinishDeclared(p) \/ FinishInferred(p) \/ FinishAnonymous(p)
       \/ \E n \in 1..Len(pending[p]) : Write(p, n)
       \/ WriteFails(p) \/ Kill(p)
  \/ \E priced \in BOOLEAN : Report(priced) \/ Stamp(priced) \/ Blame(priced)

Spec == Init /\ [][Next]_vars

-----------------------------------------------------------------------------
(***************************************************************************)
(* Properties.                                                             *)
(***************************************************************************)
Where(recs, rec) == {i \in DOMAIN recs : recs[i] = rec}

\* No silent loss (append, read_all): a command that reads the ledger at all
\* reads every record whose append had returned Ok, once, in the order the
\* appends returned, and nothing that was never appended, whatever was torn in
\* between and whoever else is writing.  It fails only because an append was cut
\* inside its line, by a fault or by a second process, or is half way through
\* it now.
ReadIsComplete ==
  out # None =>
    LET recs == out.read.recs
    IN  IF ~out.read.ok
        THEN torn \/ \E p \in Procs : HalfWritten(p)
        ELSE /\ ToSet(recs) \subseteq appended
             /\ \A rec \in appended : Cardinality(Where(recs, rec)) <= 1
             /\ ToSet(acked) \subseteq ToSet(recs)
             /\ \A i, j \in DOMAIN acked : \A k \in Where(recs, acked[i]), l \in Where(recs, acked[j]) :
                  i < j => k < l

\* A stamp is exact: the tasks it counts are the conversations there were.
\* Inferred numbers start again in every process, so records of conversations
\* that have nothing to do with each other meet under one task_id; the grade of
\* stamp_allowed must keep every one of them out.
StampIsExact ==
  out # None /\ out.cmd = "stamp" /\ out.text # None =>
    out.text.tasks = Cardinality({rec.real : rec \in ToSet(out.read.recs)})

\* Every parent named by a record of the task has a record itself.
NoOrphans(recs, id) ==
  LET mine == {rec \in ToSet(recs) : rec.at.root = id}
  IN  \A rec \in mine : rec.at.parent \in {None, id} \cup {r.at.node : r \in mine}

\* The rows of a report add up to its heading: always with a rate card, and
\* without one, where rows are found by walking from the root, as long as no
\* node's parent is missing from the ledger.  (A parent whose record was lost,
\* or who is still busy, takes its children's rows out of the report; so do
\* agents that declare each other as parents, which no instance has.)
RowsAddUp ==
  out # None /\ out.cmd = "report" /\ out.text # None =>
    \A id \in DOMAIN out.text :
      LET t == out.text[id]
      IN  /\ out.priced \/ NoOrphans(out.read.recs, id)
               => SumOf([n \in DOMAIN t.rows |-> t.rows[n].tokens], DOMAIN t.rows) = t.tokens
          /\ t.main + t.sub = t.tokens
          /\ out.priced
               => SumOf([n \in DOMAIN t.rows |-> t.rows[n].micros], DOMAIN t.rows) = t.cost
=============================================================================
