--------------------------- MODULE CapturesProofs ---------------------------
(***************************************************************************)
(* Proofs about Captures, for any number of proxies, requests and moments, *)
(* any bodies and any retentions.                                          *)
(***************************************************************************)
EXTENDS Captures, FiniteSetTheorems, SequenceTheorems, TLAPS

Steps == {"spawned", "made", "opened", "saved", "failed"}
Begun == {"made", "opened", "saved", "failed"}
ProxySteps == {"new", "pruning", "up", "dead"}
PruneSteps == {"idle", "list", "scan", "remove", "rmdir"}
PruneFields == {"arg", "step", "cutoff", "dirs", "dir", "files", "file"}

Request == [by : Procs, who : Who, body : Bodies, arrived : Moments,
            rec : CaptureRecords \cup {None}, step : Steps]

Alone(i) == \A j \in DOMAIN reqs : ~Clash(i, j)

\* Part of the invariant: the shape of the state.
StateOK ==
  /\ now \in Moments /\ proxy \in [Procs -> ProxySteps]
  /\ reqs \in Seq(Request)

\* A proxy has an argument once it is started, and a prune to do while it prunes.
PrunesOK ==
  /\ prune = [p \in Procs |-> prune[p]]
  /\ \A p \in Procs :
       /\ DOMAIN prune[p] = PruneFields /\ prune[p].step \in PruneSteps
       /\ prune[p].arg \in RetentionArgs \cup {None} /\ prune[p].cutoff \in Nat
       /\ proxy[p] = "pruning" <=> prune[p].step # "idle"
       /\ proxy[p] = "new" <=> prune[p].arg = None

\* The cutoff of a prune is at least the retention ago.
Cutoffs ==
  \A p \in Procs :
    prune[p].step # "idle" =>
      prune[p].cutoff = 0 \/ prune[p].cutoff + Promised(prune[p].arg) <= now

\* A file about to be removed is the path of a request that was saved and is
\* older than the cutoff, and holds just that capture unless requests clash.
Doomed ==
  \A p \in Procs :
    prune[p].step = "remove" =>
      \E j \in DOMAIN reqs :
        /\ reqs[j].step = "saved" /\ Path(reqs[j]) = prune[p].file
        /\ reqs[j].rec.ts < prune[p].cutoff
        /\ Alone(j) /\ Path(reqs[j]) \in DOMAIN files => files[Path(reqs[j])] = reqs[j].rec

\* A task that has not finished belongs to a process that runs.
TasksUp ==
  \A i \in DOMAIN reqs :
    reqs[i].step \in {"spawned", "made", "opened"} => proxy[reqs[i].by] = "up"

\* From its second step on a task holds the record of its request, and no
\* record is from the future.
Recorded ==
  \A i \in DOMAIN reqs :
    reqs[i].step \in {"made", "opened", "saved"} =>
      /\ reqs[i].rec \in CaptureRecords
      /\ reqs[i].rec.req = i /\ reqs[i].rec.ts <= now

\* Every file is in a directory there is, and what it holds tells who wrote it:
\* the record of a request of that path which was saved; nothing, and a request
\* of that path had opened it and not written; or two requests of that path.
FilesInDirs == \A f \in DOMAIN files : f[1] \in dirs
FilesSourced ==
  \A f \in DOMAIN files :
    \/ \E i \in DOMAIN reqs : files[f] = reqs[i].rec /\ Path(reqs[i]) = f /\ reqs[i].step = "saved"
    \/ /\ files[f] = Empty
       /\ \E i \in DOMAIN reqs : Path(reqs[i]) = f /\ reqs[i].step \in {"opened", "failed"}
    \/ /\ files[f] = Garbled
       /\ \E i, j \in DOMAIN reqs : Clash(i, j)

\* And every directory was made for a request.
DirsSourced ==
  \A d \in dirs : \E i \in DOMAIN reqs : Path(reqs[i])[1] = d /\ reqs[i].step \in Begun

\* A file opened by a request that clashes with no other stays as it was left.
OpenedIsEmpty ==
  \A i \in DOMAIN reqs :
    reqs[i].step = "opened" /\ Alone(i) =>
      Path(reqs[i]) \in DOMAIN files /\ files[Path(reqs[i])] = Empty

\* The same once it has been saved, until it is pruned.
SavedIsKept ==
  \A i \in DOMAIN reqs :
    reqs[i].step = "saved" /\ Alone(i) =>
      \/ Path(reqs[i]) \in DOMAIN files /\ files[Path(reqs[i])] = reqs[i].rec
      \/ Outlived(i)

\* The inductive invariant of the store.
CapturesInv ==
  /\ StateOK /\ PrunesOK /\ Cutoffs /\ Doomed /\ TasksUp /\ Recorded /\ FilesInDirs /\ FilesSourced
  /\ DirsSourced /\ OpenedIsEmpty /\ SavedIsKept

\* What every step does to the store: requests keep their path and what was
\* saved, a file goes only when its capture has outlived a retention, and what
\* is not stored any more does not come back.
Evolves ==
  /\ DOMAIN reqs \subseteq DOMAIN reqs'
  /\ \A i \in DOMAIN reqs :
       /\ Path(reqs'[i]) = Path(reqs[i])
       /\ reqs[i].step = "saved" => reqs'[i].step = "saved" /\ reqs'[i].rec = reqs[i].rec
       /\ reqs[i].step \in Begun => reqs'[i].step \in Begun
       /\ reqs[i].step = "saved" /\ Outlived(i) => Outlived(i)'
  /\ \A f \in DOMAIN files \ DOMAIN files' :
       \E j \in DOMAIN reqs : reqs[j].step = "saved" /\ Path(reqs[j]) = f /\ Outlived(j)
  /\ \A f \in DOMAIN files' : \A i \in DOMAIN reqs :
       reqs[i].step = "saved" /\ files'[f] = reqs[i].rec => f \in DOMAIN files /\ files[f] = reqs[i].rec

\* The invariant of a load.  A listed directory is or was there; a listed file is
\* there or has outlived a retention; what has been read was saved; and what was
\* saved before, and still is stored, has been read or is yet to come.
LoadInv ==
  load # None =>
    /\ load = [dirs |-> load.dirs, files |-> load.files, got |-> load.got, before |-> load.before]
    /\ \A d \in load.dirs :
         \E i \in DOMAIN reqs : Path(reqs[i])[1] = d /\ reqs[i].step \in Begun
    /\ \A f \in load.files :
         \/ f \in DOMAIN files
         \/ \E j \in DOMAIN reqs : reqs[j].step = "saved" /\ Path(reqs[j]) = f /\ Outlived(j)
    /\ \A rec \in load.got :
         rec.req \in DOMAIN reqs /\ reqs[rec.req].step = "saved" /\ reqs[rec.req].rec = rec
    /\ load.before \subseteq {i \in DOMAIN reqs : reqs[i].step = "saved"}
    /\ \A i \in load.before :
         Stored(i) => \/ reqs[i].rec \in load.got \/ Path(reqs[i]) \in load.files
                      \/ Path(reqs[i])[1] \in load.dirs

-----------------------------------------------------------------------------
\* What is promised is what is kept.
LEMMA KeepsThePromise ==
  ASSUME NEW arg \in RetentionArgs
  PROVE  Promised(arg) = Retention(arg) /\ Promised(arg) \in Nat
<1>1. DOMAIN MillisOf = {"s", "m", "h", "d"} /\ None \notin {"s", "m", "h", "d"}
  BY CapturesAssumption DEF MillisOf
<1>2. /\ MillisOf["s"] = 1000 /\ MillisOf["m"] = 60000 /\ MillisOf["h"] = 3600000
      /\ MillisOf["d"] = 86400000
  BY DEF MillisOf
<1>3. arg.n \in Nat \cup {None} /\ None \notin Nat
  BY CapturesAssumption
<1> HIDE DEF MillisOf
<1>4. CASE arg.n = None \/ arg.unit \notin {"s", "m", "h", "d", None}
  <2>1. Promised(arg) = 7 * 24 * 60 * 60 * 1000
    BY <1>4 DEF Promised
  <2>2. ParseRetention(arg) = None
    BY <1>1, <1>4 DEF ParseRetention
  <2>3. Retention(arg) = DEFAULT_RETENTION
    BY <2>2 DEF Retention
  <2>4. QED BY <2>1, <2>3 DEF DEFAULT_RETENTION
<1>5. CASE arg.n # None /\ arg.unit \in {"s", "m", "h", "d", None}
  <2>1. ASSUME NEW u \in {"s", "m", "h", "d"}, arg.unit = u \/ (arg.unit = None /\ u = "d")
        PROVE  Retention(arg) = arg.n * MillisOf[u]
    <3>1. MillisOf[u] \in Nat
      BY <1>2, <2>1
    <3>2. ParseRetention(arg) = arg.n * MillisOf[u]
      BY <1>1, <1>5, <2>1 DEF ParseRetention
    <3>3. arg.n * MillisOf[u] \in Nat
      BY <1>3, <1>5, <3>1
    <3>4. QED BY <1>3, <3>2, <3>3 DEF Retention
  <2>2. arg.n \in Nat
    BY <1>3, <1>5
  <2>3. CASE arg.unit = "s"
    <3>1. Promised(arg) = arg.n * 1 * 1000
      BY <1>5, <2>3 DEF Promised
    <3>2. QED BY <1>2, <2>1, <2>2, <2>3, <3>1
  <2>4. CASE arg.unit = "m"
    <3>1. Promised(arg) = arg.n * 60 * 1000
      BY <1>5, <2>4 DEF Promised
    <3>2. QED BY <1>2, <2>1, <2>2, <2>4, <3>1
  <2>5. CASE arg.unit = "h"
    <3>1. Promised(arg) = arg.n * (60 * 60) * 1000
      BY <1>5, <2>5 DEF Promised
    <3>2. QED BY <1>2, <2>1, <2>2, <2>5, <3>1
  <2>6. CASE arg.unit \in {"d", None}
    <3>1. arg.unit \notin {"s", "m", "h"}
      BY <1>1, <2>6
    <3>2. Promised(arg) = arg.n * (24 * 60 * 60) * 1000
      BY <1>5, <3>1 DEF Promised
    <3>3. Retention(arg) = arg.n * MillisOf["d"]
      BY <2>1, <2>6
    <3>4. QED BY <1>2, <2>2, <3>2, <3>3
  <2>7. QED BY <1>5, <2>3, <2>4, <2>5, <2>6
<1>6. QED
  BY <1>4, <1>5

LEMMA RequestType ==
  ASSUME StateOK, NEW i \in DOMAIN reqs
  PROVE  reqs[i] \in Request /\ i \in Nat
BY LenProperties DEF StateOK

\* Two requests have one path exactly when they clash.
LEMMA ClashIsPath ==
  ASSUME NEW i \in DOMAIN reqs, NEW j \in DOMAIN reqs, i # j
  PROVE  Path(reqs[i]) = Path(reqs[j]) <=> Clash(i, j)
BY DEF Path, CaptureId, Clash

\* A step of one task leaves the others alone, and all paths as they are.
LEMMA WorkerFacts ==
  ASSUME StateOK, NEW i \in DOMAIN reqs, NEW q \in Request,
         reqs' = [reqs EXCEPT ![i] = q],
         q.who = reqs[i].who, q.arrived = reqs[i].arrived
  PROVE  /\ reqs' \in Seq(Request) /\ DOMAIN reqs' = DOMAIN reqs
         /\ reqs'[i] = q
         /\ \A j \in DOMAIN reqs : j # i => reqs'[j] = reqs[j]
         /\ \A j \in DOMAIN reqs : Path(reqs'[j]) = Path(reqs[j])
         /\ \A j, k \in DOMAIN reqs : Clash(j, k)' <=> Clash(j, k)
<1>1. reqs \in Seq(Request)
  BY DEF StateOK
<1>2. i \in 1..Len(reqs)
  BY <1>1, LenProperties
<1>3. reqs' \in Seq(Request)
  BY <1>1, <1>2, ExceptSeq
<1>4. /\ DOMAIN reqs' = DOMAIN reqs /\ reqs'[i] = q
      /\ \A j \in DOMAIN reqs : j # i => reqs'[j] = reqs[j]
  OBVIOUS
<1>5. \A j \in DOMAIN reqs : reqs'[j].who = reqs[j].who /\ reqs'[j].arrived = reqs[j].arrived
  BY <1>4
<1>6. \A j \in DOMAIN reqs : Path(reqs'[j]) = Path(reqs[j])
  BY <1>5 DEF Path, CaptureId
<1>7. \A j, k \in DOMAIN reqs : Clash(j, k)' <=> Clash(j, k)
  BY <1>5 DEF Clash
<1>8. QED
  BY <1>3, <1>4, <1>6, <1>7

\* A task that only moves on to another step.
LEMMA StepFacts ==
  ASSUME StateOK, NEW i \in DOMAIN reqs, NEW st \in Steps,
         reqs' = [reqs EXCEPT ![i].step = st]
  PROVE  \E q \in Request :
           /\ reqs' = [reqs EXCEPT ![i] = q]
           /\ q.by = reqs[i].by /\ q.who = reqs[i].who /\ q.arrived = reqs[i].arrived
           /\ q.rec = reqs[i].rec /\ q.step = st
<1> DEFINE q == [reqs[i] EXCEPT !.step = st]
<1>1. reqs[i] \in Request
  BY RequestType
<1>2. /\ q \in Request /\ q.by = reqs[i].by /\ q.who = reqs[i].who
      /\ q.arrived = reqs[i].arrived /\ q.rec = reqs[i].rec /\ q.step = st
  BY <1>1 DEF Request
<1>3. reqs' = [reqs EXCEPT ![i] = q]
  OBVIOUS
<1>4. QED
  BY <1>2, <1>3

-----------------------------------------------------------------------------
\* A time before a cutoff is the retention ago.
LEMMA BeforeCutoff ==
  ASSUME CapturesInv, NEW p \in Procs, prune[p].step # "idle",
         NEW j \in DOMAIN reqs, reqs[j].step = "saved", reqs[j].rec.ts < prune[p].cutoff
  PROVE  /\ prune[p].arg \in RetentionArgs /\ prune[p].arg # None
         /\ reqs[j].rec.ts + Promised(prune[p].arg) < now
         /\ Outlived(j)
<1> USE DEF CapturesInv
<1>1. prune[p].arg \in RetentionArgs /\ prune[p].arg # None /\ prune[p].cutoff \in Nat
  BY DEF PrunesOK
<1>2. reqs[j].rec.ts \in Nat /\ now \in Nat
  BY CapturesAssumption DEF Recorded, CaptureRecords, StateOK
<1>3. Promised(prune[p].arg) \in Nat
  BY <1>1, KeepsThePromise
<1>4. prune[p].cutoff + Promised(prune[p].arg) <= now
  BY <1>1, <1>2 DEF Cutoffs
<1>5. reqs[j].rec.ts + Promised(prune[p].arg) < now
  BY <1>1, <1>2, <1>3, <1>4
<1>6. QED
  BY <1>1, <1>5 DEF Outlived

\* Once outlived, always outlived.
LEMMA OutlivedStays ==
  ASSUME CapturesInv, NEW i \in DOMAIN reqs, reqs[i].step = "saved", Outlived(i),
         reqs'[i].rec = reqs[i].rec, now' \in Nat, now' >= now,
         \A p \in Procs : prune[p].arg # None => prune'[p].arg = prune[p].arg
  PROVE  Outlived(i)'
<1> USE DEF CapturesInv
<1>1. PICK p \in Procs : prune[p].arg # None /\ reqs[i].rec.ts + Promised(prune[p].arg) < now
  BY DEF Outlived
<1>2. prune[p].arg \in RetentionArgs
  BY <1>1 DEF PrunesOK
<1>3. reqs[i].rec.ts \in Nat /\ now \in Nat /\ Promised(prune[p].arg) \in Nat
  BY <1>2, CapturesAssumption, KeepsThePromise DEF Recorded, CaptureRecords, StateOK
<1>4. prune'[p].arg # None /\ reqs'[i].rec.ts + Promised(prune'[p].arg) < now'
  BY <1>1, <1>3
<1>5. QED
  BY <1>4 DEF Outlived

\* What a step must leave alone for the prunes that are about to remove a file.
Undisturbed ==
  /\ DOMAIN reqs \subseteq DOMAIN reqs'
  /\ \A j \in DOMAIN reqs :
       reqs[j].step = "saved" =>
         /\ reqs'[j].step = "saved" /\ reqs'[j].rec = reqs[j].rec
         /\ Path(reqs'[j]) = Path(reqs[j])
         /\ Alone(j)' /\ Path(reqs[j]) \in DOMAIN files' =>
              /\ Alone(j) /\ Path(reqs[j]) \in DOMAIN files
              /\ files'[Path(reqs[j])] = files[Path(reqs[j])]

LEMMA DoomedStays ==
  ASSUME Doomed, Undisturbed, NEW p \in Procs, prune'[p].step = "remove",
         prune[p].step = "remove", prune'[p].file = prune[p].file,
         prune'[p].cutoff = prune[p].cutoff
  PROVE  \E j \in DOMAIN reqs' :
           /\ reqs'[j].step = "saved" /\ Path(reqs'[j]) = prune'[p].file
           /\ reqs'[j].rec.ts < prune'[p].cutoff
           /\ Alone(j)' /\ Path(reqs'[j]) \in DOMAIN files' => files'[Path(reqs'[j])] = reqs'[j].rec
<1>1. PICK j \in DOMAIN reqs :
        /\ reqs[j].step = "saved" /\ Path(reqs[j]) = prune[p].file
        /\ reqs[j].rec.ts < prune[p].cutoff
        /\ Alone(j) /\ Path(reqs[j]) \in DOMAIN files => files[Path(reqs[j])] = reqs[j].rec
  BY DEF Doomed
<1>2. /\ j \in DOMAIN reqs' /\ reqs'[j].step = "saved" /\ reqs'[j].rec = reqs[j].rec
      /\ Path(reqs'[j]) = Path(reqs[j])
      /\ Alone(j)' /\ Path(reqs[j]) \in DOMAIN files' =>
           /\ Alone(j) /\ Path(reqs[j]) \in DOMAIN files
           /\ files'[Path(reqs[j])] = files[Path(reqs[j])]
  BY <1>1 DEF Undisturbed
<1>3. QED
  BY <1>1, <1>2

\* A step that is none of a prune leaves what is said of prunes alone.
LEMMA PrunesStay ==
  ASSUME CapturesInv, Undisturbed, prune' = prune, proxy' = proxy,
         now' \in Nat, now' >= now
  PROVE  PrunesOK' /\ Cutoffs' /\ Doomed'
<1> USE DEF CapturesInv
<1>1. PrunesOK'
  BY DEF PrunesOK
<1>2. Cutoffs'
  <2>1. SUFFICES ASSUME NEW p \in Procs, prune[p].step # "idle"
                 PROVE  prune[p].cutoff = 0 \/ prune[p].cutoff + Promised(prune[p].arg) <= now'
    BY DEF Cutoffs
  <2>2. /\ prune[p].arg \in RetentionArgs /\ prune[p].cutoff \in Nat
        /\ prune[p].cutoff = 0 \/ prune[p].cutoff + Promised(prune[p].arg) <= now
    BY <2>1 DEF PrunesOK, Cutoffs
  <2>3. Promised(prune[p].arg) \in Nat /\ now \in Nat
    BY <2>2, KeepsThePromise, CapturesAssumption DEF StateOK
  <2>4. QED BY <2>2, <2>3
<1>3. Doomed'
  BY DoomedStays DEF Doomed
<1>4. QED
  BY <1>1, <1>2, <1>3

LEMMA InitCaptures == Init => CapturesInv /\ LoadInv
<1>1. SUFFICES ASSUME Init PROVE CapturesInv /\ LoadInv
  OBVIOUS
<1>2. now \in Moments /\ proxy \in [Procs -> ProxySteps]
  BY <1>1 DEF Init, ProxySteps
<1>3. reqs = <<>> /\ files = <<>> /\ dirs = {} /\ load = None
  BY <1>1 DEF Init
<1>4. \A p \in Procs : /\ proxy[p] = "new" /\ prune[p].arg = None /\ prune[p].step = "idle"
                       /\ prune[p].cutoff = 0 /\ DOMAIN prune[p] = PruneFields
  BY <1>1 DEF Init, NoPrune, PruneFields
<1>5. PrunesOK
  <2>1. prune = [p \in Procs |-> prune[p]]
    BY <1>1 DEF Init
  <2>2. QED BY <1>4, <2>1 DEF PrunesOK, PruneSteps
<1>6. Cutoffs /\ Doomed
  BY <1>4 DEF Cutoffs, Doomed
<1>7. QED
  BY <1>2, <1>3, <1>5, <1>6 DEF CapturesInv, StateOK, TasksUp, Recorded, FilesInDirs, FilesSourced,
     DirsSourced, OpenedIsEmpty, SavedIsKept, LoadInv

LEMMA TickInv ==
  ASSUME CapturesInv, Tick
  PROVE  CapturesInv' /\ Evolves
<1> USE DEF CapturesInv
<1>1. now' \in Moments /\ now' > now
  BY DEF Tick
<1>2. proxy' = proxy /\ prune' = prune /\ dirs' = dirs /\ files' = files /\ reqs' = reqs
  BY DEF Tick, store
<1>3. now \in Nat /\ now' \in Nat /\ now' >= now
  BY <1>1, CapturesAssumption DEF StateOK
<1>4. StateOK'
  BY <1>1, <1>2 DEF StateOK
<1>5. \A i, j \in DOMAIN reqs : Clash(i, j)' <=> Clash(i, j)
  BY <1>2 DEF Clash
<1>6. \A i \in DOMAIN reqs : Alone(i)' <=> Alone(i)
  BY <1>2, <1>5 DEF Alone
<1>7. PrunesOK' /\ Cutoffs' /\ Doomed'
  <2>1. Undisturbed
    BY <1>2, <1>6 DEF Undisturbed
  <2>2. QED BY <1>2, <1>3, <2>1, PrunesStay
<1>8. TasksUp' /\ FilesInDirs' /\ DirsSourced'
  BY <1>2 DEF TasksUp, FilesInDirs, DirsSourced
<1>9. \A i \in DOMAIN reqs :
        reqs[i].step \in {"made", "opened", "saved"} => reqs[i].rec.ts \in Nat
  BY CapturesAssumption DEF Recorded, CaptureRecords
<1>10. Recorded'
  BY <1>1, <1>2, <1>3, <1>9 DEF Recorded
<1>11. FilesSourced' /\ OpenedIsEmpty'
  BY <1>2, <1>5, <1>6 DEF FilesSourced, OpenedIsEmpty
<1>12. \A i \in DOMAIN reqs : reqs[i].step = "saved" /\ Outlived(i) => Outlived(i)'
  BY <1>2, <1>3, OutlivedStays
<1>13. SavedIsKept'
  BY <1>2, <1>6, <1>12 DEF SavedIsKept
<1>14. Evolves
  BY <1>2, <1>12 DEF Evolves
<1>15. QED
  BY <1>4, <1>7, <1>8, <1>10, <1>11, <1>13, <1>14

\* Requests are as they were: so is what is said of pairs of them.
LEMMA SameRequests ==
  ASSUME reqs' = reqs
  PROVE  /\ \A i, j \in DOMAIN reqs : Clash(i, j)' <=> Clash(i, j)
         /\ \A i \in DOMAIN reqs : Alone(i)' <=> Alone(i)
<1>1. \A i, j \in DOMAIN reqs : Clash(i, j)' <=> Clash(i, j)
  BY DEF Clash
<1>2. QED
  BY <1>1 DEF Alone

\* What is about to be removed, as Doomed says it of one prune.
DoomedFile(scan) ==
  \E j \in DOMAIN reqs :
    /\ reqs[j].step = "saved" /\ Path(reqs[j]) = scan.file /\ reqs[j].rec.ts < scan.cutoff
    /\ Alone(j) /\ Path(reqs[j]) \in DOMAIN files => files[Path(reqs[j])] = reqs[j].rec

\* One step of the prune of proxy p, which is at `scan` and its proxy at `st`
\* afterwards: it takes from the store at most what has outlived a retention.
PruneMoves(p, st, scan) ==
  /\ proxy[p] # "up" /\ st \in ProxySteps \ {"new"}
  /\ st = "pruning" <=> scan.step # "idle"
  /\ proxy' = [proxy EXCEPT ![p] = st] /\ prune' = [prune EXCEPT ![p] = scan]
  /\ now' = now /\ reqs' = reqs
  /\ DOMAIN scan = PruneFields /\ scan.step \in PruneSteps
  /\ scan.arg \in RetentionArgs /\ scan.cutoff \in Nat
  /\ prune[p].arg # None => scan.arg = prune[p].arg
  /\ scan.step # "idle" => scan.cutoff = 0 \/ scan.cutoff + Promised(scan.arg) <= now
  /\ scan.step = "remove" => DoomedFile(scan)
  /\ DOMAIN files' \subseteq DOMAIN files
  /\ \A f \in DOMAIN files' : files'[f] = files[f] /\ f[1] \in dirs'
  /\ \A f \in DOMAIN files \ DOMAIN files' :
       \E j \in DOMAIN reqs : reqs[j].step = "saved" /\ Path(reqs[j]) = f /\ Outlived(j)
  /\ dirs' \subseteq dirs

LEMMA PruneStep ==
  ASSUME CapturesInv, NEW p \in Procs, NEW st, NEW scan, PruneMoves(p, st, scan)
  PROVE  CapturesInv' /\ Evolves
<1> USE DEF CapturesInv, PruneMoves
<1>1. /\ \A i, j \in DOMAIN reqs : Clash(i, j)' <=> Clash(i, j)
      /\ \A i \in DOMAIN reqs : Alone(i)' <=> Alone(i)
  BY SameRequests
<1>2. /\ proxy'[p] = st /\ \A q \in Procs : q # p => proxy'[q] = proxy[q]
      /\ proxy' \in [Procs -> ProxySteps]
  BY DEF StateOK
<1>3. /\ prune'[p] = scan /\ \A q \in Procs : q # p => prune'[q] = prune[q]
      /\ prune' = [q \in Procs |-> prune'[q]]
  <2>1. prune = [q \in Procs |-> prune[q]]
    BY DEF PrunesOK
  <2>2. DOMAIN prune = Procs
    BY <2>1
  <2> HIDE DEF CapturesInv
  <2>3. QED BY <2>2
<1>4. StateOK'
  BY <1>2 DEF StateOK
<1>5. PrunesOK'
  <2>1. None \notin RetentionArgs
    BY CapturesAssumption
  <2>2. ASSUME NEW q \in Procs
        PROVE  /\ DOMAIN prune'[q] = PruneFields /\ prune'[q].step \in PruneSteps
               /\ prune'[q].arg \in RetentionArgs \cup {None} /\ prune'[q].cutoff \in Nat
               /\ proxy'[q] = "pruning" <=> prune'[q].step # "idle"
               /\ proxy'[q] = "new" <=> prune'[q].arg = None
    <3>1. CASE q = p
      BY <1>2, <1>3, <2>1, <3>1
    <3>2. CASE q # p
      BY <1>2, <1>3, <3>2 DEF PrunesOK
    <3>3. QED BY <3>1, <3>2
  <2>3. QED BY <1>3, <2>2 DEF PrunesOK
<1>6. Cutoffs'
  BY <1>3 DEF Cutoffs
<1>7. Undisturbed
  BY <1>1 DEF Undisturbed
<1>8. Doomed'
  <2>1. SUFFICES ASSUME NEW q \in Procs, prune'[q].step = "remove"
                 PROVE  \E j \in DOMAIN reqs' :
                          /\ reqs'[j].step = "saved" /\ Path(reqs'[j]) = prune'[q].file
                          /\ reqs'[j].rec.ts < prune'[q].cutoff
                          /\ Alone(j)' /\ Path(reqs'[j]) \in DOMAIN files'
                               => files'[Path(reqs'[j])] = reqs'[j].rec
    BY DEF Doomed
  <2>2. CASE q = p
    BY <1>1, <1>3, <2>1, <2>2 DEF DoomedFile
  <2>3. CASE q # p
    BY <1>3, <1>7, <2>1, <2>3, DoomedStays
  <2>4. QED BY <2>2, <2>3
<1>9. TasksUp'
  <2>1. \A i \in DOMAIN reqs : reqs[i].by \in Procs
    BY RequestType DEF Request
  <2>2. QED BY <1>2, <2>1 DEF TasksUp
<1>10. Recorded' /\ FilesInDirs' /\ DirsSourced'
  BY DEF Recorded, FilesInDirs, DirsSourced
<1>11. FilesSourced'
  BY <1>1 DEF FilesSourced
<1>12. \A i \in DOMAIN reqs : reqs[i].step = "saved" /\ Outlived(i) => Outlived(i)'
  <2>1. now \in Nat /\ now >= now
    BY CapturesAssumption DEF StateOK
  <2>2. \A q \in Procs : prune[q].arg # None => prune'[q].arg = prune[q].arg
    BY <1>3
  <2>3. QED BY <2>1, <2>2, OutlivedStays
<1>13. OpenedIsEmpty'
  <2>1. SUFFICES ASSUME NEW i \in DOMAIN reqs, reqs[i].step = "opened", Alone(i)
                 PROVE  Path(reqs[i]) \in DOMAIN files' /\ files'[Path(reqs[i])] = Empty
    BY <1>1 DEF OpenedIsEmpty
  <2>2. Path(reqs[i]) \in DOMAIN files /\ files[Path(reqs[i])] = Empty
    BY <2>1 DEF OpenedIsEmpty
  <2>3. CASE Path(reqs[i]) \notin DOMAIN files'
    <3>1. PICK j \in DOMAIN reqs : reqs[j].step = "saved" /\ Path(reqs[j]) = Path(reqs[i])
      BY <2>2, <2>3
    <3>2. Clash(i, j)
      BY <2>1, <3>1, ClashIsPath
    <3>3. QED BY <2>1, <3>2 DEF Alone
  <2>4. QED BY <2>2, <2>3
<1>14. SavedIsKept'
  <2>1. SUFFICES ASSUME NEW i \in DOMAIN reqs, reqs[i].step = "saved", Alone(i)
                 PROVE  \/ Path(reqs[i]) \in DOMAIN files' /\ files'[Path(reqs[i])] = reqs[i].rec
                        \/ Outlived(i)'
    BY <1>1 DEF SavedIsKept
  <2>2. \/ Path(reqs[i]) \in DOMAIN files /\ files[Path(reqs[i])] = reqs[i].rec
        \/ Outlived(i)
    BY <2>1 DEF SavedIsKept
  <2>3. CASE Outlived(i)
    BY <1>12, <2>1, <2>3
  <2>4. CASE Path(reqs[i]) \in DOMAIN files \ DOMAIN files'
    <3>1. PICK j \in DOMAIN reqs :
            reqs[j].step = "saved" /\ Path(reqs[j]) = Path(reqs[i]) /\ Outlived(j)
      BY <2>4
    <3>2. j = i
      BY <2>1, <3>1, ClashIsPath DEF Alone
    <3>3. QED BY <1>12, <3>1, <3>2
  <2>5. QED BY <2>2, <2>3, <2>4
<1>15. Evolves
  BY <1>12 DEF Evolves
<1>16. QED
  BY <1>4, <1>5, <1>6, <1>8, <1>9, <1>10, <1>11, <1>13, <1>14, <1>15

\* What holds of the proxy whose prune is at a step.
LEMMA PruneFacts ==
  ASSUME CapturesInv, NEW p \in Procs, prune[p].step # "idle"
  PROVE  /\ proxy[p] = "pruning" /\ DOMAIN prune[p] = PruneFields
         /\ prune[p].arg \in RetentionArgs /\ prune[p].arg # None /\ prune[p].cutoff \in Nat
         /\ prune[p].cutoff = 0 \/ prune[p].cutoff + Promised(prune[p].arg) <= now
         /\ proxy = [proxy EXCEPT ![p] = "pruning"]
<1> USE DEF CapturesInv
<1>1. /\ proxy[p] = "pruning" /\ DOMAIN prune[p] = PruneFields
      /\ prune[p].arg \in RetentionArgs /\ prune[p].arg # None /\ prune[p].cutoff \in Nat
  BY DEF PrunesOK
<1>2. prune[p].cutoff = 0 \/ prune[p].cutoff + Promised(prune[p].arg) <= now
  BY DEF Cutoffs
<1>3. proxy = [proxy EXCEPT ![p] = "pruning"]
  BY <1>1 DEF StateOK
<1>4. QED
  BY <1>1, <1>2, <1>3

\* The prune is over; the store is as it was.
LEMMA GoesUpInv ==
  ASSUME CapturesInv, NEW p \in Procs, prune[p].step # "idle", GoesUp(p),
         UNCHANGED <<now, dirs, files, reqs>>
  PROVE  CapturesInv' /\ Evolves
<1> DEFINE scan == NoPrune(prune[p].arg)
<1>1. /\ proxy[p] = "pruning" /\ prune[p].arg \in RetentionArgs /\ prune[p].arg # None
  BY PruneFacts
<1>2. proxy' = [proxy EXCEPT ![p] = "up"] /\ prune' = [prune EXCEPT ![p] = scan]
  BY DEF GoesUp
<1>3. /\ DOMAIN scan = PruneFields /\ scan.step = "idle" /\ scan.arg = prune[p].arg
      /\ scan.cutoff = 0
  BY DEF NoPrune, PruneFields
<1>4. \A f \in DOMAIN files : f[1] \in dirs
  BY DEF CapturesInv, FilesInDirs
<1> HIDE DEF scan
<1>5. PruneMoves(p, "up", scan)
  BY <1>1, <1>2, <1>3, <1>4 DEF PruneMoves, ProxySteps, PruneSteps
<1>6. QED
  BY <1>5, PruneStep

\* The prune goes on, and has taken from the store at most what has outlived.
LEMMA GoesOnInv ==
  ASSUME CapturesInv, NEW p \in Procs, NEW scan, prune[p].step # "idle",
         proxy' = proxy, prune' = [prune EXCEPT ![p] = scan], now' = now, reqs' = reqs,
         DOMAIN scan = DOMAIN prune[p], scan.step \in PruneSteps \ {"idle"},
         scan.arg = prune[p].arg, scan.cutoff = prune[p].cutoff,
         scan.step = "remove" => DoomedFile(scan),
         DOMAIN files' \subseteq DOMAIN files,
         \A f \in DOMAIN files' : files'[f] = files[f] /\ f[1] \in dirs',
         \A f \in DOMAIN files \ DOMAIN files' :
           \E j \in DOMAIN reqs : reqs[j].step = "saved" /\ Path(reqs[j]) = f /\ Outlived(j),
         dirs' \subseteq dirs
  PROVE  CapturesInv' /\ Evolves
<1>1. /\ proxy[p] = "pruning" /\ DOMAIN prune[p] = PruneFields
      /\ prune[p].arg \in RetentionArgs /\ prune[p].arg # None /\ prune[p].cutoff \in Nat
      /\ prune[p].cutoff = 0 \/ prune[p].cutoff + Promised(prune[p].arg) <= now
      /\ proxy' = [proxy EXCEPT ![p] = "pruning"]
  BY PruneFacts
<1>2. PruneMoves(p, "pruning", scan)
  BY <1>1 DEF PruneMoves, ProxySteps
<1>3. QED
  BY <1>2, PruneStep

LEMMA StartInv ==
  ASSUME CapturesInv, NEW p \in Procs, NEW arg \in RetentionArgs, Start(p, arg)
  PROVE  CapturesInv' /\ Evolves
<1> DEFINE cutoff == SaturatingSub(now, Retention(arg))
           scan == [NoPrune(arg) EXCEPT !.step = "list", !.dirs = dirs, !.cutoff = cutoff]
<1>1. /\ proxy[p] = "new" /\ proxy' = [proxy EXCEPT ![p] = "pruning"]
      /\ prune' = [prune EXCEPT ![p] = scan]
      /\ now' = now /\ reqs' = reqs /\ dirs' = dirs /\ files' = files
  BY DEF Start, store
<1>2. prune[p].arg = None
  BY <1>1 DEF CapturesInv, PrunesOK
<1>3. now \in Nat /\ Promised(arg) = Retention(arg) /\ Promised(arg) \in Nat
  BY CapturesAssumption, KeepsThePromise DEF CapturesInv, StateOK
<1>4. cutoff \in Nat /\ (cutoff = 0 \/ cutoff + Promised(arg) <= now)
  BY <1>3 DEF SaturatingSub
<1> HIDE DEF cutoff
<1>5. /\ DOMAIN scan = PruneFields /\ scan.step = "list" /\ scan.arg = arg
      /\ scan.cutoff = cutoff
  BY DEF NoPrune, PruneFields
<1> HIDE DEF scan
<1>6. \A f \in DOMAIN files : f[1] \in dirs
  BY DEF CapturesInv, FilesInDirs
<1>7. PruneMoves(p, "pruning", scan)
  BY <1>1, <1>2, <1>4, <1>5, <1>6 DEF PruneMoves, ProxySteps, PruneSteps
<1>8. QED
  BY <1>7, PruneStep

\* A prune that goes on and has only looked.
LEMMA LooksOnInv ==
  ASSUME CapturesInv, NEW p \in Procs, NEW scan, prune[p].step # "idle",
         proxy' = proxy, prune' = [prune EXCEPT ![p] = scan],
         UNCHANGED <<now, dirs, files, reqs>>,
         DOMAIN scan = DOMAIN prune[p], scan.step \in PruneSteps \ {"idle"},
         scan.arg = prune[p].arg, scan.cutoff = prune[p].cutoff,
         scan.step = "remove" => DoomedFile(scan)
  PROVE  CapturesInv' /\ Evolves
<1>1. \A f \in DOMAIN files : f[1] \in dirs
  BY DEF CapturesInv, FilesInDirs
<1>2. QED
  BY <1>1, GoesOnInv

LEMMA PruneDirInv ==
  ASSUME CapturesInv, NEW p \in Procs, NEW dir, PruneDir(p, dir)
  PROVE  CapturesInv' /\ Evolves
<1> DEFINE scan == [prune[p] EXCEPT !.step = "scan", !.dirs = @ \ {dir}, !.dir = dir,
                                    !.files = FilesIn(dir)]
<1>1. prune[p].step = "list" /\ UNCHANGED <<now, dirs, files, reqs>>
  BY DEF PruneDir, store
<1>2. CASE dir \in dirs
  <2>1. proxy' = proxy /\ prune' = [prune EXCEPT ![p] = scan]
    BY <1>2 DEF PruneDir, PruneGoesOn
  <2>2. DOMAIN prune[p] = PruneFields
    BY <1>1, PruneFacts
  <2>3. /\ DOMAIN scan = DOMAIN prune[p] /\ scan.step = "scan" /\ scan.arg = prune[p].arg
        /\ scan.cutoff = prune[p].cutoff
    BY <2>2 DEF PruneFields
  <2> HIDE DEF scan
  <2>4. QED BY <1>1, <2>1, <2>3, LooksOnInv DEF PruneSteps
<1>3. CASE dir \notin dirs
  BY <1>1, <1>3, GoesUpInv DEF PruneDir
<1>4. QED
  BY <1>2, <1>3

LEMMA PruneReadInv ==
  ASSUME CapturesInv, NEW p \in Procs, NEW f, PruneRead(p, f)
  PROVE  CapturesInv' /\ Evolves
<1> DEFINE expired == f \in DOMAIN files /\ Expired(files[f], prune[p].cutoff)
           scan == [prune[p] EXCEPT !.files = @ \ {f},
                                    !.step = IF expired THEN "remove" ELSE "scan",
                                    !.file = IF expired THEN f ELSE None]
<1>1. prune[p].step = "scan" /\ UNCHANGED <<now, dirs, files, reqs>>
  BY DEF PruneRead, store
<1>2. proxy' = proxy /\ prune' = [prune EXCEPT ![p] = scan]
  BY DEF PruneRead, PruneGoesOn
<1>3. DOMAIN prune[p] = PruneFields
  BY <1>1, PruneFacts
<1> HIDE DEF expired
<1>4. /\ DOMAIN scan = DOMAIN prune[p] /\ scan.step = IF expired THEN "remove" ELSE "scan"
      /\ scan.arg = prune[p].arg /\ scan.cutoff = prune[p].cutoff
      /\ expired => scan.file = f
  BY <1>3 DEF PruneFields
<1> HIDE DEF scan
<1>5. ASSUME scan.step = "remove" PROVE DoomedFile(scan)
  <2>1. f \in DOMAIN files /\ IsCapture(files[f]) /\ files[f].ts < prune[p].cutoff /\ scan.file = f
    BY <1>4, <1>5 DEF expired, Expired
  <2>2. PICK j \in DOMAIN reqs :
          files[f] = reqs[j].rec /\ Path(reqs[j]) = f /\ reqs[j].step = "saved"
    BY <2>1 DEF CapturesInv, FilesSourced, IsCapture
  <2>3. QED BY <1>4, <2>1, <2>2 DEF DoomedFile
<1>6. scan.step \in PruneSteps \ {"idle"}
  BY <1>4 DEF PruneSteps
<1>7. QED
  BY <1>1, <1>2, <1>4, <1>5, <1>6, LooksOnInv

\* What a prune removes has outlived the retention of its own proxy.
LEMMA RemovedFacts ==
  ASSUME CapturesInv, NEW p \in Procs, prune[p].step = "remove"
  PROVE  /\ prune[p].arg \in RetentionArgs /\ prune[p].arg # None
         /\ \E j \in DOMAIN reqs :
              /\ reqs[j].step = "saved" /\ Path(reqs[j]) = prune[p].file /\ Outlived(j)
              /\ reqs[j].rec.ts + Promised(prune[p].arg) < now
              /\ Alone(j) /\ prune[p].file \in DOMAIN files => files[prune[p].file] = reqs[j].rec
<1>1. PICK j \in DOMAIN reqs :
        /\ reqs[j].step = "saved" /\ Path(reqs[j]) = prune[p].file
        /\ reqs[j].rec.ts < prune[p].cutoff
        /\ Alone(j) /\ Path(reqs[j]) \in DOMAIN files => files[Path(reqs[j])] = reqs[j].rec
  BY DEF CapturesInv, Doomed
<1>2. QED
  BY <1>1, BeforeCutoff

LEMMA PruneRemoveInv ==
  ASSUME CapturesInv, NEW p \in Procs, PruneRemove(p)
  PROVE  CapturesInv' /\ Evolves
<1> DEFINE f == prune[p].file
           scan == [prune[p] EXCEPT !.step = "scan", !.file = None]
<1>1. prune[p].step = "remove" /\ now' = now /\ dirs' = dirs /\ reqs' = reqs
  BY DEF PruneRemove
<1>2. CASE f \in DOMAIN files
  <2>1. /\ files' = [g \in DOMAIN files \ {f} |-> files[g]]
        /\ proxy' = proxy /\ prune' = [prune EXCEPT ![p] = scan]
    BY <1>2 DEF PruneRemove, PruneGoesOn
  <2>2. DOMAIN prune[p] = PruneFields
    BY <1>1, PruneFacts
  <2>3. /\ DOMAIN scan = DOMAIN prune[p] /\ scan.step = "scan" /\ scan.arg = prune[p].arg
        /\ scan.cutoff = prune[p].cutoff
    BY <2>2 DEF PruneFields
  <2> HIDE DEF scan
  <2>4. \E j \in DOMAIN reqs : reqs[j].step = "saved" /\ Path(reqs[j]) = f /\ Outlived(j)
    BY <1>1, RemovedFacts
  <2> HIDE DEF f
  <2>5. /\ DOMAIN files' \subseteq DOMAIN files
        /\ \A g \in DOMAIN files' : files'[g] = files[g] /\ g[1] \in dirs'
        /\ \A g \in DOMAIN files \ DOMAIN files' : g = f
    BY <1>1, <2>1 DEF CapturesInv, FilesInDirs
  <2>6. scan.step \in PruneSteps \ {"idle"} /\ scan.step # "remove"
    BY <2>3 DEF PruneSteps
  <2>7. QED BY <1>1, <2>1, <2>3, <2>4, <2>5, <2>6, GoesOnInv
<1>3. CASE f \notin DOMAIN files
  BY <1>1, <1>3, GoesUpInv DEF PruneRemove
<1>4. QED
  BY <1>2, <1>3

LEMMA PruneLookInv ==
  ASSUME CapturesInv, NEW p \in Procs, PruneLook(p)
  PROVE  CapturesInv' /\ Evolves
<1> DEFINE step == IF FilesIn(prune[p].dir) = {} THEN "rmdir" ELSE "list"
           scan == [prune[p] EXCEPT !.step = step]
<1>1. prune[p].step = "scan" /\ UNCHANGED <<now, dirs, files, reqs>>
  BY DEF PruneLook, store
<1>2. CASE prune[p].dir \in dirs
  <2>1. proxy' = proxy /\ prune' = [prune EXCEPT ![p] = scan]
    BY <1>2 DEF PruneLook, PruneGoesOn
  <2>2. DOMAIN prune[p] = PruneFields
    BY <1>1, PruneFacts
  <2>3. step \in {"rmdir", "list"}
    OBVIOUS
  <2> HIDE DEF step
  <2>4. /\ DOMAIN scan = DOMAIN prune[p] /\ scan.step = step /\ scan.arg = prune[p].arg
        /\ scan.cutoff = prune[p].cutoff
    BY <2>2 DEF PruneFields
  <2> HIDE DEF scan
  <2>5. QED BY <1>1, <2>1, <2>3, <2>4, LooksOnInv DEF PruneSteps
<1>3. CASE prune[p].dir \notin dirs
  BY <1>1, <1>3, GoesUpInv DEF PruneLook
<1>4. QED
  BY <1>2, <1>3

LEMMA PruneRmdirInv ==
  ASSUME CapturesInv, NEW p \in Procs, PruneRmdir(p)
  PROVE  CapturesInv' /\ Evolves
<1> DEFINE scan == [prune[p] EXCEPT !.step = "list"]
<1>1. /\ prune[p].step = "rmdir" /\ now' = now /\ files' = files /\ reqs' = reqs
      /\ dirs' = IF FilesIn(prune[p].dir) = {} THEN dirs \ {prune[p].dir} ELSE dirs
      /\ proxy' = proxy /\ prune' = [prune EXCEPT ![p] = scan]
  BY DEF PruneRmdir, PruneGoesOn
<1>2. DOMAIN prune[p] = PruneFields
  BY <1>1, PruneFacts
<1>3. /\ DOMAIN scan = DOMAIN prune[p] /\ scan.step = "list" /\ scan.arg = prune[p].arg
      /\ scan.cutoff = prune[p].cutoff
  BY <1>2 DEF PruneFields
<1> HIDE DEF scan
<1>4. dirs' \subseteq dirs /\ \A f \in DOMAIN files : f[1] \in dirs'
  BY <1>1 DEF CapturesInv, FilesInDirs, FilesIn
<1>5. scan.step \in PruneSteps \ {"idle"} /\ scan.step # "remove"
  BY <1>3 DEF PruneSteps
<1>6. QED
  BY <1>1, <1>3, <1>4, <1>5, GoesOnInv

LEMMA PruneEndsInv ==
  ASSUME CapturesInv, NEW p \in Procs, PruneEnds(p)
  PROVE  CapturesInv' /\ Evolves
BY GoesUpInv DEF PruneEnds, store

LEMMA ArriveInv ==
  ASSUME CapturesInv, NEW p \in Procs, NEW w \in Who, NEW b \in Bodies, Arrive(p, w, b)
  PROVE  CapturesInv' /\ Evolves
<1> USE DEF CapturesInv
<1> DEFINE new == [by |-> p, who |-> w, body |-> b, arrived |-> now, rec |-> None,
                   step |-> "spawned"]
<1>1. /\ proxy[p] = "up" /\ reqs' = Append(reqs, new)
      /\ now' = now /\ proxy' = proxy /\ prune' = prune /\ dirs' = dirs /\ files' = files
  BY DEF Arrive, store
<1>2. new \in Request /\ new.step = "spawned" /\ new.by = p
  BY DEF StateOK, Request, Steps
<1>3. reqs \in Seq(Request) /\ Len(reqs) \in Nat /\ DOMAIN reqs = 1..Len(reqs)
  BY LenProperties DEF StateOK
<1> HIDE DEF new
<1>4. /\ reqs' \in Seq(Request) /\ Len(reqs') = Len(reqs) + 1
      /\ \A i \in 1..Len(reqs) : reqs'[i] = reqs[i]
      /\ reqs'[Len(reqs) + 1] = new
  BY <1>1, <1>2, <1>3, AppendProperties
<1>5. DOMAIN reqs' = 1..(Len(reqs) + 1)
  BY <1>4, LenProperties
<1>6. /\ DOMAIN reqs \subseteq DOMAIN reqs'
      /\ \A i \in DOMAIN reqs : reqs'[i] = reqs[i]
      /\ \A i \in DOMAIN reqs' : i \in DOMAIN reqs \/ reqs'[i] = new
  BY <1>3, <1>4, <1>5
<1>7. \A i, j \in DOMAIN reqs : Clash(i, j)' <=> Clash(i, j)
  BY <1>6 DEF Clash
<1>8. \A i \in DOMAIN reqs : Alone(i)' => Alone(i)
  BY <1>6, <1>7 DEF Alone
<1>9. StateOK'
  BY <1>1, <1>4 DEF StateOK
<1>10. TasksUp'
  BY <1>1, <1>2, <1>6 DEF TasksUp
<1>11. Recorded'
  BY <1>1, <1>2, <1>6 DEF Recorded
<1>12. FilesInDirs' /\ DirsSourced'
  BY <1>1, <1>6 DEF FilesInDirs, DirsSourced
<1>13. FilesSourced'
  BY <1>1, <1>6, <1>7 DEF FilesSourced
<1>14. OpenedIsEmpty'
  BY <1>1, <1>2, <1>6, <1>8 DEF OpenedIsEmpty
<1>15. now \in Nat /\ now >= now
  BY CapturesAssumption DEF StateOK
<1>16. \A i \in DOMAIN reqs : reqs[i].step = "saved" /\ Outlived(i) => Outlived(i)'
  BY <1>1, <1>6, <1>15, OutlivedStays
<1>17. SavedIsKept'
  BY <1>1, <1>2, <1>6, <1>8, <1>16 DEF SavedIsKept
<1>18. Undisturbed
  BY <1>1, <1>6, <1>8 DEF Undisturbed
<1>19. PrunesOK' /\ Cutoffs' /\ Doomed'
  BY <1>1, <1>15, <1>18, PrunesStay
<1>20. Evolves
  BY <1>1, <1>6, <1>16 DEF Evolves
<1>21. QED
  BY <1>9, <1>10, <1>11, <1>12, <1>13, <1>14, <1>17, <1>19, <1>20

\* A step of task i, which has not saved yet: others keep what they saved.
TaskMoves(i) ==
  /\ reqs[i].step # "saved" /\ reqs'[i].step \in Begun
  /\ now' = now /\ proxy' = proxy /\ prune' = prune /\ dirs \subseteq dirs'
  /\ DOMAIN reqs' = DOMAIN reqs
  /\ \A j \in DOMAIN reqs : j # i => reqs'[j] = reqs[j]
  /\ \A j \in DOMAIN reqs : Path(reqs'[j]) = Path(reqs[j]) /\ (Alone(j)' <=> Alone(j))
  /\ DOMAIN files \subseteq DOMAIN files'
  /\ \A j \in DOMAIN reqs :
       reqs[j].step = "saved" =>
         /\ Alone(j) /\ Path(reqs[j]) \in DOMAIN files' =>
              /\ Path(reqs[j]) \in DOMAIN files
              /\ files'[Path(reqs[j])] = files[Path(reqs[j])]
         /\ \A f \in DOMAIN files' :
              files'[f] = reqs[j].rec => f \in DOMAIN files /\ files[f] = reqs[j].rec

LEMMA TaskStep ==
  ASSUME CapturesInv, NEW i \in DOMAIN reqs, TaskMoves(i)
  PROVE  /\ PrunesOK' /\ Cutoffs' /\ Doomed' /\ Evolves
         /\ \A j \in DOMAIN reqs : reqs[j].step = "saved" /\ Outlived(j) => Outlived(j)'
<1> USE DEF TaskMoves
<1>1. now \in Nat /\ now >= now
  BY CapturesAssumption DEF CapturesInv, StateOK
<1>2. \A j \in DOMAIN reqs : reqs[j].step = "saved" /\ Outlived(j) => Outlived(j)'
  BY <1>1, OutlivedStays
<1>3. Undisturbed
  BY DEF Undisturbed
<1>4. PrunesOK' /\ Cutoffs' /\ Doomed'
  BY <1>1, <1>3, PrunesStay
<1>5. Evolves
  BY <1>2 DEF Evolves
<1>6. QED
  BY <1>2, <1>4, <1>5

LEMMA MakeDirInv ==
  ASSUME CapturesInv, NEW i \in DOMAIN reqs, MakeDir(i)
  PROVE  CapturesInv' /\ Evolves
<1> USE DEF CapturesInv
<1> DEFINE q == [reqs[i] EXCEPT !.step = "made", !.rec = Capture(i)]
<1>1. /\ reqs[i].step = "spawned" /\ dirs' = dirs \cup {Path(reqs[i])[1]}
      /\ now' = now /\ proxy' = proxy /\ prune' = prune /\ files' = files
  BY DEF MakeDir
<1>2. reqs' = [reqs EXCEPT ![i] = q]
  BY DEF MakeDir
<1>3. reqs[i] \in Request /\ i \in Nat
  BY RequestType
<1>4. Capture(i) \in CaptureRecords /\ Capture(i).req = i /\ Capture(i).ts = now
  <2>1. reqs[i].who \in Who /\ reqs[i].body \in Bodies /\ reqs[i].arrived \in Moments
    BY <1>3 DEF Request
  <2>2. CaptureId(reqs[i]) \in Moments \X {Prefix[n] : n \in DOMAIN Prefix}
    BY <2>1, CapturesAssumption DEF CaptureId
  <2>3. now \in Moments
    BY DEF StateOK
  <2>4. QED BY <1>3, <2>1, <2>2, <2>3 DEF Capture, CaptureRecords
<1>5. /\ q \in Request /\ q.who = reqs[i].who /\ q.arrived = reqs[i].arrived
      /\ q.by = reqs[i].by /\ q.step = "made" /\ q.rec = Capture(i)
  <2> HIDE DEF CapturesInv
  <2>1. QED BY <1>3, <1>4 DEF Request, Steps
<1> HIDE DEF q
<1>6. /\ reqs' \in Seq(Request) /\ DOMAIN reqs' = DOMAIN reqs /\ reqs'[i] = q
      /\ \A j \in DOMAIN reqs : j # i => reqs'[j] = reqs[j]
      /\ \A j \in DOMAIN reqs : Path(reqs'[j]) = Path(reqs[j])
      /\ \A j, k \in DOMAIN reqs : Clash(j, k)' <=> Clash(j, k)
  BY <1>2, <1>5, WorkerFacts
<1>7. \A j \in DOMAIN reqs : Alone(j)' <=> Alone(j)
  BY <1>6 DEF Alone
<1>8. StateOK'
  BY <1>1, <1>6 DEF StateOK
<1>9. TasksUp'
  BY <1>1, <1>5, <1>6 DEF TasksUp
<1>10. Recorded'
  <2>1. now <= now
    BY CapturesAssumption DEF StateOK
  <2>2. QED BY <1>1, <1>4, <1>5, <1>6, <2>1 DEF Recorded
<1>11. FilesInDirs'
  BY <1>1 DEF FilesInDirs
<1>12. FilesSourced'
  BY <1>1, <1>6 DEF FilesSourced
<1>13. DirsSourced'
  <2>1. SUFFICES ASSUME NEW d \in dirs'
                 PROVE  \E j \in DOMAIN reqs : Path(reqs'[j])[1] = d /\ reqs'[j].step \in Begun
    BY <1>6 DEF DirsSourced
  <2>2. reqs'[i].step \in Begun /\ Path(reqs'[i]) = Path(reqs[i])
    BY <1>5, <1>6 DEF Begun
  <2>3. CASE d = Path(reqs[i])[1]
    BY <2>2, <2>3
  <2>4. CASE d \in dirs
    <3>1. PICK j \in DOMAIN reqs : Path(reqs[j])[1] = d /\ reqs[j].step \in Begun
      BY <2>4 DEF DirsSourced
    <3>2. QED BY <1>6, <2>2, <3>1
  <2>5. QED BY <1>1, <2>1, <2>3, <2>4
<1>14. OpenedIsEmpty'
  BY <1>1, <1>5, <1>6, <1>7 DEF OpenedIsEmpty
<1>15. TaskMoves(i)
  BY <1>1, <1>5, <1>6, <1>7 DEF TaskMoves, Begun
<1>16. /\ PrunesOK' /\ Cutoffs' /\ Doomed' /\ Evolves
       /\ \A j \in DOMAIN reqs : reqs[j].step = "saved" /\ Outlived(j) => Outlived(j)'
  BY <1>15, TaskStep
<1>17. SavedIsKept'
  BY <1>1, <1>5, <1>6, <1>7, <1>16 DEF SavedIsKept
<1>18. QED
  BY <1>8, <1>9, <1>10, <1>11, <1>12, <1>13, <1>14, <1>16, <1>17

\* A step of task i that changes its step alone: what holds of the others and of
\* all paths.
LEMMA MovedFacts ==
  ASSUME StateOK, NEW i \in DOMAIN reqs, NEW st \in Steps,
         reqs' = [reqs EXCEPT ![i].step = st]
  PROVE  /\ reqs' \in Seq(Request) /\ DOMAIN reqs' = DOMAIN reqs
         /\ reqs'[i].step = st /\ reqs'[i].by = reqs[i].by
         /\ \A j \in DOMAIN reqs : reqs'[j].rec = reqs[j].rec
         /\ \A j \in DOMAIN reqs : j # i => reqs'[j] = reqs[j]
         /\ \A j \in DOMAIN reqs : Path(reqs'[j]) = Path(reqs[j])
         /\ \A j, k \in DOMAIN reqs : Clash(j, k)' <=> Clash(j, k)
         /\ \A j \in DOMAIN reqs : Alone(j)' <=> Alone(j)
<1>1. PICK q \in Request :
           /\ reqs' = [reqs EXCEPT ![i] = q]
           /\ q.by = reqs[i].by /\ q.who = reqs[i].who /\ q.arrived = reqs[i].arrived
           /\ q.rec = reqs[i].rec /\ q.step = st
  BY StepFacts
<1>2. /\ reqs' \in Seq(Request) /\ DOMAIN reqs' = DOMAIN reqs /\ reqs'[i] = q
      /\ \A j \in DOMAIN reqs : j # i => reqs'[j] = reqs[j]
      /\ \A j \in DOMAIN reqs : Path(reqs'[j]) = Path(reqs[j])
      /\ \A j, k \in DOMAIN reqs : Clash(j, k)' <=> Clash(j, k)
  BY <1>1, WorkerFacts
<1>3. \A j \in DOMAIN reqs : reqs'[j].rec = reqs[j].rec
  BY <1>1, <1>2
<1>4. \A j \in DOMAIN reqs : Alone(j)' <=> Alone(j)
  BY <1>2 DEF Alone
<1>5. QED
  BY <1>1, <1>2, <1>3, <1>4

\* Then directories have the requests they were made for, too.
LEMMA MovedDirs ==
  ASSUME CapturesInv, NEW i \in DOMAIN reqs, reqs'[i].step \in Begun,
         DOMAIN reqs' = DOMAIN reqs, dirs' = dirs,
         \A j \in DOMAIN reqs : j # i => reqs'[j] = reqs[j],
         \A j \in DOMAIN reqs : Path(reqs'[j]) = Path(reqs[j])
  PROVE  DirsSourced'
<1>1. SUFFICES ASSUME NEW d \in dirs
               PROVE  \E j \in DOMAIN reqs : Path(reqs'[j])[1] = d /\ reqs'[j].step \in Begun
  BY DEF DirsSourced
<1>2. PICK j \in DOMAIN reqs : Path(reqs[j])[1] = d /\ reqs[j].step \in Begun
  BY DEF CapturesInv, DirsSourced
<1>3. Path(reqs'[j])[1] = d /\ reqs'[j].step \in Begun
  BY <1>2
<1>4. QED
  BY <1>3

\* A save that fails, before or after the file was opened.
LEMMA FailedInv ==
  ASSUME CapturesInv, NEW i \in DOMAIN reqs, reqs[i].step # "saved",
         reqs' = [reqs EXCEPT ![i].step = "failed"],
         UNCHANGED <<now, proxy, prune, dirs, files>>
  PROVE  CapturesInv' /\ Evolves
<1> USE DEF CapturesInv
<1>1. "failed" \in Steps /\ "failed" \in Begun
  BY DEF Steps, Begun
<1>2. /\ reqs' \in Seq(Request) /\ DOMAIN reqs' = DOMAIN reqs
      /\ reqs'[i].step = "failed" /\ reqs'[i].by = reqs[i].by
      /\ \A j \in DOMAIN reqs : reqs'[j].rec = reqs[j].rec
      /\ \A j \in DOMAIN reqs : j # i => reqs'[j] = reqs[j]
      /\ \A j \in DOMAIN reqs : Path(reqs'[j]) = Path(reqs[j])
      /\ \A j, k \in DOMAIN reqs : Clash(j, k)' <=> Clash(j, k)
      /\ \A j \in DOMAIN reqs : Alone(j)' <=> Alone(j)
  BY <1>1, MovedFacts
<1>3. StateOK' /\ FilesInDirs'
  BY <1>2 DEF StateOK, FilesInDirs
<1>4. TasksUp' /\ Recorded'
  BY <1>2 DEF TasksUp, Recorded
<1>5. FilesSourced'
  BY <1>2, SMTT(40) DEF FilesSourced
<1>6. TaskMoves(i)
  BY <1>1, <1>2 DEF TaskMoves
<1>7. /\ PrunesOK' /\ Cutoffs' /\ Doomed' /\ Evolves
      /\ \A j \in DOMAIN reqs : reqs[j].step = "saved" /\ Outlived(j) => Outlived(j)'
  BY <1>6, TaskStep
<1>8. OpenedIsEmpty' /\ SavedIsKept'
  BY <1>2, <1>7 DEF OpenedIsEmpty, SavedIsKept
<1>9. DirsSourced'
  BY <1>1, <1>2, MovedDirs
<1>10. QED
  BY <1>3, <1>4, <1>5, <1>7, <1>8, <1>9

LEMMA OpenFileInv ==
  ASSUME CapturesInv, NEW i \in DOMAIN reqs, OpenFile(i)
  PROVE  CapturesInv' /\ Evolves
<1> USE DEF CapturesInv
<1> DEFINE path == Path(reqs[i])
<1>1. /\ reqs[i].step = "made" /\ now' = now /\ proxy' = proxy /\ prune' = prune
      /\ dirs' = dirs
  BY DEF OpenFile
<1>2. CASE path[1] \notin dirs
  BY <1>1, <1>2, FailedInv DEF OpenFile
<1>3. CASE path[1] \in dirs
  <2>1. /\ reqs' = [reqs EXCEPT ![i].step = "opened"]
        /\ files' = [f \in DOMAIN files \cup {path} |->
                       IF f = path THEN Empty ELSE files[f]]
    BY <1>3 DEF OpenFile
  <2>2. "opened" \in Steps
    BY DEF Steps
  <2>3. /\ reqs' \in Seq(Request) /\ DOMAIN reqs' = DOMAIN reqs
        /\ reqs'[i].step = "opened" /\ reqs'[i].by = reqs[i].by
        /\ \A j \in DOMAIN reqs : reqs'[j].rec = reqs[j].rec
        /\ \A j \in DOMAIN reqs : j # i => reqs'[j] = reqs[j]
        /\ \A j \in DOMAIN reqs : Path(reqs'[j]) = Path(reqs[j])
        /\ \A j, k \in DOMAIN reqs : Clash(j, k)' <=> Clash(j, k)
        /\ \A j \in DOMAIN reqs : Alone(j)' <=> Alone(j)
    BY <2>1, <2>2, MovedFacts
  <2> DEFINE pi == Path(reqs[i])
  <2>4. /\ DOMAIN files' = DOMAIN files \cup {pi} /\ files'[pi] = Empty
        /\ \A f \in DOMAIN files : f # pi => files'[f] = files[f]
    BY <2>1
  <2>5. \A j \in DOMAIN reqs : j # i /\ Alone(j) => Path(reqs[j]) # pi
    BY ClashIsPath DEF Alone
  <2>6. pi[1] \in dirs
    BY <1>3
  <2> HIDE DEF pi, path
  <2>7. StateOK'
    BY <1>1, <2>3 DEF StateOK
  <2>8. TasksUp' /\ Recorded'
    BY <1>1, <2>3 DEF TasksUp, Recorded
  <2>9. FilesInDirs'
    BY <1>1, <2>4, <2>6 DEF FilesInDirs
  <2>10. FilesSourced'
    <3>1. SUFFICES ASSUME NEW f \in DOMAIN files'
                   PROVE  \/ \E k \in DOMAIN reqs : /\ files'[f] = reqs'[k].rec /\ Path(reqs'[k]) = f
                                                    /\ reqs'[k].step = "saved"
                          \/ /\ files'[f] = Empty
                             /\ \E k \in DOMAIN reqs : /\ Path(reqs'[k]) = f
                                                      /\ reqs'[k].step \in {"opened", "failed"}
                          \/ /\ files'[f] = Garbled
                             /\ \E j, k \in DOMAIN reqs : Clash(j, k)
      BY <2>3 DEF FilesSourced
    <3>2. CASE f = pi
      <4>1. Path(reqs'[i]) = f
        BY <2>3, <3>2 DEF pi
      <4>2. QED BY <2>3, <2>4, <3>2, <4>1
    <3>3. CASE f # pi
      <4>1. f \in DOMAIN files /\ files'[f] = files[f]
        BY <2>4, <3>3
      <4>2. QED BY <1>1, <2>3, <4>1 DEF FilesSourced
    <3>4. QED BY <3>2, <3>3
  <2>11. OpenedIsEmpty'
    <3>1. SUFFICES ASSUME NEW j \in DOMAIN reqs, reqs'[j].step = "opened", Alone(j)
                   PROVE  Path(reqs[j]) \in DOMAIN files' /\ files'[Path(reqs[j])] = Empty
      BY <2>3 DEF OpenedIsEmpty
    <3>2. CASE j = i
      BY <2>4, <3>2 DEF pi
    <3>3. CASE j # i
      BY <2>3, <2>4, <3>1, <3>3 DEF OpenedIsEmpty
    <3>4. QED BY <3>2, <3>3
  <2>12. TaskMoves(i)
    <3>1. \A j \in DOMAIN reqs : reqs[j].step = "saved" => j # i /\ reqs[j].rec # Empty
      BY <1>1, RecordAssumption DEF Recorded
    <3>2. \A j \in DOMAIN reqs : reqs[j].step = "saved" =>
            \A f \in DOMAIN files' :
              files'[f] = reqs[j].rec => f \in DOMAIN files /\ files[f] = reqs[j].rec
      BY <2>4, <3>1
    <3>3. \A j \in DOMAIN reqs : reqs[j].step = "saved" /\ Alone(j) => Path(reqs[j]) # pi
      BY <2>5, <3>1
    <3>4. reqs[i].step # "saved" /\ reqs'[i].step \in Begun
      BY <1>1, <2>3 DEF Begun
    <3>5. QED BY <1>1, <2>3, <2>4, <3>2, <3>3, <3>4 DEF TaskMoves
  <2>13. /\ PrunesOK' /\ Cutoffs' /\ Doomed' /\ Evolves
         /\ \A j \in DOMAIN reqs : reqs[j].step = "saved" /\ Outlived(j) => Outlived(j)'
    BY <2>12, TaskStep
  <2>14. SavedIsKept'
    <3>1. SUFFICES ASSUME NEW j \in DOMAIN reqs, reqs'[j].step = "saved", Alone(j)
                   PROVE  \/ Path(reqs[j]) \in DOMAIN files' /\ files'[Path(reqs[j])] = reqs[j].rec
                          \/ Outlived(j)'
      BY <1>1, <2>3 DEF SavedIsKept
    <3>2. j # i /\ reqs[j].step = "saved" /\ Path(reqs[j]) # pi
      BY <2>3, <2>5, <3>1
    <3>3. QED BY <2>4, <2>13, <3>1, <3>2 DEF SavedIsKept
  <2>15. DirsSourced'
    BY <1>1, <2>3, MovedDirs DEF Begun
  <2>16. QED
    BY <2>7, <2>8, <2>9, <2>10, <2>11, <2>13, <2>14, <2>15
<1>4. QED
  BY <1>2, <1>3

LEMMA OverwriteFacts ==
  ASSUME NEW rec
  PROVE  /\ Overwrite(Empty, rec) = rec /\ Overwrite(Garbled, rec) = Garbled
         /\ \A content : IsCapture(content) => Overwrite(content, rec) \in {Garbled, rec}
<1>1. Empty # Garbled /\ ~IsCapture(Empty) /\ ~IsCapture(Garbled)
  BY CapturesAssumption DEF IsCapture
<1>2. \A content : IsCapture(content) => content # Empty /\ content # Garbled
  BY DEF IsCapture
<1> HIDE DEF IsCapture
<1>3. QED
  BY <1>1, <1>2 DEF Overwrite

LEMMA WriteFileInv ==
  ASSUME CapturesInv, NEW i \in DOMAIN reqs, WriteFile(i)
  PROVE  CapturesInv' /\ Evolves
<1> USE DEF CapturesInv
<1> DEFINE pi == Path(reqs[i])
<1>1. /\ reqs[i].step = "opened" /\ now' = now /\ proxy' = proxy /\ prune' = prune
      /\ dirs' = dirs
      /\ reqs' = [reqs EXCEPT ![i].step = "saved"]
      /\ files' = IF pi \in DOMAIN files
                  THEN [files EXCEPT ![pi] = Overwrite(files[pi], reqs[i].rec)] ELSE files
  BY DEF WriteFile
<1>2. "saved" \in Steps
  BY DEF Steps
<1>3. /\ reqs' \in Seq(Request) /\ DOMAIN reqs' = DOMAIN reqs
      /\ reqs'[i].step = "saved" /\ reqs'[i].by = reqs[i].by
      /\ \A j \in DOMAIN reqs : reqs'[j].rec = reqs[j].rec
      /\ \A j \in DOMAIN reqs : j # i => reqs'[j] = reqs[j]
      /\ \A j \in DOMAIN reqs : Path(reqs'[j]) = Path(reqs[j])
      /\ \A j, k \in DOMAIN reqs : Clash(j, k)' <=> Clash(j, k)
      /\ \A j \in DOMAIN reqs : Alone(j)' <=> Alone(j)
  BY <1>1, <1>2, MovedFacts
<1>4. /\ DOMAIN files' = DOMAIN files
      /\ \A f \in DOMAIN files : f # pi => files'[f] = files[f]
      /\ pi \in DOMAIN files => files'[pi] = Overwrite(files[pi], reqs[i].rec)
  BY <1>1
<1>5. \A j \in DOMAIN reqs : j # i /\ Alone(j) => Path(reqs[j]) # pi
  BY ClashIsPath DEF Alone
<1>6. reqs[i].rec \in CaptureRecords
  BY <1>1 DEF Recorded
<1>7. ASSUME pi \in DOMAIN files
      PROVE  \/ files'[pi] = reqs[i].rec
             \/ files'[pi] = Garbled /\ \E j, k \in DOMAIN reqs : Clash(j, k)
  <2>1. CASE files[pi] = Empty
    BY <1>4, <1>7, <2>1, OverwriteFacts
  <2>2. CASE files[pi] = Garbled
    <3>1. \A j \in DOMAIN reqs : reqs[j].step = "saved" => reqs[j].rec # Garbled
      BY RecordAssumption DEF Recorded
    <3>2. \E j, k \in DOMAIN reqs : Clash(j, k)
      BY <1>7, <2>2, <3>1, CapturesAssumption DEF FilesSourced
    <3>3. files'[pi] = Garbled
      BY <1>4, <1>7, <2>2, OverwriteFacts
    <3>4. QED BY <3>2, <3>3
  <2>3. CASE IsCapture(files[pi])
    <3>1. PICK j \in DOMAIN reqs : Path(reqs[j]) = pi /\ reqs[j].step = "saved"
      BY <1>7, <2>3 DEF FilesSourced, IsCapture
    <3>2. j # i
      BY <1>1, <3>1
    <3>3. Clash(j, i)
      BY <3>1, <3>2, ClashIsPath
    <3>4. files'[pi] \in {Garbled, reqs[i].rec}
      BY <1>4, <1>7, <2>3, OverwriteFacts
    <3>5. QED BY <3>3, <3>4
  <2>4. QED BY <2>1, <2>2, <2>3 DEF IsCapture
<1> HIDE DEF pi
<1>8. StateOK'
  BY <1>1, <1>3 DEF StateOK
<1>9. TasksUp' /\ Recorded'
  BY <1>1, <1>3 DEF TasksUp, Recorded
<1>10. FilesInDirs'
  BY <1>1, <1>4 DEF FilesInDirs
<1>11. FilesSourced'
  <2>1. SUFFICES ASSUME NEW f \in DOMAIN files
                 PROVE  \/ \E k \in DOMAIN reqs : /\ files'[f] = reqs'[k].rec /\ Path(reqs'[k]) = f
                                                  /\ reqs'[k].step = "saved"
                        \/ /\ files'[f] = Empty
                           /\ \E k \in DOMAIN reqs : /\ Path(reqs'[k]) = f
                                                    /\ reqs'[k].step \in {"opened", "failed"}
                        \/ /\ files'[f] = Garbled
                           /\ \E j, k \in DOMAIN reqs : Clash(j, k)
    BY <1>3, <1>4 DEF FilesSourced
  <2>2. CASE f = pi
    <3>1. Path(reqs'[i]) = f
      BY <1>3, <2>2 DEF pi
    <3>2. QED BY <1>3, <1>7, <2>2, <3>1
  <2>3. CASE f # pi
    <3>1. files'[f] = files[f] /\ \A k \in DOMAIN reqs : Path(reqs[k]) = f => k # i
      BY <1>4, <2>3 DEF pi
    <3>2. QED BY <1>3, <3>1 DEF FilesSourced
  <2>4. QED BY <2>2, <2>3
<1>12. OpenedIsEmpty'
  <2>1. SUFFICES ASSUME NEW j \in DOMAIN reqs, reqs'[j].step = "opened", Alone(j)
                 PROVE  Path(reqs[j]) \in DOMAIN files /\ files'[Path(reqs[j])] = Empty
    BY <1>3, <1>4 DEF OpenedIsEmpty
  <2>2. j # i /\ reqs[j].step = "opened" /\ Path(reqs[j]) # pi
    BY <1>3, <1>5, <2>1
  <2>3. QED BY <1>4, <2>1, <2>2 DEF OpenedIsEmpty
<1>13. TaskMoves(i)
  <2>1. \A j \in DOMAIN reqs :
          reqs[j].step = "saved" => j # i /\ reqs[j].rec # Garbled /\ reqs[j].rec # reqs[i].rec
    BY <1>1, RecordAssumption DEF Recorded
  <2>2. \A j \in DOMAIN reqs : reqs[j].step = "saved" =>
          \A f \in DOMAIN files' :
            files'[f] = reqs[j].rec => f \in DOMAIN files /\ files[f] = reqs[j].rec
    BY <1>4, <1>7, <2>1
  <2>3. \A j \in DOMAIN reqs : reqs[j].step = "saved" /\ Alone(j) => Path(reqs[j]) # pi
    BY <1>5, <2>1
  <2>4. reqs[i].step # "saved" /\ reqs'[i].step \in Begun
    BY <1>1, <1>3 DEF Begun
  <2>5. QED BY <1>1, <1>3, <1>4, <2>2, <2>3, <2>4 DEF TaskMoves
<1>14. /\ PrunesOK' /\ Cutoffs' /\ Doomed' /\ Evolves
       /\ \A j \in DOMAIN reqs : reqs[j].step = "saved" /\ Outlived(j) => Outlived(j)'
  BY <1>13, TaskStep
<1>15. SavedIsKept'
  <2>1. SUFFICES ASSUME NEW j \in DOMAIN reqs, reqs'[j].step = "saved", Alone(j)
                 PROVE  \/ Path(reqs[j]) \in DOMAIN files /\ files'[Path(reqs[j])] = reqs[j].rec
                        \/ Outlived(j)'
    BY <1>1, <1>3, <1>4 DEF SavedIsKept
  <2>2. CASE j = i
    <3>1. pi \in DOMAIN files /\ files[pi] = Empty
      BY <1>1, <2>1, <2>2 DEF OpenedIsEmpty, pi
    <3>2. files'[pi] = reqs[i].rec
      BY <1>4, <3>1, OverwriteFacts
    <3>3. QED BY <2>2, <3>1, <3>2 DEF pi
  <2>3. CASE j # i
    <3>1. reqs[j].step = "saved" /\ Path(reqs[j]) # pi
      BY <1>3, <1>5, <2>1, <2>3
    <3>2. QED BY <1>4, <1>14, <2>1, <3>1 DEF SavedIsKept
  <2>4. QED BY <2>2, <2>3
<1>16. DirsSourced'
  BY <1>1, <1>3, MovedDirs DEF Begun
<1>17. QED
  BY <1>8, <1>9, <1>10, <1>11, <1>12, <1>14, <1>15, <1>16

LEMMA KillInv ==
  ASSUME CapturesInv, NEW p \in Procs, Kill(p)
  PROVE  CapturesInv' /\ Evolves
<1> USE DEF CapturesInv
<1>1. /\ proxy' = [proxy EXCEPT ![p] = "dead"] /\ proxy[p] \in {"pruning", "up"}
      /\ prune' = [prune EXCEPT ![p] = NoPrune(prune[p].arg)]
      /\ now' = now /\ dirs' = dirs /\ files' = files
      /\ reqs' = [i \in DOMAIN reqs |->
                    IF reqs[i].by = p /\ reqs[i].step # "saved"
                    THEN [reqs[i] EXCEPT !.step = "failed"] ELSE reqs[i]]
  BY DEF Kill, store
<1>2. reqs \in Seq(Request) /\ \A i \in DOMAIN reqs : reqs[i] \in Request
  BY RequestType DEF StateOK
<1>3. DOMAIN reqs' = DOMAIN reqs
  BY <1>1
<1>4. ASSUME NEW i \in DOMAIN reqs
      PROVE  /\ reqs'[i] \in Request /\ reqs'[i].rec = reqs[i].rec /\ reqs'[i].by = reqs[i].by
             /\ reqs'[i].who = reqs[i].who /\ reqs'[i].arrived = reqs[i].arrived
             /\ reqs'[i].step = IF reqs[i].by = p /\ reqs[i].step # "saved" THEN "failed"
                                ELSE reqs[i].step
  <2>1. CASE reqs[i].by = p /\ reqs[i].step # "saved"
    <3>1. reqs'[i] = [reqs[i] EXCEPT !.step = "failed"]
      BY <1>1, <2>1
    <3>2. QED BY <1>2, <2>1, <3>1 DEF Request, Steps
  <2>2. CASE ~(reqs[i].by = p /\ reqs[i].step # "saved")
    <3>1. reqs'[i] = reqs[i]
      BY <1>1, <2>2
    <3>2. QED BY <1>2, <2>2, <3>1
  <2>3. QED BY <2>1, <2>2
<1>5. reqs' \in Seq(Request)
  <2>1. DOMAIN reqs' = 1..Len(reqs) /\ Len(reqs) \in Nat
    BY <1>2, <1>3, LenProperties
  <2>2. reqs' \in [1..Len(reqs) -> Request]
    BY <1>1, <1>3, <1>4, <2>1
  <2>3. QED BY <2>1, <2>2
<1>6. \A i \in DOMAIN reqs : Path(reqs'[i]) = Path(reqs[i])
  BY <1>4 DEF Path, CaptureId
<1>7. \A i, j \in DOMAIN reqs : Clash(i, j)' <=> Clash(i, j)
  BY <1>4 DEF Clash
<1>8. \A i \in DOMAIN reqs : Alone(i)' <=> Alone(i)
  BY <1>3, <1>7 DEF Alone
<1>9. StateOK' /\ FilesInDirs'
  BY <1>1, <1>5 DEF StateOK, ProxySteps, FilesInDirs
<1>10. TasksUp'
  <2>1. SUFFICES ASSUME NEW i \in DOMAIN reqs, reqs'[i].step \in {"spawned", "made", "opened"}
                 PROVE  proxy'[reqs'[i].by] = "up"
    BY <1>3 DEF TasksUp
  <2>2. reqs[i].by # p /\ reqs[i].step \in {"spawned", "made", "opened"}
    BY <1>4, <2>1
  <2>3. reqs[i].by \in Procs
    BY <1>2 DEF Request
  <2>4. QED BY <1>1, <1>4, <2>2, <2>3 DEF TasksUp, StateOK
<1>11. Recorded'
  BY <1>1, <1>3, <1>4 DEF Recorded
<1>12. FilesSourced'
  <2>1. SUFFICES ASSUME NEW f \in DOMAIN files
                 PROVE  \/ \E k \in DOMAIN reqs : /\ files[f] = reqs'[k].rec /\ Path(reqs'[k]) = f
                                                  /\ reqs'[k].step = "saved"
                        \/ /\ files[f] = Empty
                           /\ \E k \in DOMAIN reqs : /\ Path(reqs'[k]) = f
                                                    /\ reqs'[k].step \in {"opened", "failed"}
                        \/ /\ files[f] = Garbled
                           /\ \E j, k \in DOMAIN reqs : Clash(j, k)
    BY <1>1, <1>3, <1>7 DEF FilesSourced
  <2>2. QED BY <1>4, <1>6 DEF FilesSourced
<1>13. OpenedIsEmpty'
  BY <1>1, <1>3, <1>4, <1>6, <1>8 DEF OpenedIsEmpty
<1>14. /\ DOMAIN prune'[p] = PruneFields /\ prune'[p].step = "idle" /\ prune'[p].cutoff = 0
       /\ prune'[p].arg = prune[p].arg /\ prune[p].arg \in RetentionArgs \cup {None}
       /\ prune[p].arg # None
       /\ \A q \in Procs : q # p => prune'[q] = prune[q]
       /\ prune' = [q \in Procs |-> prune'[q]]
  <2>1. prune = [q \in Procs |-> prune[q]] /\ prune[p].arg \in RetentionArgs \cup {None}
    BY DEF PrunesOK
  <2>2. prune[p].arg # None
    BY <1>1 DEF PrunesOK
  <2>3. DOMAIN prune = Procs
    BY <2>1
  <2>4. /\ prune'[p] = NoPrune(prune[p].arg)
        /\ \A q \in Procs : q # p => prune'[q] = prune[q]
        /\ prune' = [q \in Procs |-> prune'[q]]
    BY <1>1, <2>3
  <2>5. QED BY <2>1, <2>2, <2>4 DEF NoPrune, PruneFields
<1>15. /\ proxy'[p] = "dead" /\ \A q \in Procs : q # p => proxy'[q] = proxy[q]
  BY <1>1 DEF StateOK
<1>16. PrunesOK'
  <2>1. ASSUME NEW q \in Procs
        PROVE  /\ DOMAIN prune'[q] = PruneFields /\ prune'[q].step \in PruneSteps
               /\ prune'[q].arg \in RetentionArgs \cup {None} /\ prune'[q].cutoff \in Nat
               /\ proxy'[q] = "pruning" <=> prune'[q].step # "idle"
               /\ proxy'[q] = "new" <=> prune'[q].arg = None
    <3>1. CASE q = p
      BY <1>14, <1>15, <3>1 DEF PruneSteps
    <3>2. CASE q # p
      BY <1>14, <1>15, <3>2 DEF PrunesOK
    <3>3. QED BY <3>1, <3>2
  <2>2. QED BY <1>14, <2>1 DEF PrunesOK
<1>17. Cutoffs'
  BY <1>1, <1>14 DEF Cutoffs
<1>18. Undisturbed
  BY <1>1, <1>3, <1>4, <1>6, <1>8 DEF Undisturbed
<1>19. Doomed'
  <2>1. \A q \in Procs : prune'[q].step = "remove" => q # p /\ prune'[q] = prune[q]
    BY <1>14
  <2>2. QED BY <1>18, <2>1, DoomedStays DEF Doomed
<1>20. now \in Nat /\ now >= now
  BY CapturesAssumption DEF StateOK
<1>21. \A i \in DOMAIN reqs : reqs[i].step = "saved" /\ Outlived(i) => Outlived(i)'
  <2>1. \A q \in Procs : prune[q].arg # None => prune'[q].arg = prune[q].arg
    BY <1>14
  <2>2. QED BY <1>1, <1>4, <1>20, <2>1, OutlivedStays
<1>22. SavedIsKept'
  BY <1>1, <1>3, <1>4, <1>6, <1>8, <1>21 DEF SavedIsKept
<1>23. \A i \in DOMAIN reqs : reqs[i].step \in Begun => reqs'[i].step \in Begun
  BY <1>4 DEF Begun
<1>24. DirsSourced'
  BY <1>1, <1>3, <1>6, <1>23 DEF DirsSourced
<1>25. Evolves
  BY <1>1, <1>3, <1>4, <1>6, <1>21, <1>23 DEF Evolves
<1>26. QED
  BY <1>9, <1>10, <1>11, <1>12, <1>13, <1>16, <1>17, <1>19, <1>22, <1>24, <1>25

\* What leaves the store alone: the steps of a load, or none.
LEMMA IdleInv ==
  ASSUME CapturesInv, UNCHANGED <<now, proxy, prune, dirs, files, reqs>>
  PROVE  CapturesInv' /\ Evolves
<1> USE DEF CapturesInv
<1>1. /\ \A i, j \in DOMAIN reqs : Clash(i, j)' <=> Clash(i, j)
      /\ \A i \in DOMAIN reqs : Alone(i)' <=> Alone(i)
  BY SameRequests
<1>2. \A i \in DOMAIN reqs : Outlived(i)' <=> Outlived(i)
  BY DEF Outlived
<1>3. StateOK' /\ TasksUp' /\ Recorded' /\ FilesInDirs' /\ DirsSourced'
  BY DEF StateOK, TasksUp, Recorded, FilesInDirs, DirsSourced
<1>4. FilesSourced' /\ OpenedIsEmpty' /\ SavedIsKept'
  BY <1>1, <1>2 DEF FilesSourced, OpenedIsEmpty, SavedIsKept
<1>5. now \in Nat /\ now >= now
  BY CapturesAssumption DEF StateOK
<1>6. Undisturbed
  BY <1>1 DEF Undisturbed
<1>7. PrunesOK' /\ Cutoffs' /\ Doomed'
  BY <1>5, <1>6, PrunesStay
<1>8. Evolves
  BY <1>2 DEF Evolves
<1>9. QED
  BY <1>3, <1>4, <1>7, <1>8

\* The steps of a load.
Loads ==
  \/ LoadBegins
  \/ load # None /\ ((\E dir \in load.dirs : LoadDir(dir)) \/ (\E f \in load.files : LoadFile(f)))
  \/ \E since \in SinceArgs : Replay(since)

LEMMA LoadsIdle ==
  ASSUME Loads
  PROVE  UNCHANGED <<now, proxy, prune, dirs, files, reqs>>
<1>1. CASE LoadBegins
  BY <1>1 DEF LoadBegins, store
<1>2. ASSUME NEW dir, LoadDir(dir) PROVE UNCHANGED <<now, proxy, prune, dirs, files, reqs>>
  BY <1>2 DEF LoadDir, store
<1>3. ASSUME NEW f, LoadFile(f) PROVE UNCHANGED <<now, proxy, prune, dirs, files, reqs>>
  BY <1>3 DEF LoadFile, store
<1>4. ASSUME NEW since, Replay(since) PROVE UNCHANGED <<now, proxy, prune, dirs, files, reqs>>
  BY <1>4 DEF Replay, store
<1>5. QED
  BY <1>1, <1>2, <1>3, <1>4 DEF Loads

\* The other steps keep the invariant, leave a load alone and clear `out`.
LEMMA StepCaptures ==
  ASSUME CapturesInv, [Next]_vars
  PROVE  /\ CapturesInv' /\ Evolves
         /\ Loads \/ (load' = load /\ out' = None) \/ UNCHANGED vars
<1> DEFINE Goal == /\ CapturesInv' /\ Evolves
                   /\ Loads \/ (load' = load /\ out' = None) \/ UNCHANGED vars
<1>1. ASSUME Tick PROVE Goal
  <2>1. load' = load /\ out' = None
    BY <1>1 DEF Tick
  <2>2. QED BY <1>1, <2>1, TickInv
<1>2. ASSUME NEW p \in Procs, NEW arg \in RetentionArgs, Start(p, arg) PROVE Goal
  <2>1. load' = load /\ out' = None
    BY <1>2 DEF Start
  <2>2. QED BY <1>2, <2>1, StartInv
<1>3. ASSUME NEW p \in Procs, NEW dir, PruneDir(p, dir) PROVE Goal
  <2>1. load' = load /\ out' = None
    BY <1>3 DEF PruneDir
  <2>2. QED BY <1>3, <2>1, PruneDirInv
<1>4. ASSUME NEW p \in Procs, NEW f, PruneRead(p, f) PROVE Goal
  <2>1. load' = load /\ out' = None
    BY <1>4 DEF PruneRead
  <2>2. QED BY <1>4, <2>1, PruneReadInv
<1>5. ASSUME NEW p \in Procs, PruneRemove(p) PROVE Goal
  <2>1. load' = load /\ out' = None
    BY <1>5 DEF PruneRemove
  <2>2. QED BY <1>5, <2>1, PruneRemoveInv
<1>6. ASSUME NEW p \in Procs, PruneLook(p) PROVE Goal
  <2>1. load' = load /\ out' = None
    BY <1>6 DEF PruneLook
  <2>2. QED BY <1>6, <2>1, PruneLookInv
<1>7. ASSUME NEW p \in Procs, PruneRmdir(p) PROVE Goal
  <2>1. load' = load /\ out' = None
    BY <1>7 DEF PruneRmdir
  <2>2. QED BY <1>7, <2>1, PruneRmdirInv
<1>8. ASSUME NEW p \in Procs, PruneEnds(p) PROVE Goal
  <2>1. load' = load /\ out' = None
    BY <1>8 DEF PruneEnds
  <2>2. QED BY <1>8, <2>1, PruneEndsInv
<1>9. ASSUME NEW p \in Procs, NEW w \in Who, NEW b \in Bodies, Arrive(p, w, b) PROVE Goal
  <2>1. load' = load /\ out' = None
    BY <1>9 DEF Arrive
  <2>2. QED BY <1>9, <2>1, ArriveInv
<1>10. ASSUME NEW p \in Procs, Kill(p) PROVE Goal
  <2>1. load' = load /\ out' = None
    BY <1>10 DEF Kill
  <2>2. QED BY <1>10, <2>1, KillInv
<1>11. ASSUME NEW i \in DOMAIN reqs, MakeDir(i) PROVE Goal
  <2>1. load' = load /\ out' = None
    BY <1>11 DEF MakeDir
  <2>2. QED BY <1>11, <2>1, MakeDirInv
<1>12. ASSUME NEW i \in DOMAIN reqs, OpenFile(i) PROVE Goal
  <2>1. load' = load /\ out' = None
    BY <1>12 DEF OpenFile
  <2>2. QED BY <1>12, <2>1, OpenFileInv
<1>13. ASSUME NEW i \in DOMAIN reqs, WriteFile(i) PROVE Goal
  <2>1. load' = load /\ out' = None
    BY <1>13 DEF WriteFile
  <2>2. QED BY <1>13, <2>1, WriteFileInv
<1>14. ASSUME NEW i \in DOMAIN reqs, WriteFails(i) PROVE Goal
  <2>1. /\ load' = load /\ out' = None /\ reqs[i].step # "saved"
        /\ reqs' = [reqs EXCEPT ![i].step = "failed"] /\ UNCHANGED <<now, proxy, prune, dirs, files>>
    BY <1>14 DEF WriteFails, store
  <2>2. QED BY <2>1, FailedInv
<1>15. ASSUME Loads PROVE Goal
  BY <1>15, LoadsIdle, IdleInv
<1>16. ASSUME UNCHANGED vars PROVE Goal
  BY <1>16, IdleInv DEF vars
<1> HIDE DEF Goal
<1>17. ASSUME \E p \in Procs :
              \/ \E arg \in RetentionArgs : Start(p, arg)
              \/ \E dir \in prune[p].dirs : PruneDir(p, dir)
              \/ \E f \in prune[p].files : PruneRead(p, f)
              \/ PruneRemove(p) \/ PruneLook(p) \/ PruneRmdir(p) \/ PruneEnds(p)
              \/ \E w \in Who, b \in Bodies : Arrive(p, w, b)
              \/ Kill(p)
       PROVE  Goal
  BY <1>2, <1>3, <1>4, <1>5, <1>6, <1>7, <1>8, <1>9, <1>10, <1>17
<1>18. ASSUME \E i \in DOMAIN reqs : MakeDir(i) \/ OpenFile(i) \/ WriteFile(i) \/ WriteFails(i)
       PROVE  Goal
  BY <1>11, <1>12, <1>13, <1>14, <1>18
<1>19. Goal
  BY <1>1, <1>15, <1>16, <1>17, <1>18 DEF Next, Loads
<1>20. QED
  BY <1>19 DEF Goal

\* What is stored of a request that was saved is at its path.
LEMMA StoredAt ==
  ASSUME CapturesInv, NEW i \in DOMAIN reqs, reqs[i].step = "saved", Stored(i)
  PROVE  /\ Path(reqs[i]) \in DOMAIN files /\ files[Path(reqs[i])] = reqs[i].rec
         /\ Path(reqs[i])[1] \in dirs
<1> USE DEF CapturesInv
<1>1. PICK f \in DOMAIN files : files[f] = reqs[i].rec
  BY DEF Stored
<1>2. reqs[i].rec \in CaptureRecords /\ reqs[i].rec.req = i
  BY DEF Recorded
<1>3. files[f] # Empty /\ files[f] # Garbled
  BY <1>1, <1>2, RecordAssumption
<1>4. PICK j \in DOMAIN reqs :
        files[f] = reqs[j].rec /\ Path(reqs[j]) = f /\ reqs[j].step = "saved"
  BY <1>3 DEF FilesSourced
<1>5. j = i
  BY <1>1, <1>2, <1>4 DEF Recorded
<1>6. QED
  BY <1>1, <1>4, <1>5 DEF FilesInDirs

\* What others do to the store leaves a load in order.
LEMMA LoadGoesBy ==
  ASSUME CapturesInv, LoadInv, Evolves, load' = load
  PROVE  LoadInv'
<1>1. SUFFICES ASSUME load # None PROVE LoadInv'
  BY DEF LoadInv
<1>2. /\ DOMAIN reqs \subseteq DOMAIN reqs'
      /\ \A i \in DOMAIN reqs :
           /\ Path(reqs'[i]) = Path(reqs[i])
           /\ reqs[i].step = "saved" => reqs'[i].step = "saved" /\ reqs'[i].rec = reqs[i].rec
           /\ reqs[i].step \in Begun => reqs'[i].step \in Begun
           /\ reqs[i].step = "saved" /\ Outlived(i) => Outlived(i)'
  BY DEF Evolves
<1>3. \A d \in load.dirs :
        \E i \in DOMAIN reqs' : Path(reqs'[i])[1] = d /\ reqs'[i].step \in Begun
  <2>1. SUFFICES ASSUME NEW d \in load.dirs
                 PROVE  \E i \in DOMAIN reqs' : Path(reqs'[i])[1] = d /\ reqs'[i].step \in Begun
    OBVIOUS
  <2>2. PICK i \in DOMAIN reqs : Path(reqs[i])[1] = d /\ reqs[i].step \in Begun
    BY <1>1 DEF LoadInv
  <2>3. i \in DOMAIN reqs' /\ Path(reqs'[i])[1] = d /\ reqs'[i].step \in Begun
    BY <1>2, <2>2
  <2>4. QED BY <2>3
<1>4. ASSUME NEW f \in load.files
      PROVE  \/ f \in DOMAIN files'
             \/ \E j \in DOMAIN reqs' :
                  reqs'[j].step = "saved" /\ Path(reqs'[j]) = f /\ Outlived(j)'
  <2>1. \/ f \in DOMAIN files'
        \/ \E j \in DOMAIN reqs : reqs[j].step = "saved" /\ Path(reqs[j]) = f /\ Outlived(j)
    BY <1>1, <1>4 DEF LoadInv, Evolves
  <2>2. QED BY <1>2, <2>1
<1>5. \A rec \in load.got :
        rec.req \in DOMAIN reqs' /\ reqs'[rec.req].step = "saved" /\ reqs'[rec.req].rec = rec
  BY <1>1, <1>2 DEF LoadInv
<1>6. load.before \subseteq {i \in DOMAIN reqs' : reqs'[i].step = "saved"}
  BY <1>1, <1>2 DEF LoadInv
<1>7. ASSUME NEW i \in load.before, Stored(i)'
      PROVE  \/ reqs'[i].rec \in load.got \/ Path(reqs'[i]) \in load.files
             \/ Path(reqs'[i])[1] \in load.dirs
  <2>1. i \in DOMAIN reqs /\ reqs[i].step = "saved"
    BY <1>1, <1>7 DEF LoadInv
  <2>2. Stored(i)
    BY <1>2, <1>7, <2>1 DEF Stored, Evolves
  <2>3. QED BY <1>1, <1>2, <1>7, <2>1, <2>2 DEF LoadInv
<1>8. load = [dirs |-> load.dirs, files |-> load.files, got |-> load.got, before |-> load.before]
  BY <1>1 DEF LoadInv
<1>9. QED
  BY <1>3, <1>4, <1>5, <1>6, <1>7, <1>8 DEF LoadInv

\* A load begins with all that is there.
LEMMA LoadBeginsInv ==
  ASSUME CapturesInv, LoadBegins
  PROVE  LoadInv'
<1>1. /\ load' = [dirs |-> dirs, files |-> {}, got |-> {},
                  before |-> {i \in DOMAIN reqs : reqs[i].step = "saved"}]
      /\ dirs' = dirs /\ files' = files /\ reqs' = reqs
  BY DEF LoadBegins, store
<1>2. /\ load'.dirs = dirs /\ load'.files = {} /\ load'.got = {}
      /\ load'.before = {i \in DOMAIN reqs : reqs[i].step = "saved"}
      /\ load' = [dirs |-> load'.dirs, files |-> load'.files, got |-> load'.got,
                  before |-> load'.before]
  BY <1>1
<1>3. \A d \in dirs : \E i \in DOMAIN reqs : Path(reqs[i])[1] = d /\ reqs[i].step \in Begun
  BY DEF CapturesInv, DirsSourced
<1>4. \A i \in load'.before : Stored(i)' => Path(reqs[i])[1] \in dirs
  <2>1. \A i : Stored(i)' <=> Stored(i)
    BY <1>1 DEF Stored
  <2>2. QED BY <1>2, <2>1, StoredAt
<1>5. QED
  BY <1>1, <1>2, <1>3, <1>4 DEF LoadInv

LEMMA LoadDirInv ==
  ASSUME CapturesInv, LoadInv, NEW dir, LoadDir(dir)
  PROVE  LoadInv'
<1>1. /\ load # None /\ load.files = {} /\ dir \in load.dirs
      /\ dirs' = dirs /\ files' = files /\ reqs' = reqs /\ prune' = prune /\ now' = now
  BY DEF LoadDir, store
<1>2. CASE dir \notin dirs
  BY <1>2 DEF LoadDir, LoadFails, LoadInv
<1>3. CASE dir \in dirs
  <2>1. load' = [load EXCEPT !.dirs = @ \ {dir}, !.files = FilesIn(dir)]
    BY <1>3 DEF LoadDir, LoadGoesOn
  <2>2. load = [dirs |-> load.dirs, files |-> load.files, got |-> load.got, before |-> load.before]
    BY <1>1 DEF LoadInv
  <2>3. /\ load'.dirs = load.dirs \ {dir} /\ load'.files = FilesIn(dir) /\ load'.got = load.got
        /\ load'.before = load.before
        /\ load' = [dirs |-> load'.dirs, files |-> load'.files, got |-> load'.got,
                    before |-> load'.before]
    BY <2>1, <2>2
  <2>4. \A d \in load'.dirs :
          \E i \in DOMAIN reqs : Path(reqs[i])[1] = d /\ reqs[i].step \in Begun
    BY <1>1, <2>3 DEF LoadInv
  <2>5. \A f \in load'.files : f \in DOMAIN files
    BY <2>3 DEF FilesIn
  <2>6. /\ \A rec \in load'.got :
             rec.req \in DOMAIN reqs /\ reqs[rec.req].step = "saved" /\ reqs[rec.req].rec = rec
        /\ load'.before \subseteq {i \in DOMAIN reqs : reqs[i].step = "saved"}
    BY <1>1, <2>3 DEF LoadInv
  <2>7. ASSUME NEW i \in load'.before, Stored(i)'
        PROVE  \/ reqs[i].rec \in load'.got \/ Path(reqs[i]) \in load'.files
               \/ Path(reqs[i])[1] \in load'.dirs
    <3>1. Stored(i)
      BY <1>1, <2>7 DEF Stored
    <3>2. i \in DOMAIN reqs /\ reqs[i].step = "saved"
      BY <2>6, <2>7
    <3>3. reqs[i].rec \in load.got \/ Path(reqs[i])[1] \in load.dirs
      BY <1>1, <2>3, <2>7, <3>1 DEF LoadInv
    <3>4. Path(reqs[i]) \in DOMAIN files
      BY <3>1, <3>2, StoredAt
    <3>5. QED BY <2>3, <3>3, <3>4 DEF FilesIn
  <2>8. QED BY <1>1, <2>3, <2>4, <2>5, <2>6, <2>7 DEF LoadInv
<1>4. QED
  BY <1>2, <1>3

LEMMA LoadFileInv ==
  ASSUME CapturesInv, LoadInv, NEW f, LoadFile(f)
  PROVE  LoadInv'
<1>1. /\ load # None /\ f \in load.files
      /\ dirs' = dirs /\ files' = files /\ reqs' = reqs /\ prune' = prune /\ now' = now
  BY DEF LoadFile, store
<1>2. CASE f \notin DOMAIN files \/ ~IsCapture(files[f])
  <2>1. load' = None
    BY <1>2 DEF LoadFile, LoadFails
  <2>2. QED BY <2>1 DEF LoadInv
<1>3. CASE f \in DOMAIN files /\ IsCapture(files[f])
  <2>1. load' = [load EXCEPT !.files = @ \ {f}, !.got = @ \cup {files[f]}]
    BY <1>3 DEF LoadFile, LoadGoesOn
  <2>2. load = [dirs |-> load.dirs, files |-> load.files, got |-> load.got, before |-> load.before]
    BY <1>1 DEF LoadInv
  <2>3. /\ load'.dirs = load.dirs /\ load'.files = load.files \ {f}
        /\ load'.got = load.got \cup {files[f]} /\ load'.before = load.before
        /\ load' = [dirs |-> load'.dirs, files |-> load'.files, got |-> load'.got,
                    before |-> load'.before]
    BY <2>1, <2>2
  <2>4. \A d \in load'.dirs :
          \E i \in DOMAIN reqs : Path(reqs[i])[1] = d /\ reqs[i].step \in Begun
    BY <1>1, <2>3 DEF LoadInv
  <2>5. \A g \in load'.files :
          \/ g \in DOMAIN files
          \/ \E j \in DOMAIN reqs : reqs[j].step = "saved" /\ Path(reqs[j]) = g /\ Outlived(j)
    BY <1>1, <2>3 DEF LoadInv
  <2>6. \A j \in DOMAIN reqs : Outlived(j)' <=> Outlived(j)
    BY <1>1 DEF Outlived
  <2>7. PICK j \in DOMAIN reqs : files[f] = reqs[j].rec /\ reqs[j].step = "saved"
    BY <1>3 DEF CapturesInv, FilesSourced, IsCapture
  <2>8. files[f].req = j
    BY <2>7 DEF CapturesInv, Recorded
  <2>9. /\ \A rec \in load'.got :
             rec.req \in DOMAIN reqs /\ reqs[rec.req].step = "saved" /\ reqs[rec.req].rec = rec
        /\ load'.before \subseteq {i \in DOMAIN reqs : reqs[i].step = "saved"}
    BY <1>1, <2>3, <2>7, <2>8 DEF LoadInv
  <2>10. ASSUME NEW i \in load'.before, Stored(i)'
         PROVE  \/ reqs[i].rec \in load'.got \/ Path(reqs[i]) \in load'.files
                \/ Path(reqs[i])[1] \in load'.dirs
    <3>1. Stored(i)
      BY <1>1, <2>10 DEF Stored
    <3>2. i \in DOMAIN reqs /\ reqs[i].step = "saved"
      BY <2>9, <2>10
    <3>3. files[Path(reqs[i])] = reqs[i].rec
      BY <3>1, <3>2, StoredAt
    <3>4. \/ reqs[i].rec \in load.got \/ Path(reqs[i]) \in load.files
          \/ Path(reqs[i])[1] \in load.dirs
      BY <1>1, <2>3, <2>10, <3>1 DEF LoadInv
    <3>5. QED BY <2>3, <3>3, <3>4
  <2>11. QED BY <1>1, <2>3, <2>4, <2>5, <2>6, <2>9, <2>10 DEF LoadInv
<1>4. QED
  BY <1>2, <1>3

\* The two invariants together are kept by every step.
LEMMA StepLoad ==
  CapturesInv /\ LoadInv /\ [Next]_vars => CapturesInv' /\ LoadInv'
<1>1. SUFFICES ASSUME CapturesInv, LoadInv, [Next]_vars PROVE CapturesInv' /\ LoadInv'
  OBVIOUS
<1>2. /\ CapturesInv' /\ Evolves
      /\ Loads \/ (load' = load /\ out' = None) \/ UNCHANGED vars
  BY <1>1, StepCaptures
<1>3. CASE load' = load
  BY <1>1, <1>2, <1>3, LoadGoesBy
<1>4. CASE Loads
  <2>1. CASE \E since \in SinceArgs : Replay(since)
    <3>1. load' = None
      BY <2>1 DEF Replay
    <3>2. QED BY <1>2, <3>1 DEF LoadInv
  <2>2. QED
    BY <1>1, <1>2, <1>4, <2>1, LoadBeginsInv, LoadDirInv, LoadFileInv DEF Loads
<1>5. QED
  BY <1>2, <1>3, <1>4 DEF vars

-----------------------------------------------------------------------------
\* The strengthened invariants of the capture store and of a load hold of every
\* reachable state.
THEOREM CapturesInvariant == Spec => [](CapturesInv /\ LoadInv)
<1>1. Init => CapturesInv /\ LoadInv
  BY InitCaptures
<1>2. CapturesInv /\ LoadInv /\ [Next]_vars => CapturesInv' /\ LoadInv'
  BY StepLoad
<1>3. QED
  BY <1>1, <1>2, PTL DEF Spec

\* Type correctness: every file lies in a directory there is, at the path of
\* the request whose record it holds, and only a proxy that is pruning has a
\* prune to do, and only one that is up has saves to do.
THEOREM CapturesTypeCorrect == Spec => []TypeOK
<1>1. CapturesInv => TypeOK
  <2>1. SUFFICES ASSUME CapturesInv PROVE TypeOK
    OBVIOUS
  <2> USE DEF CapturesInv
  <2>2. \A f \in DOMAIN files :
          f[1] \in dirs /\ (IsCapture(files[f]) => Path(reqs[files[f].req]) = f)
    BY <2>1 DEF FilesInDirs, FilesSourced, Recorded, IsCapture
  <2>3. \A i \in DOMAIN reqs : reqs[i].step \in Steps
    BY <2>1, RequestType DEF Request
  <2>4. \A p \in Procs :
          /\ prune[p].arg \in RetentionArgs \cup {None}
          /\ prune[p].step \in {"idle", "list", "scan", "remove", "rmdir"}
          /\ proxy[p] = "pruning" <=> prune[p].step # "idle"
    BY <2>1 DEF PrunesOK, PruneSteps
  <2>5. now \in Moments /\ proxy \in [Procs -> {"new", "pruning", "up", "dead"}]
    BY <2>1 DEF StateOK, ProxySteps
  <2>6. QED BY <2>1, <2>2, <2>3, <2>4, <2>5 DEF TypeOK, TasksUp, Steps
<1>2. QED
  BY <1>1, CapturesInvariant, PTL

\* What save reported as saved is in the store with its own body, for any
\* number of proxies and requests saving and pruning at once, until it has
\* outlived the retention of a proxy that was started, unless two requests had
\* one file name (save, capture_id, prune).
THEOREM SavesAreKept == Spec => []SavedIsStored
<1>1. CapturesInv => SavedIsStored
  BY DEF CapturesInv, SavedIsKept, SavedIsStored, Stored, Alone
<1>2. QED
  BY <1>1, CapturesInvariant, PTL

\* Files are removed by PruneRemove alone.
LEMMA OnlyRemoved ==
  ASSUME Next, NEW f \in DOMAIN files \ DOMAIN files'
  PROVE  \E p \in Procs : PruneRemove(p) /\ prune[p].file \in DOMAIN files /\ f = prune[p].file
<1>1. ASSUME NEW p \in Procs, PruneRemove(p)
      PROVE  prune[p].file \in DOMAIN files /\ f = prune[p].file
  BY <1>1 DEF PruneRemove
<1>2. ASSUME \E p \in Procs :
               \/ \E arg \in RetentionArgs : Start(p, arg)
               \/ \E dir \in prune[p].dirs : PruneDir(p, dir)
               \/ \E g \in prune[p].files : PruneRead(p, g)
               \/ PruneLook(p) \/ PruneRmdir(p) \/ PruneEnds(p)
               \/ \E w \in Who, b \in Bodies : Arrive(p, w, b)
               \/ Kill(p)
      PROVE  FALSE
  <2>1. files' = files
    BY <1>2 DEF Start, PruneDir, PruneRead, PruneLook, PruneRmdir, PruneEnds, Arrive, Kill, store
  <2>2. QED BY <2>1
<1>3. ASSUME NEW i \in DOMAIN reqs, MakeDir(i) \/ OpenFile(i) \/ WriteFile(i) \/ WriteFails(i)
      PROVE  FALSE
  <2>1. DOMAIN files \subseteq DOMAIN files'
    BY <1>3 DEF MakeDir, OpenFile, WriteFile, WriteFails, store
  <2>2. QED BY <2>1
<1>4. ASSUME Tick \/ Loads PROVE FALSE
  <2>1. files' = files
    BY <1>4, LoadsIdle DEF Tick, store
  <2>2. QED BY <2>1
<1>5. QED
  BY <1>1, <1>2, <1>3, <1>4 DEF Next, Loads

\* A file goes only because a proxy prunes, and only if it holds a capture that
\* is older than what this very proxy promises to keep (prune, parse_retention
\* and the default of run), or the path of requests that clash.
THEOREM PruneSparesTheYoungHolds == Spec => PruneSparesTheYoung
<1> DEFINE Spared ==
      \A f \in DOMAIN files \ DOMAIN files' :
        \/ \E i, j \in DOMAIN reqs : Clash(i, j) /\ Path(reqs[i]) = f
        \/ \E p \in Procs :
             /\ prune'[p] # prune[p] /\ prune[p].arg # None
             /\ IsCapture(files[f]) /\ files[f].ts + Promised(prune[p].arg) < now
<1>1. CapturesInv /\ [Next]_vars => [Spared]_vars
  <2>1. SUFFICES ASSUME CapturesInv, Next, NEW f \in DOMAIN files \ DOMAIN files'
                 PROVE  \/ \E i, j \in DOMAIN reqs : Clash(i, j) /\ Path(reqs[i]) = f
                        \/ \E p \in Procs :
                             /\ prune'[p] # prune[p] /\ prune[p].arg # None
                             /\ IsCapture(files[f])
                             /\ files[f].ts + Promised(prune[p].arg) < now
    OBVIOUS
  <2>2. PICK p \in Procs : PruneRemove(p) /\ prune[p].file \in DOMAIN files /\ f = prune[p].file
    BY <2>1, OnlyRemoved
  <2>3. prune[p].step = "remove"
        /\ prune' = [prune EXCEPT ![p] = [prune[p] EXCEPT !.step = "scan", !.file = None]]
    BY <2>2 DEF PruneRemove, PruneGoesOn
  <2>4. prune'[p] # prune[p]
    <3>1. prune = [q \in Procs |-> prune[q]] /\ DOMAIN prune[p] = PruneFields
      BY <2>1 DEF CapturesInv, PrunesOK
    <3>2. DOMAIN prune = Procs /\ "step" \in DOMAIN prune[p]
      BY <3>1 DEF PruneFields
    <3>3. prune'[p].step = "scan"
      BY <2>3, <3>2
    <3>4. QED BY <2>3, <3>3
  <2>5. PICK j \in DOMAIN reqs :
          /\ reqs[j].step = "saved" /\ Path(reqs[j]) = prune[p].file
          /\ reqs[j].rec.ts + Promised(prune[p].arg) < now /\ prune[p].arg # None
          /\ Alone(j) /\ prune[p].file \in DOMAIN files => files[prune[p].file] = reqs[j].rec
    BY <2>1, <2>3, RemovedFacts
  <2>6. CASE Alone(j)
    <3>1. files[f] = reqs[j].rec /\ IsCapture(files[f])
      BY <2>1, <2>2, <2>5, <2>6, RecordAssumption DEF CapturesInv, Recorded, IsCapture
    <3>2. QED BY <2>4, <2>5, <3>1
  <2>7. CASE ~Alone(j)
    BY <2>2, <2>5, <2>7 DEF Alone
  <2>8. QED BY <2>6, <2>7
<1>2. QED
  BY <1>1, CapturesInvariant, PTL DEF Spec, PruneSparesTheYoung

-----------------------------------------------------------------------------
\* How a step of a load may end it.
LEMMA LoadEnds ==
  ASSUME Loads
  PROVE  \/ out' = None \/ out' = [error |-> "since"]
         \/ /\ load # None
            /\ \/ \E dir \in load.dirs : dir \notin dirs /\ out' = Gone(dir, None)
               \/ \E f \in load.files : f \notin DOMAIN files /\ out' = Gone(f[1], f[2])
               \/ \E f \in load.files :
                    f \in DOMAIN files /\ ~IsCapture(files[f]) /\ out' = [error |-> "torn"]
         \/ /\ load # None /\ load.dirs = {} /\ load.files = {}
            /\ \E recs \in LoadOrders(load.got) : \E from :
                 LET sample == SampleCaptures(recs, from)
                 IN  out' = [error |-> None, from |-> from, rows |-> ReplayRows(sample),
                             taken |-> {sample[k] : k \in DOMAIN sample},
                             got |-> load.got, before |-> load.before]
<1>1. CASE LoadBegins
  BY <1>1 DEF LoadBegins
<1>2. CASE load # None /\ \E dir \in load.dirs : LoadDir(dir)
  BY <1>2 DEF LoadDir, LoadGoesOn, LoadFails
<1>3. CASE load # None /\ \E f \in load.files : LoadFile(f)
  BY <1>3 DEF LoadFile, LoadGoesOn, LoadFails
<1>4. CASE \E since \in SinceArgs : Replay(since)
  BY <1>4 DEF Replay
<1>5. QED
  BY <1>1, <1>2, <1>3, <1>4 DEF Loads

\* load_all fails only for the reasons that LoadFailureIsExplained gives.
THEOREM LoadFailuresExplained == Spec => []LoadFailureIsExplained
<1>1. Init => LoadFailureIsExplained
  BY DEF Init, LoadFailureIsExplained
<1>2. CapturesInv /\ LoadInv /\ LoadFailureIsExplained /\ [Next]_vars => LoadFailureIsExplained'
  <2>1. SUFFICES ASSUME CapturesInv, LoadInv, LoadFailureIsExplained, [Next]_vars
                 PROVE  LoadFailureIsExplained'
    OBVIOUS
  <2>2. CASE out' = None
    BY <2>2 DEF LoadFailureIsExplained
  <2>3. CASE UNCHANGED vars
    <3>1. \A i, j \in DOMAIN reqs : Clash(i, j)' <=> Clash(i, j)
      BY <2>3 DEF vars, Clash
    <3>2. \A i \in DOMAIN reqs : Outlived(i)' <=> Outlived(i)
      BY <2>3 DEF vars, Outlived
    <3>3. out' = out /\ reqs' = reqs
      BY <2>3 DEF vars
    <3>4. QED BY <2>1, <3>1, <3>2, <3>3 DEF LoadFailureIsExplained
  <2>4. CASE Loads
    <3>1. UNCHANGED <<now, proxy, prune, dirs, files, reqs>>
      BY <2>4, LoadsIdle
    <3>2. /\ \A i, j \in DOMAIN reqs : Clash(i, j)' <=> Clash(i, j)
          /\ \A i \in DOMAIN reqs : Outlived(i)' <=> Outlived(i)
      BY <3>1 DEF Clash, Outlived
    <3>3. ASSUME load # None, NEW dir \in load.dirs, dir \notin dirs, out' = Gone(dir, None)
          PROVE  LoadFailureIsExplained'
      <4>1. out'.error = "gone" /\ out'.dir = dir /\ out'.id = None
        BY <3>3 DEF Gone
      <4>2. PICK i \in DOMAIN reqs : Path(reqs[i])[1] = dir /\ reqs[i].step \in Begun
        BY <2>1, <3>3 DEF LoadInv
      <4>3. \A f \in DOMAIN files : f[1] # dir
        BY <2>1, <3>3 DEF CapturesInv, FilesInDirs
      <4>4. Path(reqs[i]) \notin DOMAIN files
        BY <4>2, <4>3
      <4>5. \/ reqs[i].step = "saved" /\ Outlived(i)
            \/ \E j \in DOMAIN reqs : Clash(i, j)
            \/ reqs[i].step \in {"made", "failed"}
        BY <2>1, <4>2, <4>4 DEF CapturesInv, OpenedIsEmpty, SavedIsKept, Alone, Begun
      <4>6. QED BY <3>1, <3>2, <4>1, <4>2, <4>5 DEF LoadFailureIsExplained
    <3>4. ASSUME load # None, NEW f \in load.files, f \notin DOMAIN files, out' = Gone(f[1], f[2])
          PROVE  LoadFailureIsExplained'
      <4>1. out'.error = "gone" /\ out'.dir = f[1] /\ out'.id = f[2]
        BY <3>4 DEF Gone
      <4>2. PICK j \in DOMAIN reqs : reqs[j].step = "saved" /\ Path(reqs[j]) = f /\ Outlived(j)
        BY <2>1, <3>4 DEF LoadInv
      <4>3. QED BY <3>1, <3>2, <4>1, <4>2 DEF LoadFailureIsExplained
    <3>5. ASSUME NEW f \in DOMAIN files, ~IsCapture(files[f]), out' = [error |-> "torn"]
          PROVE  LoadFailureIsExplained'
      <4>1. out'.error = "torn"
        BY <3>5
      <4>2. \A i \in DOMAIN reqs : reqs[i].step = "saved" => IsCapture(reqs[i].rec)
        BY <2>1, RecordAssumption DEF CapturesInv, Recorded, IsCapture
      <4>3. \E i \in DOMAIN reqs :
              reqs[i].step \in {"opened", "failed"} \/ \E j \in DOMAIN reqs : Clash(i, j)
        BY <2>1, <3>5, <4>2 DEF CapturesInv, FilesSourced
      <4>4. QED BY <3>1, <3>2, <4>1, <4>3 DEF LoadFailureIsExplained
    <3>6. ASSUME out'.error \in {"since", None} PROVE LoadFailureIsExplained'
      BY <3>6, CapturesAssumption DEF LoadFailureIsExplained
    <3>7. QED BY <2>2, <2>4, <3>3, <3>4, <3>5, <3>6, LoadEnds
  <2>5. QED BY <2>1, <2>2, <2>3, <2>4, StepCaptures
<1>3. QED
  BY <1>1, <1>2, CapturesInvariant, PTL DEF Spec

\* What replay has loaded was saved as it is, and among it is all that was saved
\* before and still is stored, whatever others saved and pruned meanwhile
\* (load_all).
THEOREM LoadsSeeWhatStays == Spec => []LoadSeesWhatStays
<1>1. Init => LoadSeesWhatStays
  BY DEF Init, LoadSeesWhatStays
<1>2. CapturesInv /\ LoadInv /\ LoadSeesWhatStays /\ [Next]_vars => LoadSeesWhatStays'
  <2>1. SUFFICES ASSUME CapturesInv, LoadInv, LoadSeesWhatStays, [Next]_vars
                 PROVE  LoadSeesWhatStays'
    OBVIOUS
  <2>2. CASE out' = None
    BY <2>2 DEF LoadSeesWhatStays
  <2>3. CASE UNCHANGED vars
    <3>1. \A i : Stored(i)' <=> Stored(i)
      BY <2>3 DEF vars, Stored
    <3>2. out' = out /\ reqs' = reqs
      BY <2>3 DEF vars
    <3>3. QED BY <2>1, <3>1, <3>2 DEF LoadSeesWhatStays
  <2>4. CASE Loads
    <3>1. UNCHANGED <<now, proxy, prune, dirs, files, reqs>>
      BY <2>4, LoadsIdle
    <3>2. \A i : Stored(i)' <=> Stored(i)
      BY <3>1 DEF Stored
    <3>3. ASSUME out'.error \in {"gone", "torn", "since"} PROVE LoadSeesWhatStays'
      BY <3>3, CapturesAssumption DEF LoadSeesWhatStays
    <3>4. ASSUME load # None, load.dirs = {}, load.files = {},
                 out'.got = load.got, out'.before = load.before
          PROVE  LoadSeesWhatStays'
      <4>1. \A rec \in load.got :
              rec.req \in DOMAIN reqs /\ reqs[rec.req].step = "saved" /\ reqs[rec.req].rec = rec
        BY <2>1, <3>4 DEF LoadInv
      <4>2. \A i \in load.before : Stored(i) => reqs[i].rec \in load.got
        BY <2>1, <3>4 DEF LoadInv
      <4>3. QED BY <3>1, <3>2, <3>4, <4>1, <4>2 DEF LoadSeesWhatStays
    <3>5. QED BY <2>2, <2>4, <3>3, <3>4, LoadEnds DEF Gone
  <2>5. QED BY <2>1, <2>2, <2>3, <2>4, StepCaptures
<1>3. QED
  BY <1>1, <1>2, CapturesInvariant, PTL DEF Spec

-----------------------------------------------------------------------------
(* What replay takes. *)

LEMMA MinOfTwo ==
  ASSUME NEW a \in Nat, NEW b \in Nat
  PROVE  Min({a, b}) = IF a <= b THEN a ELSE b
BY DEF Min

\* A set that a function numbers one to one has as many elements.
LEMMA Counted ==
  ASSUME NEW S, IsFiniteSet(S), NEW T, NEW f \in [S -> T],
         \A x, y \in S : f[x] = f[y] => x = y,
         \A t \in T : \E x \in S : f[x] = t
  PROVE  IsFiniteSet(T) /\ Cardinality(T) = Cardinality(S)
<1>1. f \in Surjection(S, T) /\ f \in Injection(S, T)
  BY DEF Surjection, Injection, IsInjective
<1>2. QED
  BY <1>1, FS_Surjection

\* The sort gives each position that is kept a place of its own, from 1 to
\* their number.
LEMMA Places ==
  ASSUME NEW recs, NEW n \in Nat, NEW kept \in SUBSET (1..n),
         \A i \in kept : recs[i].ts \in Nat
  PROVE  /\ IsFiniteSet(kept) /\ Cardinality(kept) \in Nat
         /\ \A i \in kept : Place(recs, kept, i) \in 1..Cardinality(kept)
         /\ \A i, j \in kept :
              NewestFirst(recs, i, j) => Place(recs, kept, i) < Place(recs, kept, j)
         /\ \A k \in 1..Cardinality(kept) : \E i \in kept : Place(recs, kept, i) = k
<1> DEFINE before(i) == {j \in kept : NewestFirst(recs, j, i)}
<1>1. IsFiniteSet(kept) /\ Cardinality(kept) \in Nat
  <2>1. IsFiniteSet(1..n)
    BY FS_Interval
  <2>2. IsFiniteSet(kept)
    BY <2>1, FS_Subset
  <2>3. QED BY <2>2, FS_CardinalityType
<1> DEFINE ts(i) == recs[i].ts
<1>2. \A i \in kept : i \in Int /\ ts(i) \in Int
  OBVIOUS
<1>3. \A i, j \in kept : NewestFirst(recs, i, j) <=> ts(i) > ts(j) \/ (ts(i) = ts(j) /\ i < j)
  BY DEF NewestFirst
<1> HIDE DEF ts
<1>4. \A i \in kept : before(i) \in SUBSET kept
  OBVIOUS
<1>5. \A i \in kept : IsFiniteSet(before(i)) /\ Cardinality(before(i)) \in Nat
  BY <1>1, <1>4, FS_Subset, FS_CardinalityType
<1>6. \A i \in kept : Place(recs, kept, i) = 1 + Cardinality(before(i))
  BY DEF Place
<1>7. \A i \in kept : i \notin before(i)
  BY <1>2, <1>3
<1>8. ASSUME NEW i \in kept PROVE Place(recs, kept, i) \in 1..Cardinality(kept)
  <2>1. Cardinality(before(i)) <= Cardinality(kept) /\ Cardinality(before(i)) # Cardinality(kept)
    BY <1>1, <1>4, <1>7, <1>8, FS_Subset
  <2>2. QED BY <1>1, <1>5, <1>6, <1>8, <2>1
<1>9. ASSUME NEW i \in kept, NEW j \in kept, NewestFirst(recs, i, j)
      PROVE  Place(recs, kept, i) < Place(recs, kept, j)
  <2>1. before(i) \in SUBSET before(j)
    <3>1. ASSUME NEW x \in before(i) PROVE NewestFirst(recs, x, j)
      <4>1. x \in kept /\ NewestFirst(recs, x, i)
        BY <3>1
      <4>2. x \in Int /\ i \in Int /\ j \in Int /\ ts(x) \in Int /\ ts(i) \in Int /\ ts(j) \in Int
        BY <1>2, <1>9, <4>1
      <4>3. ts(x) > ts(i) \/ (ts(x) = ts(i) /\ x < i)
        BY <1>3, <1>9, <4>1
      <4>4. ts(i) > ts(j) \/ (ts(i) = ts(j) /\ i < j)
        BY <1>3, <1>9
      <4>5. ts(x) > ts(j) \/ (ts(x) = ts(j) /\ x < j)
        BY <4>2, <4>3, <4>4
      <4>6. QED BY <1>3, <1>9, <4>1, <4>5
    <3>2. QED BY <3>1
  <2>2. before(i) # before(j)
    BY <1>7, <1>9
  <2>3. Cardinality(before(i)) <= Cardinality(before(j))
        /\ Cardinality(before(i)) # Cardinality(before(j))
    BY <1>5, <1>9, <2>1, <2>2, FS_Subset
  <2>4. /\ Place(recs, kept, i) = 1 + Cardinality(before(i)) /\ Cardinality(before(i)) \in Nat
        /\ Place(recs, kept, j) = 1 + Cardinality(before(j)) /\ Cardinality(before(j)) \in Nat
    BY <1>5, <1>6, <1>9
  <2> HIDE DEF before
  <2>5. QED BY <2>3, <2>4
<1>10. \A k \in 1..Cardinality(kept) : \E i \in kept : Place(recs, kept, i) = k
  <2> DEFINE f == [i \in kept |-> Place(recs, kept, i)]
             places == 1..Cardinality(kept)
  <2>1. f \in [kept -> places]
    BY <1>8
  <2>2. \A i, j \in kept : f[i] = f[j] => i = j
    <3>1. SUFFICES ASSUME NEW i \in kept, NEW j \in kept, i # j
                   PROVE  Place(recs, kept, i) # Place(recs, kept, j)
      OBVIOUS
    <3>2. NewestFirst(recs, i, j) \/ NewestFirst(recs, j, i)
      BY <1>2, <1>3, <3>1
    <3>3. /\ Place(recs, kept, i) \in 1..Cardinality(kept)
          /\ Place(recs, kept, j) \in 1..Cardinality(kept)
      BY <1>8, <3>1
    <3>4. Place(recs, kept, i) < Place(recs, kept, j) \/ Place(recs, kept, j) < Place(recs, kept, i)
      BY <1>9, <3>1, <3>2
    <3>5. QED BY <1>1, <3>3, <3>4
  <2>3. f \in Injection(kept, places)
    BY <2>1, <2>2 DEF Injection, IsInjective
  <2>4. IsFiniteSet(places) /\ Cardinality(places) = Cardinality(kept)
    BY <1>1, FS_Interval
  <2>5. f \in Surjection(kept, places)
    BY <2>3, <2>4, FS_Injection
  <2>6. QED BY <2>5 DEF Surjection
<1>11. QED
  BY <1>1, <1>8, <1>9, <1>10

\* The sample is drawn from the positions that are kept, none of them twice, and
\* what is left out is no newer than what is drawn.
Drawn(recs, kept, sample, at) ==
  LET m == Min({SampleSize, Cardinality(kept)})
  IN  /\ m \in Nat /\ DOMAIN sample = 1..m /\ at \in [1..m -> kept]
      /\ \A k \in 1..m : sample[k] = recs[at[k]]
      /\ \A k, l \in 1..m : at[k] = at[l] => k = l
      /\ \A k \in 1..m, j \in kept :
           (\A l \in 1..m : at[l] # j) => recs[at[k]].ts >= recs[j].ts

LEMMA Sampled ==
  ASSUME NEW recs, NEW n \in Nat, DOMAIN recs = 1..n, NEW since,
         \A i \in 1..n : recs[i].ts \in Nat
  PROVE  \E at : Drawn(recs, Kept(recs, since), SampleCaptures(recs, since), at)
<1> DEFINE kept == Kept(recs, since)
           sample == SampleCaptures(recs, since)
           m == Min({SampleSize, Cardinality(kept)})
           at == [k \in 1..m |-> CHOOSE i \in kept : Place(recs, kept, i) = k]
<1>1. kept \in SUBSET (1..n)
  BY DEF Kept
<1>2. /\ Cardinality(kept) \in Nat
      /\ \A i \in kept : Place(recs, kept, i) \in 1..Cardinality(kept)
      /\ \A i, j \in kept :
           NewestFirst(recs, i, j) => Place(recs, kept, i) < Place(recs, kept, j)
      /\ \A k \in 1..Cardinality(kept) : \E i \in kept : Place(recs, kept, i) = k
  BY <1>1, Places
<1>3. m \in Nat /\ m <= Cardinality(kept)
  BY <1>2, CapturesAssumption, MinOfTwo
<1>4. sample = [k \in 1..m |-> recs[CHOOSE i \in kept : Place(recs, kept, i) = k]]
  BY DEF SampleCaptures
<1> HIDE DEF kept, sample, m
<1>5. \A k \in 1..m : at[k] \in kept /\ Place(recs, kept, at[k]) = k
  <2>1. \A k \in 1..m : \E i \in kept : Place(recs, kept, i) = k
    BY <1>2, <1>3
  <2>2. QED BY <2>1
<1>6. DOMAIN sample = 1..m /\ \A k \in 1..m : sample[k] = recs[at[k]]
  BY <1>4
<1>7. at \in [1..m -> kept]
  BY <1>5
<1> HIDE DEF at
<1>8. \A k, l \in 1..m : at[k] = at[l] => k = l
  BY <1>5
<1>9. ASSUME NEW k \in 1..m, NEW j \in kept, \A l \in 1..m : at[l] # j,
             recs[at[k]].ts < recs[j].ts
      PROVE  FALSE
  <2>1. at[k] \in kept /\ Place(recs, kept, at[k]) = k
    BY <1>5, <1>9
  <2>2. Place(recs, kept, j) < k
    BY <1>2, <1>9, <2>1 DEF NewestFirst
  <2>3. Place(recs, kept, j) \in 1..m
    BY <1>2, <1>3, <1>9, <2>2
  <2> DEFINE l == Place(recs, kept, j)
  <2>4. at[l] \in kept /\ Place(recs, kept, at[l]) = l /\ at[l] # j
    BY <1>5, <1>9, <2>3
  <2>5. at[l] \in 1..n /\ j \in 1..n
    BY <1>1, <1>9, <2>4 DEF kept
  <2>6. NewestFirst(recs, at[l], j) \/ NewestFirst(recs, j, at[l])
    BY <2>4, <2>5 DEF NewestFirst
  <2>7. l \in Nat
    BY <2>3
  <2>8. QED BY <1>2, <1>9, <2>4, <2>6, <2>7
<1>10. \A k \in 1..m, j \in kept :
         (\A l \in 1..m : at[l] # j) => recs[at[k]].ts >= recs[j].ts
  BY <1>1, <1>7, <1>9 DEF kept
<1>11. QED
  BY <1>3, <1>6, <1>7, <1>8, <1>10 DEF Drawn, kept, sample, m

\* collapse counts a row once for each sampled capture of its shape and each
\* time its model is named.
LEMMA RowCounts ==
  ASSUME NEW sample, NEW m \in Nat, DOMAIN sample = 1..m,
         NEW c \in DOMAIN ReplayRows(sample)
  PROVE  ReplayRows(sample)[c] =
           Cardinality({i \in 1..m : Shape(sample[i]) = c[1]})
             * Cardinality({k \in DOMAIN Models : Models[k] = c[2]})
<1> DEFINE hits == (DOMAIN sample) \X (DOMAIN Models)
           key(h) == <<Shape(sample[h[1]]), Models[h[2]]>>
           mine == {h \in hits : key(h) = c}
           A == {i \in 1..m : Shape(sample[i]) = c[1]}
           B == {k \in DOMAIN Models : Models[k] = c[2]}
<1>1. c \in {key(h) : h \in hits} /\ ReplayRows(sample)[c] = Cardinality(mine)
  BY DEF ReplayRows
<1>2. c = <<c[1], c[2]>>
  BY <1>1
<1>3. mine = A \X B
  <2>1. ASSUME NEW h \in mine PROVE h \in A \X B
    BY <2>1
  <2>2. ASSUME NEW h \in A \X B PROVE h \in mine
    BY <1>2, <2>2
  <2>3. QED BY <2>1, <2>2
<1>4. IsFiniteSet(A)
  <2>1. A \in SUBSET (1..m) /\ IsFiniteSet(1..m)
    BY FS_Interval
  <2>2. QED BY <2>1, FS_Subset
<1>5. IsFiniteSet(B)
  <2>1. DOMAIN Models = 1..Len(Models) /\ Len(Models) \in Nat
    BY CapturesAssumption, LenProperties
  <2>2. IsFiniteSet(DOMAIN Models)
    BY <2>1, FS_Interval
  <2>3. B \in SUBSET DOMAIN Models
    OBVIOUS
  <2>4. QED BY <2>2, <2>3, FS_Subset
<1>6. QED
  BY <1>1, <1>3, <1>4, <1>5, FS_Product

-----------------------------------------------------------------------------
\* What a load has read: captures, each of a request of its own.
LEMMA GotFacts ==
  ASSUME CapturesInv, LoadInv, load # None
  PROVE  IsFiniteSet(load.got) /\ load.got \subseteq CaptureRecords
<1>1. \A a \in load.got :
        a.req \in DOMAIN reqs /\ reqs[a.req].step = "saved" /\ reqs[a.req].rec = a
  BY DEF LoadInv
<1>2. load.got \subseteq CaptureRecords
  BY <1>1 DEF CapturesInv, Recorded
<1>3. IsFiniteSet(load.got)
  <2> DEFINE got == load.got
             g == [a \in got |-> a.req]
  <2>1. g \in Injection(got, DOMAIN reqs)
    BY <1>1 DEF Injection, IsInjective
  <2>2. DOMAIN reqs = 1..Len(reqs) /\ Len(reqs) \in Nat
    BY LenProperties DEF CapturesInv, StateOK
  <2>3. IsFiniteSet(DOMAIN reqs)
    BY <2>2, FS_Interval
  <2>4. QED BY <2>1, <2>3, FS_Injection
<1>4. QED
  BY <1>2, <1>3

\* An order that load_all may give the captures has each of them once.
LEMMA OrderFacts ==
  ASSUME NEW got, IsFiniteSet(got), NEW recs \in LoadOrders(got)
  PROVE  /\ Cardinality(got) \in Nat /\ recs \in [1..Cardinality(got) -> got]
         /\ \A i, j \in 1..Cardinality(got) : recs[i] = recs[j] => i = j
         /\ \A rec \in got : \E i \in 1..Cardinality(got) : recs[i] = rec
<1> DEFINE n == Cardinality(got)
<1>1. IsFiniteSet(got) /\ n \in Nat
  BY FS_CardinalityType
<1>2. recs \in SetToSeqs(got)
  BY DEF LoadOrders
<1>3. recs \in [1..n -> got] /\ \A i, j \in 1..n : recs[i] = recs[j] => i = j
  BY <1>2 DEF SetToSeqs
<1>4. IsFiniteSet(1..n) /\ Cardinality(1..n) = n
  BY <1>1, FS_Interval
<1>5. recs \in Injection(1..n, got)
  BY <1>3 DEF Injection, IsInjective
<1>6. recs \in Surjection(1..n, got)
  BY <1>1, <1>4, <1>5, FS_Injection
<1>7. QED
  BY <1>1, <1>3, <1>6 DEF Surjection

\* What ReplayTakesTheNewest says, of the captures themselves.
NewestTaken(taken, eligible, rows) ==
  /\ taken \subseteq eligible
  /\ Cardinality(taken) = Min({SampleSize, Cardinality(eligible)})
  /\ \A rec \in taken, other \in eligible \ taken : rec.ts >= other.ts
  /\ \A c \in DOMAIN rows :
       rows[c] = Cardinality({rec \in taken : Shape(rec) = c[1]})
                     * Cardinality({k \in DOMAIN Models : Models[k] = c[2]})

\* It holds of the sample of any order.
LEMMA SampleFacts ==
  ASSUME NEW got, IsFiniteSet(got), got \subseteq CaptureRecords, NEW recs \in LoadOrders(got),
         NEW from, NEW sample, sample = SampleCaptures(recs, from),
         NEW taken, \A rec : rec \in taken <=> \E k \in DOMAIN sample : sample[k] = rec,
         NEW eligible, eligible = {rec \in got : from = None \/ rec.ts >= from}
  PROVE  NewestTaken(taken, eligible, ReplayRows(sample))
<1> DEFINE n == Cardinality(got)
           kept == Kept(recs, from)
           m == Min({SampleSize, Cardinality(kept)})
<1>1. /\ n \in Nat /\ recs \in [1..n -> got]
      /\ \A i, j \in 1..n : recs[i] = recs[j] => i = j
      /\ \A rec \in got : \E i \in 1..n : recs[i] = rec
  BY OrderFacts
<1>3. \A rec \in got : rec.ts \in Nat
  BY CapturesAssumption DEF CaptureRecords
<1>4. DOMAIN recs = 1..n /\ \A i \in 1..n : recs[i].ts \in Nat
  BY <1>1, <1>3
<1>5. PICK at : Drawn(recs, kept, sample, at)
  BY <1>1, <1>4, Sampled
<1>6. /\ m \in Nat /\ DOMAIN sample = 1..m /\ at \in [1..m -> kept]
      /\ \A k \in 1..m : sample[k] = recs[at[k]]
      /\ \A k, l \in 1..m : at[k] = at[l] => k = l
      /\ \A k \in 1..m, j \in kept :
           (\A l \in 1..m : at[l] # j) => recs[at[k]].ts >= recs[j].ts
  BY <1>5 DEF Drawn
<1>7. kept \subseteq 1..n /\ \A i \in 1..n : i \in kept <=> recs[i] \in eligible
  BY <1>1, <1>4 DEF Kept
<1>8. Cardinality(eligible) = Cardinality(kept)
  <2> DEFINE f == [i \in kept |-> recs[i]]
  <2>1. IsFiniteSet(kept)
    BY <1>1, <1>4, <1>7, Places
  <2>2. f \in [kept -> eligible] /\ \A i, j \in kept : f[i] = f[j] => i = j
    BY <1>1, <1>7
  <2>3. \A rec \in eligible : \E i \in kept : f[i] = rec
    BY <1>1, <1>7
  <2> HIDE DEF f, kept
  <2>4. QED BY <2>1, <2>2, <2>3, Counted
<1> HIDE DEF kept, m, n
<1>9. \A k \in 1..m : at[k] \in kept /\ at[k] \in 1..n /\ sample[k] \in eligible
  <2>1. SUFFICES ASSUME NEW k \in 1..m
                 PROVE  at[k] \in kept /\ at[k] \in 1..n /\ sample[k] \in eligible
    OBVIOUS
  <2>2. at[k] \in kept /\ sample[k] = recs[at[k]]
    BY <1>6
  <2>3. QED BY <1>7, <2>2
<1>10. \A rec : rec \in taken <=> \E k \in 1..m : sample[k] = rec
  BY <1>6
<1>11. \A k, l \in 1..m : sample[k] = sample[l] => k = l
  BY <1>1, <1>6, <1>9
<1>12. IsFiniteSet(1..m) /\ Cardinality(1..m) = m
  BY <1>6, FS_Interval
<1>13. taken \subseteq eligible
  BY <1>9, <1>10
<1>14. Cardinality(taken) = m
  <2> DEFINE f == [k \in 1..m |-> sample[k]]
  <2>1. f \in [1..m -> taken] /\ \A k, l \in 1..m : f[k] = f[l] => k = l
    BY <1>10, <1>11
  <2>2. \A rec \in taken : \E k \in 1..m : f[k] = rec
    BY <1>10
  <2> HIDE DEF f
  <2>3. QED BY <1>12, <2>1, <2>2, Counted
<1>15. ASSUME NEW rec \in taken, NEW other \in eligible \ taken PROVE rec.ts >= other.ts
  <2>1. PICK k \in 1..m : sample[k] = rec
    BY <1>10, <1>15
  <2>2. PICK j \in 1..n : recs[j] = other
    BY <1>1, <1>15
  <2>3. j \in kept
    BY <1>7, <1>15, <2>2
  <2>4. \A l \in 1..m : at[l] # j
    BY <1>6, <1>10, <1>15, <2>2
  <2>5. QED BY <1>6, <2>1, <2>2, <2>3, <2>4
<1>16. ASSUME NEW c \in DOMAIN ReplayRows(sample)
       PROVE  ReplayRows(sample)[c] = Cardinality({rec \in taken : Shape(rec) = c[1]})
                                * Cardinality({k \in DOMAIN Models : Models[k] = c[2]})
  <2> DEFINE A == {k \in 1..m : Shape(sample[k]) = c[1]}
             R == {rec \in taken : Shape(rec) = c[1]}
             f == [k \in A |-> sample[k]]
  <2>1. IsFiniteSet(A)
    <3>1. A \in SUBSET (1..m)
      OBVIOUS
    <3>2. QED BY <1>12, <3>1, FS_Subset
  <2>2. f \in [A -> R] /\ \A k, l \in A : f[k] = f[l] => k = l
    BY <1>10, <1>11
  <2>3. \A rec \in R : \E k \in A : f[k] = rec
    BY <1>10
  <2>4. ReplayRows(sample)[c] = Cardinality(A)
                                * Cardinality({k \in DOMAIN Models : Models[k] = c[2]})
    <3>1. m \in Nat /\ DOMAIN sample = 1..m
      BY <1>6
    <3>2. QED BY <1>16, <3>1, RowCounts
  <2> HIDE DEF f, A, R
  <2>5. Cardinality(R) = Cardinality(A)
    BY <2>1, <2>2, <2>3, Counted
  <2>6. QED BY <2>4, <2>5 DEF R
<1>17. QED
  BY <1>8, <1>13, <1>14, <1>15, <1>16 DEF m, NewestTaken

\* What replay resubmits are the newest captures of those it has loaded, since
\* the given time, as many as asked for, and collapse counts each of them once
\* per model, for any number of captures and whatever order load_all gave equal
\* ones (sample_captures, replay, collapse).
THEOREM ReplaysTheNewest == Spec => []ReplayTakesTheNewest
<1>1. Init => ReplayTakesTheNewest
  BY DEF Init, ReplayTakesTheNewest
<1>2. CapturesInv /\ LoadInv /\ ReplayTakesTheNewest /\ [Next]_vars => ReplayTakesTheNewest'
  <2>1. SUFFICES ASSUME CapturesInv, LoadInv, ReplayTakesTheNewest, [Next]_vars
                 PROVE  ReplayTakesTheNewest'
    OBVIOUS
  <2>2. CASE out' = None
    BY <2>2 DEF ReplayTakesTheNewest
  <2>3. CASE UNCHANGED vars
    <3>1. out' = out
      BY <2>3 DEF vars
    <3>2. QED BY <2>1, <3>1 DEF ReplayTakesTheNewest
  <2>4. CASE Loads
    <3>1. ASSUME out'.error \in {"gone", "torn", "since"} PROVE ReplayTakesTheNewest'
      BY <3>1, CapturesAssumption DEF ReplayTakesTheNewest
    <3>2. ASSUME load # None, NEW recs \in LoadOrders(load.got), NEW from, NEW sample,
                 sample = SampleCaptures(recs, from),
                 out' = [error |-> None, from |-> from, rows |-> ReplayRows(sample),
                         taken |-> {sample[k] : k \in DOMAIN sample},
                         got |-> load.got, before |-> load.before]
          PROVE  ReplayTakesTheNewest'
      <4> DEFINE taken == {sample[k] : k \in DOMAIN sample}
                 eligible == {rec \in load.got : from = None \/ rec.ts >= from}
      <4>1. /\ out'.from = from /\ out'.rows = ReplayRows(sample) /\ out'.taken = taken
            /\ out'.got = load.got
        BY <3>2
      <4>2. IsFiniteSet(load.got) /\ load.got \subseteq CaptureRecords
        BY <2>1, <3>2, GotFacts
      <4>3. \A rec : rec \in taken <=> \E k \in DOMAIN sample : sample[k] = rec
        OBVIOUS
      <4> HIDE DEF taken
      <4>4. NewestTaken(taken, eligible, ReplayRows(sample))
        BY <3>2, <4>2, <4>3, SampleFacts
      <4>5. QED BY <4>1, <4>4 DEF ReplayTakesTheNewest, NewestTaken
    <3>3. QED BY <2>2, <2>4, <3>1, <3>2, LoadEnds DEF Gone
  <2>5. QED BY <2>1, <2>2, <2>3, <2>4, StepCaptures
<1>3. QED
  BY <1>1, <1>2, CapturesInvariant, PTL DEF Spec
=============================================================================
