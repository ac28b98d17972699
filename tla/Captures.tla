------------------------------ MODULE Captures ------------------------------
(***************************************************************************)
(* Captured request bodies (crates/tailfin-ledger, capture.rs and          *)
(* replay.rs): `run --capture` prunes the store and then saves the body of *)
(* every admitted request from a task of its own, one file per capture;    *)
(* `replay` loads the store, also while proxies are running on it.         *)
(*                                                                         *)
(* A file is empty (fs::write has truncated it and not written yet), holds *)
(* a capture, or is Garbled: fs::write writes from its own offset 0, so of *)
(* two tasks writing one file the longer text shows behind the shorter.    *)
(* A body is what is looked for in it: words, messages, tools, its size.   *)
(* Time is in milliseconds, and does not go back.  A directory is listed   *)
(* in one step (read_dir fetches the entries of a small one at a time), in *)
(* any order; each file is then looked at, or removed, in a step of its    *)
(* own, when others may have removed it.                                   *)
(***************************************************************************)
EXTENDS Integers, Sequences, FiniteSets, SequencesExt, FiniteSetsExt

CONSTANTS
  None, Empty, Garbled,
  Procs,          \* runs of a proxy on one capture directory
  Who,            \* [task, node] that requests resolve to
  Dir,            \* safe_id of a task_id: others become '_', 80 at most
  Prefix,         \* the first 12 alphanumeric characters of a node's name
  Bodies,         \* request bodies
  Moments,        \* the times at which things happen
  RetentionArgs,  \* what --retention is given
  SinceArgs,      \* what --since is given, or None
  Models,         \* what --models is given
  SampleSize,     \* what --sample is given
  Faults,         \* subset of {"killed", "disk_full"}
  MaxRequests     \* bound on the requests

ASSUME CapturesAssumption ==
  /\ Moments \subseteq Nat /\ Moments # {}
  /\ SampleSize \in Nat /\ MaxRequests \in Nat /\ Models \in Seq(STRING)
  /\ \A w \in Who : w.task \in DOMAIN Dir /\ w.node \in DOMAIN Prefix
  /\ \A arg \in RetentionArgs : arg.n \in Nat \cup {None}
  /\ None \notin Nat \cup {"torn", "gone", "since", "s", "m", "h", "d"} \cup RetentionArgs
  /\ Empty # Garbled

VARIABLES
  now,    \* SystemTime::now
  proxy,  \* process -> "new", "pruning", "up" or "dead"
  prune,  \* process -> its --retention and how far its prune is
  dirs,   \* the task directories there are
  files,  \* path -> Empty, Garbled or a CaptureRecord
  reqs,   \* request number -> the request and how far its capture got
  load,   \* what the replay that is running has loaded, or None
  out     \* how a replay ended, if nothing happened since

vars == <<now, proxy, prune, dirs, files, reqs, load, out>>
store == <<dirs, files>>

-----------------------------------------------------------------------------
DEFAULT_RETENTION == 7 * 24 * 3600 * 1000

MillisOf == [s |-> 1000, m |-> 60000, h |-> 3600000, d |-> 86400000]

\* parse_retention, of a number and a unit; a bare number is in days.
ParseRetention(arg) ==
  IF arg.n = None \/ arg.unit \notin DOMAIN MillisOf \cup {None} THEN None
  ELSE arg.n * MillisOf[IF arg.unit = None THEN "d" ELSE arg.unit]

\* Mutant of Retention: unwrap_or_default.
RetentionOrNone(arg) == LET parsed == ParseRetention(arg) IN IF parsed = None THEN 0 ELSE parsed

\* run falls back on the default.
Retention(arg) ==
  LET parsed == ParseRetention(arg) IN IF parsed = None THEN DEFAULT_RETENTION ELSE parsed

SaturatingSub(a, b) == IF a > b THEN a - b ELSE 0

\* body_meta.  A body that is no JSON has neither messages nor tools.
BodyMeta(body) ==
  IF ~body.json THEN [message_count |-> 0, tool_calls |-> 0]
  ELSE [message_count |-> Len(body.messages),
        tool_calls |-> body.tools + Cardinality({i \in DOMAIN body.messages :
                                                   body.messages[i] = "tool"})]

\* CaptureRecord::shape.
Shape(rec) ==
  CASE "test" \in rec.body.words -> "test-generation"
    [] "test" \notin rec.body.words /\ "main" \in rec.body.words -> "code-compile"
    [] {"test", "main"} \cap rec.body.words = {} ->
         IF rec.meta.tool_calls > 0 \/ "tools" \in rec.body.words THEN "tool-use"
         ELSE IF rec.meta.message_count >= 8 THEN "long-context" ELSE "chat"

\* capture_id, made when the request arrives.
CaptureId(r) == <<r.arrived, Prefix[r.who.node]>>

\* Mutant of Path: all captures in one directory.
PathFlat(r) == <<None, CaptureId(r)>>

Path(r) == <<Dir[r.who.task], CaptureId(r)>>

\* The record that observe_request makes; `req` is history.
Capture(i) ==
  LET r == reqs[i]
  IN  [id |-> CaptureId(r), ts |-> now, body |-> r.body, meta |-> BodyMeta(r.body), req |-> i]

CaptureRecords ==
  [id : Moments \X {Prefix[n] : n \in DOMAIN Prefix}, ts : Moments, body : Bodies,
   meta : {BodyMeta(body) : body \in Bodies}, req : Nat]

\* Whether a file parses is told by looking at it.
ASSUME RecordAssumption == {Empty, Garbled} \cap CaptureRecords = {}

IsCapture(content) == content \notin {Empty, Garbled}

-----------------------------------------------------------------------------
\* Captures in load_all's order: by time and id, and for equal ones (one
\* millisecond, one prefix, two tasks) any.
Before(a, b) == a.ts < b.ts \/ (a.ts = b.ts /\ (a.id[1] < b.id[1] \/ a.id = b.id))
LoadOrders(recs) ==
  {s \in SetToSeqs(recs) :
     \A i, j \in DOMAIN s : i < j /\ Before(s[j], s[i]) => Before(s[i], s[j])}

\* Mutant of NewestFirst: the sort is left out.
NewestFirstUnsorted(recs, i, j) == i < j

\* The order of the sort, which is stable: of the captures at two positions.
NewestFirst(recs, i, j) == recs[i].ts > recs[j].ts \/ (recs[i].ts = recs[j].ts /\ i < j)

\* sample_captures: the filter, the place of what is kept once it is sorted, and
\* the places that are left when the rest is cut off.
Kept(recs, since) == {i \in DOMAIN recs : since = None \/ recs[i].ts >= since}
Place(recs, kept, i) == 1 + Cardinality({j \in kept : NewestFirst(recs, j, i)})
SampleCaptures(recs, since) ==
  LET kept == Kept(recs, since)
  IN  [k \in 1..Min({SampleSize, Cardinality(kept)}) |->
         recs[CHOOSE i \in kept : Place(recs, kept, i) = k]]

\* replay and collapse: one row per shape and model, with how many answers are
\* in it.
ReplayRows(sample) ==
  LET hits == (DOMAIN sample) \X (DOMAIN Models)
      key(h) == <<Shape(sample[h[1]]), Models[h[2]]>>
  IN  [c \in {key(h) : h \in hits} |-> Cardinality({h \in hits : key(h) = c})]

-----------------------------------------------------------------------------
\* A prune that is not running: before it started, and once it is over.
NoPrune(arg) ==
  [arg |-> arg, step |-> "idle", cutoff |-> 0, dirs |-> {}, dir |-> None, files |-> {},
   file |-> None]

Init ==
  /\ now \in {t \in Moments : \A u \in Moments : t <= u}
  /\ proxy = [p \in Procs |-> "new"] /\ prune = [p \in Procs |-> NoPrune(None)]
  /\ dirs = {} /\ files = <<>> /\ reqs = <<>> /\ load = None /\ out = None

Tick ==
  /\ now' \in {t \in Moments : t > now} /\ out' = None
  /\ UNCHANGED <<proxy, prune, store, reqs, load>>

FilesIn(dir) == {f \in DOMAIN files : f[1] = dir}

-----------------------------------------------------------------------------
\* run opens the store and prunes it.  What is put into the store between the
\* reading of the clock and the listing is too young for the cutoff.
Start(p, arg) ==
  /\ proxy[p] = "new"
  /\ proxy' = [proxy EXCEPT ![p] = "pruning"]
  /\ prune' = [prune EXCEPT ![p] = [NoPrune(arg) EXCEPT !.step = "list", !.dirs = dirs,
                                      !.cutoff = SaturatingSub(now, Retention(arg))]]
  /\ out' = None
  /\ UNCHANGED <<now, store, reqs, load>>

\* The prune is over, or has failed, which run does not mind.
GoesUp(p) ==
  /\ proxy' = [proxy EXCEPT ![p] = "up"]
  /\ prune' = [prune EXCEPT ![p] = NoPrune(@.arg)]

PruneGoesOn(p, scan) == prune' = [prune EXCEPT ![p] = scan] /\ UNCHANGED proxy

\* Into the next task directory, unless another prune has removed it ...
PruneDir(p, dir) ==
  /\ prune[p].step = "list" /\ dir \in prune[p].dirs
  /\ IF dir \in dirs
     THEN PruneGoesOn(p, [prune[p] EXCEPT !.step = "scan", !.dirs = @ \ {dir}, !.dir = dir,
                                          !.files = FilesIn(dir)])
     ELSE GoesUp(p)
  /\ out' = None
  /\ UNCHANGED <<now, store, reqs, load>>

Expired(content, cutoff) == IsCapture(content) /\ content.ts < cutoff

\* ... a file of it, skipped if it cannot be read or does not parse ...
PruneRead(p, f) ==
  LET expired == f \in DOMAIN files /\ Expired(files[f], prune[p].cutoff)
  IN  /\ prune[p].step = "scan" /\ f \in prune[p].files
      /\ PruneGoesOn(p, [prune[p] EXCEPT !.files = @ \ {f},
                           !.step = IF expired THEN "remove" ELSE "scan",
                           !.file = IF expired THEN f ELSE None])
      /\ out' = None
      /\ UNCHANGED <<now, store, reqs, load>>

\* ... which is removed if it has expired, and if it is still there ...
PruneRemove(p) ==
  LET f == prune[p].file
  IN  /\ prune[p].step = "remove"
      /\ IF f \in DOMAIN files
         THEN /\ files' = [g \in DOMAIN files \ {f} |-> files[g]]
              /\ PruneGoesOn(p, [prune[p] EXCEPT !.step = "scan", !.file = None])
         ELSE GoesUp(p) /\ UNCHANGED files
      /\ out' = None
      /\ UNCHANGED <<now, dirs, reqs, load>>

\* ... and when all files are done the directory is looked at again ...
PruneLook(p) ==
  /\ prune[p].step = "scan" /\ prune[p].files = {}
  /\ IF prune[p].dir \in dirs
     THEN PruneGoesOn(p, [prune[p] EXCEPT
                            !.step = IF FilesIn(prune[p].dir) = {} THEN "rmdir" ELSE "list"])
     ELSE GoesUp(p)
  /\ out' = None
  /\ UNCHANGED <<now, store, reqs, load>>

\* ... and removed if it was empty.  remove_dir fails if it is so no more.
PruneRmdir(p) ==
  /\ prune[p].step = "rmdir"
  /\ dirs' = IF FilesIn(prune[p].dir) = {} THEN dirs \ {prune[p].dir} ELSE dirs
  /\ PruneGoesOn(p, [prune[p] EXCEPT !.step = "list"])
  /\ out' = None
  /\ UNCHANGED <<now, files, reqs, load>>

PruneEnds(p) ==
  /\ prune[p].step = "list" /\ prune[p].dirs = {}
  /\ GoesUp(p) /\ out' = None
  /\ UNCHANGED <<now, store, reqs, load>>

-----------------------------------------------------------------------------
\* relay_inner admits a request, names its capture and spawns the task of
\* observe_request.
Arrive(p, w, b) ==
  /\ proxy[p] = "up" /\ Len(reqs) < MaxRequests
  /\ reqs' = Append(reqs, [by |-> p, who |-> w, body |-> b, arrived |-> now,
                           rec |-> None, step |-> "spawned"])
  /\ out' = None
  /\ UNCHANGED <<now, proxy, prune, store, load>>

\* The task makes the record, with a time of its own, and the directory ...
MakeDir(i) ==
  /\ reqs[i].step = "spawned"
  /\ reqs' = [reqs EXCEPT ![i].step = "made", ![i].rec = Capture(i)]
  /\ dirs' = dirs \cup {Path(reqs[i])[1]}
  /\ out' = None
  /\ UNCHANGED <<now, proxy, prune, files, load>>

\* ... opens the file, unless a proxy that starts has just removed the
\* directory again ...
OpenFile(i) ==
  LET path == Path(reqs[i])
  IN  /\ reqs[i].step = "made"
      /\ IF path[1] \in dirs
         THEN /\ reqs' = [reqs EXCEPT ![i].step = "opened"]
              /\ files' = [f \in DOMAIN files \cup {path} |->
                             IF f = path THEN Empty ELSE files[f]]
         ELSE reqs' = [reqs EXCEPT ![i].step = "failed"] /\ UNCHANGED files
      /\ out' = None
      /\ UNCHANGED <<now, proxy, prune, dirs, load>>

\* What a file holds when a text is written over its start.
Overwrite(content, rec) ==
  CASE content = Empty -> rec
    [] content = Garbled -> Garbled
    [] IsCapture(content) -> IF content.body.size > rec.body.size THEN Garbled ELSE rec

\* ... and writes it; a file that was pruned meanwhile is gone.
WriteFile(i) ==
  LET path == Path(reqs[i])
  IN  /\ reqs[i].step = "opened"
      /\ reqs' = [reqs EXCEPT ![i].step = "saved"]
      /\ files' = IF path \in DOMAIN files
                  THEN [files EXCEPT ![path] = Overwrite(@, reqs[i].rec)] ELSE files
      /\ out' = None
      /\ UNCHANGED <<now, proxy, prune, dirs, load>>

\* save fails, which is only logged; what was opened stays as it is.
WriteFails(i) ==
  /\ "disk_full" \in Faults /\ reqs[i].step = "opened"
  /\ reqs' = [reqs EXCEPT ![i].step = "failed"]
  /\ out' = None
  /\ UNCHANGED <<now, proxy, prune, store, load>>

\* A proxy dies, with its prune and with the saves it has not finished.
Kill(p) ==
  /\ "killed" \in Faults /\ proxy[p] \in {"pruning", "up"}
  /\ proxy' = [proxy EXCEPT ![p] = "dead"]
  /\ prune' = [prune EXCEPT ![p] = NoPrune(@.arg)]
  /\ reqs' = [i \in DOMAIN reqs |->
                IF reqs[i].by = p /\ reqs[i].step # "saved"
                THEN [reqs[i] EXCEPT !.step = "failed"] ELSE reqs[i]]
  /\ out' = None
  /\ UNCHANGED <<now, store, load>>

-----------------------------------------------------------------------------
\* replay_cmd begins with load_all; `before` is history.
LoadBegins ==
  /\ load = None
  /\ load' = [dirs |-> dirs, files |-> {}, got |-> {},
              before |-> {i \in DOMAIN reqs : reqs[i].step = "saved"}]
  /\ out' = None
  /\ UNCHANGED <<now, proxy, prune, store, reqs>>

LoadGoesOn(to) == load' = to /\ out' = None

\* `?` ends the command: on what does not parse, or is not there any more.
LoadFails(how) == load' = None /\ out' = how
Gone(dir, id) == [error |-> "gone", dir |-> dir, id |-> id]

\* Mutant of LoadDir: the vector is made anew for each task.
LoadDirForgets(dir) ==
  /\ load # None /\ load.files = {} /\ dir \in load.dirs
  /\ LoadGoesOn([load EXCEPT !.dirs = @ \ {dir}, !.files = FilesIn(dir), !.got = {}])
  /\ UNCHANGED <<now, proxy, prune, store, reqs>>

LoadDir(dir) ==
  /\ load # None /\ load.files = {} /\ dir \in load.dirs
  /\ IF dir \in dirs THEN LoadGoesOn([load EXCEPT !.dirs = @ \ {dir}, !.files = FilesIn(dir)])
     ELSE LoadFails(Gone(dir, None))
  /\ UNCHANGED <<now, proxy, prune, store, reqs>>

LoadFile(f) ==
  /\ load # None /\ f \in load.files
  /\ \/ /\ f \in DOMAIN files /\ IsCapture(files[f])
        /\ LoadGoesOn([load EXCEPT !.files = @ \ {f}, !.got = @ \cup {files[f]}])
     \/ /\ f \in DOMAIN files /\ ~IsCapture(files[f])
        /\ LoadFails([error |-> "torn"])
     \/ /\ f \notin DOMAIN files
        /\ LoadFails(Gone(f[1], f[2]))
  /\ UNCHANGED <<now, proxy, prune, store, reqs>>

\* Once all is loaded --since is looked at, the sample is taken and resubmitted.
Replay(since) ==
  LET cut == IF since = None THEN None ELSE ParseRetention(since)
  IN  /\ load # None /\ load.dirs = {} /\ load.files = {}
      /\ \/ since # None /\ cut = None /\ out' = [error |-> "since"]
         \/ /\ since = None \/ cut # None
            /\ \E recs \in LoadOrders(load.got) :
                 LET from == IF since = None THEN None ELSE SaturatingSub(now, cut)
                     sample == SampleCaptures(recs, from)
                 IN  out' = [error |-> None, from |-> from, rows |-> ReplayRows(sample),
                             taken |-> {sample[k] : k \in DOMAIN sample},
                             got |-> load.got, before |-> load.before]
      /\ load' = None
      /\ UNCHANGED <<now, proxy, prune, store, reqs>>

Next ==
  \/ Tick
  \/ \E p \in Procs :
       \/ \E arg \in RetentionArgs : Start(p, arg)
       \/ \E dir \in prune[p].dirs : PruneDir(p, dir)
       \/ \E f \in prune[p].files : PruneRead(p, f)
       \/ PruneRemove(p) \/ PruneLook(p) \/ PruneRmdir(p) \/ PruneEnds(p)
       \/ \E w \in Who, b \in Bodies : Arrive(p, w, b)
       \/ Kill(p)
  \/ \E i \in DOMAIN reqs : MakeDir(i) \/ OpenFile(i) \/ WriteFile(i) \/ WriteFails(i)
  \/ LoadBegins
  \/ load # None /\ ((\E dir \in load.dirs : LoadDir(dir)) \/ (\E f \in load.files : LoadFile(f)))
  \/ \E since \in SinceArgs : Replay(since)

Spec == Init /\ [][Next]_vars

-----------------------------------------------------------------------------
(***************************************************************************)
(* Properties.                                                             *)
(***************************************************************************)
\* Type invariant: files are in directories there are, and hold what a request
\* at that path was sent; only a proxy that is pruning has a prune to do, and
\* only one that is up has saves to do.
TypeOK ==
  /\ now \in Moments /\ proxy \in [Procs -> {"new", "pruning", "up", "dead"}]
  /\ \A p \in Procs :
       /\ prune[p].arg \in RetentionArgs \cup {None}
       /\ prune[p].step \in {"idle", "list", "scan", "remove", "rmdir"}
       /\ proxy[p] = "pruning" <=> prune[p].step # "idle"
  /\ \A f \in DOMAIN files :
       /\ f[1] \in dirs
       /\ IsCapture(files[f]) => Path(reqs[files[f].req]) = f
  /\ \A i \in DOMAIN reqs :
       /\ reqs[i].step \in {"spawned", "made", "opened", "saved", "failed"}
       /\ reqs[i].step \in {"spawned", "made", "opened"} => proxy[reqs[i].by] = "up"

\* Two requests whose captures go to one file: they came in one millisecond,
\* their task ids look alike as directories and their nodes as prefixes.
Clash(i, j) ==
  /\ i # j /\ reqs[i].arrived = reqs[j].arrived
  /\ Dir[reqs[i].who.task] = Dir[reqs[j].who.task]
  /\ Prefix[reqs[i].who.node] = Prefix[reqs[j].who.node]

Stored(i) == \E f \in DOMAIN files : files[f] = reqs[i].rec

\* What --retention promises (README.md, of `run`: "How long to keep captured
\* bodies (e.g. 7d, 24h) [default: 7d]").
Promised(arg) ==
  LET seconds == IF arg.unit = "s" THEN 1 ELSE IF arg.unit = "m" THEN 60
                 ELSE IF arg.unit = "h" THEN 60 * 60 ELSE 24 * 60 * 60
  IN  IF arg.n = None \/ arg.unit \notin {"s", "m", "h", "d", None} THEN 7 * 24 * 60 * 60 * 1000
      ELSE arg.n * seconds * 1000

\* Older than what a proxy that was started promises to keep.
Outlived(i) ==
  \E p \in Procs :
    prune[p].arg # None /\ reqs[i].rec.ts + Promised(prune[p].arg) < now

\* A capture that was saved is in the store with its own body, whatever other
\* requests, of other tasks, nodes and processes, were saved at the same time
\* and whatever prunes were running (capture_id, save, prune), unless another
\* request clashed with it or it has outlived the retention of a proxy that was
\* started on the store.
SavedIsStored ==
  \A i \in DOMAIN reqs :
    reqs[i].step = "saved" =>
      Stored(i) \/ (\E j \in DOMAIN reqs : Clash(i, j)) \/ Outlived(i)

\* A file goes only because a proxy prunes, and only if it holds a capture that
\* is older than what that proxy promises to keep: none that is younger, still
\* being written or torn (prune, parse_retention and the default of run).  Only
\* between requests that clash is what is removed not what was looked at.
PruneSparesTheYoung ==
  [][\A f \in DOMAIN files \ DOMAIN files' :
       \/ \E i, j \in DOMAIN reqs : Clash(i, j) /\ Path(reqs[i]) = f
       \/ \E p \in Procs :
            /\ prune'[p] # prune[p] /\ prune[p].arg # None
            /\ IsCapture(files[f]) /\ files[f].ts + Promised(prune[p].arg) < now]_vars

\* Why replay may fail to load the store.  A file that does not parse is one
\* whose save is under way, has failed or was killed, or clashed.  A file that
\* was gone when it was to be read held a capture that had outlived a retention;
\* a task directory that was gone had only such, or is one that a save has made
\* and not used yet.  Saves and prunes are no other reason (load_all).
LoadFailureIsExplained ==
  out # None =>
    /\ out.error = "torn" =>
         \E i \in DOMAIN reqs :
           reqs[i].step \in {"opened", "failed"} \/ \E j \in DOMAIN reqs : Clash(i, j)
    /\ out.error = "gone" =>
         \E i \in DOMAIN reqs :
           /\ out.dir = Path(reqs[i])[1] /\ out.id \in {None, Path(reqs[i])[2]}
           /\ \/ reqs[i].step = "saved" /\ Outlived(i)
              \/ \E j \in DOMAIN reqs : Clash(i, j)
              \/ out.id = None /\ reqs[i].step \in {"made", "failed"}

\* What replay has loaded, file by file while others save and prune: captures
\* that were saved, each as it was sent, and among them all that were saved
\* before replay began and are still stored when it is done (load_all).
LoadSeesWhatStays ==
  out # None /\ out.error = None =>
    /\ \A rec \in out.got :
         rec.req \in DOMAIN reqs /\ reqs[rec.req].step = "saved" /\ reqs[rec.req].rec = rec
    /\ \A i \in out.before : Stored(i) => reqs[i].rec \in out.got

\* What replay resubmits are the newest of the captures it has loaded, since the
\* given time and as many as asked for, each counted once per model in the row
\* of its shape (sample_captures, replay, collapse).
ReplayTakesTheNewest ==
  out # None /\ out.error = None =>
    LET eligible == {rec \in out.got : out.from = None \/ rec.ts >= out.from}
    IN  /\ out.taken \subseteq eligible
        /\ Cardinality(out.taken) = Min({SampleSize, Cardinality(eligible)})
        /\ \A rec \in out.taken, other \in eligible \ out.taken : rec.ts >= other.ts
        /\ \A c \in DOMAIN out.rows :
             out.rows[c] = Cardinality({rec \in out.taken : Shape(rec) = c[1]})
                             * Cardinality({k \in DOMAIN Models : Models[k] = c[2]})
=============================================================================
