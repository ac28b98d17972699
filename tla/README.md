# Tailfin in TLA+

Tailfin is a proxy that sits between coding agents and their model provider. It
attributes every request to a node of a *task tree* (a main thread and the
subagents it spawned), relays the answer untouched, meters what it cost, keeps a
ledger of one line per request, stores request bodies for a later replay if asked to,
and, when a budget is set, stops a task that has spent its ceiling. Other commands read
the ledger and the stored bodies back. This directory holds TLA+ models of it, the TLC
runs that check them, and TLAPS proofs about them.

## 1. The system

| Part | State | Operations | Interacts with |
|---|---|---|---|
| task tree (`tailfin-tree`) | per task: nodes with usage, voucher and seal; `live`, `peak_concurrency`, `sealed`, `synthetic_sent` | `begin`, `admit_at`, `take_stop`, `finish` | called by the relay under one mutex |
| relay (`tailfin-proxy/proxy.rs`, `serve.rs`) | one future per request, one meter task per answer, one tunnel task per websocket | `relay_inner`, `relay_ws`, `spawn_meter`, `finish_locked`, `serve` | locks index, arena and ledger; awaits the upstream |
| session identity (`tailfin-ident`) | `live` sessions with prefix digests, a counter | `resolve`, `from_headers`, `anonymous`, `retain` | asked once per request, under a mutex |
| tee (`tee.rs`) | the body in flight, a bounded channel to the meter | `poll_frame` | client on one side, meter task on the other |
| decoder and meter (`tailfin-wire`) | line buffer, event in progress; counters and the terminal flag | `push`, `finish`, `observe` | driven by the meter task and by `splice` |
| ledger (`tailfin-ledger`) | a file of JSON lines | `open`, `append`, `read_all`, `render` | written under the arena lock, by every proxy that was given the path; read by the command line at any time |
| stamps and blame (`stamp.rs`) | none | `stamp_allowed`, `format_stamp`, `format_blame` | read the ledger |
| capture and replay (`capture.rs`, `replay.rs`) | a directory per task, a file per request | `save`, `load_all`, `prune`, `replay` | saved by a task spawned per request; pruned when a proxy starts; read by the command line |
| shadow index (`observe_request`) | a second session index, the last comparisons | `resolve` | fed by the same spawned tasks |
| websocket tunnel (`ws.rs`) | frame decoder, two sockets | `http_handshake`, `splice_tcp` | the tunnel task; drives decoder and meter |
| hop headers (`hop.rs`) | none | the two filters, `is_websocket_upgrade` | the relay, for every message |
| doctor, log, command line | none | | around the rest |

What is hard about it:

- **Interleaving.** Requests of one task run at the same time. Admission looks at
  spend already metered, so what is in flight is not seen; the verdict and the stop
  style are taken under two locks; records are written in the order requests finish.
- **Lost continuations.** hyper drops the relay future of a client that hangs up,
  `?` leaves early, shutdown drops whole tasks. Anything after such a point
  (`finish`, the ledger line) does not happen.
- **Lossy observation.** The tee hands the meter clones through a bounded channel and
  never waits, so the meter may see a stream with holes, cut at any byte.
- **Inference.** The digest that identifies a session is replaced while the session is
  in use; sessions must be neither merged nor split by that.
- **Restarts.** The arena and the index are memory, the ledger is not; numbers that the
  index gives out start again and meet older ones in the ledger.
- **Files without transactions.** A ledger line is written by `write_all` and a capture by
  `fs::write`: a process may die inside either, a second process may be writing to the
  same file, and a reader may come at any time.
- **Tasks that run when they like.** Captures and shadow answers come from tasks spawned
  per request, in any order, with names made of milliseconds.
- **One loop, two directions.** `splice_tcp` reads nobody while it writes to one side.

What makes each part correct is stated as properties; `PROJECT.json` lists the
hazards with their line and the properties that would catch them.

## 2. The modules

```
TaskTree <- Proxy <- MCProxy            Identity (instantiated by MCProxy, MCLedgerFile)
   ^          ^
   |          '---- ProxyProofs
   |----- TaskTreeProofs <- ProxyProofs, LedgerFileProofs
   '----- LedgerFile <- MCLedgerFile
              ^---- LedgerFileProofs
Sessions <= SessionIndex <- ShadowIndex <- MCSessionIndex
                 ^               ^---- ShadowIndexProofs
                 '---- SessionIndexProofs <- ShadowIndexProofs (twice, once for each index)
SseWire <- StreamMeter <- MCStreamMeter
   |          ^---- StreamMeterProofs
   '------ WsTunnel <- MCWsTunnel
              ^---- WsTunnelProofs
Captures <- MCCaptures
   ^---- CapturesProofs
```

**TaskTree** — `Task` and `Arena` as operators. Each `&mut self` method is an operator
from a task to the task it leaves; `AdmitAt` and `TakeStop` also answer. `Subtree` is
what the two stack loops of the code visit. `RebuiltTask` and `PeakForTask` are how a
report reads the tree back from the ledger, and `TotalUsage`, `ByCost` and the like are
what it asks of the tree.

**Proxy** — requests as concurrent processes. A step is what one request does between
two points at which another can get in: a lock released, or an await. `pc` is the
place of a request:

| `pc` | In the code | Leaves by |
|---|---|---|
| `idle` | not yet arrived | `Arrive` (`begin` and `admit_at` under one lock), `ArriveWs` (`begin` only) |
| `denied` | verdict taken, lock released | `Stop` (`take_stop`) |
| `stopping` | style taken, lock released | `Refuse` (`finish_node`) |
| `admitted` | at `client.request(..).await` | `UpstreamResponds`, `UpstreamFails`, `RewriteFails`, `ClientGone` |
| `handshake` | `relay_ws` before its answer | `TunnelOpens`, `HandshakeRefused`, `HandshakeFails` (http); as `admitted` (https) |
| `streaming` | body in the client's hands | `StreamEnds` |
| `metering` | the channel is closed, the meter drains it | `MeterFinishes` |
| `tunnel` | the spawned splice | `TunnelEnds`, `UpgradeFails` |
| `done`, `leaked`, `lost` | recorded; begun and never finished; dropped by a restart | |

`FinishLocked` is one step because `finish_locked` runs under the arena lock from
`finish` to the append. `Restart` is shutdown and start: the arena is new, the ledger
stays. It needs no request to be between two lock sections, since a future is only
dropped at an await. `born`, `lifetime`, and the `req` and `lifetime` of a ledger
record are history the code does not have.

**Identity** — declared identity: the headers of Claude Code and Codex to a place in
the tree. MCProxy builds the tree positions of its requests with it.

**SessionIndex** — prefix inference, one step per `resolve`. **Sessions** is its
abstract specification: a session is known by its opening (the first `Depth`
messages), found if the opening is known, opened if not. The refinement maps the
digests of the live sessions to a function from openings to session numbers.

**ShadowIndex** — the index twice, as the proxy has it: `Request` resolves in the live
one and, if the request is admitted, spawns a task; `Observe` runs any waiting task,
which resolves again in the shadow and notes the pair.

**SseWire** and **StreamMeter** — a body as a sequence of symbols (half lines and
newlines), cut into frames anywhere; the tee, the bounded channel, and the meter task
that decodes what it receives. An answer carries its dialect and `bill`, what the
provider charges for it, which the meter's result is compared with. `ForPath` picks the
dialect, and a meter has the six counters of `Usage`.

**WsTunnel** — one websocket through an http upstream, byte by byte: `http_handshake`,
the select loop of `splice_tcp` between bounded sockets, and `on_upstream`, which feeds
`WsTextDecoder`, the SSE decoder and the meter. The peers send, read, close and reset as
they like. `phase` is the await the task is at. The filters of `hop.rs` are operators on
sets of header names.

**LedgerFile** — the ledger as bytes. `append` is `BeginAppend` (the line is made, the
lock taken) and one `Write` per `write(2)`, which may be short, fail, or be cut by
`Kill`. A second process is a restart if it starts after the first has died, and a second
writer if it starts before. `Report`, `Stamp` and `Blame` read what is
there. `appended`, `acked`, `torn`, and the `seq` and `real` of a record are history.

**Captures** — `save` is `MakeDir`, `OpenFile` and `WriteFile`, so that two tasks, two
proxies, a kill or a prune can come in between. `Start` is `run` up to its `prune`, which
then goes file by file: `PruneDir` lists a task, `PruneRead` reads one file, `PruneRemove`
removes it if it has expired, `PruneLook` and `PruneRmdir` look for an empty directory and
remove it. A prune that meets a file or a directory another has removed is over, and the
proxy goes up all the same (`unwrap_or(0)`). `load_all` is `LoadBegins`, `LoadDir` and
`LoadFile`, where it fails on what does not parse or is gone; `Replay` is the rest of the
command. Time is a variable; names are what `capture_id` and `safe_id` make of it and of
the ids.

### What is abstracted

- The token counters of `Usage` are one number in the tree and in the ledger (the meter
  has all six); one rate prices them. Micros are computed with the code's integer division.
- The subagent share is a fraction; the code multiplies in `f64`, which is exact for
  the amounts used here.
- FNV-1a is taken to be injective, so a digest level *is* its prefix.
- Halves of different lines that run together (a lost clone) are taken not to parse.
  `push` decodes each chunk with `from_utf8_lossy`, so a character that is cut by a chunk
  boundary, or invalid, is replaced; that is left out. It changes text inside JSON strings,
  never the structure, the names or the numbers that are metered.
- In Proxy an append to the ledger either happens or does not; LedgerFile has the writes.
- A ledger line is three symbols, a capture file one value: a cut line or two texts over
  each other are taken not to parse. A capture that is cut short by a failing write is
  left empty.
- A directory is listed in one step (`read_dir` fetches the entries of a small directory at
  once); everything after the listing is a step for each file.
- Of a row of a replay only its shape, its model and its count are modelled. Its score and
  its cost (`score_output`, `detect_native`, `StubBatch`) are text matching on the stub's
  own answer, which nothing reads back.
- In WsTunnel a byte is a symbol, masks are undone without arithmetic, and a header is its
  name. Requests of other methods than GET, and `Upgrade` to anything else, are left out.
- A request is used once; a root that is absent from the arena and one just created
  are the same to every operation, so the arena is total.

## 3. The runs

| Run | Instance | Checks |
|---|---|---|
| `budget` | 4 requests on two subagents and one nested below the first, orderly clients, hang-ups, failing appends | `TypeOK`; `CeilingBound`; `OneSyntheticStop`; `NoFalseDenial`; `VoucherConservation`; `OneLastPerSeal`; `TreeIsConnected` |
| `tunnel` | 3 requests, plain and websocket, of a Codex task and its second turn, in any order, http upstream and https after a restart, hang-ups, failing rewrites | `OneRecordPerRequest`; `LiveCountsOpenAndLeaked`; `PeakIsHighWater`; `PeakSurvives`; `LedgerRebuildsArena`; `AnswersAreRecorded` |
| `index` | conversations of 1, 2 and 4 messages out of two that part at any place, three requests, sessions dropped at any time; two shadow tasks waiting, two comparisons kept | `TypeOK`; `NoFalseMerge`; `NoFalseSplit`; `OneCandidate`; `SharedDepthIsHonest`; `ImplementsSessions`; `SamePartition` |
| `streams` | answers of three dialects with cache tiers, on four request paths, every cut, channel of 2, all faults | `TypeOK`; `WholeStreamIsExact`; `NeverOvercounts`; `CompleteIsEarned` |
| `progress` | a two-event stream, channel of 1, all faults | `RelayNeverWaits`; `MeterReports` |
| `ledger` | 2 runs of a proxy, 2 records of declared, inferred and anonymous requests, short writes, full disk, kills | `ReadIsComplete`; `StampIsExact`; `RowsAddUp` |
| `captures` | 2 proxies, 2 requests of an agent in each of two sessions, two moments, a retention of zero and one that does not parse, kills, full disk; a replay at any time, with and without `--since` | `SavedIsStored`; `PruneSparesTheYoung`; `LoadFailureIsExplained`; `LoadSeesWhatStays`; `ReplayTakesTheNewest` |
| `splice` | seven answers, with short, long, masked and control frames, a refusal and an endless head; sockets and reads of 2 bytes; either peer may go at any time | `InOrder`; `RecordIsTheBill`; `AnswerIsWhole`; `UpgradeSurvives`; `TunnelEnds`; `NobodyBlocks` |

What they show:

- **The ceiling.** Admission looks at metered spend, so a task overshoots.
  `CeilingBound` is the bound the code really has: the ceiling, plus the cost of one
  answer for each request of the concurrency peak, plus one for the `Last` request that
  seals the task. One request per *branch*, as README.md and the crate's doc comment
  put it, is less than that (run `doc_branch`): a single thread that sends one request at
  a time can cross with its first and is then given a second, as `Last`.
- **Stops.** `OneSyntheticStop`: of all the stops of a task exactly one is the
  synthetic `end_turn`. `NoFalseDenial`: who was denied is over a ceiling or a voucher.
  `OneLastPerSeal`: a seal is paid for by one request, however many arrive at once.
- **Vouchers.** The vouchers of a node's children add up to at most the node's own,
  as long as a parent makes its first request before its children do and the process
  is not restarted. Otherwise `allowance_of` falls back to the whole ceiling for the
  unknown parent, and the children can be given more than the parent gets later.
- **Accounting.** `live` is what is open plus what leaked, and `peak` is exactly the high
  water of that: a request that leaked is counted until the restart, so a report may show
  a peak of two where no two requests were ever open together. Each finished request has
  its one record, in its own lifetime; the tree folded from the ledger agrees with the
  tree in memory, also when a child's request comes before its parent's.
- **Nobody who was answered is forgotten.** `AnswersAreRecorded`: a request that was denied,
  or whose answer or tunnel has begun, is recorded, whoever hangs up, unless the process is
  stopped or the body or tunnel stays open for ever. Before that a request can be lost: by a
  hang-up, a rewrite that fails, or a handshake with an http upstream that fails, which all
  leave `relay_inner` or `relay_ws` between `begin` and `finish`.
- **The index** does what Sessions says, also when sessions are dropped. The shadow, which
  sees other requests in another order, puts the same requests together.
- **Metering.** Where frames are cut does not matter; a stream cut short is never
  billed for more than the provider charges; `complete` is only said of a stream whose
  terminal event the client was handed, whatever the channel lost.
- **The relay never waits** for its meter: shown with no fairness for the meter at all.
- **The ledger** loses nothing silently: a command that can read it reads every record
  whose `append` returned, once and in order. It can become unreadable, for good, by one
  append that was cut (`read_all` fails on the first line that does not parse), and for a
  moment while a proxy is writing; never otherwise. Unrelated conversations of two runs do
  share inferred task ids, and reports add them up; no stamp ever does. The rows of a
  report add up to its heading, except without a rate card when a parent has no record.
- **Captures** are stored under names that can clash, for one node in one millisecond; apart
  from that a capture that was saved is in the store until it outlives the retention of a
  proxy that was started on it, also when two prunes meet. A prune removes nothing that its
  own proxy promises to keep; what is promised (`Promised`) is written down from README.md's
  words on `--retention`, not from `parse_retention`. One file left empty by a kill makes
  `load_all` fail, and `prune` does not remove it. `load_all` also fails, with nothing torn,
  if a prune removes a file or a directory it has listed; then what it missed had outlived a
  retention, or was a directory without a file yet. If it succeeds it has every capture that
  was there before it began and still is.
- **A tunnel** copies bytes in order from the first byte behind the head, is recorded with
  what the provider said in the frames that were read, and ends with its first peer. An
  upstream that closes after its answer gets it through whole, unless the client is still
  sending at that moment: the write to the closed upstream may reset the connection.
  Two peers that both talk do not block each other as long as they also listen.

### Bounds

Three or four requests are enough for two to be in flight while a third is being
stopped, for two stops to race, for a seal to be followed by another arrival, and for
a request to finish between the begin and the admission of two others. Ceilings of a
few micro-dollars and costs of zero or about the ceiling make the crossing happen early,
and `Scale = 2` makes the integer division round. `MaxRestarts = 1` lets a request of
the old lifetime be lost and one of the new lifetime be recorded. Conversations of four
messages reach three digest levels around the minimum level 2, so a digest can be
swapped for a deeper one, for a shallower one and for one that diverges (a conversation
of three has the digest of its first two); `MaxAnswers` bounds the history. Two waiting shadow tasks are enough to run in the wrong order, and
two comparisons to disagree. Channels of one or two chunks fill up. `MaxChunk = 3` lets a frame
end inside a line, between lines and between events.
Two records are enough for one line to be torn by the other, for two runs to give out the same number, and for a child to be recorded before its parent; a line
of three symbols can be cut inside its text and before its newline. Two captures can
clash, overwrite and garble each other. With a retention of zero a capture of the earlier moment
has expired at the later one, and one of the same moment is exactly on the edge, so two moments
are enough; they are a second apart, far less than the default of a week that an argument which
does not parse falls back on. Sockets and reads of two bytes cut every frame
at every byte and fill up while the other side is being written. Requests are interchangeable
(symmetry in `budget`), and so are messages, and the two proxies and the two sessions of `captures`.

### Fairness

`FairSpec` (Proxy) assumes weak fairness of what tokio runs without anyone's help: the stop
and the refusal of a denied request, and a meter whose channel has closed. Nothing is assumed
of the peers, neither that an upstream answers or ends nor that a client reads: the relay has
no timeout on connecting, on an answer, a body or a tunnel. `AnswersAreRecorded` therefore
has a body or tunnel that stays open for ever as an outcome of its own. Hang-ups, failing
rewrites and the restart are on in that run, and none of them is fair. `RelaySpec` (StreamMeter) only assumes that the
upstream sends and the client reads; `MeterReports` adds that the meter task is run.
`FairSpec` (WsTunnel) assumes that the tunnel task is run when one of its awaits is ready
and that each peer goes on taking what is in its socket, which is what a websocket client
and a provider do; that a peer sends or closes is not assumed. A finished tunnel stops, so
that run does not check for deadlock.

### Where code and documentation disagree

Four runs state what a doc, a comment or a test says, and TLC finds the code doing
something else:

| Run | Said | Done |
|---|---|---|
| `doc_sealed` | docs/architecture.md:171 "a hard status for every subsequent request in that task" | `relay_ws` never calls `admit_at`: a websocket to a sealed task is relayed and charged |
| `doc_branch` | README.md:346, tailfin-tree lib.rs:26 "one in-flight request per branch" | the request that finds the ceiling crossed is let through too, as `Last`: one branch with one request at a time overshoots by two answers |
| `doc_shutdown` | serve.rs:10 "graceful shutdown: in-flight requests finish" | `serve` returns without awaiting its connection tasks; the runtime drops them |
| `doc_incomplete` | tailfin-wire lib.rs:371, what an incomplete answer means | a message that was not streamed has its usage where `observe_anthropic` does not look: delivered whole, recorded incomplete, at zero tokens |

Two more that the passing runs allow for rather than refute: a client that hangs up before
the upstream answers drops the future between `begin` and `finish`, and `live` stays one too
high, and the peak that reports print with it (`LiveCountsOpenAndLeaked` and
`PeakIsHighWater` count such requests, where `begin` says it "Tracks concurrency"); and `SseDecoder::finish` emits the event in progress without the data line
still in the buffer, so a stream that stops right after the data of its last named event is
not metered (`WholeStreamIsExact` is about the endings providers use).

## 4. The proofs

`tlapm` checks every theorem. None rests on anything but the named assumptions on the
constants, which TLC evaluates in the runs, and, where it says so, a condition in the
theorem's own statement. TLC finds each inductive invariant to hold on the instance of
its run (`MeterInv` and the `LedgerInv` of LedgerFileProofs without their type parts, the
latter with the reader written as a function, which TLC can evaluate; `SeenInv` field by field, because TLC does not compare
a name with a payload, and for the longest answer with a channel of one).

| Module | Inductive invariant | Theorems: the property of the run |
|---|---|---|
| SessionIndexProofs | `IndexInv` | `TypeCorrect`: `TypeOK`; `NeverMergesFalsely`: `NoFalseMerge`; `NeverSplitsFalsely`: `NoFalseSplit`; `ScanNeverChooses`: `OneCandidate`; `SharedDepthHolds`: `SharedDepthIsHonest`; `IndexRefinesSessions`: `ImplementsSessions` |
| ShadowIndexProofs | `ShadowInv` | `ShadowAgrees`: `SamePartition`; `LiveIndexIsUntouched` (the pair implements the live index alone) |
| ProxyProofs | `CountInv`, `LedgerInv`, `BaseInv`, `StopInv`, `SealInv`, `DenyInv`, `SpendInv`, `GrownInv`, `MirrorInv`, `PeakInv` | `LiveIsExact`: `LiveCountsOpenAndLeaked`; `PeakIsExact`: `PeakIsHighWater`; `LedgerIsExact`: `OneRecordPerRequest`; `RelayTypeCorrect`: `TypeOK`; `FirstStopIsSynthetic`: `OneSyntheticStop`; `SealsArePaidFor`: `OneLastPerSeal`; `DenialsAreJust`: `NoFalseDenial`; `OvershootIsBounded`: `CeilingBound`; `VouchersConserve`: `VoucherConservation`; `WalkReachesAll`: `TreeIsConnected`; `LedgerIsTheArena`: `LedgerRebuildsArena`; `PeakIsRecorded`: `PeakSurvives` |
| LedgerFileProofs | `LedgerInv` | `ReadsAreComplete`: `ReadIsComplete`; `StampsAreExact`: `StampIsExact`; `ReportsAddUp`: `RowsAddUp` |
| CapturesProofs | `CapturesInv`, `LoadInv` | `CapturesTypeCorrect` (`TypeOK` of Captures); `SavesAreKept`: `SavedIsStored`; `LoadFailuresExplained`: `LoadFailureIsExplained`; `LoadsSeeWhatStays`: `LoadSeesWhatStays`; `ReplaysTheNewest`: `ReplayTakesTheNewest`; `PruneSparesTheYoungHolds`: `PruneSparesTheYoung` |
| StreamMeterProofs | `BodyInv`, `SeenInv`, `ChunkInv` | `TypesHold`: `TypeOK`; `WholeStreamsAreExact`: `WholeStreamIsExact`; `MeteringErrsLow`: `NeverOvercounts`; `CompletionIsEarned`: `CompleteIsEarned`; `ClientGetsTheBody`: what `RelayNeverWaits` says of the bytes; `ChunkingIsIrrelevant` (the report does not depend on chunk boundaries) |
| WsTunnelProofs | `TunnelInv`, `MeterInv`, `RecordInv` | `CopiesInOrder`: `InOrder`; `UpgradesPass`: `UpgradeSurvives`; `AnswerArrives`: what `AnswerIsWhole` says of the bytes; `RecordsTheBill`: `RecordIsTheBill`; `AnswersAreWhole`: `AnswerIsWhole` |

**SessionIndexProofs**, for every set of conversations, every minimum level, any
number of requests and any use of `retain`. `IndexInv` adds to the types that

- every session holds the digest of a request attributed to it (`Sourced`);
- all requests of a live session have the key, the digest at the minimum level, that it
  stores (`Keyed`), so a swap never changes what it is found by;
- live sessions have different keys (`Separated`), which is also why the scan of
  `resolve` has one candidate;
- requests of one session, dropped or not, have one key (`Merged`);
- without `retain`, a session once opened is live (`Tracked`).

None of the properties is inductive alone: that requests are not merged depends on the
key surviving the swap, which depends on digests being prefixes (`PrefixAgreement`: two
digests that agree at one level agree at all lower ones).

**ShadowIndexProofs** takes what is proved about one index twice, for the live one and, by
INSTANCE, for the shadow. What relates them is what each waiting task and each comparison
carries: an answer of the live index and, for a comparison, one of the shadow, to one
conversation (`Spawned`, `Noted`). Requests without a key (too short, or unreadable) get a
session of their own each time, so two notes may only meet in the session of a key
(`NotesMeet`, `NotesMeetInShadow`, and the same for tasks still waiting).

**TaskTreeProofs** holds the lemmas on `TaskTree` that both users of the tree need. Sums
over nodes are folds over a finite set, taken in an order that a CHOOSE picks; the lemmas
show that any element can be taken out first (`SumOfTakeOut`), that a sum changes by what
one summand changes, and that it is monotone. The
levels that `Subtree` is built from grow until they close, after at most as many steps as
there are nodes (`SubtreeClosed`); a new node without children changes the subtrees of its
ancestors only. `RebuiltTree` says which nodes a task folded from records has.

**ProxyProofs**, for every finite set of requests and any tree, costs,
rate, ceiling, share, faults and number of restarts. `CountInv` says that a request has a
node from its arrival on and counts in the lifetime it arrived in (`Placed`), that `live`
counts the open and the leaked (`Balanced`), and that `peak` is between `live` and the
number begun. `PeakIsExact` is an action property and follows from both ends of a step: only
`begin` moves the peak, to the new `live` if that is larger, and elsewhere `live` does not
rise above it. `LedgerInv` adds that records belong to finished requests, two
records to two requests. On top of these,

- `BaseInv`: the trees stay well formed, keep their ceiling and share, and a request of
  this lifetime finds its node where it left it. `TypeOK` follows.
- `StopInv`: a task whose flag is set has stopped somebody, and exactly one request has
  the synthetic style; a task whose flag is not set has stopped nobody.
- `SealInv`: the requests with verdict `Last` are as many as the seals. It needs that a
  seal is set by the request that is let through, in the same lock section.
- `DenyInv`: a sealed task has spent its ceiling, a sealed node its voucher, and who was
  denied met a seal. It is inductive because spend only grows.
- `SpendInv`: what a task has spent, plus the most expensive answer for each request let
  through and not yet metered, is at most ceiling - 1 plus one such answer for each request
  of the peak and one if the task is sealed. The bound on spend alone is not inductive: a
  request that finishes raises it, and only what it was counted with before pays for that.
- `GrownInv`: every node but the root is below an existing node, is reached from the root,
  has a voucher if there is a share, and the vouchers below a node add up to its own at most.
- `MirrorInv`: a node that the records of the lifetime rebuild is in the arena with the same
  account and the same parent, one they do not rebuild has an empty account, and every node
  is below the parent its requests name. The rebuilt tree is a fold over a sequence that
  grows by one record at each finish, while the arena adds nodes when requests begin: the
  two agree after every step although they saw the requests in different orders.
- `PeakInv`: no record tells more than the peak of the arena, and with nobody open or leaked
  one of them tells it. While somebody is open the peak may be known to the arena alone; the
  record is made with the peak read under the same lock as the finish, so the last one
  to leave tells it.

`OvershootIsBounded` assumes `~Upgrades`: a websocket is not asked for admission, so with
websockets there is no bound (run `doc_sealed`). `VouchersConserve` and `WalkReachesAll`
assume `OrderlyClients`, one lifetime and `CoherentRefs`: a parent makes its first
request before its children do, is not forgotten by a restart, and a node id names one
node. Each is needed: without it `allowance_of` gives the children of an unknown
parent the whole ceiling, and `walk` does not reach them. The `budget` run has them, and
`CoherentRefs` is what the declared branch of `resolve` yields for its agents
(`RefsAssumption`). `LedgerIsTheArena` assumes `OneParent`: the requests
of a node name one parent. `ensure` keeps the first parent a node was seen with, and the
ledger sees the requests in another order, so a node whose requests disagree may be
rebuilt elsewhere. `OneParent` is part of `RefsAssumption`.

**LedgerFileProofs**, for any number of proxies, records and writes. `read_all` is unrolled
into a reader that takes a byte at a time, so that what it has read can be part of an
invariant. `LedgerInv` says that the file, as the reader finds it, is in one of three
states: whole lines, which are the records acknowledged, in order; the same and one line
that was cut, of a record not acknowledged, and whoever is half way through a line is that
line's writer; or broken, and then something did tear it. The middle one is why the property is not inductive
alone: a cut line is harmless while its writer goes on and breaks the file as soon as
anyone else writes. A line cut before its newline is read as a record whose `append` has
not returned. `StampsAreExact` needs only that records of capture grade are declared.
`ReportsAddUp` assumes `ForestRefs`, that no agent is its own ancestor: a parent header is
the client's word, and agents that declare each other as parents have records, miss none,
and are still not reached from the root.

**CapturesProofs**, for any number of proxies, requests, moments, bodies and retentions.
`CapturesInv` says of every file in the store who wrote it (`FilesSourced`): it is the
record of a saved request of that path, or empty and opened by one, or garbled by two that
clash; and of every request that clashes with no other that its file is as it left it. Of
every prune it says that its cutoff is as long ago as its proxy promises (`Cutoffs`), and that
the file it is about to remove still holds the expired capture that was read there, unless
requests clash over it (`Doomed`): without this `PruneSparesTheYoung` is not provable, since
reading and removing are two steps and others write in between.

A load reads while the store changes under it, so its invariant needs to know what a step can do
to the store. That is `Evolves`, proved once for all actions: requests keep their path and
what they saved, a file goes only when its capture has outlived a retention, and what is not
stored any more does not come back. `LoadInv` follows from it: a listed file is there or has
outlived a retention, what was read was saved, and what was saved before and is still stored
has been read or is still to be read.

`ReplaysTheNewest` is about `sample_captures`, whose sort is modelled by the place each capture
ends up at, one more than the captures before it. They are ordered strictly, by moment and
then by position (the sort is stable), so places are all different and therefore all numbers
up to their count (`Places`, by FiniteSetTheorems); what is drawn are the captures
of the first places, and none left out is newer than one drawn.

**StreamMeterProofs**, for all answers made of events whose usage objects hold numbers, every
capacity, every size of the chunks and all faults. Most of it is about the decoder and the
meter as functions of bytes. `Split`, `DecodeLines` and `ObserveAll` are recursive
functions; what they do with one more element is proved from their definition, and what
they do with two sequences one after the other (`SplitConcat`, `DecodeLinesConcat`,
`ObserveAllConcat`) by induction over sequences (`SnocInd`). `PushTwice` puts them together: a
decoder that is where the bytes `c` bring a new one is brought by `u` to where `c` and `u`
at once bring it, and emits what they do beyond `c`. On top of it,

- `BodyInv`: the client has a beginning of the body; the sender is gone exactly when the
  body is, and is given up only for a dead meter.
- `SeenInv`: the channel, the decoder's buffer, its lines and its frames hold bytes, names and
  payloads that the client has been handed, and only whole lines give a payload. It does
  not ask for order, so it survives lost chunks. If the meter is terminal, some frame
  that can be made of what the client has says so.
- `ChunkInv`: unless a chunk was lost there is a `k` such that the decoder and the meter are
  where the first `k` bytes, as one chunk, would have brought them, and the chunks in the
  channel are the following bytes up to the client's last (`Tiles`). Neither of the metering
  properties is inductive without the part about the channel.

What an answer is billed at is the provider's business, so three theorems have a hypothesis
about the answers, each about answers in one chunk and none about chunks, channels or faults:
`BilledExactly` (an answer is metered at its bill), `BillCovers` (no beginning of an answer
is metered above its bill) and `NamesAgree` (a payload that completes an answer under another
event's name, which a lost chunk could put above it, completes it under its own). TLC
evaluates them for every answer of the passing runs (`AnswersAssumption`), and the theorems carry
them to every cut and every interleaving. `ChunkingIsIrrelevant` has no hypothesis. The
one answer of `doc_incomplete`, a message asked for without streaming, is not
`BilledExactly`: that is its finding.

**WsTunnelProofs**, for all answers, sizes of sockets and reads, and ways to end.
`TunnelInv` says that each buffer holds a piece of one of the two byte streams and that
the pieces join: what the client has and has in its socket, then the chunk being written, then
what stands in the upstream's socket. `crossed` marks the one way bytes are lost.

The bill rests on the frame decoder. `FrontFrame` says that a buffer that begins with the bytes
of a frame yields nothing while some are missing, and that frame and its payload, unmasked,
once all are there, whichever way its length is written. `AnswerPlaces` says where the frames
stand in the bytes. By induction over the rounds of the loop, `PushStands` follows: a call
of `push` ends behind the last frame that is whole in all that was read so far, with the
meter where those frames, one by one, bring it, whatever the chunk was. `MeterInv` says
that this is so after every read, `RecordInv` that a record is what the finished meter says,
or an empty one if no frame was read. The two theorems have hypotheses on the answers, none of
them about chunks, sockets or endings: `Framed` (a length in the second byte is below 126, and
nothing follows a close frame, as RFC 6455 has it) and `BilledByFrame` (the meter, handed the
payloads frame by frame, makes of them what `BillOf` says they cost). TLC
evaluates both for the answers of the run (`AnswersAssumption`). The part about close frames is
needed: `push` returns at a close frame, and what it leaves in its buffer waits for the next
chunk, so for a stream that goes on behind a close the bill does depend on the cuts.

Proving them changed what had been written down. `SavedIsStored` holds for retentions that
do not parse only because the default is then used; `CeilingBound` is `ceiling - 1` plus
the answers, cut off at zero for a ceiling of zero; the depth in `TreeIsConnected`
stops at the width of the `u8`; and `RowsAddUp` without a rate card fails for parents that
form a cycle.

**Only model-checked**, and why:

- Liveness, which is out of the prover's reach: `AnswersAreRecorded`,
  `RelayNeverWaits`, `MeterReports`, `TunnelEnds`, `NobodyBlocks`.
That leaves no invariant of a passing run without a theorem. What the theorems about bills
take as hypotheses (`BilledExactly`, `BillCovers`, `NamesAgree`, `BilledByFrame`) is evaluated
by TLC for the answers of the runs only.

Induction over numbers, sequences and finite sets is done with the principle of the least element
(`NatInd`, `SnocInd`, `SetInd`, by way of well-founded minimality), because the library's theorems that
take a predicate as a parameter cannot be instantiated by the provers at hand.

## 5. Not modelled, and what comes next

Not modelled: doctor (string matching over configuration), logging, TLS, the text of the
answers the proxy makes up (`stop_response`, `hello_ok`, `gateway_error`), argument
parsing, `parse_share` and `load_rates` (what they yield are constants of Proxy and
TaskTree), the layout of reports and tables, fragmented websocket messages (the decoder skips
frames of opcode 0), and the growth of an index that the proxy never asks to `retain`.
`observe.rs` is not part of the build. What is left is text and wiring: no state that
another part reads back.

What could come next: the hypotheses on answers, derived from the shape of the providers'
events; and a model of fragmented websocket messages, once the decoder reads them.
