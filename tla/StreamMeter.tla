---------------------------- MODULE StreamMeter -----------------------------
(***************************************************************************)
(* One relayed response: TeeBody (crates/tailfin-proxy/src/tee.rs) hands   *)
(* each frame of the body to the client and a clone of it, through a       *)
(* bounded channel, to the meter task (spawn_meter), which decodes it and  *)
(* reports what it cost when the body is gone.                             *)
(***************************************************************************)
EXTENDS SseWire

CONSTANTS
  Answers,    \* what upstreams send: [dialect, events, ending, bill]; the
              \* dialect is the one Dialect::for_path read off the request
  Capacity,   \* TEE_CAPACITY (64 in the code)
  MaxChunk,   \* bound on the symbols of one body frame
  Faults      \* subset of FaultKinds

FaultKinds == {"upstream_dies", "client_gone", "meter_dies"}

\* The counts of a usage object, where the code reads them as integers.
IsUsage(u) ==
  /\ {u.prompt, u.cached, u.flat, u.output} \subseteq Nat
  /\ {u.m5, u.m1, u.thinking} \subseteq Nat \cup {None}

ASSUME MeterAssumption ==
  /\ \A a \in Answers :
       /\ a.dialect \in {"anthropic", "openai", "responses"}
       /\ a.ending \in {"full", "noblank", "bare", "raw"}
       /\ a.events \in Seq(ToSet(a.events)) \ {<<>>}
       /\ \A e \in ToSet(a.events) : e.data = None \/ IsUsage(e.data.counts)
  /\ Capacity \in Nat \ {0} /\ MaxChunk \in Nat \ {0}
  /\ Faults \subseteq FaultKinds

-----------------------------------------------------------------------------
\* The bytes of one SSE event, and of a whole answer.  Upstreams differ in how
\* the last event ends: with a blank line ("full"), without it ("noblank"), or
\* with no newline at all ("bare"); "raw" is a body of one JSON object.
EncodeEvent(e) ==
  (IF e.event = None THEN <<>> ELSE Text("event", e.event) \o <<NL>>)
    \o Text("data", e.data) \o <<NL, NL>>

Encode(a) ==
  LET all == FlattenSeq([i \in DOMAIN a.events |-> EncodeEvent(a.events[i])])
  IN  CASE a.ending = "full"    -> all
        [] a.ending = "noblank" -> SubSeq(all, 1, Len(all) - 1)
        [] a.ending = "bare"    -> SubSeq(all, 1, Len(all) - 2)
        [] a.ending = "raw"     -> Text("raw", a.events[1].data)

VARIABLES
  answer,     \* what the upstream sends in this exchange
  pos,        \* how many symbols of it the body has yielded
  received,   \* what the client has been handed
  channel,    \* the mpsc channel: a sequence of chunks
  tx,         \* TeeBody.tx: "some", "none", or "dropped" with the body
  over,       \* how the exchange ended: "no", "end", "upstream", "client"
  decoder, meter,
  task,       \* the meter task: "running", "finished" or "dead"
  lost        \* history: a clone was dropped because the channel was full

vars == <<answer, pos, received, channel, tx, over, decoder, meter, task, lost>>

Bytes == Encode(answer)

Init ==
  /\ answer \in Answers
  /\ pos = 0 /\ received = <<>> /\ channel = <<>>
  /\ tx = "some" /\ over = "no"
  /\ decoder = NewDecoder /\ meter = NewMeter /\ task = "running" /\ lost = FALSE

\* Mutants of PollFrame: an unbounded channel, and one that is waited for.
PollFrameUnbounded(n) ==
  LET chunk == SubSeq(Bytes, pos + 1, pos + n)
  IN  /\ over = "no" /\ pos + n <= Len(Bytes)
      /\ pos' = pos + n
      /\ received' = received \o chunk
      /\ channel' = IF task = "running" THEN Append(channel, chunk) ELSE channel
      /\ UNCHANGED <<answer, tx, over, decoder, meter, task, lost>>

PollFrameWaits(n) ==
  LET chunk == SubSeq(Bytes, pos + 1, pos + n)
  IN  /\ over = "no" /\ pos + n <= Len(Bytes)
      /\ task = "running" => Len(channel) < Capacity
      /\ pos' = pos + n
      /\ received' = received \o chunk
      /\ channel' = IF task = "running" THEN Append(channel, chunk) ELSE channel
      /\ UNCHANGED <<answer, tx, over, decoder, meter, task, lost>>

\* TeeBody::poll_frame on a data frame: try_send, then the frame itself.
PollFrame(n) ==
  LET chunk == SubSeq(Bytes, pos + 1, pos + n)
  IN  /\ over = "no" /\ pos + n <= Len(Bytes)
      /\ pos' = pos + n
      /\ received' = received \o chunk
      /\ \/ /\ tx = "some" /\ task = "running" /\ Len(channel) < Capacity
            /\ channel' = Append(channel, chunk)
            /\ UNCHANGED <<tx, lost>>
         \/ /\ tx = "some" /\ task = "running" /\ Len(channel) >= Capacity
            /\ lost' = TRUE
            /\ UNCHANGED <<channel, tx>>
         \/ /\ tx = "some" /\ task = "dead"
            /\ tx' = "none"
            /\ UNCHANGED <<channel, lost>>
         \/ /\ tx = "none"
            /\ UNCHANGED <<channel, tx, lost>>
      /\ UNCHANGED <<answer, over, decoder, meter, task>>

\* Mutant of BodyDropped: the sender outlives the body.
SenderKept(how) ==
  /\ over = "no"
  /\ over' = how
  /\ UNCHANGED <<answer, pos, received, channel, tx, decoder, meter, task, lost>>

\* The body is dropped, at its end, on an upstream error or because the client
\* is gone; the sender is dropped with it.
BodyDropped(how) ==
  /\ over = "no"
  /\ over' = how /\ tx' = "dropped"
  /\ UNCHANGED <<answer, pos, received, channel, decoder, meter, task, lost>>

EndOfBody == pos = Len(Bytes) /\ BodyDropped("end")
UpstreamDies == "upstream_dies" \in Faults /\ pos < Len(Bytes) /\ BodyDropped("upstream")
ClientGone == "client_gone" \in Faults /\ pos < Len(Bytes) /\ BodyDropped("client")

\* The loop of the meter task: one chunk received and its frames observed.
MeterReceives ==
  LET dec == Push(decoder, Head(channel))
  IN  /\ task = "running" /\ channel # <<>>
      /\ channel' = Tail(channel)
      /\ decoder' = dec
      /\ meter' = ObserveAll(answer.dialect, meter, dec.out)
      /\ UNCHANGED <<answer, pos, received, tx, over, task, lost>>

\* Mutant of MeterFinishes: the end of the body passes for the terminal event.
MeterFinishesComplete ==
  LET dec == FinishDecoder(decoder)
  IN  /\ task = "running" /\ channel = <<>> /\ tx = "dropped"
      /\ decoder' = dec
      /\ meter' = Terminal(ObserveAll(answer.dialect, meter, dec.out))
      /\ task' = "finished"
      /\ UNCHANGED <<answer, pos, received, channel, tx, over, lost>>

\* recv returns None: what is left in the decoder is flushed and the usage
\* goes to finish_locked.
MeterFinishes ==
  LET dec == FinishDecoder(decoder)
  IN  /\ task = "running" /\ channel = <<>> /\ tx = "dropped"
      /\ decoder' = dec
      /\ meter' = ObserveAll(answer.dialect, meter, dec.out)
      /\ task' = "finished"
      /\ UNCHANGED <<answer, pos, received, channel, tx, over, lost>>

\* The meter task ends without finishing (a panic); its receiver is dropped.
MeterDies ==
  /\ "meter_dies" \in Faults /\ task = "running"
  /\ task' = "dead" /\ channel' = <<>>
  /\ UNCHANGED <<answer, pos, received, tx, over, decoder, meter, lost>>

\* The exchange is over and the meter has reported, or never will.
Over == over # "no" /\ task # "running" /\ UNCHANGED vars

Next ==
  \/ \E n \in 1..MaxChunk : PollFrame(n)
  \/ EndOfBody \/ UpstreamDies \/ ClientGone
  \/ MeterReceives \/ MeterFinishes \/ MeterDies
  \/ Over

Spec == Init /\ [][Next]_vars

\* The client reads and the upstream writes; nothing is assumed of the meter.
RelaySpec == Spec /\ WF_vars((\E n \in 1..MaxChunk : PollFrame(n)) \/ EndOfBody)

-----------------------------------------------------------------------------
\* What the meter makes of bytes that arrive as one chunk, and what it reports
\* when nothing follows them.
MeteredWhole(dialect, bytes) == ObserveAll(dialect, NewMeter, Push(NewDecoder, bytes).out)
ReportedWhole(dialect, bytes) ==
  ObserveAll(dialect, MeteredWhole(dialect, bytes), FinishDecoder(Push(NewDecoder, bytes)).out)

\* Hypotheses about a set of answers, none of which is about chunks, channels
\* or faults.  In one chunk, an answer is metered at what it is billed at;
BilledExactly(answers) ==
  \A a \in answers : ReportedWhole(a.dialect, Encode(a)) = a.bill

\* the bill covers what every beginning of the answer adds up to;
BillCovers(answers) ==
  \A a \in answers : \A k \in 0..Len(Encode(a)) : \A c \in Counters :
    LET bytes == SubSeq(Encode(a), 1, k)
    IN  /\ MeteredWhole(a.dialect, bytes)[c] <= a.bill[c]
        /\ ReportedWhole(a.dialect, bytes)[c] <= a.bill[c]

\* and a payload that says, under the name of another event of the answer or
\* under none, that the answer is complete says so under a name of its own.
NamesAgree(answers) ==
  \A a \in answers :
    \A e \in ToSet(a.events), name \in {f.event : f \in ToSet(a.events)} \cup {None, Garbage} :
      Observe(a.dialect, NewMeter, [event |-> name, data |-> e.data]).terminal
        => \E f \in ToSet(a.events) :
             f.data = e.data /\ Observe(a.dialect, NewMeter, f).terminal

-----------------------------------------------------------------------------
\* Type invariant: the channel is bounded and the counters are numbers.
TypeOK ==
  /\ pos \in 0..Len(Bytes) /\ Len(channel) <= Capacity
  /\ tx \in {"some", "none", "dropped"}
  /\ over \in {"no", "end", "upstream", "client"}
  /\ task \in {"running", "finished", "dead"}
  /\ \A c \in Counters : meter[c] \in Nat
  /\ lost \in BOOLEAN

\* Chunk boundaries do not matter (SseDecoder::push and finish, Meter): a body
\* delivered whole, of which no clone was lost, is metered at exactly what the
\* provider billed for it, wherever the body frames were cut.
WholeStreamIsExact ==
  over = "end" /\ task = "finished" /\ ~lost => meter = answer.bill

\* Metering errs on one side only: wherever the body is cut short, at no time
\* are more tokens counted than the answer is billed at.
NeverOvercounts ==
  ~lost => \A c \in Counters : meter[c] <= answer.bill[c]

\* An exchange is reported complete only if an event that says so was handed to
\* the client up to the last byte of its data, whatever the channel lost on the
\* way to the meter (Meter::is_complete).
CompleteIsEarned ==
  meter.terminal =>
    \E i \in DOMAIN answer.events, j \in DOMAIN received :
      /\ Observe(answer.dialect, NewMeter, answer.events[i]).terminal
      /\ received[j].field \in {"data", "raw"} /\ received[j].part = 2
      /\ received[j].value = answer.events[i].data

\* The tee never waits for the meter: with a meter that is slow, stuck or dead,
\* the client still gets the whole body, byte for byte.
RelayNeverWaits == <>(over # "no") /\ [](over = "end" => received = Bytes)

\* tokio runs the meter task.
MeterIsRun == WF_vars(MeterReceives) /\ WF_vars(MeterFinishes)

\* Once the body is gone, a meter task that is run reports, so that
\* finish_locked is called for the request; nothing but its death prevents it.
MeterReports == MeterIsRun => (over # "no" ~> task # "running")

\* Meter::is_complete: "False means the client aborted, the upstream died, or
\* -- for OpenAI -- the caller never set `stream_options.include_usage`".
IncompleteIsExplained ==
  task = "finished" /\ ~meter.terminal =>
    \/ over \in {"client", "upstream"}
    \/ answer.dialect = "openai" /\ ~answer.bill.terminal
=============================================================================
