------------------------------ MODULE WsTunnel ------------------------------
(***************************************************************************)
(* One websocket through the proxy (ws.rs, hop.rs and relay_ws for an http *)
(* upstream): the handshake on a raw socket, the copy loop of splice_tcp,  *)
(* and the decoders and the meter that watch the upstream's side.          *)
(*                                                                         *)
(* A frame is its two header bytes, two or eight length bytes, four mask   *)
(* bytes and its payload, each a symbol; a payload is a run of the symbols *)
(* of SseWire.  Sockets hold Capacity symbols each way.  Writing to a peer *)
(* that has closed fails, or seems to work and resets the connection, upon *)
(* which what the peer had sent may be lost.  A request's headers are the  *)
(* names it has and the tokens of its Connection header.                   *)
(***************************************************************************)
EXTENDS SseWire, FiniteSets, FiniteSetsExt

CONSTANTS
  Requests,     \* headers of requests: [names, connection]
  Answers,      \* [dialect, head, status, frames] of upstreams
  ClientBytes,  \* what the client sends through the tunnel
  Capacity,     \* of a socket, each way
  ChunkSize,    \* of a read; 16 KiB in the code
  MaxHead,      \* of the upstream's head; 64 KiB in the code
  Faults        \* subset of {"client_gone", "upstream_gone", "upgrade_fails"}

IsSequence(s) == s \in Seq(ToSet(s))

\* A head is ended by its blank line, the first one there is in it.
ASSUME TunnelAssumption ==
  /\ {Capacity, ChunkSize, MaxHead} \subseteq Nat \ {0}
  /\ IsSequence(ClientBytes)
  /\ \A a \in Answers :
       /\ IsSequence(a.head) /\ a.head # <<>>
       /\ \A n \in DOMAIN a.head : (a.head[n].b = "end") <=> (n = Len(a.head))
       /\ IsSequence(a.frames)
       /\ \A k \in DOMAIN a.frames :
            a.frames[k].ext \in {0, 2, 8} /\ IsSequence(a.frames[k].payload)

VARIABLES
  answer,  \* the upstream's answer
  phase,   \* "head", "upgrading", "select", "to_upstream", "to_client" or "ended"
  head,    \* bytes of the head read so far
  chunk,   \* what write_all has still to write
  usent,   \* how much of its bytes the upstream has sent
  csent,   \* how much of its bytes the client has sent
  uin, uout, cin, cout, \* socket buffers, named from the proxy: from and to each peer
  uopen, copen,         \* whether the peers have their ends open
  ugot, cgot,           \* what the peers have received
  mt,      \* the decoders and the meter
  record,  \* what finish_locked was called with, or None
  nread,   \* history: how many bytes of frames were read from the upstream
  crossed  \* history: the proxy wrote to an upstream that had closed

relay == <<phase, head, chunk, mt, record, nread, crossed>>
peers == <<usent, csent, uopen, copen, ugot, cgot>>
vars  == <<answer, relay, uin, uout, cin, cout, peers>>

-----------------------------------------------------------------------------
HOP_BY_HOP ==
  {"connection", "keep-alive", "proxy-authenticate", "proxy-authorization",
   "proxy-connection", "te", "trailer", "transfer-encoding", "upgrade"}

\* is_websocket_upgrade, of a GET whose Upgrade header, if any, says websocket.
IsWebsocketUpgrade(h) == "upgrade" \in h.names /\ "upgrade" \in h.connection

\* Mutant of StripHopKeepingUpgrade: what Connection names is kept.
StripHopKeepingNamed(h) ==
  [names |-> (h.names \ (HOP_BY_HOP \ {"connection", "upgrade"})) \cup {"connection"},
   connection |-> {"upgrade"}]

\* strip_hop_by_hop, for requests that are no upgrade and for answers of the
\* HTTP client.  (The headers of an answer that http_handshake has read are
\* passed on as they are, hop-by-hop ones included.)
StripHopByHop(h) ==
  [names |-> h.names \ (h.connection \cup HOP_BY_HOP), connection |-> {}]

\* strip_hop_keeping_upgrade; http_handshake sends these on.
StripHopKeepingUpgrade(h) ==
  [names |-> (h.names \ ((h.connection \cup HOP_BY_HOP) \ {"connection", "upgrade"}))
               \cup {"connection"},
   connection |-> {"upgrade"}]

-----------------------------------------------------------------------------
\* A frame on the wire (RFC 6455).
Header(f) ==
  <<[b |-> "b0", opcode |-> f.opcode],
    [b |-> "b1", masked |-> f.masked,
     len |-> CASE f.ext = 0 -> Len(f.payload) [] f.ext = 2 -> 126 [] f.ext = 8 -> 127]>>
Encode(f) ==
  Header(f) \o [k \in 1..f.ext |-> [b |-> "len", len |-> Len(f.payload)]]
            \o [k \in 1..(IF f.masked THEN 4 ELSE 0) |-> [b |-> "mask"]]
            \o [k \in DOMAIN f.payload |-> [b |-> "data", masked |-> f.masked,
                                            data |-> f.payload[k]]]

\* The bytes of the first k frames of each answer, and all that the upstream has
\* to send.
Encoded ==
  [a \in Answers |-> [k \in 0..Len(a.frames) |->
                       FlattenSeq([j \in 1..k |-> Encode(a.frames[j])])]]
Stream == Encoded[answer][Len(answer.frames)]
UpstreamLen == Len(answer.head) + Len(Stream)
UpstreamByte(n) ==
  IF n <= Len(answer.head) THEN answer.head[n] ELSE Stream[n - Len(answer.head)]

\* Mutant of HeaderLen: the length is taken to be in the second byte.
HeaderLenShort(b1) == 2

HeaderLen(b1) == CASE b1.len = 126 -> 4 [] b1.len = 127 -> 10 [] OTHER -> 2

MaskLen(b1) == IF b1.masked THEN 4 ELSE 0

\* The length of the frame at the front, or 0 if it is not all there yet.
FrameLen(buf) ==
  LET b1  == buf[2]
      len == HeaderLen(b1) + MaskLen(b1) + (IF HeaderLen(b1) = 2 THEN b1.len ELSE buf[3].len)
  IN  IF Len(buf) < 2 \/ Len(buf) < HeaderLen(b1) \/ Len(buf) < len THEN 0 ELSE len

\* Its payload, unmasked.
PayloadOf(buf) ==
  LET skip == HeaderLen(buf[2]) + MaskLen(buf[2])
  IN  [k \in 1..(FrameLen(buf) - skip) |-> buf[skip + k].data]

\* A round of the loop in WsTextDecoder::push: the frame at the front is drained.
\* Payloads of text and binary frames are returned; a close frame ends the call.
TakeFrame(s) ==
  LET len == FrameLen(s.buf)
  IN  IF ~s.more \/ len = 0 THEN [s EXCEPT !.more = FALSE]
      ELSE [out  |-> IF s.buf[1].opcode \in {1, 2} THEN Append(s.out, PayloadOf(s.buf)) ELSE s.out,
            buf  |-> SubSeq(s.buf, len + 1, Len(s.buf)),
            more |-> s.buf[1].opcode # 8]

\* WsTextDecoder::push.  There are no more frames than bytes.
WsPush(buf, bytes) ==
  LET all == buf \o bytes
      after[i \in 0..Len(all)] ==
        IF i = 0 THEN [out |-> <<>>, buf |-> all, more |-> TRUE] ELSE TakeFrame(after[i-1])
  IN  after[Len(all)]

\* Dialect::for_path of the request's path says whether there is a meter.
NewMt == [ws |-> <<>>, dec |-> NewDecoder, m |-> NewMeter]

\* What the closure does with a payload: as a piece of an event stream, and as
\* an object of its own if it looks like one.
SeePayload(dialect, t, payload) ==
  LET dec == Push(t.dec, payload)
      m   == ObserveAll(dialect, t.m, dec.out)
  IN  [t EXCEPT !.dec = dec,
                !.m = IF payload # <<>> /\ Field(payload) = "raw"
                      THEN Observe(dialect, m, [event |-> None, data |-> Value(payload)])
                      ELSE m]
SeeAll(dialect, t, payloads) ==
  LET after[i \in 0..Len(payloads)] ==
        IF i = 0 THEN t ELSE SeePayload(dialect, after[i-1], payloads[i])
  IN  after[Len(payloads)]

\* on_upstream.
OnUpstream(t, bytes) ==
  IF answer.dialect = None THEN t
  ELSE LET st == WsPush(t.ws, bytes)
       IN  SeeAll(answer.dialect, [t EXCEPT !.ws = st.buf], st.out)

\* The end of the spawned task: the decoder is finished and the meter read.
Finished(dialect, t) ==
  IF dialect = None THEN NewMeter ELSE ObserveAll(dialect, t.m, FinishDecoder(t.dec).out)

-----------------------------------------------------------------------------
Init ==
  /\ answer \in Answers
  /\ phase = "head" /\ head = <<>> /\ chunk = <<>>
  /\ usent = 0 /\ csent = 0 /\ uopen = TRUE /\ copen = TRUE
  /\ uin = <<>> /\ uout = <<>> /\ cin = <<>> /\ cout = <<>>
  /\ ugot = <<>> /\ cgot = <<>>
  /\ mt = NewMt /\ record = None /\ nread = 0 /\ crossed = FALSE

\* The peers.  An upstream may send frames right behind its head; the client
\* sends once it has seen the 101.
UpstreamSends ==
  /\ uopen /\ phase # "ended" /\ usent < UpstreamLen /\ Len(uin) < Capacity
  /\ usent' = usent + 1
  /\ uin' = Append(uin, UpstreamByte(usent + 1))
  /\ UNCHANGED <<answer, relay, uout, cin, cout, csent, uopen, copen, ugot, cgot>>

ClientSends ==
  /\ copen /\ phase \notin {"head", "ended"} /\ csent < Len(ClientBytes) /\ Len(cin) < Capacity
  /\ csent' = csent + 1
  /\ cin' = Append(cin, ClientBytes[csent + 1])
  /\ UNCHANGED <<answer, relay, uin, uout, cout, usent, uopen, copen, ugot, cgot>>

UpstreamReads ==
  /\ uopen /\ uout # <<>>
  /\ ugot' = Append(ugot, Head(uout)) /\ uout' = Tail(uout)
  /\ UNCHANGED <<answer, relay, uin, cin, cout, usent, csent, uopen, copen, cgot>>

ClientReads ==
  /\ copen /\ cout # <<>>
  /\ cgot' = Append(cgot, Head(cout)) /\ cout' = Tail(cout)
  /\ UNCHANGED <<answer, relay, uin, uout, cin, usent, csent, uopen, copen, ugot>>

UpstreamCloses ==
  /\ uopen
  /\ usent = UpstreamLen \/ "upstream_gone" \in Faults
  /\ uopen' = FALSE
  /\ UNCHANGED <<answer, relay, uin, uout, cin, cout, usent, csent, copen, ugot, cgot>>

ClientCloses ==
  /\ copen /\ "client_gone" \in Faults /\ phase # "head"
  /\ copen' = FALSE
  /\ UNCHANGED <<answer, relay, uin, uout, cin, cout, usent, csent, uopen, ugot, cgot>>

\* A reset discards what was sent and not yet received.
UpstreamReset ==
  /\ crossed /\ ~uopen /\ uin # <<>> /\ uin' = <<>>
  /\ UNCHANGED <<answer, relay, uout, cin, cout, peers>>

ClientReset ==
  /\ phase = "ended" /\ cin # <<>> /\ cout # <<>> /\ cout' = <<>>
  /\ UNCHANGED <<answer, relay, uin, uout, cin, peers>>

-----------------------------------------------------------------------------
\* The record is written, and the sockets are closed.
End(t) ==
  /\ phase' = "ended" /\ record' = Finished(answer.dialect, t) /\ mt' = t /\ chunk' = <<>>

\* http_handshake gives up: relay_ws returns the error, and nothing is recorded.
HandshakeFails ==
  /\ phase = "head"
  /\ Len(head) > MaxHead \/ (uin = <<>> /\ ~uopen)
  /\ phase' = "ended"
  /\ UNCHANGED <<answer, head, chunk, mt, record, nread, crossed, uin, uout, cin, cout, peers>>

\* http_handshake reads the head one byte at a time.  Of an answer other
\* than 101 the status and all headers are passed on, with an empty body, and the
\* request is recorded as incomplete.
ReadHead ==
  /\ phase = "head" /\ uin # <<>> /\ Len(head) <= MaxHead
  /\ head' = Append(head, Head(uin)) /\ uin' = Tail(uin)
  /\ IF Head(uin).b # "end"
     THEN UNCHANGED <<phase, record>>
     ELSE /\ phase' = IF answer.status = 101 THEN "upgrading" ELSE "ended"
          /\ record' = IF answer.status = 101 THEN None ELSE NewMeter
  /\ UNCHANGED <<answer, chunk, mt, nread, crossed, uout, cin, cout, peers>>

\* The client's side becomes a tunnel, or does not.
Upgrade ==
  /\ phase = "upgrading"
  /\ \/ phase' = "select" /\ UNCHANGED <<record>>
     \/ /\ "upgrade_fails" \in Faults
        /\ phase' = "ended" /\ record' = NewMeter
  /\ UNCHANGED <<answer, head, chunk, mt, nread, crossed, uin, uout, cin, cout, peers>>

Cut(s) == Min({ChunkSize, Len(s)})

\* Mutant of Readable: read_exact instead of read.
ReadableExact(s) == Len(s) >= ChunkSize

Readable(s) == s # <<>>

\* Mutant of AtEof: the loop goes on until both sides are at their end.
AtEofBoth == cin = <<>> /\ ~copen /\ uin = <<>> /\ ~uopen

\* A read returns 0, or an error.
AtEof == (cin = <<>> /\ ~copen) \/ (uin = <<>> /\ ~uopen)

\* select!: whichever side has something is read ...
SelectClient ==
  /\ phase = "select" /\ Readable(cin)
  /\ chunk' = SubSeq(cin, 1, Cut(cin)) /\ cin' = SubSeq(cin, Cut(cin) + 1, Len(cin))
  /\ phase' = "to_upstream"
  /\ UNCHANGED <<answer, head, mt, record, nread, crossed, uin, uout, cout, peers>>

SelectUpstream ==
  /\ phase = "select" /\ Readable(uin)
  /\ chunk' = SubSeq(uin, 1, Cut(uin)) /\ uin' = SubSeq(uin, Cut(uin) + 1, Len(uin))
  /\ mt' = OnUpstream(mt, SubSeq(uin, 1, Cut(uin))) /\ nread' = nread + Cut(uin)
  /\ phase' = "to_client"
  /\ UNCHANGED <<answer, head, record, crossed, uout, cin, cout, peers>>

\* ... and the first one that is at its end ends the tunnel.
SelectEof ==
  /\ phase = "select" /\ AtEof
  /\ End(mt)
  /\ UNCHANGED <<answer, head, nread, crossed, uin, uout, cin, cout, peers>>

\* Mutant of WriteClient: write instead of write_all.
WriteClientOnce ==
  LET n == Min({Capacity - Len(cout), Len(chunk)})
  IN  /\ phase = "to_client" /\ copen /\ n > 0
      /\ cout' = cout \o SubSeq(chunk, 1, n) /\ chunk' = <<>>
      /\ phase' = "select"
      /\ UNCHANGED <<answer, head, mt, record, nread, crossed, uin, uout, cin, peers>>

\* write_all puts what fits, and nothing is read until all has been put.
WriteClient ==
  LET n == Min({Capacity - Len(cout), Len(chunk)})
  IN  /\ phase = "to_client" /\ copen /\ n > 0
      /\ cout' = cout \o SubSeq(chunk, 1, n) /\ chunk' = SubSeq(chunk, n + 1, Len(chunk))
      /\ phase' = IF n = Len(chunk) THEN "select" ELSE phase
      /\ UNCHANGED <<answer, head, mt, record, nread, crossed, uin, uout, cin, peers>>

WriteUpstream ==
  LET n == Min({Capacity - Len(uout), Len(chunk)})
  IN  /\ phase = "to_upstream" /\ uopen /\ n > 0
      /\ uout' = uout \o SubSeq(chunk, 1, n) /\ chunk' = SubSeq(chunk, n + 1, Len(chunk))
      /\ phase' = IF n = Len(chunk) THEN "select" ELSE phase
      /\ UNCHANGED <<answer, head, mt, record, nread, crossed, uin, cin, cout, peers>>

\* The peer has closed: write_all fails and ends the tunnel, or succeeds.
WriteToClosed ==
  /\ \/ phase = "to_client" /\ ~copen /\ UNCHANGED crossed
     \/ phase = "to_upstream" /\ ~uopen /\ crossed' = TRUE
  /\ \/ End(mt)
     \/ phase' = "select" /\ chunk' = <<>> /\ UNCHANGED <<mt, record>>
  /\ UNCHANGED <<answer, head, nread, uin, uout, cin, cout, peers>>

Relay ==
  \/ HandshakeFails \/ ReadHead \/ Upgrade
  \/ SelectClient \/ SelectUpstream \/ SelectEof
  \/ WriteClient \/ WriteUpstream \/ WriteToClosed

Next ==
  \/ UpstreamSends \/ ClientSends \/ UpstreamReads \/ ClientReads
  \/ UpstreamCloses \/ ClientCloses \/ UpstreamReset \/ ClientReset
  \/ Relay

Spec == Init /\ [][Next]_vars

\* ENABLED Relay.
RelayCanStep ==
  \/ phase = "head" /\ (uin # <<>> \/ ~uopen \/ Len(head) > MaxHead)
  \/ phase = "upgrading"
  \/ phase = "select" /\ (Readable(uin) \/ Readable(cin) \/ AtEof)
  \/ phase = "to_client" /\ (~copen \/ Len(cout) < Capacity)
  \/ phase = "to_upstream" /\ (~uopen \/ Len(uout) < Capacity)

\* The runtime polls the tunnel (the first conjunct is WF_vars(Relay)), and the
\* peers take what is in their sockets.  Nothing makes a peer send or close.
Fairness ==
  /\ ([]<>~RelayCanStep) \/ ([]<><<Relay>>_vars)
  /\ WF_vars(UpstreamReads) /\ WF_vars(ClientReads)

FairSpec == Spec /\ Fairness

-----------------------------------------------------------------------------
(***************************************************************************)
(* Properties.                                                             *)
(***************************************************************************)
\* The relay copies bytes (splice_tcp): each peer gets what the other sent, in
\* order, with no byte lost before a later one, doubled or moved, from the very
\* first one behind the head, however reads and writes are cut.
InOrder ==
  /\ IsPrefix(cgot \o cout, Stream)
  /\ IsPrefix(ugot \o uout, ClientBytes)

\* What the first k frames of an answer cost, as they were sent: of the counters
\* of a response the last ones count.
Counted(a, k) ==
  {j \in 1..k : a.frames[j].opcode \in {1, 2} /\ a.frames[j].event.usage # "no"}
BillOf(a, k) ==
  IF a.dialect = None \/ Counted(a, k) = {} THEN NewMeter
  ELSE LET last == a.frames[Max(Counted(a, k))].event.counts
       IN  [NewMeter EXCEPT
              !.input = last.prompt - last.cached, !.cache_read = last.cached,
              !.output = last.output,
              !.terminal = \E j \in Counted(a, k) :
                             a.frames[j].event.type = "response.completed"]

\* How many frames are whole in the first n bytes of the stream.
Whole(n) == Max({k \in 0..Len(answer.frames) : Len(Encoded[answer][k]) <= n})
Bill(n) == BillOf(answer, Whole(n))

\* What the theorems about the bill ask of answers: that lengths up to 125 stand
\* in the second byte and nothing follows a close frame (RFC 6455), and that the
\* meter, handed the payloads of the frames, makes of them what they cost.
Framed(answers) ==
  \A a \in answers : \A k \in DOMAIN a.frames :
    /\ a.frames[k].masked \in BOOLEAN
    /\ a.frames[k].ext = 0 => Len(a.frames[k].payload) < 126
    /\ a.frames[k].opcode = 8 => k = Len(a.frames)
FrameSeen(a, t, k) ==
  IF a.frames[k].opcode \in {1, 2} THEN SeePayload(a.dialect, t, a.frames[k].payload) ELSE t
FramesMetered(a) ==
  LET after[k \in 0..Len(a.frames)] == IF k = 0 THEN NewMt ELSE FrameSeen(a, after[k-1], k)
  IN  after
BilledByFrame(answers) ==
  \A a \in answers : a.dialect # None =>
    \A k \in 0..Len(a.frames) : Finished(a.dialect, FramesMetered(a)[k]) = BillOf(a, k)

\* What is recorded of a tunnel is what the provider said in the frames that
\* were read, control frames, long and masked frames, every cut of the stream
\* and every way to end it notwithstanding (WsTextDecoder, on_upstream).
RecordIsTheBill == record # None => record = Bill(nread)

\* A tunnel that the upstream ends after its answer gives the client the whole
\* answer and the ledger the whole bill, unless the client went first, or was
\* still sending to the upstream when it closed (select, splice_tcp).
AnswerIsWhole ==
  phase = "ended" /\ record # None /\ nread > 0 /\ usent = UpstreamLen
    /\ copen /\ ~crossed
  => /\ cin = <<>> => cgot \o cout = Stream
     /\ record = Bill(Len(Stream))

\* An upgrade survives the proxy, and nothing else that is meant for one hop:
\* neither what is always such nor what the client names in Connection.  Of
\* other requests no hop header survives, and they are upgrades no more
\* (is_websocket_upgrade and the two strip functions, on all headers).
UpgradeSurvives ==
  phase = "head" => \A h \in Requests :
    LET hop  == HOP_BY_HOP \cup h.connection
        sent == IF IsWebsocketUpgrade(h) THEN StripHopKeepingUpgrade(h) ELSE StripHopByHop(h)
        kept == IF IsWebsocketUpgrade(h) THEN {"connection", "upgrade"} ELSE {}
    IN  /\ IsWebsocketUpgrade(h) <=> IsWebsocketUpgrade(sent)
        /\ sent.names = (h.names \ hop) \cup kept

\* A tunnel ends when one of its peers is gone, and is then recorded: a peer
\* that is still sending, and sockets that are full, do not keep it.
TunnelEnds == (phase \notin {"head", "ended"} /\ ~(uopen /\ copen)) ~> (record # None)

\* Two peers that talk at once do not block each other, as long as each reads
\* what it gets: time and again all that was sent has arrived, unless somebody
\* closes.  (splice does not read one side while it writes to the other.)
NobodyBlocks ==
  []<>(~uopen \/ ~copen \/ phase = "ended"
       \/ uin \o uout \o cin \o cout \o chunk = <<>>)
=============================================================================
