------------------------------ MODULE SseWire -------------------------------
(***************************************************************************)
(* crates/tailfin-wire: the incremental SSE decoder and the usage meter,   *)
(* as operators on their state.                                            *)
(*                                                                         *)
(* A byte stream is a sequence of symbols: a newline, or one of the two    *)
(* halves of a line's text, with the SSE field the line starts with and    *)
(* the value that follows.  A chunk is any run of symbols, so a chunk may  *)
(* end inside a line.  A line that is not the two halves of one text,      *)
(* which is what a cut or a lost chunk leaves, has the value Garbage: it   *)
(* is taken to be no JSON and no known event name.  A payload is a parsed  *)
(* JSON object: its type (or, for a response object, its `object`), where  *)
(* its usage object is (at the top, under "message", under "response", or  *)
(* nowhere) and the counts in it; a count that is not there is None, and   *)
(* where the meter takes such for 0 it is 0.                               *)
(*                                                                         *)
(* push decodes each chunk by itself (from_utf8_lossy), so a cut inside a  *)
(* multibyte character leaves replacement characters in the line.  Such    *)
(* characters only stand in strings that the meter does not look at: the   *)
(* line parses as before, with the same type and counts, and the text of   *)
(* an answer is not part of a payload here.                                *)
(***************************************************************************)
EXTENDS Integers, Sequences, SequencesExt, TLC

CONSTANTS None, Garbage

Half(field, value, part) == [field |-> field, value |-> value, part |-> part]
Text(field, value) == <<Half(field, value, 1), Half(field, value, 2)>>
NL == Half("newline", None, 1)

Payload(type, usage, counts) == [type |-> type, usage |-> usage, counts |-> counts]

\* A provider's usage object: tokens of the prompt, cached ones, cache writes as
\* a total and split by lifetime, tokens of the answer and of its thinking.
Counts(prompt, cached, flat, m5, m1, output, thinking) ==
  [prompt |-> prompt, cached |-> cached, flat |-> flat, m5 |-> m5, m1 |-> m1,
   output |-> output, thinking |-> thinking]

-----------------------------------------------------------------------------
\* struct SseDecoder; `out` is the Vec a call returns.
NewDecoder == [buf |-> <<>>, event |-> None, data |-> <<>>, out |-> <<>>]

\* The lines that `find('\n')` and `drain` take off the buffer, and what stays.
SplitByte(before, byte) ==
  IF byte = NL THEN [lines |-> Append(before.lines, before.rest), rest |-> <<>>]
  ELSE [before EXCEPT !.rest = Append(@, byte)]
Split(buf) ==
  LET upto[i \in 0..Len(buf)] ==
        IF i = 0 THEN [lines |-> <<>>, rest |-> <<>>] ELSE SplitByte(upto[i-1], buf[i])
  IN  upto[Len(buf)]

\* What a line says after its field, and the field it starts with.
Value(line) ==
  IF line = Text(line[1].field, line[1].value) THEN line[1].value ELSE Garbage
Field(line) == IF line[1].part = 1 THEN line[1].field ELSE "unknown"

Pending(dec) == dec.data # <<>> \/ dec.event # None

\* A frame is emitted; data lines are joined, and only a single one is JSON.
EmitFrame(dec) ==
  [dec EXCEPT !.event = None, !.data = <<>>,
              !.out = Append(@, [event |-> dec.event,
                                 data |-> IF Len(dec.data) = 1 THEN dec.data[1]
                                          ELSE Garbage])]

DecodeLine(dec, line) ==
  CASE line = <<>> -> IF Pending(dec) THEN EmitFrame(dec) ELSE dec
    [] line # <<>> /\ Field(line) = "event" -> [dec EXCEPT !.event = Value(line)]
    [] line # <<>> /\ Field(line) = "data" -> [dec EXCEPT !.data = Append(@, Value(line))]
    [] OTHER -> dec

DecodeLines(dec, lines) ==
  LET after[i \in 0..Len(lines)] ==
        IF i = 0 THEN dec ELSE DecodeLine(after[i-1], lines[i])
  IN  after[Len(lines)]

\* Mutant of Push: what an earlier chunk left in the buffer is dropped.
PushForgets(dec, chunk) ==
  LET s == Split(chunk)
  IN  DecodeLines([dec EXCEPT !.buf = s.rest, !.out = <<>>], s.lines)

\* Mutant of Push: the frames of the chunks before are returned once more.
PushRepeats(dec, chunk) ==
  LET s == Split(dec.buf \o chunk)
  IN  DecodeLines([dec EXCEPT !.buf = s.rest], s.lines)

\* SseDecoder::push.
Push(dec, chunk) ==
  LET s == Split(dec.buf \o chunk)
  IN  DecodeLines([dec EXCEPT !.buf = s.rest, !.out = <<>>], s.lines)

\* SseDecoder::finish: the frame in progress, without the line still in the
\* buffer; only when there is none is the buffer taken for a whole payload.
FinishDecoder(dec) ==
  IF Pending(dec) THEN EmitFrame([dec EXCEPT !.out = <<>>])
  ELSE [dec EXCEPT
          !.buf = <<>>,
          !.out = IF dec.buf = <<>> THEN <<>>
                  ELSE <<[event |-> None,
                          data |-> IF Field(dec.buf) \in {"data", "raw"}
                                   THEN Value(dec.buf) ELSE Garbage]>>]

-----------------------------------------------------------------------------
\* Dialect::for_path, of the segments of a path.
ForPath(path) ==
  LET within(name) == \E i \in 1..Len(path) - 1 : path[i] = name
  IN  CASE IsSuffix(<<"chat", "completions">>, path) -> "openai"
        [] ~IsSuffix(<<"chat", "completions">>, path)
             /\ (IsSuffix(<<"responses">>, path) \/ within("responses")) -> "responses"
        [] OTHER -> IF IsSuffix(<<"v1", "messages">>, path)
                         \/ \E i \in 1..Len(path) - 2 : SubSeq(path, i, i + 1) = <<"v1", "messages">>
                    THEN "anthropic" ELSE None

\* relay_inner meters unknown paths too; a tunnel (relay_ws) does not.
RelayDialect(path) == IF ForPath(path) = None THEN "anthropic" ELSE ForPath(path)

\* struct Usage and struct Meter.
Counters ==
  {"input", "output", "cache_write_5m", "cache_write_1h", "cache_read", "reasoning"}
NewMeter ==
  [input |-> 0, output |-> 0, cache_write_5m |-> 0, cache_write_1h |-> 0, cache_read |-> 0,
   reasoning |-> 0, terminal |-> FALSE]

OrZero(n) == IF n = None THEN 0 ELSE n

\* take_anthropic: prompt tokens are added, at the start only; output is
\* cumulative and assigned.  The split of the cache writes goes before the total.
TakeAnthropic(m, u, delta) ==
  LET add(n) == IF delta THEN 0 ELSE n
  IN  [m EXCEPT !.input = @ + add(u.prompt), !.cache_read = @ + add(u.cached),
                !.cache_write_5m = @ + add(IF u.m5 = None /\ u.m1 = None THEN u.flat
                                           ELSE OrZero(u.m5)),
                !.cache_write_1h = @ + add(OrZero(u.m1)),
                !.output = IF u.output > 0 THEN u.output ELSE @,
                !.reasoning = IF u.thinking = None THEN @ ELSE u.thinking]

\* observe_openai, take_responses: the counters they have are assigned, and
\* cached tokens are taken out of the prompt's.
TakeAssigned(m, u) ==
  [m EXCEPT !.input = IF u.prompt > u.cached THEN u.prompt - u.cached ELSE 0,
            !.cache_read = u.cached, !.output = u.output, !.reasoning = OrZero(u.thinking)]

Terminal(m) == [m EXCEPT !.terminal = TRUE]

ObserveAnthropic(m, p, kind) ==
  CASE kind = "message_start" /\ p.usage = "message" -> TakeAnthropic(m, p.counts, FALSE)
    [] kind = "message_delta" /\ p.usage = "top" -> Terminal(TakeAnthropic(m, p.counts, TRUE))
    [] OTHER -> m

ObserveOpenAi(m, p) == IF p.usage = "top" THEN Terminal(TakeAssigned(m, p.counts)) ELSE m

ObserveResponses(m, p, kind) ==
  CASE kind = "response.completed" ->
         IF p.usage \in {"response", "top"} THEN Terminal(TakeAssigned(m, p.counts)) ELSE m
    [] kind \in {"response.failed", "response.incomplete"} ->
         IF p.usage \in {"response", "top"} THEN TakeAssigned(m, p.counts) ELSE m
    [] OTHER ->
         IF p.type = "response" /\ p.usage = "top" THEN Terminal(TakeAssigned(m, p.counts)) ELSE m

\* Meter::observe.  What does not parse, and [DONE], is skipped.
Observe(dialect, m, frame) ==
  LET p    == frame.data
      kind == IF frame.event # None THEN frame.event ELSE p.type
  IN  IF p = Garbage \/ p = None THEN m
      ELSE CASE dialect = "anthropic" -> ObserveAnthropic(m, p, kind)
             [] dialect = "openai"    -> ObserveOpenAi(m, p)
             [] dialect = "responses" -> ObserveResponses(m, p, kind)

ObserveAll(dialect, m, frames) ==
  LET after[i \in 0..Len(frames)] ==
        IF i = 0 THEN m ELSE Observe(dialect, after[i-1], frames[i])
  IN  after[Len(frames)]
=============================================================================
