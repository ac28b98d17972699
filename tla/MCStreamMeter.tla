--------------------------- MODULE MCStreamMeter ----------------------------
(***************************************************************************)
(* Instances of StreamMeter for TLC: answers as the providers send them,   *)
(* with what they are billed at.                                           *)
(***************************************************************************)
EXTENDS StreamMeter

Event(name, data) == [event |-> name, data |-> data]
Answer(path, events, ending, bill) ==
  [dialect |-> RelayDialect(path), events |-> events, ending |-> ending, bill |-> bill]

V1 == <<"v1", "messages">>
Session == <<"v1", "sessions", "7">>
Chat == <<"v1", "chat", "completions">>
Codex == <<"backend-api", "responses">>

\* What is billed: six tiers, and whether the provider said so.
Bill(input, read, m5, m1, output, thinking, terminal) ==
  [input |-> input, cache_read |-> read, cache_write_5m |-> m5, cache_write_1h |-> m1,
   output |-> output, reasoning |-> thinking, terminal |-> terminal]
Nothing == Bill(0, 0, 0, 0, 0, 0, FALSE)

Zero == Counts(0, 0, 0, None, None, 0, None)
Start == Event("message_start", Payload("message_start", "message", Counts(3, 7, 4, 1, 2, 1, None)))
Flat  == Event("message_start", Payload("message_start", "message", Counts(3, 7, 4, None, None, 1, None)))
Early == Event("message_delta", Payload("message_delta", "top", Counts(0, 0, 0, None, None, 2, 1)))
Delta == Event("message_delta", Payload("message_delta", "top", Counts(0, 0, 0, None, None, 5, None)))
Message == Event(None, Payload("message", "top", Counts(3, 7, 4, 1, 2, 5, None)))

Chunk == Event(None, Payload("chunk", "no", Zero))
Partial == Event(None, Payload("chunk", "top", Counts(9, 7, 0, None, None, 2, 1)))
Final == Event(None, Payload("chunk", "top", Counts(9, 7, 0, None, None, 5, 3)))
Done  == Event(None, None)

Whole == Counts(9, 7, 0, None, None, 5, 3)
Completed == Event("response.completed", Payload("response.completed", "response", Whole))
Failed    == Event("response.failed", Payload("response.failed", "response", Counts(9, 7, 0, None, None, 0, None)))
Object    == Event(None, Payload("response", "top", Whole))

Split5m1h == Bill(3, 7, 1, 2, 5, 0, TRUE)
Thought   == Bill(3, 7, 4, 0, 5, 1, TRUE)
Cached    == Bill(2, 7, 0, 0, 5, 3, TRUE)

Anthropic == {Answer(V1, <<Flat, Early, Delta>>, "full", Thought),
              Answer(Session, <<Start, Delta>>, "noblank", Split5m1h)}
Short     == {Answer(V1, <<Start, Delta>>, "full", Split5m1h)}
OpenAi    == {Answer(Chat, <<Chunk, Partial, Final, Done>>, "full", Cached),
              Answer(Chat, <<Chunk, Done>>, "full", Nothing),
              Answer(Chat, <<Final>>, "bare", Cached),
              Answer(Chat, <<Final>>, "raw", Cached)}
Responses == {Answer(Codex, <<Completed>>, "full", Cached),
              Answer(Codex, <<Failed>>, "noblank", Bill(2, 7, 0, 0, 0, 0, FALSE)),
              Answer(Codex, <<Object>>, "raw", Cached),
              Answer(Codex, <<Object>>, "bare", Cached)}
Everything == Anthropic \cup OpenAi \cup Responses
\* A message that was not asked for as a stream, as one JSON object.
OneObject == {Answer(V1, <<Message>>, "raw", Split5m1h)}

\* The hypotheses of the theorems about metering hold of every answer but it.
ASSUME AnswersAssumption ==
  LET answers == Everything \cup Short
  IN  BilledExactly(answers) /\ BillCovers(answers) /\ NamesAgree(answers)
=============================================================================
