----------------------------- MODULE MCWsTunnel -----------------------------
(* Instances of WsTunnel for TLC. *)
EXTENDS WsTunnel

\* All headers made of these.
Tokens == {"upgrade", "keep-alive", "x-hop"}
AllHeaders ==
  {h \in [names : SUBSET (Tokens \cup {"connection", "te", "authorization"}),
          connection : SUBSET Tokens] :
     h.connection # {} => "connection" \in h.names}

Frame(opcode, ext, masked, event, payload) ==
  [opcode |-> opcode, ext |-> ext, masked |-> masked, event |-> event, payload |-> payload]
Paid(prompt, output) == Counts(prompt, prompt \div 2, 0, None, None, output, None)
Silent == Payload("none", "no", Paid(0, 0))
Control(opcode) == Frame(opcode, 0, FALSE, Silent, <<>>)
Object(event, ext) == Frame(1, ext, FALSE, event, Text("raw", event))
Masked(event) == Frame(2, 0, TRUE, event, Text("raw", event))
Sse(event) == Frame(1, 0, FALSE, event, Text("data", event) \o <<NL, NL>>)

Created == Payload("response.created", "no", Paid(0, 0))
Failed == Payload("response.failed", "response", Paid(9, 0))
Completed == Payload("response.completed", "response", Paid(9, 5))

Responses == <<"v1", "responses">>
Realtime  == <<"v1", "realtime">>

Bytes(n) == [k \in 1..n |-> [b |-> IF k = n THEN "end" ELSE "head"]]
Answer(path, status, frames) ==
  [dialect |-> ForPath(path), head |-> Bytes(2), status |-> status, frames |-> frames]
Endless == [Answer(Realtime, 101, <<>>) EXCEPT !.head = Bytes(4)]

Codex == {Answer(Responses, 101, <<Object(Created, 0), Control(9), Object(Completed, 2), Control(8)>>),
          Answer(Responses, 101, <<Sse(Created), Sse(Completed)>>),
          Answer(Responses, 101, <<Masked(Failed)>>),
          Answer(Responses, 101, <<Object(Completed, 8)>>),
          Answer(Realtime, 101, <<Object(Completed, 0)>>),
          Answer(Responses, 404, <<>>), Endless}

Said == <<[b |-> "hello"], [b |-> "more"]>>

ASSUME AnswersAssumption == Framed(Codex) /\ BilledByFrame(Codex)
=============================================================================
