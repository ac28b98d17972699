----------------------------- MODULE MCCaptures -----------------------------
(* Instances of Captures for TLC. *)
EXTENDS Captures

CONSTANTS s1, s2

\* Two sessions, each with an agent; the names of the agents begin alike.
Tasks == {s1, s2}
Callers == {[task |-> t, node |-> "subagent-review"] : t \in Tasks}
TaskDir == [t \in Tasks |-> t]
NodePrefix == [n \in {"subagent-review"} |-> "subagentrevi"]

Chat == [json |-> TRUE, words |-> {}, messages |-> <<"text">>, tools |-> 0, size |-> 1]
Build == [json |-> FALSE, words |-> {"main"}, messages |-> <<>>, tools |-> 0, size |-> 2]
Requests == {Chat, Build}

\* A second apart.  With a retention of zero the captures of an earlier moment
\* have expired, and those of the same are on the edge.
Times == {100000, 101000}
AtOnce == [n |-> 0, unit |-> "s"]
Week   == [n |-> 1, unit |-> "w"]
Retentions == {AtOnce, Week}
Sinces == {None, AtOnce, Week}
TwoModels == <<"haiku", "sonnet">>

\* Proxies are interchangeable, and so are sessions.
StoreSymmetry == Permutations(Procs) \cup Permutations(Tasks)
=============================================================================
