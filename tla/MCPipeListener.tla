--------------------------- MODULE MCPipeListener ---------------------------
(* Instances of PipeListener. *)
EXTENDS PipeListener, TLC

ClientSymmetry == Permutations(Clients)

NoParams == [shape |-> "none", number |-> Control!Bad,
             file |-> "missing", note |-> "missing"]

OneNumber(n) == [NoParams EXCEPT !.shape = "object", !.number = n]

Rpc(method, params, id) ==
  [syntax |-> "rpc", version |-> "2.0", wellFormed |-> TRUE,
   method |-> method, params |-> params, id |-> id]

Line(message) == [message |-> message, encoding |-> "line"]
Frame(message) == [message |-> message, encoding |-> "frame"]

Schedule(t) == Line([syntax |-> "pipe", timestamp |-> t])
Words(verb, number) ==
  Line([syntax |-> "words", verb |-> verb, number |-> number])

\* What every event comes from, with and without a reply, an error, and a
\* line that is ignored.
AllInputs == {
  Schedule(1),
  Words("start", Control!Bad),
  Words("step", 2),
  Frame([syntax |-> "typed", verb |-> "run", number |-> 2]),
  Frame(Rpc("tick", NoParams, "given")),
  Frame(Rpc("now", NoParams, "absent")),
  Frame(Rpc("other", NoParams, "given")),
  Line(Rpc("advance", OneNumber(1), "given")),
  Line(Rpc("rate", OneNumber(2), "given")),
  Line([syntax |-> "text"]) }

\* Enough to start the timer, to fill the channel and to ask for a reply.
LiveInputs == {
  Words("start", Control!Bad),
  Frame(Rpc("now", NoParams, "given")) }
=============================================================================
