---------------------------- MODULE MCDemoServer ----------------------------
(* An instance of DemoServer. *)
EXTENDS DemoServer, SequencesExt

Message(message) == [kind |-> "message", message |-> message]
Words(verb, number) ==
  Message([syntax |-> "words", verb |-> verb, number |-> number])
Pipe(name) == [kind |-> "pipe", name |-> name]
Schedule(t) == Message([syntax |-> "pipe", timestamp |-> t])

SomeLines == {
  Schedule(0), Schedule(2),
  Words("start", Control!Bad), Words("stop", Control!Bad),
  Words("step", 1), Words("run", 2), Words("advance", 2), Words("rate", 1),
  Message([syntax |-> "text"]),
  Pipe(OutputName), Pipe("") }

SomeScripts == BoundedSeq(SomeLines, 3)
=============================================================================
