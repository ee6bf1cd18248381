---------------------------- MODULE ReplProtocol ----------------------------
(***************************************************************************)
(* The lines typed at the client (client/src/main.rs): what they parse to, *)
(* what the local client does with them, and what the client in pipe mode  *)
(* writes to its server instead.                                           *)
(*                                                                         *)
(* A typed line is its first word and what matters of the rest.            *)
(***************************************************************************)
EXTENDS ControlProtocol

ReplVerbs == {"start", "stop", "tick", "now"}

Empty == [syntax |-> "empty"]

\* What may follow `pipe': nothing, or any line at all.
TypedLine ==
  [word : Verbs \cup {"help", "quit", "other"}, number : Number]
    \cup
  [word : {"enqueue"}, number : Number, body : BOOLEAN]
    \cup
  [word : {"pipe"}, line : Message \cup {Empty}]

Unparsed == [kind |-> "unparsed"]

\* parse_repl_command.  It knows no `pause'.
ParseReplCommand(line) ==
  CASE line.word \in ReplVerbs \cup {"help", "quit"} -> [kind |-> line.word]
    [] /\ line.word \in NumberVerbs
       /\ line.number # Bad
       /\ line.word = "rate" => line.number # 0
         -> [kind |-> line.word, n |-> line.number]
    [] line.word = "enqueue" /\ line.number # Bad /\ line.body
         -> [kind |-> "enqueue", n |-> line.number]
    [] line.word = "pipe" /\ line.line # Empty
         -> [kind |-> "pipe", line |-> line.line]
    [] OTHER -> Unparsed

\* What the local client does with a command, as the event that does the same:
\* `pipe' takes nothing but timestamp:command.
LocalEvent(command) ==
  CASE command.kind \in ReplVerbs -> Event(command.kind)
    [] command.kind \in NumberVerbs -> EventWith(command.kind, command.n)
    [] command.kind = "enqueue" -> EventWith("scheduled", command.n)
    [] command.kind = "pipe" /\ command.line.syntax = "pipe"
                             /\ command.line.timestamp # Bad
         -> EventWith("scheduled", command.line.timestamp)
    [] OTHER -> NoEvent

NotSent == [syntax |-> "none"]

SerializeAdvanceAsStep(command) ==
  CASE command.kind \in ReplVerbs ->
         [syntax |-> "words", verb |-> command.kind, number |-> Bad]
    [] command.kind = "advance" ->
         [syntax |-> "words", verb |-> "step", number |-> command.n]
    [] command.kind \in NumberVerbs \ {"advance"} ->
         [syntax |-> "words", verb |-> command.kind, number |-> command.n]
    [] command.kind = "enqueue" -> [syntax |-> "pipe", timestamp |-> command.n]
    [] command.kind = "pipe" -> command.line
    [] OTHER -> NotSent

\* serialize_repl_command: the line the pipe-mode client writes.  What follows
\* `pipe' goes out as it was typed.
SerializeReplCommand(command) ==
  CASE command.kind \in ReplVerbs ->
         [syntax |-> "words", verb |-> command.kind, number |-> Bad]
    [] command.kind \in NumberVerbs ->
         [syntax |-> "words", verb |-> command.kind, number |-> command.n]
    [] command.kind = "enqueue" -> [syntax |-> "pipe", timestamp |-> command.n]
    [] command.kind = "pipe" -> command.line
    [] OTHER -> NotSent
=============================================================================
