-------------------------- MODULE ControlMessages --------------------------
(***************************************************************************)
(* A handler is given one message, any message, as a line or as a frame:   *)
(* the properties of the control protocol over all its inputs.  The        *)
(* message is a client's own, or what the client in pipe mode writes for a *)
(* line typed at it (run_pipe_client).                                     *)
(***************************************************************************)
EXTENDS ReplProtocol

VARIABLES
  typed,     (* the line typed at the pipe-mode client, or Untyped *)
  message,   (* the message written, NotSent before or if there is none *)
  encoding,  (* "line" or "frame" *)
  client,    (* the pipe-mode client: "reading", "closed", or "other" *)
  outcome    (* the event sent and the reply written, or Pending *)

vars == <<typed, message, encoding, client, outcome>>

Untyped == [word |-> "none"]

Pending == [event |-> [kind |-> "pending"], reply |-> NoReply]

Init ==
  /\ outcome = Pending
  /\ \/ /\ typed = Untyped
        /\ client = "other"
        /\ message \in Message
        /\ encoding \in (IF CanBeFrame(message) THEN {"line", "frame"} ELSE {"line"})
     \/ /\ typed \in TypedLine
        /\ client = "reading"
        /\ message = NotSent
        /\ encoding = "line"

Command == ParseReplCommand(typed)

\* What can be written is a line of its own, flushed at once.
ForwardReplLine ==
  /\ client = "reading"
  /\ message = NotSent
  /\ SerializeReplCommand(Command) # NotSent
  /\ message' = SerializeReplCommand(Command)
  /\ UNCHANGED <<typed, encoding, client, outcome>>

\* quit, the end of stdin, or a failing write: the client closes its pipe.
ClosesPipe ==
  /\ client = "reading"
  /\ client' = "closed"
  /\ UNCHANGED <<typed, message, encoding, outcome>>

\* A line that does not parse and help send nothing; the client reads on.
StaysSilent ==
  /\ client = "reading"
  /\ SerializeReplCommand(Command) = NotSent
  /\ Command.kind # "quit"
  /\ UNCHANGED vars

HandleMessage ==
  /\ message # NotSent
  /\ outcome = Pending
  /\ outcome' = Handle(message, encoding)
  /\ UNCHANGED <<typed, message, encoding, client>>

Handled == (outcome # Pending \/ client = "closed") /\ UNCHANGED vars

Next ==
  \/ ForwardReplLine
  \/ ClosesPipe
  \/ StaysSilent
  \/ HandleMessage
  \/ Handled

Spec == Init /\ [][Next]_vars

-----------------------------------------------------------------------------
(* Properties *)

\* No syntax lets a zero tick rate through to the dispatcher, whose assertion
\* would take down the task that owns or locks it.
NoZeroRate == outcome.event.kind = "rate" => outcome.event.n > 0

\* An instruction means the same in every syntax that can say it, in a line
\* and in a frame: a client may change syntax and not be understood otherwise.
SyntaxesAgree ==
  message.syntax = "rpc" /\ message.wellFormed /\ message.method \in Verbs =>
    LET shorthand(syntax) ==
          Handle([syntax |-> syntax, verb |-> message.method,
                  number |-> NumberIn(message.params)], "line").event
    IN  outcome # Pending => \A s \in {"words", "typed"} :
                               outcome.event = shorthand(s)

\* A JSON-RPC request is never dropped in silence and never taken for another
\* syntax: it becomes a control event, or its error is written back in its own
\* encoding.
RpcIsAnswered ==
  outcome # Pending /\ message.syntax = "rpc" =>
    \/ outcome.event.kind \in Verbs \cup {"note"}
    \/ outcome.reply.result = "error" /\ outcome.reply.encoding = encoding

\* Typed at a client in pipe mode, a command means to the server what it means
\* in local mode, and nothing comes back on a pipe the client may not be
\* reading; only what follows `pipe' is sent unread, so that what local mode
\* refuses there may be anything here (serialize_repl_command).
RemoteMeansLocal ==
  client # "other" =>
    /\ SerializeReplCommand(Command) = NotSent => LocalEvent(Command) = NoEvent
    /\ outcome # Pending =>
         \/ Command.kind = "pipe" /\ LocalEvent(Command) = NoEvent
         \/ outcome = [event |-> LocalEvent(Command), reply |-> NoReply]

-----------------------------------------------------------------------------
(* What the documentation says and the code does not do *)

\* README.md:89: "Notifications are supported by omitting the `id` field (no
\* response is emitted when `id` is absent)"; README.md:113, of id: "Any JSON
\* value. If present, the listener responds".  Not so for a notification that
\* fails, nor for an id that is null.
ReplyMatchesId ==
  outcome # Pending /\ message.syntax = "rpc" /\ message.wellFormed =>
    (outcome.reply # NoReply <=> message.id # "absent")
=============================================================================
