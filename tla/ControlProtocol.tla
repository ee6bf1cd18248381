-------------------------- MODULE ControlProtocol --------------------------
(***************************************************************************)
(* What one message of a pipe client means (windows_pipe.rs): the parsers  *)
(* of control lines, JSON control objects, JSON-RPC requests and scheduler *)
(* lines, and what forward_commands does with their result: which event it *)
(* sends to the channel and which reply it writes.                         *)
(*                                                                         *)
(* A message is its parsed syntax, not its characters.  It comes as a line *)
(* of text or as a MessagePack frame; a frame holds a JSON value.          *)
(*   words  shorthand: a verb and what follows it                          *)
(*   typed  a JSON object with a "type"                                    *)
(*   rpc    a JSON object with a "jsonrpc" member                          *)
(*   json   any other JSON value                                           *)
(*   pipe   timestamp:command                                              *)
(*   text   any other line                                                 *)
(***************************************************************************)
EXTENDS Integers

CONSTANT MaxTime  (* u64::MAX *)

Bad == -1         (* what does not parse as a u64, or is missing *)
Number == (0 .. MaxTime) \cup {Bad}

PlainVerbs == {"start", "stop", "pause", "tick", "now"}
NumberVerbs == {"run", "step", "advance", "rate"}
Verbs == PlainVerbs \cup NumberVerbs

\* "note" stands for the four spellings of addFileNote.
Methods == Verbs \cup {"note", "other"}

\* A member that should be a string.
Text == {"string", "other", "missing"}

Params == [shape : {"none", "number", "array", "object"}, number : Number,
           file : Text, note : Text]

Ids == {"absent", "null", "given"}

Message ==
  [syntax : {"words", "typed"}, verb : Verbs \cup {"other"}, number : Number]
    \cup
  [syntax : {"rpc"}, version : {"2.0", "other"}, wellFormed : BOOLEAN,
   method : Methods, params : Params, id : Ids]
    \cup
  [syntax : {"pipe"}, timestamp : Number]
    \cup
  [syntax : {"json", "text"}]

\* A frame is always decoded to a JSON value.
CanBeFrame(message) == message.syntax \in {"typed", "rpc", "json"}

-----------------------------------------------------------------------------
(* The parsers: an event, or none and an error code *)

NoEvent == [kind |-> "none"]

Event(kind) == [kind |-> kind]
EventWith(kind, n) == [kind |-> kind, n |-> n]

Is(event) == [event |-> event, code |-> 0]
Fails(code) == [event |-> NoEvent, code |-> code]

InvalidRequest == -32600
MethodNotFound == -32601
InvalidParams == -32602

\* The shorthand: a verb, then a number for some.
ParseWords(verb, number) ==
  IF verb \in PlainVerbs THEN Is(Event(verb))
  ELSE IF verb = "other" THEN Fails(0)
  ELSE IF number = Bad \/ (verb = "rate" /\ number = 0) THEN Fails(InvalidParams)
  ELSE Is(EventWith(verb, number))

ParseTypedZeroRate(verb, number) ==
  IF verb \in PlainVerbs THEN Is(Event(verb))
  ELSE IF verb = "other" \/ number = Bad THEN Fails(0)
  ELSE Is(EventWith(verb, number))

\* A JSON control object: serde takes it if its type is known and the number
\* the type asks for is there; then a rate of zero is refused.
ParseTyped(verb, number) ==
  IF verb \in PlainVerbs THEN Is(Event(verb))
  ELSE IF verb = "other" \/ number = Bad THEN Fails(0)
  ELSE IF verb = "rate" /\ number = 0 THEN Fails(InvalidParams)
  ELSE Is(EventWith(verb, number))

\* extract_jsonrpc_u64
NumberIn(params) == IF params.shape = "none" THEN Bad ELSE params.number

\* extract_jsonrpc_string, for both members of a note
TextsIn(params) ==
  /\ params.shape \in {"array", "object"}
  /\ params.file = "string"
  /\ params.note = "string"

\* parse_jsonrpc_request
ParseMethod(m) ==
  LET number == NumberIn(m.params)
  IN  CASE m.method \in PlainVerbs -> Is(Event(m.method))
        [] m.method \in NumberVerbs ->
             IF number = Bad THEN Fails(InvalidParams)
             ELSE IF m.method = "rate" /\ number = 0 THEN Fails(InvalidParams)
             ELSE Is(EventWith(m.method, number))
        [] m.method = "note" ->
             IF TextsIn(m.params) THEN Is(Event("note")) ELSE Fails(InvalidParams)
        [] m.method = "other" -> Fails(MethodNotFound)

\* Deserialization asks for a jsonrpc member and a method that are strings,
\* whatever the version.
ParseRpc(m) == IF m.wellFormed THEN ParseMethod(m) ELSE Fails(InvalidRequest)

-----------------------------------------------------------------------------
(* What the handler does with a message *)

NoReply == [result |-> "none", encoding |-> "line"]

Nothing == [event |-> NoEvent, reply |-> NoReply]

\* serde reads null into an Option as None: a request with id null is taken
\* for a notification.
AsksForReply(m) == m.id = "given"

\* The id of an error reply: of a request that did not deserialize it is taken
\* from the raw value.
ReplyId(m) == IF m.id = "given" THEN "given" ELSE "null"

HandleRpcErrorsAsLines(m, encodes) ==
  LET parsed == ParseRpc(m)
  IN  IF parsed.event = NoEvent
        THEN [event |-> NoEvent,
              reply |-> [result |-> "error", code |-> parsed.code,
                         id |-> ReplyId(m), encoding |-> "line"]]
        ELSE [event |-> parsed.event,
              reply |-> IF AsksForReply(m)
                          THEN [result |-> "ok", id |-> "given",
                                encoding |-> encodes]
                          ELSE NoReply]

\* A reply to a line is a line, to a frame a frame.
HandleRpc(m, encodes) ==
  LET parsed == ParseRpc(m)
  IN  IF parsed.event = NoEvent
        THEN [event |-> NoEvent,
              reply |-> [result |-> "error", code |-> parsed.code,
                         id |-> ReplyId(m), encoding |-> encodes]]
        ELSE [event |-> parsed.event,
              reply |-> IF AsksForReply(m)
                          THEN [result |-> "ok", id |-> "given",
                                encoding |-> encodes]
                          ELSE NoReply]

\* Errors of the older syntaxes are printed on the server only.  What is no
\* instruction is tried as a scheduler line, which it may not be either.
Handle(m, encodes) ==
  CASE m.syntax = "rpc" -> HandleRpc(m, encodes)
    [] m.syntax = "words" ->
         [event |-> ParseWords(m.verb, m.number).event, reply |-> NoReply]
    [] m.syntax = "typed" ->
         [event |-> ParseTyped(m.verb, m.number).event, reply |-> NoReply]
    [] m.syntax = "pipe" /\ m.timestamp # Bad ->
         [event |-> EventWith("scheduled", m.timestamp), reply |-> NoReply]
    [] OTHER -> Nothing
=============================================================================
