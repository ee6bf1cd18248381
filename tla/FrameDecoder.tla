---------------------------- MODULE FrameDecoder ----------------------------
(***************************************************************************)
(* How forward_commands (windows_pipe.rs) cuts the bytes of one pipe       *)
(* client into messages: lines of text and length-prefixed frames mixed in *)
(* one stream, told apart by the first bytes of the buffer.                *)
(*                                                                         *)
(* The text of a line and the body of a frame are never looked at here,    *)
(* but for newlines; a carriage return before the newline goes with the    *)
(* white space that the parsers of a line trim.                            *)
(***************************************************************************)
EXTENDS Integers, SequencesExt

CONSTANTS
  Messages,      (* what the client may write *)
  MaxMessages    (* bound on how many it writes *)

Byte == 0 .. 255

Newline == 10

HeaderSize == 4

\* MAX_MESSAGEPACK_FRAME_LEN, 1 MiB.
MaxFrame == 1024 * 1024

\* A line of text has no newline in it and does not begin with a zero byte.
ASSUME MessagesAssumption ==
  /\ MaxMessages \in Nat
  /\ \A m \in Messages :
       /\ m \in [kind : {"line", "frame"}, bytes : Seq(Byte)]
       /\ m.kind = "frame" => Len(m.bytes) \in 1 .. MaxFrame
       /\ m.kind = "line" => /\ Newline \notin Range(m.bytes)
                             /\ m.bytes # <<>> => Head(m.bytes) # 0

VARIABLES
  closed,   (* the client has closed its end *)
  pipe,     (* bytes written and not yet read *)
  buffer,   (* bytes read and not yet consumed *)
  decoded,  (* the messages taken from the buffer *)
  ended,    (* the handler has seen the end of the stream *)
  written   (* history: the messages the client wrote *)

vars == <<closed, pipe, buffer, decoded, ended, written>>

Init ==
  /\ closed = FALSE
  /\ pipe = <<>>
  /\ buffer = <<>>
  /\ decoded = <<>>
  /\ ended = FALSE
  /\ written = <<>>

-----------------------------------------------------------------------------
(* The client *)

\* The prefix as from_be_bytes and to_be_bytes have it; a client that follows
\* README.md:95, which says little-endian, is not understood at all.
HeaderOf(n) ==
  LET above == n \div 256
  IN  <<(above \div 256) \div 256, (above \div 256) % 256, above % 256, n % 256>>

Encoded(m) ==
  IF m.kind = "line" THEN Append(m.bytes, Newline)
  ELSE HeaderOf(Len(m.bytes)) \o m.bytes

Writes(m) ==
  /\ ~closed
  /\ Len(written) < MaxMessages
  /\ pipe' = pipe \o Encoded(m)
  /\ written' = Append(written, m)
  /\ UNCHANGED <<closed, buffer, decoded, ended>>

Closes ==
  /\ ~closed
  /\ closed' = TRUE
  /\ UNCHANGED <<pipe, buffer, decoded, ended, written>>

-----------------------------------------------------------------------------
(* The handler *)

LengthAt(bytes) ==
  256 * (256 * (256 * bytes[1] + bytes[2]) + bytes[3]) + bytes[4]

\* The buffer begins with what must be the prefix of a frame.
BeginsFrame == Len(buffer) >= HeaderSize /\ LengthAt(buffer) \in 1 .. MaxFrame

FrameEnd == HeaderSize + LengthAt(buffer)

FrameComplete == BeginsFrame /\ Len(buffer) >= FrameEnd

FramePending == BeginsFrame /\ Len(buffer) < FrameEnd

HasLine == Newline \in Range(buffer)

LineEnd == Min({i \in DOMAIN buffer : buffer[i] = Newline})

Take(kind, bytes, consumed) ==
  /\ decoded' = Append(decoded, [kind |-> kind, bytes |-> bytes])
  /\ buffer' = SubSeq(buffer, consumed + 1, Len(buffer))
  /\ UNCHANGED <<closed, pipe, ended, written>>

TakesFrame ==
  /\ ~ended
  /\ FrameComplete
  /\ Take("frame", SubSeq(buffer, HeaderSize + 1, FrameEnd), FrameEnd)

TakesLineAnyway ==
  /\ ~ended
  /\ ~FrameComplete
  /\ HasLine
  /\ Take("line", SubSeq(buffer, 1, LineEnd - 1), LineEnd)

\* A newline inside a frame that has not yet arrived whole ends no line.
TakesLine ==
  /\ ~ended
  /\ ~FrameComplete
  /\ ~FramePending
  /\ HasLine
  /\ Take("line", SubSeq(buffer, 1, LineEnd - 1), LineEnd)

NeedsBytes == ~FrameComplete /\ (FramePending \/ ~HasLine)

\* A read takes any number of the bytes that are there.
Reads ==
  /\ ~ended
  /\ NeedsBytes
  /\ \E n \in 1 .. Len(pipe) :
       /\ buffer' = buffer \o SubSeq(pipe, 1, n)
       /\ pipe' = SubSeq(pipe, n + 1, Len(pipe))
  /\ UNCHANGED <<closed, decoded, ended, written>>

SeesEndAtOnce ==
  /\ ~ended
  /\ closed
  /\ pipe = <<>>
  /\ ended' = TRUE
  /\ UNCHANGED <<closed, pipe, buffer, decoded, written>>

\* A read of no bytes; the rest of the buffer is dropped.
SeesEnd ==
  /\ ~ended
  /\ NeedsBytes
  /\ closed
  /\ pipe = <<>>
  /\ ended' = TRUE
  /\ UNCHANGED <<closed, pipe, buffer, decoded, written>>

Next ==
  \/ \E m \in Messages : Writes(m)
  \/ Closes
  \/ TakesFrame
  \/ TakesLine
  \/ Reads
  \/ SeesEnd

Spec == Init /\ [][Next]_vars

-----------------------------------------------------------------------------
(* Properties *)

\* However the reads cut the stream, the handler finds the messages the client
\* wrote, in their order: it never takes the inside of a frame for a line, nor
\* the end of one message for the beginning of the next.  It holds as long as
\* no length prefix has a newline before its last byte.  The documentation
\* promises it of every frame: "the pipe transport uses a simple length prefix
\* framing: each request is encoded as MessagePack, then prefixed with a
\* little-endian `u32` byte length" (README.md:94).
DecodedAsWritten == IsPrefix(decoded, written)

\* When the handler has seen the end of the stream, no message that was
\* written whole is left in its buffer (forward_commands reads only when the
\* buffer has nothing more to give).
NothingLeftAtEnd == ended => decoded = written /\ buffer = <<>>

=============================================================================
