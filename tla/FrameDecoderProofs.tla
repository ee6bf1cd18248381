------------------------- MODULE FrameDecoderProofs -------------------------
(***************************************************************************)
(* Proofs about FrameDecoder, for all lines and all frames up to 1 MiB of  *)
(* any content whose prefix has no newline before its last byte, and for   *)
(* any number of them.  The invariant says where in the bytes not yet      *)
(* consumed each message begins that is not yet decoded.                   *)
(***************************************************************************)
EXTENDS FrameDecoder, TLAPS

-----------------------------------------------------------------------------
(* The invariant *)

\* A length prefix can be mistaken for a line only if a newline comes before
\* its last byte: with fewer than four bytes there is no prefix yet.
SafePrefixes ==
  \A m \in Messages : m.kind = "frame" =>
    \A i \in 1 .. 3 : HeaderOf(Len(m.bytes))[i] # Newline

TypeInv ==
  /\ closed \in BOOLEAN
  /\ ended \in BOOLEAN
  /\ pipe \in Seq(Byte)
  /\ buffer \in Seq(Byte)
  /\ decoded \in Seq(Messages)
  /\ written \in Seq(Messages)

\* What is written and not consumed.
Stream == buffer \o pipe

\* The messages not yet decoded lie in the stream one behind the other, the
\* k-th from the place after at[k] on.
Placed(at) ==
  /\ at[Len(decoded) + 1] = 0
  /\ at[Len(written) + 1] = Len(Stream)
  /\ \A j, k \in Len(decoded) + 1 .. Len(written) + 1 : j <= k => at[j] <= at[k]
  /\ \A k \in Len(decoded) + 1 .. Len(written) :
       /\ at[k + 1] = at[k] + Len(Encoded(written[k]))
       /\ \A i \in 1 .. Len(Encoded(written[k])) :
            Stream[at[k] + i] = Encoded(written[k])[i]

InStream == \E at \in [Nat -> Int] : Placed(at)

Decoding ==
  /\ Len(decoded) <= Len(written)
  /\ \A k \in 1 .. Len(decoded) : decoded[k] = written[k]

DecoderInv ==
  /\ TypeInv
  /\ Decoding
  /\ InStream
  /\ ended => closed /\ pipe = <<>> /\ buffer = <<>> /\ Len(decoded) = Len(written)

-----------------------------------------------------------------------------
(* Sequences and messages *)

LEMMA ConcatFacts ==
  ASSUME NEW S, NEW s \in Seq(S), NEW t \in Seq(S)
  PROVE  /\ s \o t \in Seq(S)
         /\ Len(s) \in Nat /\ Len(t) \in Nat
         /\ Len(s \o t) = Len(s) + Len(t)
         /\ \A i \in 1 .. Len(s) : (s \o t)[i] = s[i]
         /\ \A i \in 1 .. Len(t) : (s \o t)[Len(s) + i] = t[i]
  OBVIOUS

LEMMA SubSeqFacts ==
  ASSUME NEW S, NEW s \in Seq(S), NEW m \in 1 .. Len(s) + 1, NEW n \in m - 1 .. Len(s)
  PROVE  /\ SubSeq(s, m, n) \in Seq(S)
         /\ Len(SubSeq(s, m, n)) = n - m + 1
         /\ \A i \in 1 .. n - m + 1 : SubSeq(s, m, n)[i] = s[m + i - 1]
  OBVIOUS

LEMMA SameSequence ==
  ASSUME NEW S, NEW s \in Seq(S), NEW t \in Seq(S), Len(s) = Len(t),
         \A i \in 1 .. Len(s) : s[i] = t[i]
  PROVE  s = t
  OBVIOUS

LEMMA FrameLimit ==
  MaxFrame \in Nat /\ MaxFrame < 256 * (256 * 256)
<1>1. 1024 * 1024 \in Nat /\ 1024 * 1024 < 256 * (256 * 256)
  BY SMT
<1> QED  BY <1>1, Zenon DEF MaxFrame

\* What the first four bytes say is what was written into them.
LEMMA PrefixHoldsLength ==
  ASSUME NEW n \in 1 .. MaxFrame
  PROVE  /\ HeaderOf(n) \in Seq(Byte) /\ Len(HeaderOf(n)) = 4
         /\ LengthAt(HeaderOf(n)) = n
<1> DEFINE above == n \div 256
           top == above \div 256
<1>1. n \in Nat /\ n <= 1024 * 1024
  <2>1. 1024 * 1024 \in Nat
    BY SMT
  <2> DEFINE mib == 1024 * 1024
  <2>2. MaxFrame = mib
    BY DEF MaxFrame
  <2>3. n \in 1 .. mib /\ mib \in Nat
    BY <2>1, <2>2
  <2> HIDE DEF mib
  <2>4. n \in Nat /\ n <= mib
    BY <2>3
  <2> QED  BY <2>4 DEF mib
<1>2. above \in Nat /\ n = 256 * above + (n % 256) /\ n % 256 \in Byte
  BY <1>1 DEF Byte
<1>3. top \in Nat /\ above = 256 * top + (above % 256) /\ above % 256 \in Byte
  BY <1>2 DEF Byte
<1>4. top <= 16
  BY <1>1, <1>2, <1>3 DEF Byte
<1>5. top \div 256 = 0 /\ top % 256 = top /\ top \in Byte
  BY <1>3, <1>4 DEF Byte
<1>6. HeaderOf(n) = <<0, top, above % 256, n % 256>>
  BY <1>5 DEF HeaderOf
<1> HIDE DEF above, top
<1>7. HeaderOf(n) \in Seq(Byte) /\ Len(HeaderOf(n)) = 4
  <2>1. 0 \in Byte
    BY DEF Byte
  <2> QED  BY <1>2, <1>3, <1>5, <1>6, <2>1
<1>8. LengthAt(HeaderOf(n)) = 256 * (256 * (256 * 0 + top) + (above % 256)) + (n % 256)
  BY <1>6 DEF LengthAt
<1>9. above % 256 \in Nat /\ n % 256 \in Nat
  BY <1>2, <1>3 DEF Byte
<1> QED  BY <1>1, <1>2, <1>3, <1>7, <1>8, <1>9

LEMMA MessageFacts ==
  ASSUME NEW m \in Messages
  PROVE  /\ m = [kind |-> m.kind, bytes |-> m.bytes]
         /\ m.kind \in {"line", "frame"} /\ m.bytes \in Seq(Byte) /\ Len(m.bytes) \in Nat
         /\ Encoded(m) \in Seq(Byte) /\ Len(Encoded(m)) \in Nat \ {0}
         /\ m.kind = "line" =>
              /\ Len(Encoded(m)) = Len(m.bytes) + 1
              /\ Encoded(m)[1] # 0
              /\ Encoded(m)[Len(m.bytes) + 1] = Newline
              /\ \A i \in 1 .. Len(m.bytes) :
                   Encoded(m)[i] = m.bytes[i] /\ m.bytes[i] # Newline
         /\ m.kind = "frame" =>
              /\ Len(m.bytes) \in 1 .. MaxFrame
              /\ Len(Encoded(m)) = 4 + Len(m.bytes)
              /\ \A i \in 1 .. 4 : Encoded(m)[i] = HeaderOf(Len(m.bytes))[i]
              /\ \A i \in 1 .. Len(m.bytes) : Encoded(m)[4 + i] = m.bytes[i]
<1>1. /\ m = [kind |-> m.kind, bytes |-> m.bytes]
      /\ m.kind \in {"line", "frame"} /\ m.bytes \in Seq(Byte) /\ Len(m.bytes) \in Nat
  BY MessagesAssumption
<1>2. CASE m.kind = "line"
  <2>1. Encoded(m) = Append(m.bytes, Newline) /\ Newline \in Byte /\ Newline = 10
    BY <1>2 DEF Encoded, Newline, Byte
  <2>2. /\ Encoded(m) \in Seq(Byte)
        /\ Len(Encoded(m)) = Len(m.bytes) + 1
        /\ Encoded(m)[Len(m.bytes) + 1] = Newline
        /\ \A i \in 1 .. Len(m.bytes) : Encoded(m)[i] = m.bytes[i]
    BY <1>1, <2>1
  <2>3. \A i \in 1 .. Len(m.bytes) : m.bytes[i] # Newline
    BY <1>1, <1>2, MessagesAssumption DEF Range
  <2>4. Encoded(m)[1] # 0
    <3>1. CASE m.bytes = <<>>
      BY <2>1, <2>2, <3>1
    <3>2. CASE m.bytes # <<>>
      <4>1. Head(m.bytes) # 0 /\ Head(m.bytes) = m.bytes[1] /\ 1 \in 1 .. Len(m.bytes)
        BY <1>1, <1>2, <3>2, MessagesAssumption
      <4> QED  BY <2>2, <4>1
    <3> QED  BY <3>1, <3>2
  <2> QED  BY <1>1, <1>2, <2>2, <2>3, <2>4
<1>3. CASE m.kind = "frame"
  <2>1. Encoded(m) = HeaderOf(Len(m.bytes)) \o m.bytes
    BY <1>3 DEF Encoded
  <2>2. Len(m.bytes) \in 1 .. MaxFrame
    BY <1>3, MessagesAssumption
  <2>3. HeaderOf(Len(m.bytes)) \in Seq(Byte) /\ Len(HeaderOf(Len(m.bytes))) = 4
    BY <2>2, PrefixHoldsLength
  <2>4. /\ Encoded(m) \in Seq(Byte)
        /\ Len(Encoded(m)) = 4 + Len(m.bytes)
        /\ \A i \in 1 .. 4 : Encoded(m)[i] = HeaderOf(Len(m.bytes))[i]
        /\ \A i \in 1 .. Len(m.bytes) : Encoded(m)[4 + i] = m.bytes[i]
    <3> DEFINE h == HeaderOf(Len(m.bytes))
               b == m.bytes
    <3>1. h \in Seq(Byte) /\ b \in Seq(Byte)
      BY <1>1, <2>3
    <3>2. Len(h) = 4 /\ Encoded(m) = h \o b
      BY <2>1, <2>3
    <3> HIDE DEF h, b
    <3>3. /\ h \o b \in Seq(Byte) /\ Len(h \o b) = Len(h) + Len(b)
          /\ \A i \in 1 .. Len(h) : (h \o b)[i] = h[i]
          /\ \A i \in 1 .. Len(b) : (h \o b)[Len(h) + i] = b[i]
      BY <3>1, ConcatFacts
    <3> QED  BY <3>2, <3>3 DEF h, b
  <2> QED  BY <1>1, <1>3, <2>2, <2>4
<1> QED  BY <1>1, <1>2, <1>3

-----------------------------------------------------------------------------
(* The message at the front of the buffer *)

LEMMA Counts ==
  ASSUME TypeInv
  PROVE  /\ Len(buffer) \in Nat /\ Len(pipe) \in Nat
         /\ Len(decoded) \in Nat /\ Len(written) \in Nat
         /\ Stream \in Seq(Byte) /\ Len(Stream) = Len(buffer) + Len(pipe)
         /\ \A i \in 1 .. Len(buffer) : Stream[i] = buffer[i]
         /\ \A i \in 1 .. Len(buffer) : buffer[i] \in Byte
<1>1. buffer \in Seq(Byte) /\ pipe \in Seq(Byte)
  BY DEF TypeInv
<1>2. Len(decoded) \in Nat /\ Len(written) \in Nat
  BY DEF TypeInv
<1>3. \A i \in 1 .. Len(buffer) : buffer[i] \in Byte
  BY <1>1
<1> QED  BY <1>1, <1>2, <1>3, ConcatFacts DEF Stream

\* The next message that is written and not decoded.
NextMessage == written[Len(decoded) + 1]

LEMMA NextMessageFirst ==
  ASSUME DecoderInv, Len(decoded) # Len(written)
  PROVE  /\ Len(decoded) + 1 \in 1 .. Len(written)
         /\ NextMessage \in Messages
         /\ Len(Encoded(NextMessage)) <= Len(Stream)
         /\ \A i \in 1 .. Len(Encoded(NextMessage)) :
              i <= Len(buffer) => buffer[i] = Encoded(NextMessage)[i]
<1>1. TypeInv /\ Len(decoded) <= Len(written)
  BY DEF DecoderInv, Decoding
<1>2. Len(decoded) \in Nat /\ Len(written) \in Nat /\ Len(buffer) \in Nat
  BY <1>1, Counts
<1>3. Len(decoded) + 1 \in 1 .. Len(written)
  BY <1>1, <1>2
<1>4. NextMessage \in Messages
  BY <1>1, <1>3 DEF TypeInv, NextMessage
<1>5. PICK at \in [Nat -> Int] : Placed(at)
  BY DEF DecoderInv, InStream
<1> DEFINE k == Len(decoded) + 1
<1>6. /\ at[k] = 0
      /\ at[k + 1] = at[k] + Len(Encoded(NextMessage))
      /\ at[k + 1] <= Len(Stream)
      /\ \A i \in 1 .. Len(Encoded(NextMessage)) :
           Stream[at[k] + i] = Encoded(NextMessage)[i]
  <2>1. k \in Len(decoded) + 1 .. Len(written)
    BY <1>2, <1>3
  <2>2. /\ k + 1 \in Len(decoded) + 1 .. Len(written) + 1
        /\ Len(written) + 1 \in Len(decoded) + 1 .. Len(written) + 1
        /\ k + 1 <= Len(written) + 1
    BY <1>2, <1>3
  <2>3. at[k + 1] <= at[Len(written) + 1]
    BY <1>5, <2>2 DEF Placed
  <2> QED  BY <1>5, <2>1, <2>3 DEF Placed, NextMessage
<1> HIDE DEF k
<1>7. Len(Encoded(NextMessage)) \in Nat
  BY <1>4, MessageFacts
<1>8. Len(Encoded(NextMessage)) <= Len(Stream)
  BY <1>6, <1>7
<1>9. ASSUME NEW i \in 1 .. Len(Encoded(NextMessage)), i <= Len(buffer)
      PROVE  buffer[i] = Encoded(NextMessage)[i]
  <2>1. i \in Nat /\ i \in 1 .. Len(buffer)
    BY <1>2, <1>7, <1>9
  <2>2. Stream[0 + i] = Encoded(NextMessage)[i] /\ 0 + i = i
    BY <1>6, <2>1
  <2>3. Stream[i] = buffer[i]
    BY <1>1, <2>1, Counts
  <2> QED  BY <2>2, <2>3
<1> QED  BY <1>3, <1>4, <1>8, <1>9

LEMMA StreamUsedUp ==
  ASSUME DecoderInv, Len(decoded) = Len(written)
  PROVE  buffer = <<>> /\ pipe = <<>>
<1>1. TypeInv
  BY DEF DecoderInv
<1>2. PICK at \in [Nat -> Int] : Placed(at)
  BY DEF DecoderInv, InStream
<1>3. Len(Stream) = 0
  BY <1>2 DEF Placed
<1>4. Len(buffer) = 0 /\ Len(pipe) = 0
  BY <1>1, <1>3, Counts
<1> QED  BY <1>1, <1>4 DEF TypeInv

LEMMA FirstNewline ==
  ASSUME TypeInv, NEW n \in 1 .. Len(buffer), buffer[n] = Newline,
         \A i \in 1 .. n - 1 : buffer[i] # Newline
  PROVE  HasLine /\ LineEnd = n
<1>1. n \in DOMAIN buffer /\ DOMAIN buffer = 1 .. Len(buffer) /\ Len(buffer) \in Nat
  BY DEF TypeInv
<1>2. HasLine
  BY <1>1 DEF HasLine, Range
<1> DEFINE places == {i \in DOMAIN buffer : buffer[i] = Newline}
<1>3. n \in places /\ \A i \in places : n <= i
  BY <1>1
<1>4. \A i \in places : (\A j \in places : i <= j) => i = n
  BY <1>1, <1>3
<1>5. Min(places) = n
  BY <1>3, <1>4 DEF Min
<1> QED  BY <1>2, <1>5 DEF LineEnd

\* No frame begins where a line does, and the newline that ends the line is
\* the first one.
LEMMA LineAhead ==
  ASSUME DecoderInv, Len(decoded) # Len(written), NextMessage.kind = "line"
  PROVE  /\ ~BeginsFrame
         /\ HasLine => Len(buffer) >= Len(Encoded(NextMessage))
         /\ Len(buffer) >= Len(Encoded(NextMessage)) =>
              HasLine /\ LineEnd = Len(NextMessage.bytes) + 1
<1> DEFINE m == NextMessage
           size == Len(m.bytes)
<1>1. TypeInv /\ m \in Messages
  BY NextMessageFirst DEF DecoderInv
<1>2. /\ size \in Nat /\ Len(Encoded(m)) = size + 1 /\ Encoded(m)[1] # 0
      /\ Encoded(m)[size + 1] = Newline
      /\ \A i \in 1 .. size : Encoded(m)[i] # Newline
  BY <1>1, MessageFacts
<1>3. \A i \in 1 .. size + 1 : i <= Len(buffer) => buffer[i] = Encoded(m)[i]
  BY <1>2, NextMessageFirst
<1>4. Len(buffer) \in Nat /\ \A i \in 1 .. Len(buffer) : buffer[i] \in Byte
  BY <1>1, Counts
<1> HIDE DEF m, size
<1>5. ~BeginsFrame
  <2> SUFFICES ASSUME Len(buffer) >= 4 PROVE LengthAt(buffer) \notin 1 .. MaxFrame
    BY DEF BeginsFrame, HeaderSize
  <2>1. buffer[1] # 0
    <3>1. 1 \in 1 .. size + 1 /\ 1 <= Len(buffer)
      BY <1>2, <1>4
    <3> QED  BY <1>2, <1>3, <3>1
  <2>2. /\ buffer[1] \in Nat \ {0} /\ buffer[2] \in Nat
        /\ buffer[3] \in Nat /\ buffer[4] \in Nat
    <3>1. 1 \in 1 .. Len(buffer) /\ 2 \in 1 .. Len(buffer)
      BY <1>4
    <3>2. 3 \in 1 .. Len(buffer) /\ 4 \in 1 .. Len(buffer)
      BY <1>4
    <3>3. \A x \in Byte : x \in Nat
      BY DEF Byte
    <3> QED  BY <1>4, <2>1, <3>1, <3>2, <3>3
  <2>3. LengthAt(buffer) \in Nat /\ LengthAt(buffer) >= 256 * (256 * 256)
    <3>1. 256 * buffer[1] + buffer[2] \in Nat \ {0} /\ 256 * buffer[1] + buffer[2] >= 256
      BY <2>2
    <3> DEFINE two == 256 * buffer[1] + buffer[2]
               three == 256 * two + buffer[3]
    <3>2. LengthAt(buffer) = 256 * three + buffer[4]
      BY DEF LengthAt
    <3> HIDE DEF two
    <3>3. three \in Nat \ {0} /\ three >= 256 * 256
      <4>1. two \in Nat /\ two >= 256
        BY <3>1 DEF two
      <4> QED  BY <2>2, <4>1
    <3> HIDE DEF three
    <3> QED  BY <2>2, <3>2, <3>3
  <2>4. MaxFrame \in Nat /\ MaxFrame < 256 * (256 * 256)
    BY FrameLimit
  <2> DEFINE limit == 256 * (256 * 256)
  <2>5. limit \in Nat
    OBVIOUS
  <2> HIDE DEF limit
  <2>6. LengthAt(buffer) >= limit /\ MaxFrame < limit
    BY <2>3, <2>4 DEF limit
  <2> QED  BY <2>3, <2>4, <2>5, <2>6
<1>6. ASSUME HasLine PROVE Len(buffer) >= size + 1
  <2>1. PICK i \in 1 .. Len(buffer) : buffer[i] = Newline
    BY <1>1, <1>6 DEF HasLine, Range, TypeInv
  <2>2. i \notin 1 .. size
    BY <1>2, <1>3, <1>4, <2>1
  <2> QED  BY <1>2, <1>4, <2>1, <2>2
<1>7. ASSUME Len(buffer) >= size + 1 PROVE HasLine /\ LineEnd = size + 1
  <2>1. size + 1 \in 1 .. Len(buffer) /\ buffer[size + 1] = Newline
    BY <1>2, <1>3, <1>4, <1>7
  <2>2. \A i \in 1 .. (size + 1) - 1 : buffer[i] # Newline
    BY <1>2, <1>3, <1>4, <1>7
  <2> QED  BY <1>1, <2>1, <2>2, FirstNewline
<1> QED  BY <1>2, <1>5, <1>6, <1>7 DEF m, size

\* Where a frame begins, its prefix gives its length as soon as it is there,
\* and before that there is no newline.
LEMMA FrameAhead ==
  ASSUME SafePrefixes, DecoderInv, Len(decoded) # Len(written), NextMessage.kind = "frame"
  PROVE  /\ BeginsFrame <=> Len(buffer) >= 4
         /\ BeginsFrame => LengthAt(buffer) = Len(NextMessage.bytes)
         /\ ~BeginsFrame => ~HasLine
<1> DEFINE m == NextMessage
           size == Len(m.bytes)
           h == HeaderOf(size)
<1>1. TypeInv /\ m \in Messages
  BY NextMessageFirst DEF DecoderInv
<1>2. /\ size \in 1 .. MaxFrame /\ Len(Encoded(m)) = 4 + size
      /\ \A i \in 1 .. 4 : Encoded(m)[i] = h[i]
  BY <1>1, MessageFacts
<1>3. \A i \in 1 .. 3 : h[i] # Newline
  BY <1>1 DEF SafePrefixes
<1>4. LengthAt(h) = size
  BY <1>2, PrefixHoldsLength
<1>5. size \in Nat
  BY <1>1, MessageFacts
<1>6. Len(buffer) \in Nat
  BY <1>1, Counts
<1>7. \A i \in 1 .. 4 : i <= Len(buffer) => buffer[i] = h[i]
  <2>1. \A i \in 1 .. 4 : i \in 1 .. Len(Encoded(m))
    BY <1>2, <1>5
  <2> QED  BY <1>2, <2>1, NextMessageFirst
<1> HIDE DEF m, size, h
<1>8. Len(buffer) >= 4 => LengthAt(buffer) = size
  <2> SUFFICES ASSUME Len(buffer) >= 4 PROVE LengthAt(buffer) = size
    OBVIOUS
  <2>1. buffer[1] = h[1] /\ buffer[2] = h[2] /\ buffer[3] = h[3] /\ buffer[4] = h[4]
    BY <1>6, <1>7
  <2> QED  BY <1>4, <2>1 DEF LengthAt
<1>9. ASSUME ~(Len(buffer) >= 4) PROVE ~HasLine
  <2> SUFFICES ASSUME HasLine PROVE FALSE
    OBVIOUS
  <2>1. PICK i \in 1 .. Len(buffer) : buffer[i] = Newline
    BY <1>1 DEF HasLine, Range, TypeInv
  <2>2. i \in 1 .. 3 /\ i \in 1 .. 4 /\ i <= Len(buffer)
    BY <1>6, <1>9
  <2> QED  BY <1>3, <1>7, <2>1, <2>2
<1>10. BeginsFrame <=> Len(buffer) >= 4
  BY <1>2, <1>8 DEF BeginsFrame, HeaderSize
<1> QED  BY <1>8, <1>9, <1>10 DEF m, size

-----------------------------------------------------------------------------
(* Steps *)

LEMMA ReadKeepsStream ==
  ASSUME NEW S, NEW b \in Seq(S), NEW p \in Seq(S), NEW n \in 1 .. Len(p)
  PROVE  /\ b \o SubSeq(p, 1, n) \in Seq(S) /\ SubSeq(p, n + 1, Len(p)) \in Seq(S)
         /\ (b \o SubSeq(p, 1, n)) \o SubSeq(p, n + 1, Len(p)) = b \o p
<1> DEFINE front == SubSeq(p, 1, n)
           back == SubSeq(p, n + 1, Len(p))
<1>1. Len(p) \in Nat /\ Len(b) \in Nat /\ n \in Nat /\ n <= Len(p)
  OBVIOUS
<1>2. front \in Seq(S) /\ Len(front) = n /\ \A i \in 1 .. n : front[i] = p[i]
  BY <1>1, SubSeqFacts
<1>3. /\ back \in Seq(S) /\ Len(back) = Len(p) - n
      /\ \A i \in 1 .. Len(p) - n : back[i] = p[n + i]
  BY <1>1, SubSeqFacts
<1> HIDE DEF front, back
<1>4. /\ b \o front \in Seq(S) /\ Len(b \o front) = Len(b) + n
      /\ \A i \in 1 .. Len(b) : (b \o front)[i] = b[i]
      /\ \A i \in 1 .. n : (b \o front)[Len(b) + i] = p[i]
  BY <1>2, ConcatFacts
<1> DEFINE c == b \o front
<1>5. c \in Seq(S) /\ Len(c) = Len(b) + n
  BY <1>4
<1>6. c \in Seq(S) /\ back \in Seq(S)
  BY <1>3, <1>5
<1> HIDE DEF c
<1>7. /\ c \o back \in Seq(S) /\ Len(c \o back) = Len(c) + Len(back)
      /\ \A i \in 1 .. Len(c) : (c \o back)[i] = c[i]
      /\ \A i \in 1 .. Len(back) : (c \o back)[Len(c) + i] = back[i]
  BY <1>6, ConcatFacts
<1>8. /\ b \o p \in Seq(S) /\ Len(b \o p) = Len(b) + Len(p)
      /\ \A i \in 1 .. Len(b) : (b \o p)[i] = b[i]
      /\ \A i \in 1 .. Len(p) : (b \o p)[Len(b) + i] = p[i]
  BY ConcatFacts
<1>9. ASSUME NEW i \in 1 .. Len(b) + Len(p) PROVE (c \o back)[i] = (b \o p)[i]
  <2>1. CASE i <= Len(b)
    <3>1. i \in 1 .. Len(b) /\ i \in 1 .. Len(c)
      BY <1>1, <1>5, <2>1
    <3>2. c[i] = b[i]
      BY <1>4, <3>1 DEF c
    <3> QED  BY <1>7, <1>8, <3>1, <3>2
  <2>2. CASE i > Len(b) /\ i <= Len(b) + n
    <3> DEFINE k == i - Len(b)
    <3>1. k \in 1 .. n /\ k \in 1 .. Len(p) /\ i = Len(b) + k /\ i \in 1 .. Len(c)
      BY <1>1, <1>5, <2>2
    <3> HIDE DEF k
    <3>2. c[Len(b) + k] = p[k] /\ (b \o p)[Len(b) + k] = p[k]
      BY <1>4, <1>8, <3>1 DEF c
    <3>3. (c \o back)[i] = c[i]
      BY <1>7, <3>1
    <3> QED  BY <3>1, <3>2, <3>3
  <2>3. CASE i > Len(b) + n
    <3> DEFINE k == i - (Len(b) + n)
    <3>1. /\ k \in 1 .. Len(p) - n /\ k \in 1 .. Len(back) /\ i = Len(c) + k
          /\ n + k \in 1 .. Len(p) /\ i = Len(b) + (n + k)
      BY <1>1, <1>3, <1>5, <2>3
    <3> HIDE DEF k
    <3>2. (c \o back)[Len(c) + k] = back[k] /\ back[k] = p[n + k]
      BY <1>3, <1>7, <3>1
    <3>3. (b \o p)[Len(b) + (n + k)] = p[n + k]
      BY <1>8, <3>1
    <3>4. i = Len(c) + k /\ i = Len(b) + (n + k)
      BY <3>1
    <3>5. (c \o back)[i] = p[n + k]
      BY <3>2, <3>4, Zenon
    <3>6. (b \o p)[i] = p[n + k]
      BY <3>3, <3>4, Zenon
    <3> QED  BY <3>5, <3>6
  <2>4. i \in Int /\ Len(b) + n \in Int
    BY <1>1
  <2>5. i <= Len(b) \/ (i > Len(b) /\ i <= Len(b) + n) \/ i > Len(b) + n
    BY <1>1, <2>4
  <2> QED  BY <2>1, <2>2, <2>3, <2>5
<1>10. Len(c \o back) = Len(b) + Len(p)
  BY <1>1, <1>3, <1>7, <1>5
<1>11. c \o back = b \o p
  BY <1>7, <1>8, <1>9, <1>10, SameSequence
<1> QED  BY <1>3, <1>4, <1>11 DEF c, front, back

LEMMA ReadsKeeps ==
  ASSUME DecoderInv, Reads
  PROVE  DecoderInv'
<1>1. PICK n \in 1 .. Len(pipe) :
             /\ buffer' = buffer \o SubSeq(pipe, 1, n)
             /\ pipe' = SubSeq(pipe, n + 1, Len(pipe))
  BY DEF Reads
<1>2. /\ ~ended /\ UNCHANGED <<closed, decoded, ended, written>>
  BY DEF Reads
<1>3. TypeInv
  BY DEF DecoderInv
<1>4. buffer \in Seq(Byte) /\ pipe \in Seq(Byte)
  BY <1>3 DEF TypeInv
<1>5. buffer' \in Seq(Byte) /\ pipe' \in Seq(Byte) /\ Stream' = Stream
  BY <1>1, <1>4, ReadKeepsStream DEF Stream
<1>6. TypeInv'
  BY <1>2, <1>3, <1>5 DEF TypeInv
<1>7. InStream'
  <2>1. PICK at \in [Nat -> Int] : Placed(at)
    BY DEF DecoderInv, InStream
  <2>2. Placed(at)'
    BY <1>2, <1>5, <2>1 DEF Placed
  <2> QED  BY <2>2 DEF InStream
<1>8. Decoding'
  BY <1>2 DEF DecoderInv, Decoding
<1> QED  BY <1>2, <1>6, <1>7, <1>8 DEF DecoderInv

LEMMA WritesKeeps ==
  ASSUME DecoderInv, NEW m \in Messages, Writes(m)
  PROVE  DecoderInv'
<1> DEFINE e == Encoded(m)
           d == Len(decoded)
           w == Len(written)
<1>1. /\ ~closed /\ pipe' = pipe \o e /\ written' = Append(written, m)
      /\ UNCHANGED <<closed, buffer, decoded, ended>>
  BY DEF Writes
<1>2. TypeInv
  BY DEF DecoderInv
<1>3. e \in Seq(Byte) /\ Len(e) \in Nat
  BY MessageFacts
<1>4. /\ d \in Nat /\ w \in Nat /\ d <= w
      /\ Stream \in Seq(Byte) /\ Len(Stream) = Len(buffer) + Len(pipe)
      /\ Len(buffer) \in Nat /\ Len(pipe) \in Nat
  BY <1>2, Counts DEF DecoderInv, Decoding
<1>5. /\ written' \in Seq(Messages) /\ Len(written') = w + 1 /\ written'[w + 1] = m
      /\ \A k \in 1 .. w : written'[k] = written[k]
  BY <1>1, <1>2 DEF TypeInv
<1>6. pipe' \in Seq(Byte)
  BY <1>1, <1>2, <1>3 DEF TypeInv
<1> HIDE DEF e
<1>7. Stream' = Stream \o e
  BY <1>1, <1>2, <1>3 DEF TypeInv, Stream
<1>8. /\ Len(Stream') = Len(Stream) + Len(e)
      /\ \A i \in 1 .. Len(Stream) : Stream'[i] = Stream[i]
      /\ \A i \in 1 .. Len(e) : Stream'[Len(Stream) + i] = e[i]
  BY <1>3, <1>4, <1>7, ConcatFacts
<1>9. InStream'
  <2>1. PICK at \in [Nat -> Int] : Placed(at)
    BY DEF DecoderInv, InStream
  <2>2. /\ at[d + 1] = 0 /\ at[w + 1] = Len(Stream)
        /\ \A j, k \in d + 1 .. w + 1 : j <= k => at[j] <= at[k]
        /\ \A k \in d + 1 .. w :
             /\ at[k + 1] = at[k] + Len(Encoded(written[k]))
             /\ \A i \in 1 .. Len(Encoded(written[k])) :
                  Stream[at[k] + i] = Encoded(written[k])[i]
    BY <2>1 DEF Placed
  <2>3. \A k \in 1 .. w : written[k] \in Messages
    BY <1>2 DEF TypeInv
  <2> HIDE DEF d, w
  <2>4. PICK next \in [Nat -> Int] :
               /\ next[w + 2] = Len(Stream) + Len(e)
               /\ \A k \in Nat : k # w + 2 => next[k] = at[k]
    <3> DEFINE next == [at EXCEPT ![w + 2] = Len(Stream) + Len(e)]
    <3>1. next \in [Nat -> Int] /\ next[w + 2] = Len(Stream) + Len(e)
          /\ \A k \in Nat : k # w + 2 => next[k] = at[k]
      BY <1>3, <1>4
    <3> HIDE DEF next
    <3> QED  BY <3>1
  <2>5. next[d + 1] = 0
    BY <1>4, <2>4, <2>2
  <2>6. next[w + 1] = Len(Stream) /\ at[w + 1] = Len(Stream)
    BY <1>4, <2>4, <2>2
  <2>7. ASSUME NEW j \in d + 1 .. w + 2, NEW k \in d + 1 .. w + 2, j <= k
        PROVE  next[j] <= next[k]
    <3>1. \A i \in d + 1 .. w + 1 : next[i] = at[i] /\ at[i] \in Int
      BY <1>4, <2>4
    <3>2. CASE k # w + 2
      <4>1. j \in d + 1 .. w + 1 /\ k \in d + 1 .. w + 1
        BY <1>4, <2>7, <3>2
      <4> QED  BY <2>7, <2>2, <3>1, <4>1
    <3>3. CASE k = w + 2 /\ j # w + 2
      <4>1. j \in d + 1 .. w + 1 /\ w + 1 \in d + 1 .. w + 1 /\ j <= w + 1
        BY <1>4, <2>7, <3>3
      <4>2. at[j] <= at[w + 1]
        BY <2>2, <4>1
      <4>3. next[j] <= Len(Stream) /\ next[j] \in Int
        BY <2>6, <3>1, <4>1, <4>2
      <4>4. next[k] = Len(Stream) + Len(e)
        BY <2>4, <3>3
      <4>5. Len(Stream) \in Nat /\ Len(e) \in Nat
        BY <1>3, <1>4
      <4>6. \A x \in Int, l, n \in Nat : x <= l => x <= l + n
        OBVIOUS
      <4>7. next[j] <= Len(Stream) + Len(e)
        BY <4>3, <4>5, <4>6
      <4> QED  BY <4>4, <4>7
    <3>4. CASE k = w + 2 /\ j = w + 2
      BY <1>3, <1>4, <2>4, <3>4
    <3> QED  BY <3>2, <3>3, <3>4
  <2>8. ASSUME NEW k \in d + 1 .. w + 1
        PROVE  /\ next[k + 1] = next[k] + Len(Encoded(written'[k]))
               /\ \A i \in 1 .. Len(Encoded(written'[k])) :
                    Stream'[next[k] + i] = Encoded(written'[k])[i]
    <3>1. CASE k = w + 1
      <4>1. /\ next[k] = Len(Stream) /\ next[k + 1] = Len(Stream) + Len(e)
            /\ written'[k] = m
        <5>1. k + 1 = w + 2
          BY <1>4, <3>1
        <5> QED  BY <1>5, <2>4, <2>6, <3>1, <5>1
      <4> QED  BY <1>8, <4>1 DEF e
    <3>2. CASE k # w + 1
      <4>1. k \in d + 1 .. w /\ k \in 1 .. w /\ k + 1 \in d + 1 .. w + 1
        BY <1>4, <3>2
      <4>2. next[k] = at[k] /\ next[k + 1] = at[k + 1] /\ written'[k] = written[k]
        <5>1. /\ k \in Nat /\ k # w + 2 /\ k + 1 \in Nat /\ k + 1 # w + 2
          BY <1>4, <4>1
        <5> QED  BY <1>5, <2>4, <4>1, <5>1
      <4>3. /\ at[k + 1] = at[k] + Len(Encoded(written[k]))
            /\ \A i \in 1 .. Len(Encoded(written[k])) :
                 Stream[at[k] + i] = Encoded(written[k])[i]
        BY <2>2, <4>1
      <4>4. 0 <= at[k] /\ at[k + 1] <= Len(Stream) /\ at[k] \in Int
        <5>1. /\ d + 1 \in d + 1 .. w + 1 /\ w + 1 \in d + 1 .. w + 1 /\ k \in d + 1 .. w + 1
              /\ d + 1 <= k /\ k + 1 <= w + 1
          BY <1>4, <4>1
        <5>2. at[d + 1] <= at[k] /\ at[k + 1] <= at[w + 1] /\ at[d + 1] = 0
          BY <2>2, <4>1, <5>1
        <5> QED  BY <1>4, <2>6, <4>1, <5>2
      <4>5. written[k] \in Messages
        BY <2>3, <4>1
      <4>6. Len(Encoded(written[k])) \in Nat
        BY <4>5, MessageFacts
      <4>7. \A i \in 1 .. Len(Encoded(written[k])) : at[k] + i \in 1 .. Len(Stream)
        <5> DEFINE size == Len(Encoded(written[k]))
        <5>1. size \in Nat /\ at[k] + size <= Len(Stream)
          BY <4>3, <4>4, <4>6
        <5>2. at[k] \in Nat /\ Len(Stream) \in Nat
          BY <1>4, <4>4
        <5> HIDE DEF size
        <5>3. \A a, n, l \in Nat : a + n <= l => \A i \in 1 .. n : a + i \in 1 .. l
          OBVIOUS
        <5>4. \A i \in 1 .. size : at[k] + i \in 1 .. Len(Stream)
          BY <5>1, <5>2, <5>3
        <5> QED  BY <5>4 DEF size
      <4> QED  BY <1>8, <4>2, <4>3, <4>7
    <3> QED  BY <3>1, <3>2
  <2>9. decoded' = decoded /\ Len(written') + 1 = w + 2
    BY <1>1, <1>4, <1>5
  <2>10. Placed(next)'
    BY <1>5, <1>8, <2>4, <2>5, <2>7, <2>8, <2>9 DEF Placed, d, w
  <2> QED  BY <2>4, <2>10 DEF InStream
<1>10. TypeInv'
  BY <1>1, <1>2, <1>5, <1>6 DEF TypeInv
<1>11. Decoding'
  BY <1>1, <1>4, <1>5 DEF DecoderInv, Decoding
<1> QED  BY <1>1, <1>9, <1>10, <1>11 DEF DecoderInv

\* Taking the next message, the whole of which is in the buffer.
LEMMA TakesNext ==
  ASSUME DecoderInv, ~ended, Len(decoded) # Len(written),
         Len(buffer) >= Len(Encoded(NextMessage)),
         Take(NextMessage.kind, NextMessage.bytes, Len(Encoded(NextMessage)))
  PROVE  DecoderInv'
<1> DEFINE m == NextMessage
           size == Len(Encoded(m))
           d == Len(decoded)
           w == Len(written)
           rest == SubSeq(buffer, size + 1, Len(buffer))
<1>1. /\ decoded' = Append(decoded, [kind |-> m.kind, bytes |-> m.bytes])
      /\ buffer' = rest
      /\ UNCHANGED <<closed, pipe, ended, written>>
  BY DEF Take
<1>2. TypeInv
  BY DEF DecoderInv
<1>3. m \in Messages /\ d + 1 \in 1 .. w
  BY NextMessageFirst
<1>4. m = [kind |-> m.kind, bytes |-> m.bytes] /\ size \in Nat
  BY <1>3, MessageFacts
<1>5. d \in Nat /\ w \in Nat /\ Len(buffer) \in Nat /\ Len(pipe) \in Nat
  BY <1>2, Counts
<1>6. /\ decoded' \in Seq(Messages) /\ Len(decoded') = d + 1 /\ decoded'[d + 1] = m
      /\ \A k \in 1 .. d : decoded'[k] = decoded[k]
  <2>1. decoded' = Append(decoded, m) /\ decoded \in Seq(Messages)
    BY <1>1, <1>2, <1>4 DEF TypeInv
  <2> HIDE DEF m
  <2> QED  BY <1>3, <2>1
<1>7. /\ rest \in Seq(Byte) /\ Len(rest) = Len(buffer) - size
      /\ \A i \in 1 .. Len(buffer) - size : rest[i] = buffer[size + i]
  <2>1. buffer \in Seq(Byte) /\ size + 1 \in 1 .. Len(buffer) + 1
        /\ Len(buffer) \in (size + 1) - 1 .. Len(buffer)
    BY <1>2, <1>4, <1>5 DEF TypeInv
  <2> HIDE DEF size
  <2>2. /\ rest \in Seq(Byte) /\ Len(rest) = Len(buffer) - (size + 1) + 1
        /\ \A i \in 1 .. Len(buffer) - (size + 1) + 1 : rest[i] = buffer[(size + 1) + i - 1]
    BY <2>1, SubSeqFacts
  <2>3. /\ Len(buffer) - (size + 1) + 1 = Len(buffer) - size
        /\ \A i \in Nat : (size + 1) + i - 1 = size + i
    BY <1>4, <1>5
  <2> HIDE DEF rest
  <2> QED  BY <1>4, <1>5, <2>2, <2>3
<1> HIDE DEF m, size, rest
<1>8. TypeInv'
  BY <1>1, <1>2, <1>6, <1>7 DEF TypeInv
<1>9. Decoding'
  <2>1. \A k \in 1 .. d + 1 : decoded'[k] = written[k]
    <3>1. written[d + 1] = m
      BY DEF m, NextMessage
    <3>2. \A k \in 1 .. d : decoded[k] = written[k]
      BY DEF DecoderInv, Decoding
    <3>3. \A k \in 1 .. d + 1 : k = d + 1 \/ k \in 1 .. d
      BY <1>5
    <3> HIDE DEF d
    <3> QED  BY <1>6, <3>1, <3>2, <3>3
  <2>2. d + 1 <= w
    BY <1>3, <1>5
  <2> QED  BY <1>1, <1>6, <2>1, <2>2 DEF Decoding
\* The rest of the buffer, and what is in the pipe, moves to the front.
<1>10. /\ Len(Stream') = Len(Stream) - size
       /\ \A i \in 1 .. Len(Stream) - size : Stream'[i] = Stream[size + i]
  <2>1. pipe \in Seq(Byte) /\ buffer \in Seq(Byte) /\ Stream' = rest \o pipe
    BY <1>1, <1>2 DEF TypeInv, Stream
  <2>2. /\ Len(rest \o pipe) = Len(rest) + Len(pipe)
        /\ \A i \in 1 .. Len(rest) : (rest \o pipe)[i] = rest[i]
        /\ \A i \in 1 .. Len(pipe) : (rest \o pipe)[Len(rest) + i] = pipe[i]
    <3>1. rest \in Seq(Byte)
      BY <1>7
    <3> QED  BY <2>1, <3>1, ConcatFacts
  <2>3. /\ Len(Stream) = Len(buffer) + Len(pipe)
        /\ \A i \in 1 .. Len(buffer) : Stream[i] = buffer[i]
        /\ \A i \in 1 .. Len(pipe) : Stream[Len(buffer) + i] = pipe[i]
    BY <2>1, ConcatFacts DEF Stream
  <2>4. Len(Stream') = Len(Stream) - size
    BY <1>4, <1>5, <1>7, <2>1, <2>2, <2>3
  <2>5. ASSUME NEW i \in 1 .. Len(Stream) - size
        PROVE  Stream'[i] = Stream[size + i]
    <3>1. size <= Len(buffer) /\ i \in 1 .. Len(buffer) + Len(pipe) - size
      BY <2>3 DEF size, m
    <3>2. CASE i <= Len(buffer) - size
      <4>1. i \in 1 .. Len(rest) /\ i \in 1 .. Len(buffer) - size
            /\ size + i \in 1 .. Len(buffer)
        BY <1>4, <1>5, <1>7, <3>1, <3>2
      <4>2. Stream'[i] = rest[i]
        BY <2>1, <2>2, <4>1
      <4>3. rest[i] = buffer[size + i] /\ Stream[size + i] = buffer[size + i]
        BY <1>7, <2>3, <4>1
      <4> QED  BY <4>2, <4>3
    <3>3. CASE i > Len(buffer) - size
      <4> DEFINE k == i - (Len(buffer) - size)
      <4>1. /\ k \in 1 .. Len(pipe) /\ i = Len(rest) + k
            /\ size + i = Len(buffer) + k
        BY <1>4, <1>5, <1>7, <3>1, <3>3
      <4> HIDE DEF k
      <4>2. (rest \o pipe)[Len(rest) + k] = pipe[k] /\ Stream[Len(buffer) + k] = pipe[k]
        BY <2>2, <2>3, <4>1
      <4>3. i = Len(rest) + k /\ size + i = Len(buffer) + k
        BY <4>1
      <4>4. Stream'[i] = pipe[k]
        BY <2>1, <4>2, <4>3, Zenon
      <4>5. Stream[size + i] = pipe[k]
        BY <4>2, <4>3, Zenon
      <4> QED  BY <4>4, <4>5
    <3>4. i \in Int
      OBVIOUS
    <3> QED  BY <1>4, <1>5, <3>2, <3>3, <3>4
  <2> QED  BY <2>4, <2>5
<1>11. InStream'
  <2>1. PICK at \in [Nat -> Int] : Placed(at)
    BY DEF DecoderInv, InStream
  <2>2. /\ at[d + 1] = 0 /\ at[w + 1] = Len(Stream)
        /\ \A j, k \in d + 1 .. w + 1 : j <= k => at[j] <= at[k]
        /\ \A k \in d + 1 .. w :
             /\ at[k + 1] = at[k] + Len(Encoded(written[k]))
             /\ \A i \in 1 .. Len(Encoded(written[k])) :
                  Stream[at[k] + i] = Encoded(written[k])[i]
    BY <2>1 DEF Placed
  <2>3. at[(d + 1) + 1] = size /\ (d + 1) + 1 = d + 2
    <3>1. d + 1 \in d + 1 .. w
      BY <1>3, <1>5
    <3>2. at[(d + 1) + 1] = 0 + size
      BY <2>2, <3>1 DEF size, m, NextMessage
    <3> QED  BY <1>4, <1>5, <3>2
  <2>4. Len(Stream) \in Nat
    BY <1>2, <1>5, Counts
  <2>5. \A k \in 1 .. w : written[k] \in Messages
    BY <1>2 DEF TypeInv
  <2>6. PICK next \in [Nat -> Int] : \A k \in Nat : next[k] = at[k] - size
    <3>1. [k \in Nat |-> at[k] - size] \in [Nat -> Int]
      BY <1>4
    <3> QED  BY <3>1
  <2> HIDE DEF d, w
  <2>7. next[d + 2] = 0 /\ next[w + 1] = Len(Stream')
    <3>1. d + 2 \in Nat /\ w + 1 \in Nat
      BY <1>5
    <3>2. next[d + 2] = at[d + 2] - size /\ next[w + 1] = at[w + 1] - size
      BY <2>6, <3>1
    <3>3. at[d + 2] = size /\ at[w + 1] = Len(Stream)
      BY <2>2, <2>3
    <3>4. size - size = 0
      BY <1>4
    <3> QED  BY <1>10, <3>2, <3>3, <3>4
  <2>8. ASSUME NEW j \in d + 2 .. w + 1, NEW k \in d + 2 .. w + 1, j <= k
        PROVE  next[j] <= next[k]
    <3>1. j \in d + 1 .. w + 1 /\ k \in d + 1 .. w + 1 /\ j \in Nat /\ k \in Nat
      BY <1>5
    <3>2. at[j] <= at[k] /\ at[j] \in Int /\ at[k] \in Int
      BY <2>2, <2>8, <3>1
    <3> QED  BY <1>4, <2>6, <3>1, <3>2
  <2>9. ASSUME NEW k \in d + 2 .. w
        PROVE  /\ next[k + 1] = next[k] + Len(Encoded(written[k]))
               /\ \A i \in 1 .. Len(Encoded(written[k])) :
                    Stream'[next[k] + i] = Encoded(written[k])[i]
    <3>1. /\ k \in d + 1 .. w /\ k \in 1 .. w /\ k \in Nat /\ k + 1 \in Nat
          /\ k \in d + 1 .. w + 1 /\ k + 1 \in d + 1 .. w + 1
          /\ d + 2 \in d + 1 .. w + 1 /\ w + 1 \in d + 1 .. w + 1
          /\ d + 2 <= k /\ k + 1 <= w + 1
      BY <1>5
    <3> DEFINE e == Encoded(written[k])
    <3>2. Len(e) \in Nat
      BY <2>5, <3>1, MessageFacts
    <3>3. /\ at[k + 1] = at[k] + Len(e)
          /\ \A i \in 1 .. Len(e) : Stream[at[k] + i] = e[i]
      BY <2>2, <3>1
    <3> HIDE DEF e
    <3>4. at[k] \in Int /\ at[k + 1] \in Int /\ next[k] = at[k] - size
          /\ next[k + 1] = at[k + 1] - size
      BY <2>6, <3>1
    <3>5. at[d + 2] <= at[k] /\ at[k + 1] <= at[w + 1]
      BY <2>2, <3>1
    <3>6. size <= at[k] /\ at[k] + Len(e) <= Len(Stream)
      BY <2>2, <2>3, <3>3, <3>5
    <3> DEFINE n == Len(e)
    <3>7. next[k + 1] = next[k] + n
      <4>1. \A x, y, z \in Int : (x + y) - z = (x - z) + y
        OBVIOUS
      <4>2. size \in Int /\ n \in Int
        BY <1>4, <3>2
      <4>3. next[k + 1] = (at[k] + n) - size
        BY <3>3, <3>4
      <4> QED  BY <3>4, <4>1, <4>2, <4>3
    <3>8. ASSUME NEW i \in 1 .. Len(e) PROVE Stream'[next[k] + i] = e[i]
      <4>1. /\ next[k] + i \in 1 .. Len(Stream) - size
            /\ size + (next[k] + i) = at[k] + i
        <5>1. \A a, l \in Int, x, y \in Nat : \A z \in 1 .. y : x <= a /\ a + y <= l =>
                 /\ (a - x) + z \in 1 .. l - x
                 /\ x + ((a - x) + z) = a + z
          OBVIOUS
        <5>2. size \in Nat /\ n \in Nat /\ Len(Stream) \in Int /\ i \in 1 .. n
          BY <1>4, <2>4, <3>2
        <5>3. size <= at[k] /\ at[k] + n <= Len(Stream) /\ at[k] \in Int
          BY <3>4, <3>6
        <5>4. /\ (at[k] - size) + i \in 1 .. Len(Stream) - size
              /\ size + ((at[k] - size) + i) = at[k] + i
          BY <5>1, <5>2, <5>3
        <5> QED  BY <3>4, <5>4, Zenon
      <4>2. Stream'[next[k] + i] = Stream[size + (next[k] + i)]
        BY <1>10, <4>1
      <4>3. Stream[at[k] + i] = e[i]
        BY <3>3
      <4> QED  BY <4>1, <4>2, <4>3
    <3> QED  BY <3>7, <3>8 DEF e
  <2>10. /\ Len(decoded') + 1 = d + 2 /\ written' = written /\ Len(written') = w
    <3>1. (d + 1) + 1 = d + 2
      BY <1>5
    <3> QED  BY <1>1, <1>6, <3>1 DEF w
  <2>11. Placed(next)'
    BY <2>7, <2>8, <2>9, <2>10 DEF Placed
  <2> QED  BY <2>6, <2>11 DEF InStream
<1> QED  BY <1>1, <1>8, <1>9, <1>11 DEF DecoderInv

LEMMA TakesFrameKeeps ==
  ASSUME SafePrefixes, DecoderInv, TakesFrame
  PROVE  DecoderInv'
<1> DEFINE m == NextMessage
<1>1. ~ended /\ BeginsFrame /\ Len(buffer) >= FrameEnd
      /\ Take("frame", SubSeq(buffer, HeaderSize + 1, FrameEnd), FrameEnd)
  BY DEF TakesFrame, FrameComplete
<1>2. TypeInv
  BY DEF DecoderInv
<1>3. Len(buffer) \in Nat /\ Len(buffer) >= 4 /\ buffer \in Seq(Byte)
  BY <1>1, <1>2, Counts DEF BeginsFrame, HeaderSize, TypeInv
<1>4. Len(decoded) # Len(written)
  BY <1>3, StreamUsedUp
<1>5. m.kind = "frame" /\ m \in Messages
  BY <1>1, <1>4, LineAhead, NextMessageFirst, MessageFacts
<1>6. LengthAt(buffer) = Len(m.bytes)
  BY <1>1, <1>4, <1>5, FrameAhead
<1>7. /\ m.bytes \in Seq(Byte) /\ Len(m.bytes) \in Nat
      /\ Len(Encoded(m)) = 4 + Len(m.bytes)
      /\ \A i \in 1 .. Len(m.bytes) : Encoded(m)[4 + i] = m.bytes[i]
  BY <1>5, MessageFacts
<1>8. FrameEnd = 4 + Len(m.bytes)
  BY <1>6 DEF FrameEnd, HeaderSize
<1>9. SubSeq(buffer, HeaderSize + 1, FrameEnd) = m.bytes
  <2> DEFINE end == 4 + Len(m.bytes)
             body == SubSeq(buffer, 5, end)
             size == Len(m.bytes)
  <2>1. 5 \in 1 .. Len(buffer) + 1 /\ end \in 5 - 1 .. Len(buffer)
    BY <1>1, <1>3, <1>7, <1>8
  <2>2. size \in Nat /\ end - 5 + 1 = size /\ \A i \in Nat : 5 + i - 1 = 4 + i
    BY <1>7
  <2>3. \A i \in 1 .. size : 4 + i \in 1 .. Len(Encoded(m)) /\ 4 + i <= Len(buffer)
    BY <1>1, <1>3, <1>7, <1>8
  <2> HIDE DEF end
  <2>4. /\ body \in Seq(Byte) /\ Len(body) = end - 5 + 1
        /\ \A i \in 1 .. end - 5 + 1 : body[i] = buffer[5 + i - 1]
    BY <1>3, <2>1, SubSeqFacts
  <2> HIDE DEF body, m
  <2>5. \A i \in 1 .. size : buffer[4 + i] = Encoded(m)[4 + i]
    BY <1>4, <2>3, NextMessageFirst DEF m
  <2>6. Len(body) = size /\ \A i \in 1 .. size : body[i] = m.bytes[i]
    <3> HIDE DEF size
    <3>1. \A i \in 1 .. size : body[i] = buffer[4 + i]
      BY <2>2, <2>4
    <3> QED  BY <1>7, <2>2, <2>4, <2>5, <3>1 DEF size
  <2>7. body = m.bytes
    BY <1>7, <2>4, <2>6, SameSequence
  <2> QED  BY <1>8, <2>7 DEF body, end, HeaderSize
<1>10. Take(m.kind, m.bytes, Len(Encoded(m))) /\ Len(buffer) >= Len(Encoded(m))
  BY <1>1, <1>5, <1>7, <1>8, <1>9
<1> QED  BY <1>1, <1>4, <1>10, TakesNext

LEMMA TakesLineKeeps ==
  ASSUME SafePrefixes, DecoderInv, TakesLine
  PROVE  DecoderInv'
<1> DEFINE m == NextMessage
           size == Len(m.bytes)
<1>1. /\ ~ended /\ ~FrameComplete /\ ~FramePending /\ HasLine
      /\ Take("line", SubSeq(buffer, 1, LineEnd - 1), LineEnd)
  BY DEF TakesLine
<1>2. TypeInv
  BY DEF DecoderInv
<1>3. buffer \in Seq(Byte) /\ Len(buffer) \in Nat
  BY <1>2 DEF TypeInv
<1>4. Len(decoded) # Len(written)
  <2>1. buffer # <<>>
    BY <1>1 DEF HasLine, Range
  <2> QED  BY <2>1, StreamUsedUp
<1>5. m.kind = "line" /\ m \in Messages
  <2>1. m \in Messages /\ m.kind \in {"line", "frame"}
    BY <1>4, NextMessageFirst, MessageFacts
  <2>2. CASE m.kind = "frame"
    <3>1. BeginsFrame /\ Len(buffer) >= 4 /\ LengthAt(buffer) = Len(m.bytes)
      BY <1>1, <1>4, <2>2, FrameAhead
    <3>2. FrameEnd \in Nat
      BY <2>1, <3>1, MessageFacts DEF FrameEnd, HeaderSize
    <3>3. FrameComplete \/ FramePending
      BY <1>3, <3>1, <3>2 DEF FrameComplete, FramePending
    <3> QED  BY <1>1, <3>3
  <2> QED  BY <2>1, <2>2
<1>6. /\ m.bytes \in Seq(Byte) /\ size \in Nat
      /\ Len(Encoded(m)) = size + 1
      /\ \A i \in 1 .. size : Encoded(m)[i] = m.bytes[i]
  BY <1>5, MessageFacts
<1>7. Len(buffer) >= size + 1 /\ LineEnd = size + 1
  BY <1>1, <1>4, <1>5, <1>6, LineAhead
<1>8. SubSeq(buffer, 1, LineEnd - 1) = m.bytes
  <2> DEFINE body == SubSeq(buffer, 1, size)
  <2>1. 1 \in 1 .. Len(buffer) + 1 /\ size \in 1 - 1 .. Len(buffer)
    BY <1>3, <1>6, <1>7
  <2>2. size - 1 + 1 = size /\ \A i \in Nat : 1 + i - 1 = i
    BY <1>6
  <2>3. \A i \in 1 .. size : i \in 1 .. Len(Encoded(m)) /\ i <= Len(buffer)
    BY <1>3, <1>6, <1>7
  <2> HIDE DEF size
  <2>4. /\ body \in Seq(Byte) /\ Len(body) = size - 1 + 1
        /\ \A i \in 1 .. size - 1 + 1 : body[i] = buffer[1 + i - 1]
    BY <1>3, <2>1, SubSeqFacts
  <2> HIDE DEF body, m
  <2>5. \A i \in 1 .. size : buffer[i] = Encoded(m)[i]
    BY <1>4, <2>3, NextMessageFirst DEF m
  <2>6. Len(body) = size /\ \A i \in 1 .. size : body[i] = m.bytes[i]
    <3>1. \A i \in 1 .. size : body[i] = buffer[i]
      BY <1>6, <2>2, <2>4
    <3> QED  BY <1>6, <2>2, <2>4, <2>5, <3>1
  <2>7. body = m.bytes
    BY <1>6, <2>4, <2>6, SameSequence DEF size
  <2>8. LineEnd - 1 = size
    BY <1>6, <1>7
  <2> QED  BY <2>7, <2>8 DEF body
<1>9. Take(m.kind, m.bytes, Len(Encoded(m))) /\ Len(buffer) >= Len(Encoded(m))
  BY <1>1, <1>5, <1>6, <1>7, <1>8
<1> QED  BY <1>1, <1>4, <1>9, TakesNext

\* At the end of the stream no whole message is left: the handler would have
\* taken it.
LEMMA SeesEndKeeps ==
  ASSUME SafePrefixes, DecoderInv, SeesEnd
  PROVE  DecoderInv'
<1>1. /\ closed /\ pipe = <<>> /\ NeedsBytes /\ ended' = TRUE
      /\ UNCHANGED <<closed, pipe, buffer, decoded, written>>
  BY DEF SeesEnd
<1>2. TypeInv
  BY DEF DecoderInv
<1>3. Len(decoded) = Len(written)
  <2> SUFFICES ASSUME Len(decoded) # Len(written) PROVE FALSE
    OBVIOUS
  <2> DEFINE m == NextMessage
  <2>1. /\ m \in Messages /\ Len(Encoded(m)) <= Len(Stream)
        /\ Len(Encoded(m)) \in Nat /\ Len(m.bytes) \in Nat
    BY NextMessageFirst, MessageFacts
  <2>2. Len(Stream) = Len(buffer) /\ Len(buffer) \in Nat
    BY <1>1, <1>2, Counts
  <2>3. Len(buffer) >= Len(Encoded(m))
    BY <2>1, <2>2
  <2>4. CASE m.kind = "line"
    BY <1>1, <2>3, <2>4, LineAhead DEF NeedsBytes, FramePending
  <2>5. CASE m.kind = "frame"
    <3>1. Len(Encoded(m)) = 4 + Len(m.bytes)
      BY <2>1, <2>5, MessageFacts
    <3>2. Len(buffer) >= 4
      BY <2>1, <2>2, <2>3, <3>1
    <3>3. BeginsFrame /\ LengthAt(buffer) = Len(m.bytes)
      BY <2>5, <3>2, FrameAhead
    <3>4. FrameComplete
      BY <2>3, <3>1, <3>3 DEF FrameComplete, FrameEnd, HeaderSize
    <3> QED  BY <1>1, <3>4 DEF NeedsBytes
  <2> QED  BY <2>1, <2>4, <2>5, MessageFacts
<1>4. buffer = <<>>
  BY <1>3, StreamUsedUp
<1>5. TypeInv' /\ Decoding'
  BY <1>1, <1>2 DEF TypeInv, DecoderInv, Decoding
<1>6. InStream'
  <2>1. PICK at \in [Nat -> Int] : Placed(at)
    BY DEF DecoderInv, InStream
  <2>2. Placed(at)'
    BY <1>1, <2>1 DEF Placed, Stream
  <2> QED  BY <2>2 DEF InStream
<1> QED  BY <1>1, <1>3, <1>4, <1>5, <1>6 DEF DecoderInv

LEMMA ClosingKeeps ==
  ASSUME DecoderInv, Closes \/ UNCHANGED vars
  PROVE  DecoderInv'
<1>1. UNCHANGED <<pipe, buffer, decoded, ended, written>>
      /\ closed' \in BOOLEAN /\ (closed => closed')
  BY DEF Closes, vars, DecoderInv, TypeInv
<1>2. TypeInv' /\ Decoding'
  BY <1>1 DEF TypeInv, DecoderInv, Decoding
<1>3. InStream'
  <2>1. PICK at \in [Nat -> Int] : Placed(at)
    BY DEF DecoderInv, InStream
  <2>2. Placed(at)'
    BY <1>1, <2>1 DEF Placed, Stream
  <2> QED  BY <2>2 DEF InStream
<1> QED  BY <1>1, <1>2, <1>3 DEF DecoderInv

LEMMA DecoderInvInit == Init => DecoderInv
<1> SUFFICES ASSUME Init PROVE DecoderInv
  OBVIOUS
<1>1. ~ended /\ Len(decoded) = 0 /\ Len(written) = 0
  BY DEF Init
<1>2. TypeInv
  <2>1. <<>> \in Seq(Byte) /\ <<>> \in Seq(Messages)
    OBVIOUS
  <2> QED  BY <2>1 DEF Init, TypeInv
<1>3. Decoding
  BY <1>1 DEF Decoding
<1>4. Len(Stream) = 0
  BY DEF Init, Stream
<1>5. PICK at \in [Nat -> Int] : \A k \in Nat : at[k] = 0
  <2>1. [k \in Nat |-> 0] \in [Nat -> Int]
    OBVIOUS
  <2> QED  BY <2>1
<1>6. Placed(at)
  BY <1>1, <1>4, <1>5 DEF Placed
<1> QED  BY <1>1, <1>5, <1>6, <1>2, <1>3 DEF DecoderInv, InStream

LEMMA DecoderInvStep ==
  ASSUME SafePrefixes, DecoderInv, [Next]_vars
  PROVE  DecoderInv'
BY WritesKeeps, ReadsKeeps, TakesFrameKeeps, TakesLineKeeps, SeesEndKeeps, ClosingKeeps DEF Next

-----------------------------------------------------------------------------
(* What the handler finds *)

LEMMA InvMeansDecoded == DecoderInv => DecodedAsWritten /\ NothingLeftAtEnd
<1> SUFFICES ASSUME DecoderInv PROVE DecodedAsWritten /\ NothingLeftAtEnd
  OBVIOUS
<1>1. /\ decoded \in Seq(Messages) /\ written \in Seq(Messages)
      /\ Len(decoded) <= Len(written)
      /\ \A k \in 1 .. Len(decoded) : decoded[k] = written[k]
  BY DEF DecoderInv, TypeInv, Decoding
<1>2. Len(decoded) \in Nat /\ Len(written) \in Nat
  BY <1>1
<1>3. DecodedAsWritten
  BY <1>1, <1>2 DEF DecodedAsWritten, IsPrefix
<1>4. NothingLeftAtEnd
  <2> SUFFICES ASSUME ended PROVE decoded = written /\ buffer = <<>>
    BY DEF NothingLeftAtEnd
  <2>1. buffer = <<>> /\ Len(decoded) = Len(written)
    BY DEF DecoderInv
  <2> QED  BY <1>1, <2>1, SameSequence
<1> QED  BY <1>3, <1>4

\* If no length prefix has a newline before its last byte, DecoderInv holds
\* however the reads cut the stream (forward_commands).
THEOREM DecoderInvInvariant ==
  ASSUME SafePrefixes
  PROVE  Spec => []DecoderInv
BY DecoderInvInit, DecoderInvStep, PTL DEF Spec

\* Any lines and frames of any content and length, in any order and read in
\* any pieces, come out as they were written: a newline inside a frame ends no
\* line, and no text is taken for a prefix.  That no prefix has a newline
\* before its last byte is needed, as the run split_prefix shows
\* (try_decode_messagepack_frame, messagepack_frame_pending, try_extract_line).
THEOREM StreamIsUnderstood ==
  ASSUME SafePrefixes
  PROVE  Spec => []DecodedAsWritten
BY DecoderInvInvariant, InvMeansDecoded, PTL

\* Under the same condition nothing that was written whole is left when the
\* handler sees the end of the stream (forward_commands).
THEOREM StreamIsUsedUp ==
  ASSUME SafePrefixes
  PROVE  Spec => []NothingLeftAtEnd
BY DecoderInvInvariant, InvMeansDecoded, PTL

=============================================================================
