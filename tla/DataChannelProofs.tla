------------------------- MODULE DataChannelProofs -------------------------
(***************************************************************************)
(* Theorems about DataChannel: the packets that come out of the parser are *)
(* the messages that went in, in order, for any messages, payloads, pieces *)
(* of the stream and headers that do not parse.                            *)
(*                                                                         *)
(* The stream of bytes that was written is a sequence of blocks: a message *)
(* or a header that does not parse.  Block i takes the bytes from          *)
(* p[i - 1] + 1 to p[i] of the stream, and q[i] of the first i blocks are  *)
(* messages.  The invariant says that the parser always stands at the      *)
(* start of a block, or behind the header of one (Standing), and that the  *)
(* bytes it has not parsed yet are those of the blocks (Carried).          *)
(***************************************************************************)
EXTENDS DataChannel, SequenceLemmas, TLAPS

\* The bytes that are not parsed yet.
Unread == buffer \o wire

\* The types that TypeOK leaves out as TLC cannot enumerate them.
ByteTypes ==
    /\ wire \in Seq(Byte) /\ buffer \in Seq(Byte)
    /\ complete \in Seq(Seq(Byte)) /\ inbound \in Seq(Seq(Byte)) /\ output \in Seq(Seq(Byte))

\* What p and q are.
Numbers == [Nat -> Nat]

\* Block i is the next message, or it is foreign.
IsMessage(p, q, i) ==
    /\ q[i] = q[i - 1] + 1
    /\ q[i] \in 1 .. Len(input)
    /\ p[i] = p[i - 1] + Len(Packet(input[q[i]]))

IsForeign(p, q, i) == q[i] = q[i - 1] /\ p[i] = p[i - 1] + 2

\* Its bytes.
Block(q, i) == IF q[i] = q[i - 1] THEN <<Garbage, Null>> ELSE Packet(input[q[i]])

\* The sequence o is a without its first c elements.
Waits(a, o, c) ==
    /\ Len(a) = c + Len(o)
    /\ \A j \in 1 .. Len(o) : o[j] = a[c + j]

\* There are n blocks.
Blocks(p, q, n) ==
    /\ p[0] = 0 /\ q[0] = 0
    /\ \A i \in 1 .. n : IsMessage(p, q, i) \/ IsForeign(p, q, i)
    /\ \A i \in 0 .. n : p[i] <= p[n]

\* The bytes are those of the blocks behind byte pos, as far as they go.
Carries(p, q, n, pos, bytes) ==
    \A i \in 1 .. n : \A y \in 1 .. Len(Block(q, i)) :
        LET x == p[i - 1] + y - pos
        IN  x \in 1 .. Len(bytes) => bytes[x] = Block(q, i)[y]

\* What waits in outbound comes behind the blocks that were written.
Written(p, q, n) ==
    /\ Blocks(p, q, n)
    /\ writer = "run" => Waits(input, outbound, q[n])

\* What is unread are those behind byte pos, without the last ones if the writer
\* has ended.
Carried(p, q, n, pos) ==
    /\ pos + Len(Unread) <= p[n]
    /\ writer = "run" => pos + Len(Unread) = p[n]
    /\ Carries(p, q, n, pos, Unread)

\* The first k blocks are parsed, and of the next one perhaps the header.
Standing(p, q, n, k, pos) ==
    /\ q[k] = Len(Parsed)
    /\ pendingHeader = None => pos = p[k]
    /\ pendingHeader # None =>
          /\ k < n
          /\ IsMessage(p, q, k + 1)
          /\ pos = p[k] + 3
          /\ pendingHeader = Len(Payload[input[q[k + 1]]])

Aligned ==
    \E p, q \in Numbers : \E n, pos \in Nat : \E k \in 0 .. n :
        Written(p, q, n) /\ Carried(p, q, n, pos) /\ Standing(p, q, n, k, pos)

\* What came out so far is what was sent.
ParsedInOrder ==
    /\ Len(Parsed) <= Len(input)
    /\ \A i \in 1 .. Len(Parsed) : Parsed[i] = Payload[input[i]]

Inv == TypeOK /\ ByteTypes /\ (cleared \/ (Aligned /\ ParsedInOrder))
-----------------------------------------------------------------------------
(* Sequences. *)

\* If the last elements of a sequence wait in another one, they still do when an
\* element is appended to both.
LEMMA WaitsBehind ==
    ASSUME NEW S, NEW a \in Seq(S), NEW o \in Seq(S), NEW m \in S, NEW c \in Nat,
           Waits(a, o, c)
    PROVE  Waits(Append(a, m), Append(o, m), c)
<1> USE DEF Waits
<1>1. Len(Append(a, m)) = Len(a) + 1 /\ Len(Append(o, m)) = Len(o) + 1
  BY Grown
<1>2. Len(o) \in Nat /\ Len(a) \in Nat
  BY Grown
<1>3. ASSUME NEW j \in 1 .. Len(Append(o, m))
      PROVE  Append(o, m)[j] = Append(a, m)[c + j]
  <2>1. j \in 1 .. Len(o) + 1
    BY Grown
  <2>2. CASE j = Len(o) + 1
    <3>1. c + j = Len(a) + 1
      BY <1>2, <2>2
    <3>2. QED
      BY <2>2, <3>1, Grown
  <2>3. CASE j \in 1 .. Len(o)
    <3>1. c + j \in 1 .. Len(a)
      BY <1>2, <2>3
    <3>2. Append(o, m)[j] = o[j] /\ Append(a, m)[c + j] = a[c + j]
      BY <2>3, <3>1, Grown
    <3>3. QED
      BY <2>3, <3>2
  <2>4. QED
    BY <1>2, <2>1, <2>2, <2>3
<1>4. Len(a) + 1 = c + (Len(o) + 1)
  BY <1>2
<1>5. QED
  BY <1>1, <1>3, <1>4

\* The next one that waits.
LEMMA NextWaits ==
    ASSUME NEW S, NEW a \in Seq(S), NEW o \in Seq(S), NEW c \in Nat,
           Waits(a, o, c), o # <<>>
    PROVE  /\ Head(o) \in S /\ Tail(o) \in Seq(S)
           /\ c + 1 \in 1 .. Len(a) /\ Head(o) = a[c + 1]
           /\ Waits(a, Tail(o), c + 1)
<1> USE DEF Waits
<1>1. /\ Head(o) \in S /\ Tail(o) \in Seq(S)
      /\ Len(Tail(o)) = Len(o) - 1
      /\ \A j \in 1 .. Len(Tail(o)) : Tail(o)[j] = o[j + 1]
  BY HeadTailProperties
<1>2. Len(a) \in Nat /\ Len(o) \in Nat /\ Len(o) >= 1
  BY LenProperties, EmptySeq
<1>3. Head(o) = o[1]
  BY <1>2
<1>4. c + 1 \in 1 .. Len(a) /\ Head(o) = a[c + 1]
  BY <1>2, <1>3
<1>5. Len(a) = (c + 1) + Len(Tail(o))
  BY <1>1, <1>2
<1>6. ASSUME NEW j \in 1 .. Len(Tail(o))
      PROVE  Tail(o)[j] = a[(c + 1) + j]
  <2>1. j + 1 \in 1 .. Len(o) /\ c + (j + 1) = (c + 1) + j
    BY <1>1, <1>2
  <2>2. o[j + 1] = a[c + (j + 1)]
    BY <2>1
  <2>3. QED
    BY <1>1, <2>1, <2>2
<1>7. QED
  BY <1>1, <1>4, <1>5, <1>6

-----------------------------------------------------------------------------
(* Packets and bytes. *)

\* A packet: a header of two bytes, a null byte, the payload.
LEMMA PacketBytes ==
    ASSUME NEW m \in Message
    PROVE  /\ Payload[m] \in Seq(Byte)
           /\ Packet(m) \in Seq(Byte)
           /\ Len(Packet(m)) = 3 + Len(Payload[m])
           /\ Packet(m)[1] = <<"header", Len(Payload[m])>>
           /\ Packet(m)[2] = Brace
           /\ Packet(m)[3] = Null
           /\ \A y \in DOMAIN Payload[m] : Packet(m)[3 + y] = Payload[m][y]
<1>1. Payload[m] \in Seq(Byte)
  BY PacketAssumption
<1> DEFINE L == Len(Payload[m])
<1> DEFINE h == <<"header", L>>
<1>2. L \in Nat
  BY <1>1
<1>3. h \in Byte /\ Brace \in Byte /\ Null \in Byte
  BY <1>2 DEF Byte
<1>4. Packet(m) = (<<h, Brace>> \o <<Null>>) \o Payload[m]
  BY DEF Packet, Header
<1> HIDE DEF h, L
<1>5. QED
  BY <1>1, <1>3, <1>4 DEF h, L

\* The bytes that structure the stream are different.
LEMMA BytesDiffer ==
    /\ Null # Brace /\ Null # Garbage
    /\ \A l \in Nat : <<"header", l>> # Null
  BY DEF Null, Brace, Garbage

\* Where the first null byte is: of three bytes whose third is the first null,
\* of two bytes whose second is, and of a buffer without one.
LEMMA NullAfter ==
    ASSUME NEW k \in Nat, k > 0, buffer \in Seq(Byte),
           \A i \in 1 .. Len(buffer) : i < k => buffer[i] # Null,
           k <= Len(buffer) => buffer[k] = Null,
           NullPos > 0
    PROVE  NullPos = k /\ k <= Len(buffer)
<1> DEFINE I == { i \in 1 .. Len(buffer) : buffer[i] = Null }
<1>1. NullPos = IF I # {} THEN Min(I) ELSE 0
  BY DEF NullPos, SelectInSeq
<1>2. I # {}
  BY <1>1
<1>3. k <= Len(buffer) /\ k \in I
  BY <1>2
<1>4. \A y \in I : k =< y
  BY <1>3
<1>5. Min(I) = k
  BY <1>3, <1>4 DEF Min
<1>6. QED
  BY <1>1, <1>2, <1>3, <1>5

\* The search finds the first null byte of the buffer, if there is one.
LEMMA NullPosType ==
    ASSUME buffer \in Seq(Byte)
    PROVE  NullPos \in 0 .. Len(buffer)
<1> DEFINE I == { i \in 1 .. Len(buffer) : buffer[i] = Null }
<1>1. NullPos = IF I # {} THEN Min(I) ELSE 0
  BY DEF NullPos, SelectInSeq
<1>2. CASE I # {}
  <2>1. I \subseteq Nat
    OBVIOUS
  <2> HIDE DEF I
  <2>2. PICK k \in I : \A y \in I : k =< y
    BY <1>2, <2>1, LeastNumber
  <2>3. Min(I) = CHOOSE x \in I : \A y \in I : x =< y
    BY DEF Min
  <2>4. Min(I) \in I
    BY <2>2, <2>3
  <2>5. QED
    BY <1>1, <1>2, <2>4 DEF I
<1>3. QED
  BY <1>1, <1>2

\* What is not parsed any more is dropped from the front of the buffer.
LEMMA DropType ==
    ASSUME buffer \in Seq(Byte), NEW d \in 0 .. Len(buffer)
    PROVE  SubSeq(buffer, d + 1, Len(buffer)) \in Seq(Byte)
  BY SubSeqProperties

-----------------------------------------------------------------------------
(* The types. *)

\* The state is well typed at first.
LEMMA InitTyped == Init => TypeOK /\ ByteTypes
<1>1. Init => TypeOK
  <2>1. 0 \in 0 .. MaxParseRetries /\ 0 \in 0 .. MaxForeign /\ <<>> \in Seq(Message)
    BY PacketAssumption
  <2>2. QED
    BY <2>1 DEF Init, TypeOK
<1>2. Init => ByteTypes
  BY EmptySeq DEF Init, ByteTypes
<1>3. QED
  BY <1>1, <1>2

\* What the parent does keeps the types.
LEMMA SenderTyped ==
    ASSUME TypeOK, ByteTypes,
           (\E m \in Message : RosMessage(m)) \/ Write \/ WriteForeign \/ WriterEnds \/ WriteFails
    PROVE  (TypeOK /\ ByteTypes)'
<1> USE DEF TypeOK, ByteTypes, receiving, parser
<1>1. ASSUME NEW m \in Message, RosMessage(m)
      PROVE  (TypeOK /\ ByteTypes)'
  <2>1. Append(input, m) \in Seq(Message) /\ Append(outbound, m) \in Seq(Message)
    OBVIOUS
  <2>2. input' \in Seq(Message) /\ outbound' \in Seq(Message) /\ source' \in {"run", "ended"}
    <3>1. CASE writer = "run"
      BY <1>1, <2>1, <3>1 DEF RosMessage
    <3>2. CASE writer # "run"
      BY <1>1, <3>2 DEF RosMessage
    <3>3. QED
      BY <3>1, <3>2
  <2>3. QED
    BY <1>1, <2>2 DEF RosMessage
<1>2. ASSUME outbound # <<>>
      PROVE  /\ Tail(outbound) \in Seq(Message)
             /\ Packet(Head(outbound)) \in Seq(Byte)
             /\ \A n \in 0 .. Len(Packet(Head(outbound))) - 1 :
                   SubSeq(Packet(Head(outbound)), 1, n) \in Seq(Byte)
  <2>1. Head(outbound) \in Message /\ Tail(outbound) \in Seq(Message)
    BY <1>2
  <2>2. Packet(Head(outbound)) \in Seq(Byte)
    BY <2>1, PacketBytes
  <2>3. QED
    BY <2>1, <2>2, SubSeqProperties
<1>3. CASE Write
  BY <1>2, <1>3 DEF Write
<1>4. CASE WriteForeign
  <2>1. <<Garbage, Null>> \in Seq(Byte)
    BY DEF Byte
  <2>2. QED
    BY <1>4, <2>1, PacketAssumption DEF WriteForeign
<1>5. CASE WriterEnds
  <2>1. \A n \in 0 .. Len(wire) : SubSeq(wire, 1, n) \in Seq(Byte)
    BY SubSeqProperties
  <2>2. QED
    BY <1>5, <2>1 DEF WriterEnds
<1>6. CASE WriteFails
  <2>1. wire' \in Seq(Byte)
    BY <1>2, <1>6 DEF WriteFails
  <2>2. QED
    BY <1>6, <2>1 DEF WriteFails
<1>7. QED
  BY <1>1, <1>3, <1>4, <1>5, <1>6

\* What feed does keeps them: of a header that parses, the length is a number.
LEMMA FeedTyped ==
    ASSUME TypeOK, ByteTypes, Feed
    PROVE  (TypeOK /\ ByteTypes)'
<1> USE DEF TypeOK, ByteTypes, receiving, sending
<1>1. AtHeader => NullPos \in 1 .. Len(buffer)
  BY NullPosType DEF AtHeader
<1>2. AtHeader => DropHeader \in Seq(Byte)
  BY <1>1, DropType DEF DropHeader
<1>3. CASE TakeHeader
  <2>1. HeaderBytes \in Seq(Byte) /\ Len(HeaderBytes) = 2
    <3>1. NullPos - 1 \in Int /\ \A i \in 1 .. NullPos - 1 : buffer[i] \in Byte
      BY <1>1, <1>3 DEF TakeHeader
    <3>2. HeaderBytes \in Seq(Byte)
      BY <3>1, SubSeqProperties DEF HeaderBytes
    <3>3. QED
      BY <1>3, <3>2 DEF TakeHeader, Parses
  <2>2. HeaderBytes[1] \in Byte /\ HeaderBytes[1] = <<"header", HeaderBytes[1][2]>>
    BY <1>3, <2>1 DEF TakeHeader, Parses, Header
  <2>3. HeaderBytes[1][2] \in Nat
    BY <2>2 DEF Byte, Null, Brace, Garbage
  <2>4. QED
    BY <1>2, <1>3, <2>3, PacketAssumption DEF TakeHeader
<1>4. CASE BadHeader
  <2>1. retries' \in 0 .. MaxParseRetries
    BY <1>4, PacketAssumption DEF BadHeader
  <2>2. buffer' \in Seq(Byte) /\ cleared' \in BOOLEAN
    BY <1>2, <1>4, EmptySeq DEF BadHeader
  <2>3. QED
    BY <1>4, <2>1, <2>2 DEF BadHeader
<1>5. CASE TakePayload
  <2>1. pendingHeader \in 0 .. Len(buffer)
    BY <1>5 DEF TakePayload
  <2>2. /\ SubSeq(buffer, 1, pendingHeader) \in Seq(Byte)
        /\ SubSeq(buffer, pendingHeader + 1, Len(buffer)) \in Seq(Byte)
    BY <2>1, DropType, SubSeqProperties
  <2>3. QED
    BY <1>5, <2>2, PacketAssumption DEF TakePayload
<1>6. CASE Incomplete
  BY <1>6 DEF Incomplete, parser
<1>7. QED
  BY <1>3, <1>4, <1>5, <1>6 DEF Feed

\* The rest of what the child does keeps them.
LEMMA ReceiverTyped ==
    ASSUME TypeOK, ByteTypes, Read \/ ForwardPackets \/ ReaderEnds \/ Sink
    PROVE  (TypeOK /\ ByteTypes)'
<1> USE DEF TypeOK, ByteTypes, parser, sending
<1>1. CASE Read
  <2>1. PICK n \in 1 .. ReceiveBuffer :
           /\ n <= Len(wire)
           /\ buffer' = buffer \o SubSeq(wire, 1, n)
           /\ wire' = SubSeq(wire, n + 1, Len(wire))
    BY <1>1 DEF Read
  <2>2. n \in Nat
    BY PacketAssumption
  <2>3. SubSeq(wire, 1, n) \in Seq(Byte) /\ SubSeq(wire, n + 1, Len(wire)) \in Seq(Byte)
    <3>1. Len(wire) \in Int /\ \A i \in 1 .. Len(wire) : wire[i] \in Byte
      OBVIOUS
    <3>2. QED
      BY <2>1, <2>2, <3>1, SubSeqProperties, SMTT(30)
  <2>4. QED
    BY <1>1, <2>1, <2>3 DEF Read
<1>2. CASE ForwardPackets
  BY <1>2, EmptySeq DEF ForwardPackets
<1>3. CASE ReaderEnds
  BY <1>3 DEF ReaderEnds
<1>4. CASE Publish
  <2>1. Head(inbound) \in Seq(Byte) /\ Tail(inbound) \in Seq(Seq(Byte))
    BY <1>4, HeadTailProperties DEF Publish
  <2>2. QED
    BY <1>4, <2>1 DEF Publish
<1>5. CASE SinkEnds
  BY <1>5 DEF SinkEnds
<1>6. QED
  BY <1>1, <1>2, <1>3, <1>4, <1>5 DEF Sink

-----------------------------------------------------------------------------
(* What the parser finds at the start of a block. *)

\* An unread byte is one of the buffer, or of the wire behind it.
LEMMA UnreadBytes ==
    ASSUME ByteTypes
    PROVE  /\ Unread \in Seq(Byte)
           /\ DOMAIN Unread = 1 .. Len(Unread) /\ Len(Unread) \in Nat
           /\ DOMAIN buffer = 1 .. Len(buffer) /\ Len(buffer) \in Nat
           /\ DOMAIN wire = 1 .. Len(wire) /\ Len(wire) \in Nat
           /\ Len(Unread) = Len(buffer) + Len(wire)
           /\ \A x \in 1 .. Len(buffer) : Unread[x] = buffer[x]
           /\ \A x \in 1 .. Len(wire) : Unread[Len(buffer) + x] = wire[x]
<1>1. Unread \in Seq(Byte) /\ buffer \in Seq(Byte) /\ wire \in Seq(Byte)
  BY ConcatProperties DEF ByteTypes, Unread
<1>2. /\ DOMAIN Unread = 1 .. Len(Unread) /\ Len(Unread) \in Nat
      /\ DOMAIN buffer = 1 .. Len(buffer) /\ Len(buffer) \in Nat
      /\ DOMAIN wire = 1 .. Len(wire) /\ Len(wire) \in Nat
  BY <1>1, LenProperties
<1>3. QED
  BY <1>1, <1>2, ConcatProperties DEF Unread

\* Before a header there is a block, if anything is unread, which starts with
\* what is unread.
LEMMA BlockAhead ==
    ASSUME TypeOK, ByteTypes,
           NEW p \in Numbers, NEW q \in Numbers,
           NEW n \in Nat, NEW pos \in Nat, NEW k \in 0 .. n,
           Written(p, q, n), Carried(p, q, n, pos), Standing(p, q, n, k, pos),
           pendingHeader = None, buffer # <<>>
    PROVE  /\ k < n
           /\ pos = p[k]
           /\ IsMessage(p, q, k + 1) \/ IsForeign(p, q, k + 1)
           /\ \A x \in 1 .. Len(buffer) :
                 x \in 1 .. Len(Block(q, k + 1)) => buffer[x] = Block(q, k + 1)[x]
<1>1. Len(buffer) \in Nat \ {0} /\ Len(Unread) >= Len(buffer)
  BY UnreadBytes, EmptySeq DEF ByteTypes
<1>2. pos = p[k]
  BY DEF Standing
<1>3. k < n
  BY <1>1, <1>2, UnreadBytes DEF Carried
<1>4. k + 1 \in 1 .. n /\ (k + 1) - 1 = k
  BY <1>3
<1>5. IsMessage(p, q, k + 1) \/ IsForeign(p, q, k + 1)
  BY <1>4 DEF Written, Blocks
<1>6. ASSUME NEW x \in 1 .. Len(buffer), x \in 1 .. Len(Block(q, k + 1))
      PROVE  buffer[x] = Block(q, k + 1)[x]
  <2>1. x \in Nat /\ p[k] + x - pos = x /\ x \in 1 .. Len(Unread) /\ Unread[x] = buffer[x]
    <3>1. Len(buffer) \in Nat /\ Len(Unread) \in Nat
      BY UnreadBytes
    <3>2. x \in Nat /\ 1 <= x /\ x <= Len(buffer)
      BY <3>1
    <3>3. x \in 1 .. Len(Unread)
      BY <1>1, <3>1, <3>2
    <3>4. Unread[x] = buffer[x]
      BY UnreadBytes
    <3>5. QED
      BY <1>2, <3>2, <3>3, <3>4
  <2>2. QED
    BY <1>4, <1>6, <2>1 DEF Carried, Carries
<1>7. QED
  BY <1>2, <1>3, <1>5, <1>6

\* A header that parses is the one of a message.
LEMMA MessageAhead ==
    ASSUME ByteTypes, NEW q, NEW i, NEW m \in Message, AtHeader,
           Block(q, i) = Packet(m),
           \A x \in 1 .. Len(buffer) : x \in 1 .. Len(Block(q, i)) => buffer[x] = Block(q, i)[x]
    PROVE  /\ NullPos = 3
           /\ Parses(HeaderBytes)
           /\ HeaderBytes[1][2] = Len(Payload[m])
           /\ 3 <= Len(buffer)
<1>1. /\ Packet(m) \in Seq(Byte) /\ Len(Packet(m)) >= 3
      /\ Packet(m)[1] = <<"header", Len(Payload[m])>>
      /\ Packet(m)[2] = Brace /\ Packet(m)[3] = Null
      /\ Len(Payload[m]) \in Nat
  BY PacketBytes
<1>2. \A x \in 1 .. 3 : x <= Len(buffer) => buffer[x] = Packet(m)[x]
  <2>1. Len(buffer) \in Nat /\ Len(Packet(m)) \in Nat
    BY <1>1, LenProperties DEF ByteTypes
  <2>2. \A x \in 1 .. 3 : x \in 1 .. Len(Packet(m)) /\ (x <= Len(buffer) => x \in 1 .. Len(buffer))
    BY <1>1, <2>1
  <2>3. QED
    BY <2>2
<1>3. buffer \in Seq(Byte) /\ NullPos > 0
  BY DEF ByteTypes, AtHeader
<1>4. NullPos = 3 /\ 3 <= Len(buffer)
  <2>1. ASSUME NEW x \in 1 .. Len(buffer), x < 3
        PROVE  buffer[x] # Null
    <3>1. 1 <= Len(buffer) /\ (x = 1 \/ (x = 2 /\ 2 <= Len(buffer)))
      BY <1>3, <2>1
    <3>2. buffer[1] # Null
      <4>1. buffer[1] = <<"header", Len(Payload[m])>>
        BY <1>1, <1>2, <3>1
      <4>2. QED
        BY <1>1, <4>1, BytesDiffer
    <3>3. 2 <= Len(buffer) => buffer[2] # Null
      BY <1>1, <1>2, BytesDiffer
    <3>4. QED
      BY <3>1, <3>2, <3>3
  <2>2. 3 <= Len(buffer) => buffer[3] = Null
    BY <1>1, <1>2
  <2>3. QED
    BY <1>3, <2>1, <2>2, NullAfter
<1>5. /\ HeaderBytes \in Seq(Byte) /\ Len(HeaderBytes) = 2
      /\ HeaderBytes[1] = buffer[1] /\ HeaderBytes[2] = buffer[2]
  <2>1. NullPos - 1 = 2 /\ \A x \in 1 .. 2 : buffer[x] \in Byte
    BY <1>3, <1>4
  <2>2. /\ HeaderBytes \in Seq(Byte) /\ Len(HeaderBytes) = 2
        /\ \A x \in 1 .. 2 : HeaderBytes[x] = buffer[1 + x - 1]
    BY <2>1, SubSeqProperties DEF HeaderBytes
  <2>3. QED
    BY <2>2
<1>6. HeaderBytes = Header(Len(Payload[m]))
  <2>1. HeaderBytes = <<HeaderBytes[1], HeaderBytes[2]>>
    BY <1>5
  <2>2. QED
    BY <1>1, <1>2, <1>4, <1>5, <2>1 DEF Header
<1>7. HeaderBytes[1][2] = Len(Payload[m]) /\ Len(HeaderBytes) = 2
  BY <1>6 DEF Header
<1>8. QED
  BY <1>4, <1>6, <1>7 DEF Parses

\* A foreign header does not parse.
LEMMA ForeignAhead ==
    ASSUME ByteTypes, NEW q, NEW i, AtHeader,
           Block(q, i) = <<Garbage, Null>>,
           \A x \in 1 .. Len(buffer) : x \in 1 .. Len(Block(q, i)) => buffer[x] = Block(q, i)[x]
    PROVE  NullPos = 2 /\ ~Parses(HeaderBytes) /\ 2 <= Len(buffer)
<1>1. /\ 1 <= Len(buffer) => buffer[1] = Garbage
      /\ 2 <= Len(buffer) => buffer[2] = Null
  <2>1. /\ DOMAIN buffer = 1 .. Len(buffer) /\ Len(buffer) \in Nat
        /\ DOMAIN <<Garbage, Null>> = 1 .. 2
        /\ <<Garbage, Null>>[1] = Garbage /\ <<Garbage, Null>>[2] = Null
    BY DEF ByteTypes
  <2>2. QED
    BY <2>1
<1>2. buffer \in Seq(Byte) /\ NullPos > 0
  BY DEF ByteTypes, AtHeader
<1>3. NullPos = 2 /\ 2 <= Len(buffer)
  <2>1. \A x \in 1 .. Len(buffer) : x < 2 => buffer[x] # Null
    BY <1>1, <1>2, BytesDiffer
  <2>2. 2 <= Len(buffer) => buffer[2] = Null
    BY <1>1
  <2>3. QED
    BY <1>2, <2>1, <2>2, NullAfter
<1>4. Len(HeaderBytes) = 1
  <2>1. NullPos - 1 = 1 /\ \A x \in 1 .. 1 : buffer[x] \in Byte
    BY <1>2, <1>3
  <2>2. QED
    BY <2>1, SubSeqProperties DEF HeaderBytes
<1>5. QED
  BY <1>3, <1>4 DEF Parses

-----------------------------------------------------------------------------
(* The steps that leave the blocks where they are. *)

\* Moving bytes or packets along changes nothing of what the invariant says.
LEMMA MovedAlong ==
    ASSUME Aligned, ParsedInOrder,
           Unread' = Unread, Parsed' = Parsed,
           UNCHANGED <<input, outbound, writer, pendingHeader>>
    PROVE  (Aligned /\ ParsedInOrder)'
<1> PICK p, q \in Numbers, n, pos \in Nat :
       \E k \in 0 .. n : Written(p, q, n) /\ Carried(p, q, n, pos) /\ Standing(p, q, n, k, pos)
  BY DEF Aligned
<1>1. PICK k \in 0 .. n :
         Written(p, q, n) /\ Carried(p, q, n, pos) /\ Standing(p, q, n, k, pos)
  OBVIOUS
<1>2. Written(p, q, n)'
  BY <1>1 DEF Written, Blocks, IsMessage, IsForeign
<1>3. Carried(p, q, n, pos)'
  BY <1>1 DEF Carried, Carries, Block
<1>4. Standing(p, q, n, k, pos)'
  BY <1>1 DEF Standing, IsMessage
<1>5. Aligned'
  BY <1>2, <1>3, <1>4 DEF Aligned
<1>6. QED
  BY <1>5 DEF ParsedInOrder

\* Reading moves bytes from the wire to the buffer.
LEMMA ReadMoves ==
    ASSUME ByteTypes, Read
    PROVE  Unread' = Unread
<1>1. PICK n \in 1 .. ReceiveBuffer :
         /\ n <= Len(wire)
         /\ buffer' = buffer \o SubSeq(wire, 1, n)
         /\ wire' = SubSeq(wire, n + 1, Len(wire))
  BY DEF Read
<1>2. n \in Nat /\ n >= 1 /\ ReceiveBuffer \in Nat
  BY PacketAssumption
<1>3. /\ 1 \in 1 .. Len(wire) + 1 /\ n \in 1 - 1 .. Len(wire) /\ Len(wire) \in n .. Len(wire)
      /\ Len(wire) \in Nat
  BY <1>1, <1>2 DEF ByteTypes
<1>4. SubSeq(wire, 1, n) \o SubSeq(wire, n + 1, Len(wire)) = wire
  BY <1>3, ConcatAdjacentSubSeq, SubSeqFull DEF ByteTypes
<1>5. \A i \in 1 .. Len(wire) : wire[i] \in Byte
  BY DEF ByteTypes
<1>6. SubSeq(wire, 1, n) \in Seq(Byte) /\ SubSeq(wire, n + 1, Len(wire)) \in Seq(Byte)
  BY <1>1, <1>2, <1>3, <1>5, SubSeqProperties
<1>7. (buffer \o SubSeq(wire, 1, n)) \o SubSeq(wire, n + 1, Len(wire)) = buffer \o wire
  <2> DEFINE s == SubSeq(wire, 1, n)
             t == SubSeq(wire, n + 1, Len(wire))
  <2>1. s \in Seq(Byte) /\ t \in Seq(Byte) /\ buffer \in Seq(Byte)
    BY <1>6 DEF ByteTypes
  <2> HIDE DEF s, t
  <2>2. (buffer \o s) \o t = buffer \o (s \o t)
    BY <2>1, Regrouped, SMTT(30)
  <2>3. QED
    BY <1>4, <2>2 DEF s, t
<1>8. QED
  BY <1>1, <1>7 DEF Unread

\* Forwarding and publishing move packets along, in order.
LEMMA PacketsMove ==
    ASSUME ByteTypes, ForwardPackets \/ Publish
    PROVE  Parsed' = Parsed
<1> DEFINE S == Seq(Byte)
<1> output \in Seq(S) /\ inbound \in Seq(S) /\ complete \in Seq(S)
  BY DEF ByteTypes
<1> HIDE DEF S
<1>1. CASE ForwardPackets
  <2>1. output \o (inbound \o complete) = (output \o inbound) \o complete
    BY Regrouped
  <2>2. inbound \o complete \in Seq(S)
    BY ConcatProperties
  <2>3. output \o (inbound \o complete) \in Seq(S)
    BY <2>2, ConcatProperties
  <2>4. output' = output /\ inbound' = inbound \o complete /\ complete' = <<>>
    BY <1>1 DEF ForwardPackets
  <2>5. (output \o (inbound \o complete)) \o <<>> = output \o (inbound \o complete)
    BY <2>3, ConcatEmptySeq
  <2>6. QED
    BY <2>1, <2>4, <2>5 DEF Parsed
<1>2. CASE Publish
  <2>1. /\ inbound # <<>>
        /\ output' = Append(output, Head(inbound)) /\ inbound' = Tail(inbound)
        /\ complete' = complete
    BY <1>2 DEF Publish, parser
  <2>2. Append(output, Head(inbound)) \o Tail(inbound) = output \o inbound
    BY <2>1, HandedOver
  <2>3. QED
    BY <2>1, <2>2 DEF Parsed
<1>3. QED
  BY <1>1, <1>2

\* A message that comes waits behind the ones before.
LEMMA MessageComes ==
    ASSUME TypeOK, ByteTypes, Aligned, ParsedInOrder, NEW m \in Message, RosMessage(m)
    PROVE  (Aligned /\ ParsedInOrder)'
<1>1. Unread' = Unread /\ Parsed' = Parsed /\ UNCHANGED <<writer, pendingHeader>>
  BY DEF RosMessage, receiving, parser, Unread, Parsed
<1>2. CASE writer # "run"
  BY <1>1, <1>2, MovedAlong DEF RosMessage
<1>3. CASE writer = "run"
  <2>1. input' = Append(input, m) /\ outbound' = Append(outbound, m)
    BY <1>3 DEF RosMessage
  <2>2. input \in Seq(Message) /\ outbound \in Seq(Message)
    BY DEF TypeOK
  <2>3. /\ Len(input) \in Nat /\ Len(input') = Len(input) + 1
        /\ \A j \in 1 .. Len(input) : input'[j] = input[j]
    BY <2>1, <2>2, Grown
  <2>4. \A j \in 1 .. Len(input) : j \in 1 .. Len(input')
    BY <2>3
  <2> PICK p, q \in Numbers, n, pos \in Nat :
         \E k \in 0 .. n : Written(p, q, n) /\ Carried(p, q, n, pos) /\ Standing(p, q, n, k, pos)
    BY DEF Aligned
  <2>5. PICK k \in 0 .. n :
           Written(p, q, n) /\ Carried(p, q, n, pos) /\ Standing(p, q, n, k, pos)
    OBVIOUS
  <2>6. \A i \in 1 .. n : /\ IsMessage(p, q, i) => IsMessage(p, q, i)'
                          /\ IsForeign(p, q, i) => IsForeign(p, q, i)'
                          /\ IsMessage(p, q, i) \/ IsForeign(p, q, i)
    BY <2>3, <2>4, <2>5 DEF IsMessage, IsForeign, Written, Blocks
  <2>7. Written(p, q, n)'
    <3> q[n] \in Nat
      BY DEF Numbers
    <3>1. Waits(input, outbound, q[n])
      BY <1>3, <2>5 DEF Written
    <3>2. Waits(input', outbound', q[n])
      BY <2>1, <2>2, <3>1, WaitsBehind
    <3>3. QED
      BY <2>5, <2>6, <3>2 DEF Written, Blocks
  <2>8. \A i \in 1 .. n : Block(q, i)' = Block(q, i)
    BY <2>3, <2>6 DEF Block, IsMessage, IsForeign
  <2>9. Carried(p, q, n, pos)'
    BY <1>1, <2>5, <2>8 DEF Carried, Carries
  <2>10. Standing(p, q, n, k, pos)'
    <3>1. pendingHeader # None => IsMessage(p, q, k + 1)
      BY <2>5 DEF Standing
    <3>2. ASSUME IsMessage(p, q, k + 1)
          PROVE  IsMessage(p, q, k + 1)' /\ input'[q[k + 1]] = input[q[k + 1]]
      BY <2>3, <2>4, <3>2 DEF IsMessage
    <3>3. QED
      BY <1>1, <2>5, <3>1, <3>2 DEF Standing
  <2>11. ParsedInOrder'
    <3>1. Len(Parsed) \in Nat
      BY ConcatProperties, LenProperties DEF ByteTypes, Parsed
    <3>2. Len(Parsed) <= Len(input)
      BY DEF ParsedInOrder
    <3>3. \A i \in 1 .. Len(Parsed) : i \in 1 .. Len(input)
      BY <2>3, <3>1, <3>2
    <3>4. \A i \in 1 .. Len(Parsed) : Parsed[i] = Payload[input'[i]]
      BY <2>3, <3>3 DEF ParsedInOrder
    <3>5. Len(Parsed) <= Len(input')
      BY <2>3, <3>1, <3>2
    <3>6. QED
      BY <1>1, <3>4, <3>5 DEF ParsedInOrder
  <2>12. QED
    BY <2>5, <2>7, <2>9, <2>10, <2>11 DEF Aligned
<1>4. QED
  BY <1>2, <1>3

-----------------------------------------------------------------------------
(* The parent writes blocks. *)

\* The bytes of a block are as many as it takes.
LEMMA BlockBytes ==
    ASSUME TypeOK, NEW p \in Numbers, NEW q \in Numbers, NEW i \in Nat \ {0},
           IsMessage(p, q, i) \/ IsForeign(p, q, i)
    PROVE  /\ Len(Block(q, i)) \in Nat
           /\ p[i] = p[i - 1] + Len(Block(q, i))
           /\ IsMessage(p, q, i) => Block(q, i) = Packet(input[q[i]]) /\ input[q[i]] \in Message
           /\ IsForeign(p, q, i) => Block(q, i) = <<Garbage, Null>>
<1>1. i \in Nat /\ i - 1 \in Nat
  OBVIOUS
<1> q[i] \in Nat /\ q[i - 1] \in Nat
  BY <1>1 DEF Numbers
<1>2. CASE IsMessage(p, q, i)
  <2>1. q[i] # q[i - 1]
    BY <1>1, <1>2 DEF IsMessage
  <2>2. input[q[i]] \in Message
    BY <1>2 DEF IsMessage, TypeOK
  <2>3. Block(q, i) = Packet(input[q[i]])
    BY <2>1 DEF Block
  <2>4. Len(Packet(input[q[i]])) \in Nat
    BY <2>2, PacketBytes, LenProperties
  <2>5. QED
    BY <1>1, <1>2, <2>1, <2>2, <2>3, <2>4 DEF IsMessage, IsForeign
<1>3. CASE IsForeign(p, q, i)
  <2>1. Block(q, i) = <<Garbage, Null>> /\ ~IsMessage(p, q, i)
    BY <1>1, <1>3 DEF Block, IsForeign, IsMessage
  <2>2. Len(Block(q, i)) = 2
    BY <2>1
  <2>3. QED
    BY <1>3, <2>1, <2>2 DEF IsForeign
<1>4. QED
  BY <1>2, <1>3

\* The bytes b are a block that may come behind n blocks, of which then c are
\* messages.
NextBlock(q, n, b, c) ==
    \/ c = q[n] + 1 /\ c \in 1 .. Len(input) /\ b = Packet(input[c])
    \/ c = q[n] /\ b = <<Garbage, Null>>

\* The blocks p, q and another one.
IsExtended(p, q, n, b, c, P, Q) ==
    /\ P = [p EXCEPT ![n + 1] = p[n] + Len(b)]
    /\ Q = [q EXCEPT ![n + 1] = c]

\* The old blocks stay what they are.
LEMMA ExtendedParts ==
    ASSUME NEW p \in Numbers, NEW q \in Numbers, NEW n \in Nat,
           NEW b, Len(b) \in Nat, NEW c \in Nat,
           NEW P, NEW Q, IsExtended(p, q, n, b, c, P, Q)
    PROVE  /\ P \in Numbers /\ Q \in Numbers
           /\ P[n + 1] = p[n] + Len(b) /\ Q[n + 1] = c
           /\ P[n] = p[n] /\ Q[n] = q[n] /\ P[0] = p[0] /\ Q[0] = q[0]
           /\ \A i \in 0 .. n : P[i] = p[i] /\ Q[i] = q[i]
           /\ \A i \in 1 .. n : /\ P[i] = p[i] /\ Q[i] = q[i]
                                /\ P[i - 1] = p[i - 1] /\ Q[i - 1] = q[i - 1]
<1> USE DEF IsExtended
<1> DOMAIN p = Nat /\ DOMAIN q = Nat /\ p[n] \in Nat
  BY DEF Numbers
<1>1. n + 1 \in Nat /\ p[n] + Len(b) \in Nat
  OBVIOUS
<1>2. P \in Numbers /\ Q \in Numbers
  BY <1>1 DEF Numbers
<1>3. P[n + 1] = p[n] + Len(b) /\ Q[n + 1] = c
  BY <1>1
<1>4. \A i \in 0 .. n : i \in Nat /\ i # n + 1
  OBVIOUS
<1>5. \A i \in 0 .. n : P[i] = p[i] /\ Q[i] = q[i]
  BY <1>4
<1>6. 0 \in 0 .. n /\ n \in 0 .. n /\ \A i \in 1 .. n : i \in 0 .. n /\ i - 1 \in 0 .. n
  OBVIOUS
<1>7. QED
  BY <1>2, <1>3, <1>5, <1>6

\* The blocks are blocks again.
LEMMA BlocksExtended ==
    ASSUME NEW p \in Numbers, NEW q \in Numbers, NEW n \in Nat,
           NEW b, Len(b) \in Nat, NEW c \in Nat,
           Blocks(p, q, n), NextBlock(q, n, b, c),
           NEW P, NEW Q, IsExtended(p, q, n, b, c, P, Q)
    PROVE  /\ Blocks(P, Q, n + 1)
           /\ Block(Q, n + 1) = b
           /\ \A i \in 1 .. n : /\ Block(Q, i) = Block(q, i)
                                /\ IsMessage(P, Q, i) <=> IsMessage(p, q, i)
<1>1. (n + 1) - 1 = n /\ q[n] \in Nat /\ p[n] \in Nat
  BY DEF Numbers
<1> /\ P[n + 1] = p[n] + Len(b) /\ Q[n + 1] = c
    /\ P[n] = p[n] /\ Q[n] = q[n] /\ P[0] = p[0] /\ Q[0] = q[0]
    /\ \A i \in 0 .. n : P[i] = p[i] /\ Q[i] = q[i]
    /\ \A i \in 1 .. n : /\ P[i] = p[i] /\ Q[i] = q[i]
                         /\ P[i - 1] = p[i - 1] /\ Q[i - 1] = q[i - 1]
  BY ExtendedParts
<1>2. (IsMessage(P, Q, n + 1) \/ IsForeign(P, Q, n + 1)) /\ Block(Q, n + 1) = b
  <2>1. CASE c = q[n] + 1 /\ c \in 1 .. Len(input) /\ b = Packet(input[c])
    <3>1. c # q[n]
      BY <1>1, <2>1
    <3>2. QED
      BY <1>1, <2>1, <3>1 DEF IsMessage, Block
  <2>2. CASE c = q[n] /\ b = <<Garbage, Null>>
    <3>1. Len(b) = 2
      BY <2>2
    <3>2. QED
      BY <1>1, <2>2, <3>1 DEF IsForeign, Block
  <2>3. QED
    BY <2>1, <2>2 DEF NextBlock
<1>3. \A i \in 1 .. n : /\ IsMessage(P, Q, i) <=> IsMessage(p, q, i)
                        /\ IsForeign(P, Q, i) <=> IsForeign(p, q, i)
                        /\ Block(Q, i) = Block(q, i)
  BY DEF IsMessage, IsForeign, Block
<1>4. \A i \in 1 .. n + 1 : i \in 1 .. n \/ i = n + 1
  OBVIOUS
<1>5. \A i \in 1 .. n + 1 : IsMessage(P, Q, i) \/ IsForeign(P, Q, i)
  BY <1>2, <1>3, <1>4 DEF Blocks
<1>6. ASSUME NEW i \in 0 .. n + 1
      PROVE  P[i] <= P[n + 1]
  <2>1. P[n + 1] = p[n] + Len(b) /\ P[n + 1] \in Nat
    BY <1>1
  <2>2. CASE i = n + 1
    BY <2>1, <2>2
  <2>3. CASE i \in 0 .. n
    <3>1. P[i] = p[i] /\ p[i] <= p[n]
      BY <2>3 DEF Blocks
    <3> p[i] \in Nat
      <4>1. i \in Nat
        BY <2>3
      <4>2. QED
        BY <4>1 DEF Numbers
    <3>2. QED
      BY <1>1, <2>1, <3>1
  <2>4. QED
    BY <2>2, <2>3
<1>7. P[0] = 0 /\ Q[0] = 0
  BY DEF Blocks
<1>8. QED
  BY <1>2, <1>3, <1>5, <1>6, <1>7 DEF Blocks

\* w is the block or its first bytes.
Starts(w, b) == Len(w) <= Len(b) /\ \A y \in 1 .. Len(w) : w[y] = b[y]

\* Bytes of the new block come behind those of the old ones.
LEMMA CarriesMore ==
    ASSUME TypeOK, NEW p \in Numbers, NEW q \in Numbers, NEW n \in Nat,
           NEW b, b \in Seq(Byte), NEW c \in Nat,
           Blocks(p, q, n), NextBlock(q, n, b, c),
           NEW P, NEW Q, IsExtended(p, q, n, b, c, P, Q),
           NEW pos \in Nat, NEW u, u \in Seq(Byte), NEW w, w \in Seq(Byte), Starts(w, b),
           pos + Len(u) = p[n], Carries(p, q, n, pos, u)
    PROVE  Carries(P, Q, n + 1, pos, u \o w)
<1>1. /\ Len(u) \in Nat /\ Len(w) \in Nat /\ Len(u \o w) = Len(u) + Len(w)
      /\ \A x \in 1 .. Len(u) : (u \o w)[x] = u[x]
      /\ \A y \in 1 .. Len(w) : (u \o w)[Len(u) + y] = w[y]
  BY Concatenated
<1>2. Len(b) \in Nat /\ p[n] \in Nat
  BY LenProperties DEF Numbers
<1>3. /\ \A i \in 1 .. n : P[i - 1] = p[i - 1] /\ Block(Q, i) = Block(q, i)
      /\ P[n] = p[n] /\ Block(Q, n + 1) = b
  BY <1>2, ExtendedParts, BlocksExtended
<1>4. ASSUME NEW i \in 1 .. n, NEW y \in 1 .. Len(Block(q, i)), NEW x,
             x = p[i - 1] + y - pos, x \in 1 .. Len(u \o w)
      PROVE  (u \o w)[x] = Block(q, i)[y]
  <2>1. i \in Nat \ {0} /\ i \in 0 .. n /\ i - 1 \in Nat
    OBVIOUS
  <2>2. IsMessage(p, q, i) \/ IsForeign(p, q, i)
    BY DEF Blocks
  <2>3. p[i] = p[i - 1] + Len(Block(q, i)) /\ Len(Block(q, i)) \in Nat
    BY <2>1, <2>2, BlockBytes
  <2>4. p[i] <= p[n]
    BY <2>1 DEF Blocks
  <2> p[i] \in Nat /\ p[i - 1] \in Nat
    BY <2>1 DEF Numbers
  <2>5. y \in Nat /\ y <= Len(Block(q, i))
    BY <2>3
  <2>6. x \in Int /\ 1 <= x
    BY <1>1, <1>4
  <2>7. x <= Len(u)
    BY <1>1, <1>2, <1>4, <2>3, <2>4, <2>5, <2>6, SMTT(30)
  <2>8. x \in 1 .. Len(u)
    BY <1>1, <2>6, <2>7
  <2>9. u[x] = Block(q, i)[y]
    BY <1>4, <2>8 DEF Carries
  <2>10. QED
    BY <1>1, <2>8, <2>9
<1>5. ASSUME NEW y \in 1 .. Len(b), NEW x, x = p[n] + y - pos, x \in 1 .. Len(u \o w)
      PROVE  (u \o w)[x] = b[y]
  <2>1. y \in Nat /\ 1 <= y
    BY <1>2
  <2>2. x = Len(u) + y
    BY <1>1, <1>2, <1>5, <2>1
  <2>3. y \in 1 .. Len(w)
    BY <1>1, <1>5, <2>1, <2>2
  <2>4. QED
    BY <1>1, <2>2, <2>3 DEF Starts
<1>6. ASSUME NEW i \in 1 .. n + 1, NEW y \in 1 .. Len(Block(Q, i)), NEW x,
             x = P[i - 1] + y - pos, x \in 1 .. Len(u \o w)
      PROVE  (u \o w)[x] = Block(Q, i)[y]
  <2>1. CASE i \in 1 .. n
    <3>1. P[i - 1] = p[i - 1] /\ Block(Q, i) = Block(q, i)
      BY <1>3, <2>1
    <3>2. y \in 1 .. Len(Block(q, i)) /\ x = p[i - 1] + y - pos
      BY <1>6, <3>1
    <3>3. (u \o w)[x] = Block(q, i)[y]
      BY <1>4, <1>6, <2>1, <3>2
    <3>4. QED
      BY <3>1, <3>3
  <2>2. CASE i = n + 1
    <3>1. i - 1 = n
      BY <2>2
    <3>2. QED
      BY <1>3, <1>5, <1>6, <2>2, <3>1
  <2>3. i \in 1 .. n \/ i = n + 1
    OBVIOUS
  <2>4. QED
    BY <2>1, <2>2, <2>3
<1>7. QED
  BY <1>6 DEF Carries

\* A block is written, or the first bytes of one by a writer that ends.
LEMMA BlockWritten ==
    ASSUME TypeOK, ByteTypes, writer = "run",
           NEW p \in Numbers, NEW q \in Numbers,
           NEW n \in Nat, NEW pos \in Nat, NEW k \in 0 .. n,
           Written(p, q, n), Carried(p, q, n, pos), Standing(p, q, n, k, pos),
           NEW b, b \in Seq(Byte), NEW c \in Nat, NextBlock(q, n, b, c),
           NEW w, w \in Seq(Byte), Starts(w, b),
           wire' = wire \o w,
           writer' = "run" => w = b /\ Waits(input, outbound', c),
           UNCHANGED <<input, buffer, pendingHeader>>, Parsed' = Parsed
    PROVE  Aligned'
<1> DEFINE P == [p EXCEPT ![n + 1] = p[n] + Len(b)]
           Q == [q EXCEPT ![n + 1] = c]
<1>1. IsExtended(p, q, n, b, c, P, Q)
  BY DEF IsExtended
<1> HIDE DEF P, Q
<1>2. Len(b) \in Nat /\ Len(w) \in Nat /\ p[n] \in Nat
  BY LenProperties DEF Numbers
<1>3. /\ P \in Numbers /\ Q \in Numbers
      /\ P[n + 1] = p[n] + Len(b) /\ Q[n + 1] = c
      /\ \A i \in 0 .. n : P[i] = p[i] /\ Q[i] = q[i]
      /\ \A i \in 1 .. n : Q[i] = q[i]
  BY <1>1, <1>2, ExtendedParts
<1>4. Blocks(p, q, n)
  BY DEF Written
<1>5. /\ Blocks(P, Q, n + 1)
      /\ \A i \in 1 .. n : IsMessage(P, Q, i) <=> IsMessage(p, q, i)
  BY <1>1, <1>2, <1>4, BlocksExtended
<1>6. Written(P, Q, n + 1)'
  BY <1>3, <1>5 DEF Written, Blocks, IsMessage, IsForeign
<1>7. Unread' = Unread \o w
  <2> DEFINE B == Byte
  <2>1. buffer \in Seq(B) /\ wire \in Seq(B) /\ w \in Seq(B)
    BY DEF ByteTypes
  <2> HIDE DEF B
  <2>2. buffer \o (wire \o w) = (buffer \o wire) \o w
    BY ONLY <2>1, Regrouped
  <2>3. QED
    BY <2>2 DEF Unread
<1>8. Unread \in Seq(Byte) /\ Len(Unread) \in Nat
  BY UnreadBytes
<1>9. pos + Len(Unread) = p[n] /\ Carries(p, q, n, pos, Unread)
  BY DEF Carried
<1>10. Carries(P, Q, n + 1, pos, Unread \o w)
  BY <1>1, <1>4, <1>8, <1>9, CarriesMore
<1>11. Carries(P, Q, n + 1, pos, Unread)'
  <2>1. \A i : Block(Q, i)' = Block(Q, i)
    BY DEF Block
  <2>2. QED
    BY <1>7, <1>10, <2>1 DEF Carries
<1>12. Len(Unread') = Len(Unread) + Len(w)
  BY <1>7, <1>8, Concatenated
<1>13. Len(w) <= Len(b) /\ (writer' = "run" => Len(w) = Len(b))
  BY DEF Starts
<1>14. pos + Len(Unread') <= P[n + 1] /\ (writer' = "run" => pos + Len(Unread') = P[n + 1])
  BY <1>2, <1>3, <1>8, <1>9, <1>12, <1>13
<1>15. Carried(P, Q, n + 1, pos)'
  BY <1>11, <1>14 DEF Carried
<1>16. Standing(P, Q, n + 1, k, pos)'
  <2>1. P[k] = p[k] /\ Q[k] = q[k]
    BY <1>3
  <2>2. ASSUME pendingHeader # None
        PROVE  k < n + 1 /\ IsMessage(P, Q, k + 1)' /\ Q[k + 1] = q[k + 1]
    <3>1. k < n /\ IsMessage(p, q, k + 1)
      BY <2>2 DEF Standing
    <3>2. k + 1 \in 1 .. n
      BY <3>1
    <3>3. IsMessage(P, Q, k + 1) /\ Q[k + 1] = q[k + 1]
      BY <1>3, <1>5, <3>1, <3>2
    <3>4. QED
      BY <3>1, <3>3 DEF IsMessage
  <2>3. QED
    BY <2>1, <2>2 DEF Standing
<1>17. n + 1 \in Nat /\ k \in 0 .. n + 1
  OBVIOUS
<1>18. QED
  BY <1>3, <1>6, <1>15, <1>16, <1>17 DEF Aligned

\* A block is the start of itself, and so are its first bytes.
LEMMA StartsFacts ==
    ASSUME NEW b, b \in Seq(Byte)
    PROVE  /\ Starts(b, b)
           /\ \A i \in 0 .. Len(b) : SubSeq(b, 1, i) \in Seq(Byte) /\ Starts(SubSeq(b, 1, i), b)
<1>1. Len(b) \in Nat /\ \A i \in 1 .. Len(b) : b[i] \in Byte
  BY LenProperties, ElementOfSeq
<1>2. Starts(b, b)
  BY <1>1 DEF Starts
<1>3. ASSUME NEW i \in 0 .. Len(b)
      PROVE  SubSeq(b, 1, i) \in Seq(Byte) /\ Starts(SubSeq(b, 1, i), b)
  <2>1. i \in Nat /\ i <= Len(b) /\ \A y \in 1 .. i : b[y] \in Byte
    BY <1>1
  <2>2. /\ SubSeq(b, 1, i) \in Seq(Byte)
        /\ Len(SubSeq(b, 1, i)) = i
        /\ \A y \in 1 .. i : SubSeq(b, 1, i)[y] = b[1 + y - 1]
    BY <2>1, SubSeqProperties
  <2>3. \A y \in 1 .. i : 1 + y - 1 = y
    BY <2>1
  <2>4. QED
    BY <2>1, <2>2, <2>3 DEF Starts
<1>4. QED
  BY <1>2, <1>3

\* What the writer appends to the wire keeps the invariant.
LEMMA WritingKeeps ==
    ASSUME TypeOK, ByteTypes, Aligned, ParsedInOrder, Write \/ WriteForeign \/ WriteFails
    PROVE  (Aligned /\ ParsedInOrder)'
<1>1. /\ writer = "run" /\ Parsed' = Parsed
      /\ UNCHANGED <<input, buffer, pendingHeader>>
  BY DEF Write, WriteForeign, WriteFails, parser, receiving, Parsed
<1>2. ParsedInOrder'
  BY <1>1 DEF ParsedInOrder
<1> PICK p, q \in Numbers, n, pos \in Nat :
       \E k \in 0 .. n : Written(p, q, n) /\ Carried(p, q, n, pos) /\ Standing(p, q, n, k, pos)
  BY DEF Aligned
<1>3. PICK k \in 0 .. n :
         Written(p, q, n) /\ Carried(p, q, n, pos) /\ Standing(p, q, n, k, pos)
  OBVIOUS
<1>4. q[n] \in Nat /\ q[n] + 1 \in Nat
  BY DEF Numbers
<1>5. Waits(input, outbound, q[n]) /\ input \in Seq(Message) /\ outbound \in Seq(Message)
  BY <1>1, <1>3 DEF Written, TypeOK
<1>6. ASSUME outbound # <<>>
      PROVE  /\ Packet(Head(outbound)) \in Seq(Byte)
             /\ NextBlock(q, n, Packet(Head(outbound)), q[n] + 1)
             /\ Waits(input, Tail(outbound), q[n] + 1)
  <2>1. /\ Head(outbound) \in Message
        /\ q[n] + 1 \in 1 .. Len(input) /\ Head(outbound) = input[q[n] + 1]
        /\ Waits(input, Tail(outbound), q[n] + 1)
    BY <1>4, <1>5, <1>6, NextWaits
  <2>2. QED
    BY <2>1, PacketBytes DEF NextBlock
<1>7. CASE Write
  <2>1. outbound # <<>> /\ outbound' = Tail(outbound) /\ wire' = wire \o Packet(Head(outbound))
    BY <1>7 DEF Write
  <2>2. Starts(Packet(Head(outbound)), Packet(Head(outbound)))
    BY <1>6, <2>1, StartsFacts
  <2>3. Aligned'
    BY <1>1, <1>3, <1>4, <1>6, <2>1, <2>2, BlockWritten
  <2>4. QED
    BY <1>2, <2>3
<1>8. CASE WriteForeign
  <2>1. outbound' = outbound /\ wire' = wire \o <<Garbage, Null>>
    BY <1>8 DEF WriteForeign
  <2>2. <<Garbage, Null>> \in Seq(Byte)
    BY DEF Byte
  <2>3. NextBlock(q, n, <<Garbage, Null>>, q[n]) /\ Starts(<<Garbage, Null>>, <<Garbage, Null>>)
    BY <2>2, StartsFacts DEF NextBlock
  <2>4. Aligned'
    BY <1>1, <1>3, <1>4, <1>5, <2>1, <2>2, <2>3, BlockWritten
  <2>5. QED
    BY <1>2, <2>4
<1>9. CASE WriteFails
  <2>1. outbound # <<>> /\ writer' # "run"
    BY <1>9 DEF WriteFails
  <2> DEFINE b == Packet(Head(outbound))
  <2>2. PICK i \in 0 .. Len(b) - 1 : wire' = wire \o SubSeq(b, 1, i)
    BY <1>9 DEF WriteFails
  <2>3. b \in Seq(Byte) /\ NextBlock(q, n, b, q[n] + 1)
    BY <1>6, <2>1
  <2> HIDE DEF b
  <2>4. i \in 0 .. Len(b)
    BY <2>3, LenProperties
  <2>5. SubSeq(b, 1, i) \in Seq(Byte) /\ Starts(SubSeq(b, 1, i), b)
    BY <2>3, <2>4, StartsFacts
  <2>6. Aligned'
    BY <1>1, <1>3, <1>4, <2>1, <2>2, <2>3, <2>5, BlockWritten
  <2>7. QED
    BY <1>2, <2>6
<1>10. QED
  BY <1>7, <1>8, <1>9

\* Bytes that never arrive are the last ones.
LEMMA EndKeeps ==
    ASSUME TypeOK, ByteTypes, Aligned, ParsedInOrder, WriterEnds
    PROVE  (Aligned /\ ParsedInOrder)'
<1>1. /\ writer' # "run" /\ Parsed' = Parsed
      /\ UNCHANGED <<input, buffer, pendingHeader>>
  BY DEF WriterEnds, parser, receiving, Parsed
<1>2. ParsedInOrder'
  BY <1>1 DEF ParsedInOrder
<1>3. PICK l \in 0 .. Len(wire) : wire' = SubSeq(wire, 1, l)
  BY DEF WriterEnds
<1>4. buffer \in Seq(Byte) /\ wire \in Seq(Byte) /\ Len(wire) \in Nat
  BY LenProperties DEF ByteTypes
<1>5. wire' \in Seq(Byte) /\ Starts(wire', wire)
  BY <1>3, <1>4, StartsFacts
<1>6. /\ Len(wire') \in Nat /\ Len(buffer) \in Nat
      /\ Len(Unread) = Len(buffer) + Len(wire) /\ Len(Unread') = Len(buffer) + Len(wire')
      /\ \A x \in 1 .. Len(buffer) : Unread[x] = buffer[x] /\ Unread'[x] = buffer[x]
      /\ \A y \in 1 .. Len(wire) : Unread[Len(buffer) + y] = wire[y]
      /\ \A y \in 1 .. Len(wire') : Unread'[Len(buffer) + y] = wire'[y]
  BY <1>1, <1>4, <1>5, Concatenated DEF Unread
<1>7. Len(wire') <= Len(wire) /\ \A y \in 1 .. Len(wire') : wire'[y] = wire[y]
  BY <1>5 DEF Starts
<1>8. ASSUME NEW x \in 1 .. Len(Unread')
      PROVE  x \in 1 .. Len(Unread) /\ Unread'[x] = Unread[x]
  <2>1. x \in Nat /\ 1 <= x /\ x <= Len(buffer) + Len(wire')
    BY <1>6
  <2>2. x \in 1 .. Len(Unread)
    BY <1>4, <1>6, <1>7, <2>1
  <2>3. CASE x <= Len(buffer)
    <3>1. x \in 1 .. Len(buffer)
      BY <1>6, <2>1, <2>3
    <3>2. QED
      BY <1>6, <2>2, <3>1
  <2>4. CASE ~(x <= Len(buffer))
    <3> DEFINE y == x - Len(buffer)
    <3>1. y \in 1 .. Len(wire') /\ y \in 1 .. Len(wire) /\ x = Len(buffer) + y
      BY <1>4, <1>6, <1>7, <2>1, <2>4
    <3> HIDE DEF y
    <3>2. QED
      BY <1>6, <1>7, <2>2, <3>1
  <2>5. QED
    BY <2>3, <2>4
<1> PICK p, q \in Numbers, n, pos \in Nat :
       \E k \in 0 .. n : Written(p, q, n) /\ Carried(p, q, n, pos) /\ Standing(p, q, n, k, pos)
  BY DEF Aligned
<1>9. PICK k \in 0 .. n :
         Written(p, q, n) /\ Carried(p, q, n, pos) /\ Standing(p, q, n, k, pos)
  OBVIOUS
<1>10. Written(p, q, n)' /\ Standing(p, q, n, k, pos)'
  BY <1>1, <1>9 DEF Written, Blocks, Standing, IsMessage, IsForeign
<1>11. Carried(p, q, n, pos)'
  <2>1. pos + Len(Unread) <= p[n] /\ p[n] \in Nat
    BY <1>9 DEF Carried, Numbers
  <2>2. pos + Len(Unread') <= p[n]
    BY <1>4, <1>6, <1>7, <2>1
  <2>3. \A i : Block(q, i)' = Block(q, i)
    BY <1>1 DEF Block
  <2>4. Carries(p, q, n, pos, Unread)
    BY <1>9 DEF Carried
  <2> HIDE DEF Unread
  <2>5. Carries(p, q, n, pos, Unread)'
    BY <1>8, <2>3, <2>4 DEF Carries
  <2>6. QED
    BY <1>1, <2>2, <2>5 DEF Carried
<1>12. QED
  BY <1>2, <1>10, <1>11 DEF Aligned

-----------------------------------------------------------------------------
(* The parser takes bytes from the front of the buffer. *)

\* What is left are the bytes further behind.
LEMMA Dropped ==
    ASSUME ByteTypes, NEW p \in Numbers, NEW q \in Numbers,
           NEW n \in Nat, NEW pos \in Nat, Carried(p, q, n, pos),
           NEW d \in 0 .. Len(buffer), buffer' = SubSeq(buffer, d + 1, Len(buffer)),
           UNCHANGED <<wire, writer, input>>
    PROVE  Carried(p, q, n, pos + d)'
<1>1. /\ buffer \in Seq(Byte) /\ wire \in Seq(Byte)
      /\ Len(buffer) \in Nat /\ Len(wire) \in Nat
  BY LenProperties DEF ByteTypes
<1>2. d \in Nat /\ d <= Len(buffer)
  BY <1>1
<1>3. \A i \in d + 1 .. Len(buffer) : buffer[i] \in Byte
  <2>1. \A i \in d + 1 .. Len(buffer) : i \in 1 .. Len(buffer)
    BY <1>1, <1>2
  <2>2. QED
    BY <1>1, <2>1, ElementOfSeq
<1>4. /\ buffer' \in Seq(Byte)
      /\ Len(buffer') = Len(buffer) - d
      /\ \A y \in 1 .. Len(buffer) - d : buffer'[y] = buffer[d + y]
  <2>1. d + 1 \in 1 .. Len(buffer) + 1
    BY <1>1, <1>2
  <2>2. /\ SubSeq(buffer, d + 1, Len(buffer)) \in Seq(Byte)
        /\ Len(SubSeq(buffer, d + 1, Len(buffer))) =
              IF d + 1 <= Len(buffer) THEN Len(buffer) - (d + 1) + 1 ELSE 0
        /\ \A i \in 1 .. Len(buffer) - (d + 1) + 1 :
              SubSeq(buffer, d + 1, Len(buffer))[i] = buffer[(d + 1) + i - 1]
    BY <1>1, <2>1, SubSeqProperties, SMTT(30)
  <2>3. Len(buffer) - (d + 1) + 1 = Len(buffer) - d
    BY <1>1, <1>2
  <2>4. \A y \in 1 .. Len(buffer) - d : (d + 1) + y - 1 = d + y
    BY <1>1, <1>2
  <2>5. (IF d + 1 <= Len(buffer) THEN Len(buffer) - (d + 1) + 1 ELSE 0) = Len(buffer) - d
    BY <1>1, <1>2
  <2>6. QED
    BY <2>2, <2>3, <2>4, <2>5
<1>5. /\ Len(buffer') \in Nat
      /\ Len(Unread) = Len(buffer) + Len(wire) /\ Len(Unread') = Len(buffer') + Len(wire)
      /\ \A x \in 1 .. Len(buffer) : Unread[x] = buffer[x]
      /\ \A x \in 1 .. Len(buffer') : Unread'[x] = buffer'[x]
      /\ \A y \in 1 .. Len(wire) : /\ Unread[Len(buffer) + y] = wire[y]
                                   /\ Unread'[Len(buffer') + y] = wire[y]
  <2> DEFINE B == Byte
  <2>1. /\ buffer \in Seq(B) /\ wire \in Seq(B) /\ buffer' \in Seq(B)
        /\ Unread = buffer \o wire /\ Unread' = buffer' \o wire
    BY <1>1, <1>4 DEF Unread
  <2> HIDE DEF B, Unread
  <2>2. /\ Len(Unread) = Len(buffer) + Len(wire)
        /\ \A x \in 1 .. Len(buffer) : Unread[x] = buffer[x]
        /\ \A y \in 1 .. Len(wire) : Unread[Len(buffer) + y] = wire[y]
    BY ONLY <2>1, Concatenated
  <2>3. /\ Len(buffer') \in Nat
        /\ Len(Unread') = Len(buffer') + Len(wire)
        /\ \A x \in 1 .. Len(buffer') : Unread'[x] = buffer'[x]
        /\ \A y \in 1 .. Len(wire) : Unread'[Len(buffer') + y] = wire[y]
    BY ONLY <2>1, Concatenated
  <2>4. QED
    BY <2>2, <2>3
<1>6. ASSUME NEW x \in 1 .. Len(Unread')
      PROVE  d + x \in 1 .. Len(Unread) /\ Unread'[x] = Unread[d + x]
  <2>1. x \in Nat /\ 1 <= x /\ x <= Len(buffer') + Len(wire)
    BY <1>1, <1>5
  <2>2. d + x \in 1 .. Len(Unread)
    BY <1>1, <1>2, <1>4, <1>5, <2>1
  <2>3. CASE x <= Len(buffer')
    <3>1. x \in 1 .. Len(buffer') /\ x \in 1 .. Len(buffer) - d /\ d + x \in 1 .. Len(buffer)
      BY <1>1, <1>2, <1>4, <1>5, <2>1, <2>3
    <3>2. QED
      BY <1>4, <1>5, <2>2, <3>1
  <2>4. CASE ~(x <= Len(buffer'))
    <3>0. Len(buffer') = Len(buffer) - d /\ Len(buffer') \in Nat
      BY <1>4, <1>5
    <3> DEFINE y == x - Len(buffer')
    <3>1. y \in 1 .. Len(wire) /\ x = Len(buffer') + y /\ d + x = Len(buffer) + y
      BY ONLY <1>1, <1>2, <2>1, <2>4, <3>0
    <3> HIDE DEF y
    <3>2. QED
      BY <1>5, <2>2, <3>1
  <2>5. QED
    BY <2>3, <2>4
<1>7. Len(Unread') = Len(Unread) - d /\ Len(Unread) \in Nat
  BY <1>1, <1>2, <1>4, <1>5
<1>8. \A i : Block(q, i)' = Block(q, i)
  BY DEF Block
<1>9. Carries(p, q, n, pos, Unread)
  BY DEF Carried
<1>10. ASSUME NEW i \in 1 .. n, NEW y \in 1 .. Len(Block(q, i)), NEW x,
              x = p[i - 1] + y - (pos + d), x \in 1 .. Len(Unread')
       PROVE  Unread'[x] = Block(q, i)[y]
  <2>1. d + x \in 1 .. Len(Unread) /\ Unread'[x] = Unread[d + x]
    BY <1>6, <1>10
  <2>2. d + x = p[i - 1] + y - pos
    <3>1. x \in Int /\ p[i - 1] \in Nat
      <4>1. i - 1 \in Nat
        OBVIOUS
      <4>2. QED
        BY <1>10, <4>1 DEF Numbers
    <3>2. y \in Int
      OBVIOUS
    <3>3. QED
      BY <1>2, <1>10, <3>1, <3>2, SMTT(30)
  <2>3. QED
    BY <1>9, <2>1, <2>2 DEF Carries
<1>11. Carries(p, q, n, pos + d, Unread)'
  BY <1>8, <1>10 DEF Carries
<1>12. p[n] \in Nat
  BY DEF Numbers
<1>13. pos + Len(Unread) <= p[n] /\ (writer = "run" => pos + Len(Unread) = p[n])
  BY DEF Carried
<1>14. /\ (pos + d) + Len(Unread') <= p[n]
       /\ writer = "run" => (pos + d) + Len(Unread') = p[n]
  BY <1>2, <1>7, <1>12, <1>13
<1>15. QED
  BY <1>11, <1>14 DEF Carried

\* A header that parses is that of the next message.
LEMMA TakeHeaderKeeps ==
    ASSUME TypeOK, ByteTypes, Aligned, ParsedInOrder, TakeHeader
    PROVE  (Aligned /\ ParsedInOrder)'
<1>1. /\ AtHeader /\ Parses(HeaderBytes) /\ pendingHeader = None
      /\ pendingHeader' = HeaderBytes[1][2] /\ buffer' = SubSeq(buffer, NullPos + 1, Len(buffer))
      /\ Parsed' = Parsed /\ UNCHANGED <<input, outbound, writer, wire>>
  BY DEF TakeHeader, AtHeader, DropHeader, sending, receiving, Parsed
<1>2. ParsedInOrder'
  BY <1>1 DEF ParsedInOrder
<1>3. NullPos \in 0 .. Len(buffer) /\ NullPos > 0 /\ Len(buffer) \in Nat
  BY <1>1, NullPosType, LenProperties DEF ByteTypes, AtHeader
<1>4. buffer # <<>>
  BY <1>3
<1> PICK p, q \in Numbers, n, pos \in Nat :
       \E k \in 0 .. n : Written(p, q, n) /\ Carried(p, q, n, pos) /\ Standing(p, q, n, k, pos)
  BY DEF Aligned
<1>5. PICK k \in 0 .. n :
         Written(p, q, n) /\ Carried(p, q, n, pos) /\ Standing(p, q, n, k, pos)
  OBVIOUS
<1>6. /\ k < n /\ pos = p[k]
      /\ IsMessage(p, q, k + 1) \/ IsForeign(p, q, k + 1)
      /\ \A x \in 1 .. Len(buffer) :
            x \in 1 .. Len(Block(q, k + 1)) => buffer[x] = Block(q, k + 1)[x]
  BY <1>1, <1>4, <1>5, BlockAhead
<1>7. k + 1 \in Nat \ {0}
  OBVIOUS
<1> DEFINE m == input[q[k + 1]]
<1>8. ~IsForeign(p, q, k + 1)
  BY <1>1, <1>6, <1>7, BlockBytes, ForeignAhead
<1>9. IsMessage(p, q, k + 1) /\ Block(q, k + 1) = Packet(m) /\ m \in Message
  BY <1>6, <1>7, <1>8, BlockBytes
<1> HIDE DEF m
<1>10. NullPos = 3 /\ HeaderBytes[1][2] = Len(Payload[m]) /\ 3 <= Len(buffer)
  BY <1>1, <1>6, <1>9, MessageAhead
<1>11. 3 \in 0 .. Len(buffer)
  BY <1>3, <1>10
<1>12. Carried(p, q, n, pos + 3)'
  BY <1>1, <1>5, <1>10, <1>11, Dropped
<1>13. Written(p, q, n)'
  BY <1>1, <1>5 DEF Written, Blocks, IsMessage, IsForeign
<1>14. Standing(p, q, n, k, pos + 3)'
  <2>1. Len(Payload[m]) \in Nat /\ Len(Payload[m]) # None
    BY <1>9, PacketBytes, LenProperties DEF None
  <2>2. IsMessage(p, q, k + 1)'
    BY <1>1, <1>9 DEF IsMessage
  <2>3. q[k] = Len(Parsed)
    BY <1>5 DEF Standing
  <2>4. QED
    BY <1>1, <1>6, <1>10, <2>1, <2>2, <2>3 DEF Standing, m
<1>15. QED
  <2>1. pos + 3 \in Nat
    OBVIOUS
  <2>2. QED
    BY <1>2, <1>12, <1>13, <1>14, <2>1 DEF Aligned

\* A header that does not parse is foreign.
LEMMA BadHeaderKeeps ==
    ASSUME TypeOK, ByteTypes, Aligned, ParsedInOrder, BadHeader
    PROVE  cleared' \/ (Aligned /\ ParsedInOrder)'
<1>1. /\ AtHeader /\ ~Parses(HeaderBytes) /\ pendingHeader = None /\ pendingHeader' = None
      /\ Parsed' = Parsed /\ UNCHANGED <<input, outbound, writer, wire>>
  BY DEF BadHeader, AtHeader, sending, Parsed
<1>2. ParsedInOrder'
  BY <1>1 DEF ParsedInOrder
<1> SUFFICES ASSUME ~cleared'
             PROVE  Aligned'
  BY <1>2
<1>3. buffer' = SubSeq(buffer, NullPos + 1, Len(buffer))
  BY DEF BadHeader, DropHeader
<1>4. NullPos \in 0 .. Len(buffer) /\ NullPos > 0 /\ Len(buffer) \in Nat
  BY <1>1, NullPosType, LenProperties DEF ByteTypes, AtHeader
<1>5. buffer # <<>>
  BY <1>4
<1> PICK p, q \in Numbers, n, pos \in Nat :
       \E k \in 0 .. n : Written(p, q, n) /\ Carried(p, q, n, pos) /\ Standing(p, q, n, k, pos)
  BY DEF Aligned
<1>6. PICK k \in 0 .. n :
         Written(p, q, n) /\ Carried(p, q, n, pos) /\ Standing(p, q, n, k, pos)
  OBVIOUS
<1>7. /\ k < n /\ pos = p[k]
      /\ IsMessage(p, q, k + 1) \/ IsForeign(p, q, k + 1)
      /\ \A x \in 1 .. Len(buffer) :
            x \in 1 .. Len(Block(q, k + 1)) => buffer[x] = Block(q, k + 1)[x]
  BY <1>1, <1>5, <1>6, BlockAhead
<1>8. k + 1 \in Nat \ {0} /\ k + 1 \in 0 .. n /\ (k + 1) - 1 = k
  BY <1>7
<1>9. ~IsMessage(p, q, k + 1)
  BY <1>1, <1>7, <1>8, BlockBytes, MessageAhead
<1>10. IsForeign(p, q, k + 1) /\ Block(q, k + 1) = <<Garbage, Null>>
  BY <1>7, <1>8, <1>9, BlockBytes
<1>11. NullPos = 2 /\ 2 <= Len(buffer)
  BY <1>1, <1>7, <1>10, ForeignAhead
<1>12. 2 \in 0 .. Len(buffer)
  BY <1>4, <1>11
<1>13. Carried(p, q, n, pos + 2)'
  BY <1>1, <1>3, <1>6, <1>11, <1>12, Dropped
<1>14. Written(p, q, n)'
  BY <1>1, <1>6 DEF Written, Blocks, IsMessage, IsForeign
<1>15. Standing(p, q, n, k + 1, pos + 2)'
  <2>1. q[k + 1] = q[k] /\ p[k + 1] = p[k] + 2
    BY <1>8, <1>10 DEF IsForeign
  <2>2. q[k] = Len(Parsed)
    BY <1>6 DEF Standing
  <2>3. QED
    BY <1>1, <1>7, <2>1, <2>2 DEF Standing
<1>16. QED
  <2>1. pos + 2 \in Nat
    OBVIOUS
  <2>2. QED
    BY <1>8, <1>13, <1>14, <1>15, <2>1 DEF Aligned

\* A packet that is complete is the next message.
LEMMA TakePayloadKeeps ==
    ASSUME TypeOK, ByteTypes, Aligned, ParsedInOrder, TakePayload
    PROVE  (Aligned /\ ParsedInOrder)'
<1>0. pendingHeader \in Nat
  BY DEF TypeOK, TakePayload
<1> PICK l \in Nat : l = pendingHeader
  BY <1>0
<1> DEFINE b == SubSeq(buffer, 1, l)
<1>1. /\ l # None /\ pendingHeader' = None /\ Len(buffer) >= l
      /\ buffer' = SubSeq(buffer, l + 1, Len(buffer))
      /\ complete' = Append(complete, b)
      /\ UNCHANGED <<input, outbound, writer, wire, output, inbound>>
  BY DEF TakePayload, sending, receiving
<1>2. l \in Nat /\ Len(buffer) \in Nat /\ l \in 0 .. Len(buffer) /\ buffer \in Seq(Byte)
  BY <1>1, LenProperties DEF TypeOK, ByteTypes
<1> PICK p, q \in Numbers, n, pos \in Nat :
       \E k \in 0 .. n : Written(p, q, n) /\ Carried(p, q, n, pos) /\ Standing(p, q, n, k, pos)
  BY DEF Aligned
<1>3. PICK k \in 0 .. n :
         Written(p, q, n) /\ Carried(p, q, n, pos) /\ Standing(p, q, n, k, pos)
  OBVIOUS
<1> DEFINE m == input[q[k + 1]]
<1>4. /\ k < n /\ IsMessage(p, q, k + 1) /\ pos = p[k] + 3
      /\ l = Len(Payload[m]) /\ q[k] = Len(Parsed)
  BY <1>1, <1>3 DEF Standing
<1>5. k + 1 \in Nat \ {0} /\ k + 1 \in 1 .. n /\ k + 1 \in 0 .. n /\ (k + 1) - 1 = k
  BY <1>4
<1>6. Block(q, k + 1) = Packet(m) /\ m \in Message
  BY <1>4, <1>5, BlockBytes
<1>7. q[k + 1] = q[k] + 1 /\ q[k + 1] \in 1 .. Len(input) /\ p[k + 1] = p[k] + Len(Packet(m))
  BY <1>4, <1>5 DEF IsMessage
<1> HIDE DEF m
<1>8. /\ Payload[m] \in Seq(Byte) /\ Len(Packet(m)) = 3 + l
      /\ \A y \in 1 .. l : Packet(m)[3 + y] = Payload[m][y]
  <2>1. DOMAIN Payload[m] = 1 .. Len(Payload[m])
    BY <1>6, PacketBytes, LenProperties
  <2>2. QED
    BY <1>4, <1>6, <2>1, PacketBytes
<1>9. p[k] \in Nat /\ q[k] \in Nat
  BY DEF Numbers
<1>10. b \in Seq(Byte) /\ Len(b) = l /\ \A y \in 1 .. l : b[y] = buffer[y]
  <2>1. l \in Int /\ \A y \in 1 .. l : y \in 1 .. Len(buffer) /\ buffer[y] \in Byte
    BY <1>2, ElementOfSeq
  <2>2. /\ SubSeq(buffer, 1, l) \in Seq(Byte)
        /\ Len(SubSeq(buffer, 1, l)) = IF 1 <= l THEN l - 1 + 1 ELSE 0
        /\ \A y \in 1 .. l - 1 + 1 : SubSeq(buffer, 1, l)[y] = buffer[1 + y - 1]
    BY <2>1, SubSeqProperties
  <2>3. l - 1 + 1 = l /\ (IF 1 <= l THEN l - 1 + 1 ELSE 0) = l /\ \A y \in 1 .. l : 1 + y - 1 = y
    BY <1>2
  <2>4. QED
    BY <2>2, <2>3
<1> HIDE DEF b
<1>11. ASSUME NEW y \in 1 .. l
       PROVE  b[y] = Payload[m][y]
  <2>1. y \in Nat /\ 1 <= y /\ y <= l
    BY <1>2
  <2>2. y \in 1 .. Len(buffer) /\ 3 + y \in 1 .. Len(Packet(m))
    BY <1>2, <1>8, <2>1
  <2>3. buffer[y] = Unread[y] /\ y \in 1 .. Len(Unread)
    BY <1>2, <2>1, <2>2, UnreadBytes
  <2>4. p[(k + 1) - 1] + (3 + y) - pos = y
    <3>1. p[k] + (3 + y) - (p[k] + 3) = y
      BY ONLY <1>9, <2>1
    <3>2. QED
      BY <1>4, <1>5, <3>1
  <2>5. Carries(p, q, n, pos, Unread)
    BY <1>3 DEF Carried
  <2>6. Unread[y] = Block(q, k + 1)[3 + y]
    BY <1>5, <1>6, <2>2, <2>3, <2>4, <2>5 DEF Carries
  <2>7. QED
    BY <1>6, <1>8, <1>10, <2>3, <2>6
<1>12. b = Payload[m]
  BY <1>4, <1>8, <1>10, <1>11, SeqEqual
<1>13. /\ Parsed \in Seq(Seq(Byte))
       /\ Parsed' = Append(Parsed, b)
       /\ Len(Parsed') = Len(Parsed) + 1
       /\ \A i \in 1 .. Len(Parsed) : Parsed'[i] = Parsed[i]
       /\ Parsed'[Len(Parsed) + 1] = b
       /\ Len(Parsed) \in Nat
  <2> DEFINE S == Seq(Byte)
  <2>1. output \in Seq(S) /\ inbound \in Seq(S) /\ complete \in Seq(S) /\ b \in S
    BY <1>10 DEF ByteTypes
  <2> HIDE DEF S
  <2>2. output \o inbound \in Seq(S) /\ Parsed \in Seq(S)
    BY <2>1, ConcatProperties DEF Parsed
  <2>3. (output \o inbound) \o Append(complete, b) = Append((output \o inbound) \o complete, b)
    <3>1. Append(complete, b) = complete \o <<b>>
      BY <2>1, AppendIsConcat
    <3>2. Append(Parsed, b) = Parsed \o <<b>>
      BY <2>1, <2>2, AppendIsConcat
    <3>3. <<b>> \in Seq(S)
      BY <2>1
    <3>4. (output \o inbound) \o (complete \o <<b>>) = ((output \o inbound) \o complete) \o <<b>>
      BY <2>1, <2>2, <3>3, Regrouped, SMTT(30)
    <3>5. QED
      BY <3>1, <3>2, <3>4 DEF Parsed
  <2>4. Parsed' = Append(Parsed, b)
    BY <1>1, <2>3 DEF Parsed
  <2>5. QED
    BY <2>1, <2>2, <2>4, Grown DEF S
<1>14. ParsedInOrder'
  <2>1. Len(Parsed') <= Len(input)
    BY <1>4, <1>7, <1>13
  <2>2. ASSUME NEW i \in 1 .. Len(Parsed')
        PROVE  Parsed'[i] = Payload[input[i]]
    <3>1. CASE i \in 1 .. Len(Parsed)
      BY <1>13, <3>1 DEF ParsedInOrder
    <3>2. CASE i = Len(Parsed) + 1
      BY <1>4, <1>7, <1>12, <1>13, <3>2 DEF m
    <3>3. QED
      BY <1>13, <3>1, <3>2
  <2>3. QED
    BY <1>1, <2>1, <2>2 DEF ParsedInOrder
<1>15. Carried(p, q, n, pos + l)'
  BY <1>1, <1>2, <1>3, Dropped
<1>16. Written(p, q, n)'
  BY <1>1, <1>3 DEF Written, Blocks, IsMessage, IsForeign
<1>17. Standing(p, q, n, k + 1, pos + l)'
  <2>1. q[k + 1] = Len(Parsed')
    BY <1>4, <1>7, <1>13
  <2>2. pos + l = p[k + 1]
    <3>1. (p[k] + 3) + l = p[k] + (3 + l)
      BY ONLY <1>2, <1>9
    <3>2. QED
      BY <1>4, <1>7, <1>8, <3>1
  <2>3. QED
    BY <1>1, <2>1, <2>2 DEF Standing
<1>18. QED
  <2>1. pos + l \in Nat
    BY <1>2
  <2>2. QED
    BY <1>5, <1>14, <1>15, <1>16, <1>17, <2>1 DEF Aligned

-----------------------------------------------------------------------------
(* The theorems. *)

LEMMA InitAligned == Init => Aligned /\ ParsedInOrder
<1> SUFFICES ASSUME Init
             PROVE  Aligned /\ ParsedInOrder
  OBVIOUS
<1> DEFINE z == [i \in Nat |-> 0]
<1>1. z \in Numbers /\ z[0] = 0
  BY DEF Numbers
<1>2. /\ input = <<>> /\ outbound = <<>> /\ pendingHeader = None
      /\ buffer = <<>> /\ wire = <<>> /\ output = <<>> /\ inbound = <<>> /\ complete = <<>>
  BY DEF Init
<1>3. Unread = <<>> /\ Parsed = <<>>
  BY <1>2 DEF Unread, Parsed
<1> HIDE DEF z
<1>4. \A i : ~(i \in 1 .. 0)
  OBVIOUS
<1>5. \A i \in 0 .. 0 : i = 0
  OBVIOUS
<1>6. Blocks(z, z, 0)
  BY <1>1, <1>4, <1>5 DEF Blocks
<1>7. Written(z, z, 0)
  BY <1>1, <1>2, <1>6 DEF Written, Waits
<1>8. Carried(z, z, 0, 0)
  BY <1>1, <1>3, <1>4 DEF Carried, Carries
<1>9. Standing(z, z, 0, 0, 0)
  BY <1>1, <1>2, <1>3 DEF Standing
<1>10. Aligned
  <2>1. 0 \in Nat /\ 0 \in 0 .. 0
    OBVIOUS
  <2>2. QED
    BY <1>1, <1>7, <1>8, <1>9, <2>1 DEF Aligned
<1>11. ParsedInOrder
  BY <1>2, <1>3 DEF ParsedInOrder
<1>12. QED
  BY <1>10, <1>11

\* Every step keeps the invariant.
LEMMA InvKept == Inv /\ [Next]_vars => Inv'
<1> SUFFICES ASSUME Inv, [Next]_vars
             PROVE  Inv'
  OBVIOUS
<1>1. TypeOK /\ ByteTypes /\ (cleared \/ (Aligned /\ ParsedInOrder))
  BY DEF Inv
<1>2. CASE UNCHANGED vars
  <2>1. UNCHANGED <<input, source, outbound, writer, wire, reader, buffer, pendingHeader>>
    BY <1>2 DEF vars, sending, parser, receiving
  <2>2. UNCHANGED <<retries, complete, inbound, sink, output, foreign, cleared>>
    BY <1>2 DEF vars, sending, parser, receiving
  <2>3. (TypeOK /\ ByteTypes)'
    BY <1>1, <2>1, <2>2 DEF TypeOK, ByteTypes
  <2>4. Unread' = Unread /\ Parsed' = Parsed
    BY <2>1, <2>2 DEF Unread, Parsed
  <2>5. cleared' \/ (Aligned /\ ParsedInOrder)'
    BY <1>1, <2>1, <2>2, <2>4, MovedAlong
  <2>6. QED
    BY <2>3, <2>5 DEF Inv
<1>3. CASE (\E m \in Message : RosMessage(m)) \/ Write \/ WriteForeign \/ WriterEnds \/ WriteFails
  <2>1. (TypeOK /\ ByteTypes)'
    BY <1>1, <1>3, SenderTyped
  <2>2. cleared' = cleared
    BY <1>3 DEF RosMessage, Write, WriteForeign, WriterEnds, WriteFails, parser
  <2>3. ASSUME Aligned, ParsedInOrder
        PROVE  (Aligned /\ ParsedInOrder)'
    BY <1>1, <1>3, <2>3, MessageComes, WritingKeeps, EndKeeps
  <2>4. QED
    BY <1>1, <2>1, <2>2, <2>3 DEF Inv
<1>4. CASE Feed
  <2>1. (TypeOK /\ ByteTypes)'
    BY <1>1, <1>4, FeedTyped
  <2>2. cleared => cleared'
    BY <1>4 DEF Feed, TakeHeader, BadHeader, TakePayload, Incomplete, parser
  <2>3. ASSUME Aligned, ParsedInOrder
        PROVE  cleared' \/ (Aligned /\ ParsedInOrder)'
    <3>1. CASE Incomplete
      <4>1. /\ Unread' = Unread /\ Parsed' = Parsed
            /\ UNCHANGED <<input, outbound, writer, pendingHeader>>
        BY <3>1 DEF Incomplete, sending, parser, Unread, Parsed
      <4>2. QED
        BY <2>3, <4>1, MovedAlong
    <3>2. QED
      BY <1>1, <1>4, <2>3, <3>1, TakeHeaderKeeps, BadHeaderKeeps, TakePayloadKeeps DEF Feed
  <2>4. QED
    BY <1>1, <2>1, <2>2, <2>3 DEF Inv
<1>5. CASE Read \/ ForwardPackets \/ ReaderEnds \/ Sink
  <2>1. (TypeOK /\ ByteTypes)'
    BY <1>1, <1>5, ReceiverTyped
  <2>2. UNCHANGED <<cleared, input, outbound, writer, pendingHeader>>
    BY <1>5 DEF Read, ForwardPackets, ReaderEnds, Sink, Publish, SinkEnds, sending, parser
  <2>3. Unread' = Unread
    BY <1>1, <1>5, ReadMoves
       DEF ForwardPackets, ReaderEnds, Sink, Publish, SinkEnds, parser, Unread
  <2>4. Parsed' = Parsed
    <3>1. CASE ForwardPackets \/ Publish
      BY <1>1, <3>1, PacketsMove
    <3>2. CASE Read \/ ReaderEnds \/ SinkEnds
      BY <3>2 DEF Read, ReaderEnds, SinkEnds, parser, Parsed
    <3>3. QED
      BY <1>5, <3>1, <3>2 DEF Sink
  <2>5. ASSUME Aligned, ParsedInOrder
        PROVE  (Aligned /\ ParsedInOrder)'
    BY <2>2, <2>3, <2>4, <2>5, MovedAlong
  <2>6. QED
    BY <1>1, <2>1, <2>2, <2>5 DEF Inv
<1>6. QED
  BY <1>2, <1>3, <1>4, <1>5 DEF Next, Receive

LEMMA InvHolds == Spec => []Inv
<1>1. Init => Inv
  BY InitTyped, InitAligned DEF Inv
<1>2. QED
  BY <1>1, InvKept, PTL DEF Spec

\* The invariant is that the parser has put together the first messages.
LEMMA PrefixParsed == Inv => InOrder
<1> SUFFICES ASSUME Inv, ~cleared
             PROVE  IsPrefix(Parsed, [i \in DOMAIN input |-> Payload[input[i]]])
  BY DEF InOrder
<1>1. TypeOK /\ ByteTypes /\ ParsedInOrder
  BY DEF Inv
<1> DEFINE S == Seq(Byte)
           l == Len(Parsed)
           t == [i \in DOMAIN input |-> Payload[input[i]]]
<1>2. Parsed \in Seq(S)
  BY <1>1, ConcatProperties DEF Parsed, ByteTypes
<1>3. input \in Seq(Message) /\ DOMAIN input = 1 .. Len(input) /\ Len(input) \in Nat
  BY <1>1, LenProperties DEF TypeOK
<1>4. \A i \in 1 .. Len(input) : Payload[input[i]] \in S
  <2>1. \A i \in 1 .. Len(input) : input[i] \in Message
    BY <1>3, ElementOfSeq
  <2>2. QED
    BY <2>1, PacketAssumption
<1> HIDE DEF S
<1>5. t \in Seq(S) /\ Len(t) = Len(input)
  <2>1. t = [i \in 1 .. Len(input) |-> Payload[input[i]]]
    BY <1>3
  <2>2. QED
    BY <1>3, <1>4, <2>1
<1>6. \A i \in 1 .. Len(input) : t[i] = Payload[input[i]]
  BY <1>3
<1> HIDE DEF t
<1>7. l \in Nat /\ l <= Len(t)
  BY <1>1, <1>2, <1>5, LenProperties DEF ParsedInOrder
<1>8. \A i \in 1 .. l : i \in 1 .. Len(input) /\ Parsed[i] = t[i] /\ Parsed[i] \in S /\ t[i] \in S
  <2>1. \A i \in 1 .. l : i \in 1 .. Len(input)
    BY <1>3, <1>5, <1>7
  <2>2. \A i \in 1 .. l : Parsed[i] = t[i] /\ Parsed[i] \in S
    BY <1>1, <1>2, <1>6, <2>1, ElementOfSeq DEF ParsedInOrder
  <2>3. QED
    BY <2>1, <2>2
<1> HIDE DEF l
<1>9. /\ SubSeq(Parsed, 1, l) \in Seq(S) /\ SubSeq(t, 1, l) \in Seq(S)
      /\ Len(SubSeq(Parsed, 1, l)) = l /\ Len(SubSeq(t, 1, l)) = l
      /\ \A i \in 1 .. l : SubSeq(Parsed, 1, l)[i] = Parsed[i] /\ SubSeq(t, 1, l)[i] = t[i]
  <2>1. /\ l - 1 + 1 = l /\ (IF 1 <= l THEN l - 1 + 1 ELSE 0) = l
        /\ \A i \in 1 .. l : 1 + i - 1 = i
    BY <1>7
  <2>2. /\ SubSeq(Parsed, 1, l) \in Seq(S)
        /\ Len(SubSeq(Parsed, 1, l)) = IF 1 <= l THEN l - 1 + 1 ELSE 0
        /\ \A i \in 1 .. l - 1 + 1 : SubSeq(Parsed, 1, l)[i] = Parsed[1 + i - 1]
    BY <1>7, <1>8, SubSeqProperties
  <2>3. /\ SubSeq(t, 1, l) \in Seq(S)
        /\ Len(SubSeq(t, 1, l)) = IF 1 <= l THEN l - 1 + 1 ELSE 0
        /\ \A i \in 1 .. l - 1 + 1 : SubSeq(t, 1, l)[i] = t[1 + i - 1]
    BY <1>7, <1>8, SubSeqProperties
  <2>4. QED
    BY <2>1, <2>2, <2>3
<1>10. SubSeq(Parsed, 1, l) = SubSeq(t, 1, l)
  BY <1>8, <1>9, SeqEqual
<1>11. QED
  BY <1>7, <1>10 DEF IsPrefix, l, t

\* The queues hold messages, the tasks are in their states, the retries within
\* their limit.
THEOREM ChannelTypeCorrect == Spec => []TypeOK
<1>1. Inv => TypeOK
  BY DEF Inv
<1>2. QED
  BY <1>1, InvHolds, PTL

\* PacketParser.feed puts the packets together: however the stream is cut, until
\* the buffer is cleared what came out is the payloads of the first messages.
THEOREM ParsesInOrder == Spec => []InOrder
  BY InvHolds, PrefixParsed, PTL
=============================================================================
