---------------------------- MODULE DataChannel -----------------------------
(***************************************************************************)
(* One open data channel: the messages of a ROS topic go from the parent   *)
(* of an edge to its child.                                                *)
(*                                                                         *)
(*   ros_to_network_forwarder --outbound--> webrtc_reader_and_writer       *)
(*     --wire--> webrtc_reader_and_writer, PacketParser                    *)
(*     --inbound--> network_to_ros_forwarder                               *)
(*                                                                         *)
(* Each of the four is a task; outbound and inbound are unbounded channels *)
(* (rtc_tx, ros_tx), the wire is the stream of bytes that the WebRTC       *)
(* library carries in order but hands out in pieces of its choosing.  The  *)
(* child writes nothing: its rtc_tx is dropped.                            *)
(***************************************************************************)
EXTENDS Packets

VARIABLES
    input,      \* history: the messages that went into outbound
    source,     \* ros_to_network_forwarder: "run" or "ended"
    outbound,   \* from rtc_tx to rtc_rx
    writer,     \* the parent's webrtc_reader_and_writer: "run" or "ended"
    wire,       \* bytes written and not yet read
    reader,     \* the child's one: "select", "feed", "forward" or "ended"
    buffer,     \* PacketParser.buffer
    pendingHeader, \* pending_header: its length, or None
    retries,    \* parse_retries
    complete,   \* complete_packets
    inbound,    \* from ros_tx to ros_rx
    sink,       \* network_to_ros_forwarder: "run" or "ended"
    output,     \* the payloads published
    foreign,    \* history: headers written that do not parse
    cleared     \* history: the buffer was cleared

sending == <<input, source, outbound, writer, foreign>>
parser == <<buffer, pendingHeader, retries, complete, cleared>>
receiving == <<reader, inbound, sink, output>>
vars == <<sending, wire, parser, receiving>>

None == -1

TypeOK ==
    /\ input \in Seq(Message) /\ outbound \in Seq(Message)
    /\ source \in {"run", "ended"} /\ writer \in {"run", "ended"}
    /\ sink \in {"run", "ended"}
    /\ reader \in {"select", "feed", "forward", "ended"}
    /\ pendingHeader \in Nat \cup {None}
    /\ retries \in 0 .. MaxParseRetries
    /\ foreign \in 0 .. MaxForeign
    /\ cleared \in BOOLEAN

Init ==
    /\ input = <<>> /\ outbound = <<>> /\ wire = <<>> /\ inbound = <<>>
    /\ source = "run" /\ writer = "run" /\ reader = "select" /\ sink = "run"
    /\ buffer = <<>> /\ pendingHeader = None /\ retries = 0 /\ complete = <<>>
    /\ output = <<>>
    /\ foreign = 0 /\ cleared = FALSE

-----------------------------------------------------------------------------
(* The parent. *)

\* A message of the topic becomes a Forward packet, if the writer still runs;
\* otherwise the forwarder ends.
RosMessage(m) ==
    /\ source = "run"
    /\ m \notin Range(input)
    /\ IF writer = "run"
       THEN /\ input' = Append(input, m)
            /\ outbound' = Append(outbound, m)
            /\ UNCHANGED source
       ELSE /\ source' = "ended"
            /\ UNCHANGED <<input, outbound>>
    /\ UNCHANGED <<writer, foreign, wire, parser, receiving>>

\* write_all; it returns when all bytes are on the wire, of which the peer may
\* have read some by then.
Write ==
    /\ writer = "run"
    /\ outbound # <<>>
    /\ outbound' = Tail(outbound)
    /\ wire' = wire \o Packet(Head(outbound))
    /\ UNCHANGED <<input, source, writer, foreign, parser, receiving>>

\* A header that serde_json does not accept, of a peer of another version.
WriteForeign ==
    /\ writer = "run"
    /\ foreign < MaxForeign
    /\ foreign' = foreign + 1
    /\ wire' = wire \o <<Garbage, Null>>
    /\ UNCHANGED <<input, source, outbound, writer, parser, receiving>>

\* The writer ends, by a shutdown, as the peer is gone or as write_all fails
\* part way.  Of the bytes under way the peer reads as many as the closing
\* channel still carries.
WriterEnds ==
    /\ writer = "run"
    /\ writer' = "ended"
    /\ outbound' = <<>>
    /\ \E n \in 0 .. Len(wire) : wire' = SubSeq(wire, 1, n)
    /\ UNCHANGED <<input, source, foreign, parser, receiving>>

WriteFails ==
    /\ writer = "run"
    /\ outbound # <<>>
    /\ writer' = "ended"
    /\ outbound' = <<>>
    /\ \E n \in 0 .. Len(Packet(Head(outbound))) - 1 :
          wire' = wire \o SubSeq(Packet(Head(outbound)), 1, n)
    /\ UNCHANGED <<input, source, foreign, parser, receiving>>

-----------------------------------------------------------------------------
(* The child reads, and PacketParser.feed goes through what it read. *)

Read ==
    /\ reader = "select"
    /\ \E n \in 1 .. ReceiveBuffer :
          /\ n <= Len(wire)
          /\ buffer' = buffer \o SubSeq(wire, 1, n)
          /\ wire' = SubSeq(wire, n + 1, Len(wire))
    /\ reader' = "feed"
    /\ UNCHANGED <<sending, pendingHeader, retries, complete, cleared, inbound, sink, output>>

\* The position of the first null byte, or None.
NullPos == SelectInSeq(buffer, LAMBDA b : b = Null)

HeaderBytes == SubSeq(buffer, 1, NullPos - 1)

AtHeader == reader = "feed" /\ pendingHeader = None /\ NullPos > 0
DropHeader == SubSeq(buffer, NullPos + 1, Len(buffer))

TakeHeader ==
    /\ AtHeader
    /\ Parses(HeaderBytes)
    /\ pendingHeader' = HeaderBytes[1][2]
    /\ buffer' = DropHeader
    /\ retries' = 0
    /\ UNCHANGED <<sending, wire, complete, cleared, receiving>>

\* Mutant of BadHeader: parse_retries is not reset when the buffer is cleared.
BadHeaderNoReset ==
    /\ AtHeader
    /\ ~Parses(HeaderBytes)
    /\ retries' = retries + 1
    /\ IF retries + 1 > MaxParseRetries
       THEN buffer' = <<>> /\ cleared' = TRUE
       ELSE buffer' = DropHeader /\ UNCHANGED cleared
    /\ reader' = "forward"
    /\ UNCHANGED <<sending, wire, pendingHeader, complete, inbound, sink, output>>

\* The loop is left, whatever follows in the buffer.
BadHeader ==
    /\ AtHeader
    /\ ~Parses(HeaderBytes)
    /\ IF retries + 1 > MaxParseRetries
       THEN buffer' = <<>> /\ retries' = 0 /\ cleared' = TRUE
       ELSE buffer' = DropHeader /\ retries' = retries + 1 /\ UNCHANGED cleared
    /\ reader' = "forward"
    /\ UNCHANGED <<sending, wire, pendingHeader, complete, inbound, sink, output>>

\* Mutant of TakePayload: it waits for a byte more than the payload has.
TakePayloadLate ==
    /\ reader = "feed"
    /\ pendingHeader # None
    /\ Len(buffer) > pendingHeader
    /\ complete' = Append(complete, SubSeq(buffer, 1, pendingHeader))
    /\ buffer' = SubSeq(buffer, pendingHeader + 1, Len(buffer))
    /\ pendingHeader' = None
    /\ retries' = 0
    /\ UNCHANGED <<sending, wire, cleared, receiving>>

TakePayload ==
    /\ reader = "feed"
    /\ pendingHeader # None
    /\ Len(buffer) >= pendingHeader
    /\ complete' = Append(complete, SubSeq(buffer, 1, pendingHeader))
    /\ buffer' = SubSeq(buffer, pendingHeader + 1, Len(buffer))
    /\ pendingHeader' = None
    /\ retries' = 0
    /\ UNCHANGED <<sending, wire, cleared, receiving>>

\* Mutant of Incomplete: the header that was taken is not put back.
IncompleteForgets ==
    /\ reader = "feed"
    /\ IF pendingHeader = None THEN NullPos = 0 ELSE Len(buffer) < pendingHeader
    /\ reader' = "forward"
    /\ pendingHeader' = None
    /\ UNCHANGED <<sending, wire, buffer, retries, complete, cleared, inbound, sink, output>>

\* There is no null byte, or not the whole payload; a header that was taken is
\* put back.
Incomplete ==
    /\ reader = "feed"
    /\ IF pendingHeader = None THEN NullPos = 0 ELSE Len(buffer) < pendingHeader
    /\ reader' = "forward"
    /\ UNCHANGED <<sending, wire, parser, inbound, sink, output>>

\* The packets that feed returned go to the forwarder.
ForwardPackets ==
    /\ reader = "forward"
    /\ reader' = "select"
    /\ inbound' = inbound \o complete
    /\ complete' = <<>>
    /\ UNCHANGED <<sending, wire, buffer, pendingHeader, retries, cleared, sink, output>>

\* Ok(0) after all that arrived, a read error, or a shutdown.
ReaderEnds ==
    /\ reader = "select"
    /\ reader' = "ended"
    /\ UNCHANGED <<sending, wire, parser, inbound, sink, output>>

\* The next packet is published.
Publish ==
    /\ sink = "run"
    /\ inbound # <<>>
    /\ inbound' = Tail(inbound)
    /\ output' = Append(output, Head(inbound))
    /\ UNCHANGED <<sending, wire, parser, reader, sink>>

\* recv() returns None: ros_tx is dropped and the channel empty.
SinkEnds ==
    /\ sink = "run"
    /\ reader = "ended"
    /\ inbound = <<>>
    /\ sink' = "ended"
    /\ UNCHANGED <<sending, wire, parser, reader, inbound, output>>
-----------------------------------------------------------------------------
Feed == TakeHeader \/ BadHeader \/ TakePayload \/ Incomplete

Receive == Read \/ Feed \/ ForwardPackets

Sink == Publish \/ SinkEnds

Next ==
    \/ \E m \in Message : RosMessage(m)
    \/ Write \/ WriteForeign \/ WriterEnds \/ WriteFails
    \/ Receive \/ ReaderEnds
    \/ Sink

Spec == Init /\ [][Next]_vars

\* The runtime polls the tasks that are ready, and what is written arrives.
Fairness == WF_vars(Write) /\ WF_vars(Receive) /\ WF_vars(Sink)

FairSpec == Spec /\ Fairness

-----------------------------------------------------------------------------
(* Properties. *)

\* The packets that have come out of the parser, published or not.
Parsed == output \o inbound \o complete

\* "Reassembles GDP packets from a byte stream": whatever pieces the bytes
\* arrive in, whatever bytes the payloads hold, headers that do not parse and a
\* stream that ends within a packet included, what comes out is what was sent,
\* in order; only once the buffer was cleared, packets may be missing.
InOrder ==
    cleared \/ IsPrefix(Parsed, [i \in DOMAIN input |-> Payload[input[i]]])

\* Again and again all messages so far have been published, unless the channel
\* has ended, the buffer was cleared, or the last header to come did not parse:
\* feed stops there, although complete packets may follow, and goes on only
\* when more bytes arrive.  What was parsed is published even so.
Delivered ==
    /\ []<>(\/ Len(output) = Len(input)
            \/ "ended" \in {writer, reader} \/ cleared \/ retries > 0)
    /\ []<>(Len(output) = Len(Parsed))
=============================================================================
