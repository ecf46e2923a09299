------------------------------ MODULE Packets -------------------------------
(***************************************************************************)
(* The packets of a topic as bytes (core/structs.rs, core/pipeline.rs):    *)
(* "JSON header + '\0' + binary payload".                                  *)
(*                                                                         *)
(* A byte is a cell, and a header two cells, so that it can be cut and can *)
(* occur within a payload.  Of a header only the length is kept: on a      *)
(* channel the action is Forward and the destination the topic in every    *)
(* packet, and none has a name record.                                     *)
(***************************************************************************)
EXTENDS Integers, SequencesExt

CONSTANTS
    \* The messages of the topic, and the bytes of each.
    Message, Payload,
    \* RECEIVE_BUFFER_SIZE and MAX_PARSE_RETRIES of core/network/webrtc.rs.
    ReceiveBuffer, MaxParseRetries,
    \* Bound: headers on the wire that do not parse.
    MaxForeign

Null == <<"null", 0>>
Brace == <<"brace", 0>>
Garbage == <<"garbage", 0>>

Byte == {Null, Brace, Garbage} \cup ({"header", "data"} \X Nat)

ASSUME PacketAssumption ==
    /\ Payload \in [Message -> Seq(Byte)]
    /\ ReceiveBuffer \in Nat \ {0}
    /\ MaxParseRetries \in Nat
    /\ MaxForeign \in Nat

\* GDPHeaderInTransit as JSON.
Header(length) == <<<<"header", length>>, Brace>>

\* serde_json accepts these bytes as a header.
Parses(bytes) == Len(bytes) = 2 /\ bytes = Header(bytes[1][2])

\* What is written for a message: get_header, a null byte, the payload.
Packet(m) == Header(Len(Payload[m])) \o <<Null>> \o Payload[m]
=============================================================================
