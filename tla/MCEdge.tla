------------------------------- MODULE MCEdge -------------------------------
(***************************************************************************)
(* A small instance of Edge.                                               *)
(***************************************************************************)
EXTENDS Edge

\* Payloads that hold null bytes, and one that looks like a packet.
MCPayload == [zeros |-> <<Null, Null>>, packet |-> Header(1) \o <<Null>>]
=============================================================================
