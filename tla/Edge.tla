-------------------------------- MODULE Edge --------------------------------
(***************************************************************************)
(* An edge of the routing tree from its two ends that do not know each     *)
(* other to the messages that go over it: establish_connection, which      *)
(* makes the channel (Handshake) and then spawns the tasks that use it     *)
(* (DataChannel) with new queues and a new parser.                         *)
(***************************************************************************)
EXTENDS Handshake, Packets

VARIABLES
    input, source, outbound, writer, wire, reader, buffer, pendingHeader, retries,
    complete, inbound, sink, output, foreign, cleared

Data == INSTANCE DataChannel

data ==
    <<input, source, outbound, writer, wire, reader, buffer, pendingHeader, retries,
      complete, inbound, sink, output, foreign, cleared>>

edgeVars == <<vars, data>>

EdgeTypeOK == TypeOK /\ Data!TypeOK

EdgeInit == Init /\ Data!Init

\* The tasks of the channel run.  Bound: after an opening at the first attempt;
\* they are the same after any other.
Running == Opened /\ \A e \in End : attempt[e] = 1


EdgeNext ==
    \/ Next /\ UNCHANGED data
    \/ Running /\ Data!Next /\ UNCHANGED vars

EdgeSpec == EdgeInit /\ [][EdgeNext]_edgeVars

EdgeFairSpec == EdgeSpec /\ Fairness /\ Data!Fairness

InOrder == Data!InOrder
Delivered == Data!Delivered
=============================================================================
