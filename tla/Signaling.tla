----------------------------- MODULE Signaling ------------------------------
(***************************************************************************)
(* The signaling server (signaling/src/main.rs): it relays text messages   *)
(* between WebSocket clients by their ids, keeps those for clients that    *)
(* are not there yet, and cleans a node out of the routing table when its  *)
(* last connection is gone.                                                *)
(*                                                                         *)
(* Every connection runs handle_client in a task of its own, on a pool of  *)
(* threads; the tasks share two maps, each under its mutex.  An action is  *)
(* what a task does under one lock, or one exchange with its client.       *)
(***************************************************************************)
EXTENDS Integers, FiniteSets, SequencesExt

CONSTANTS
    \* The connections that are made, and the id in the URL of each.
    Conn, IdOf,
    \* Client ids, and the {topic_gdp}-{self_node} part of each.
    Id, NodeOf,
    \* NodeOf an id that does not have three parts.
    NoNode,
    \* The messages, the id of the client that sends each, and its "id" field.
    Message, From, To,
    \* No connection.
    None

ASSUME IdAssumption ==
    /\ IdOf \in [Conn -> Id]
    /\ From \in [Message -> Id]
    /\ To \in [Message -> Id]
    /\ DOMAIN NodeOf = Id
    /\ None \notin Conn

VARIABLES
    clients,    \* ClientMap: the connection registered for an id, or None
    pending,    \* PendingMessages: what waits for a client with that id
    queue,      \* the channel from tx to rx of each connection
    received,   \* what its client has been sent, in order
    generation, \* my_generation, also that of the entry it makes in clients
    pc,         \* where each handle_client is
    buffering,  \* the message of a relay that found no target
    sent,       \* the messages the clients have sent
    cleaned     \* the nodes cleaned since they last registered a connection

maps == <<clients, pending>>
vars == <<maps, queue, received, generation, pc, buffering, sent, cleaned>>

\* Registered: the task is between Register and Unregister.
Registered == {"drain", "open", "buffer", "closing"}
PCs == {"new", "debounce", "clean", "ended"} \cup Registered

Node == { NodeOf[i] : i \in Id } \ {NoNode}
SelfNode(k) == NodeOf[IdOf[k]]

TypeOK ==
    /\ clients \in [Id -> Conn \cup {None}]
    /\ pending \in [Id -> Seq(Message)]
    /\ queue \in [Conn -> Seq(Message)]
    /\ received \in [Conn -> Seq(Message)]
    /\ generation \in [Conn -> Nat]
    /\ pc \in [Conn -> PCs]
    /\ buffering \in [Conn -> SUBSET Message]
    /\ sent \subseteq Message
    /\ cleaned \subseteq Node

Init ==
    /\ clients = [i \in Id |-> None]
    /\ pending = [i \in Id |-> <<>>]
    /\ queue = [k \in Conn |-> <<>>]
    /\ received = [k \in Conn |-> <<>>]
    /\ generation = [k \in Conn |-> 0]
    /\ pc = [k \in Conn |-> "new"]
    /\ buffering = [k \in Conn |-> {}]
    /\ sent = {}
    /\ cleaned = {}

Goto(k, label) == pc' = [pc EXCEPT ![k] = label]

-----------------------------------------------------------------------------
(* A client connects. *)

\* The generation of the entry that registers for id i.
NextGeneration(i) ==
    IF clients[i] = None THEN 1 ELSE generation[clients[i]] + 1

\* The entry of an earlier connection with the id is replaced; that connection
\* keeps its own tx and stays open.
Register(k) ==
    /\ pc[k] = "new"
    /\ Goto(k, "drain")
    /\ generation' = [generation EXCEPT ![k] = NextGeneration(IdOf[k])]
    /\ clients' = [clients EXCEPT ![IdOf[k]] = k]
    /\ cleaned' = cleaned \ {SelfNode(k)}
    /\ UNCHANGED <<pending, queue, received, buffering, sent>>

\* Mutant of Drain: the pending messages are read but not removed.
DrainKeeps(k) ==
    /\ pc[k] = "drain"
    /\ Goto(k, "open")
    /\ queue' = [queue EXCEPT ![k] = @ \o pending[IdOf[k]]]
    /\ UNCHANGED <<maps, received, generation, buffering, sent, cleaned>>

\* "Deliver any pending messages": under the other lock, so messages may have
\* been relayed to this connection since it registered.
Drain(k) ==
    /\ pc[k] = "drain"
    /\ Goto(k, "open")
    /\ queue' = [queue EXCEPT ![k] = @ \o pending[IdOf[k]]]
    /\ pending' = [pending EXCEPT ![IdOf[k]] = <<>>]
    /\ UNCHANGED <<clients, received, generation, buffering, sent, cleaned>>

-----------------------------------------------------------------------------
(* A client sends a message. *)

Sends(k, m) ==
    /\ pc[k] = "open"
    /\ m \in Message \ sent
    /\ From[m] = IdOf[k]
    /\ sent' = sent \cup {m}

\* The target is registered: the message goes into its channel.
Relay(k, m) ==
    /\ Sends(k, m)
    /\ clients[To[m]] # None
    /\ queue' = [queue EXCEPT ![clients[To[m]]] = Append(@, m)]
    /\ UNCHANGED <<maps, received, generation, pc, buffering, cleaned>>

\* The target is not registered: the lock of the clients is released ...
TargetAbsent(k, m) ==
    /\ Sends(k, m)
    /\ clients[To[m]] = None
    /\ Goto(k, "buffer")
    /\ buffering' = [buffering EXCEPT ![k] = {m}]
    /\ UNCHANGED <<maps, queue, received, generation, cleaned>>

\* ... and the message is buffered under the other one.
Buffer(k) ==
    /\ pc[k] = "buffer"
    /\ Goto(k, "open")
    /\ \E m \in buffering[k] : pending' = [pending EXCEPT ![To[m]] = Append(@, m)]
    /\ buffering' = [buffering EXCEPT ![k] = {}]
    /\ UNCHANGED <<clients, queue, received, generation, sent, cleaned>>

\* forward: the next message of the channel goes out.
Forward(k) ==
    /\ pc[k] = "open"
    /\ queue[k] # <<>>
    /\ received' = [received EXCEPT ![k] = Append(@, Head(queue[k]))]
    /\ queue' = [queue EXCEPT ![k] = Tail(@)]
    /\ UNCHANGED <<maps, generation, pc, buffering, sent, cleaned>>

-----------------------------------------------------------------------------
(* A connection ends. *)

\* Either half of it does; what is still in the channel is lost.
Close(k) ==
    /\ pc[k] = "open"
    /\ Goto(k, "closing")
    /\ UNCHANGED <<maps, queue, received, generation, buffering, sent, cleaned>>

\* Mutant of IsMine: the generations are not compared.
IsOfMyId(k) == clients[IdOf[k]] # None

\* The entry of the id is of the generation of this connection.
IsMine(k) ==
    LET entry == clients[IdOf[k]]
    IN  entry # None /\ generation[entry] = generation[k]

\* Mutant of Unregister: the comparison of the generations is turned around.
UnregisterOlder(k) ==
    /\ pc[k] = "closing"
    /\ clients' = IF clients[IdOf[k]] # None /\ generation[clients[IdOf[k]]] < generation[k]
                  THEN [clients EXCEPT ![IdOf[k]] = None] ELSE clients
    /\ Goto(k, IF SelfNode(k) = NoNode THEN "ended" ELSE "debounce")
    /\ UNCHANGED <<pending, queue, received, generation, buffering, sent, cleaned>>

\* Mutant of Unregister: the number of parts of the id is not looked at.
UnregisterAnyId(k) ==
    /\ pc[k] = "closing"
    /\ clients' = IF IsMine(k) THEN [clients EXCEPT ![IdOf[k]] = None] ELSE clients
    /\ Goto(k, "debounce")
    /\ UNCHANGED <<pending, queue, received, generation, buffering, sent, cleaned>>

\* The entry is removed if it is of this generation; an id of three parts goes
\* on to the debounced clean-up.
Unregister(k) ==
    /\ pc[k] = "closing"
    /\ clients' = IF IsMine(k) THEN [clients EXCEPT ![IdOf[k]] = None] ELSE clients
    /\ Goto(k, IF SelfNode(k) = NoNode THEN "ended" ELSE "debounce")
    /\ UNCHANGED <<pending, queue, received, generation, buffering, sent, cleaned>>

\* Mutant of StillConnected: clients that name the node as their peer count too.
StillConnectedAnyRole(n) == \E i \in Id : clients[i] # None

\* still_connected: some client of the node is registered.
StillConnected(n) == \E i \in Id : NodeOf[i] = n /\ clients[i] # None

\* The 1500 ms are over.
Debounced(k) ==
    /\ pc[k] = "debounce"
    /\ Goto(k, IF StillConnected(SelfNode(k)) THEN "ended" ELSE "clean")
    /\ UNCHANGED <<maps, queue, received, generation, buffering, sent, cleaned>>

\* disconnect_node, the "cleanup" of RoutingCas.
CleanUp(k) ==
    /\ pc[k] = "clean"
    /\ Goto(k, "ended")
    /\ cleaned' = cleaned \cup {SelfNode(k)}
    /\ UNCHANGED <<maps, queue, received, generation, buffering, sent>>

-----------------------------------------------------------------------------
\* What the task of connection k does by itself.
Task(k) ==
    Drain(k) \/ Buffer(k) \/ Forward(k) \/ Unregister(k) \/ Debounced(k) \/ CleanUp(k)

\* What its client does.
Client(k) ==
    \/ Register(k)
    \/ \E m \in Message : Relay(k, m) \/ TargetAbsent(k, m)
    \/ Close(k)

Next == \E k \in Conn : Task(k) \/ Client(k)

Spec == Init /\ [][Next]_vars

\* The runtime polls every task that is ready.
FairSpec == Spec /\ \A k \in Conn : WF_vars(Task(k))

-----------------------------------------------------------------------------
(* Properties. *)

\* No entry outlives its connection: a client that is found in the map has not
\* been unregistered, whatever connections with its id came and went.
NoGhost ==
    \A i \in Id :
        clients[i] # None => IdOf[clients[i]] = i /\ pc[clients[i]] \in Registered

\* Only ids with a node go on to the clean-up: with it, TypeOK is inductive.
OnlyNodesAreCleaned ==
    \A k \in Conn : pc[k] \in {"debounce", "clean"} => SelfNode(k) # NoNode

\* What the client of connection k has been sent, and what is still to be.
Line(k) == received[k] \o queue[k]

\* Where message m is: with a relay, in the pending map, in a channel (of a
\* connection that ended, if it was lost) or with a client.
Places(m) ==
         { <<"relay", k, 0>> : k \in { k \in Conn : m \in buffering[k] } }
    \cup (UNION { { <<"pending", i, j>> : j \in { j \in DOMAIN pending[i] : pending[i][j] = m } }
                  : i \in Id })
    \cup (UNION { { <<"line", k, j>> : j \in { j \in DOMAIN Line(k) : Line(k)[j] = m } }
                  : k \in Conn })

\* A relayed message is neither duplicated nor dropped by the relay, the
\* buffering and the draining, in whatever order they take the two locks, and
\* it only reaches connections with the id it names.
OneCopy ==
    \A m \in Message :
        /\ Cardinality(Places(m)) = IF m \in sent THEN 1 ELSE 0
        /\ \A k \in Conn : m \in Range(Line(k)) => IdOf[k] = To[m]

\* A connection of node n exists, or does not any more.
Connected(n) == \E k \in Conn : SelfNode(k) = n /\ pc[k] \in Registered
Left(n) == ~Connected(n) /\ \E k \in Conn : SelfNode(k) = n /\ pc[k] # "new"

\* A node whose connections are all gone is cleaned out of the routing table,
\* unless it connects again: the last of the debounced checks sees no client.
GoneIsCleaned == \A n \in Node : Left(n) ~> (n \in cleaned \/ Connected(n))

\* Client.generation "Prevents stale disconnects from removing new
\* connections": an entry is removed only by the end of its own connection.
OnlyOwnEntryRemoved ==
    [][\A i \in Id :
          clients[i] # None /\ clients'[i] = None => pc[clients[i]] = "closing"]_vars
=============================================================================
