----------------------------- MODULE Handshake ------------------------------
(***************************************************************************)
(* The two ends of an edge of the routing tree, which meet through the     *)
(* signaling server: the parent accepts, the child dials the parent's id   *)
(* (generate_signal_ids, establish_connection and register_webrtc_stream). *)
(*                                                                         *)
(* The server is Signaling, whose connections are here the attempts of the *)
(* two ends, all attempts of an end with the same id.  Its clean-up of the *)
(* routing table is left to TopicManager.                                  *)
(*                                                                         *)
(* The WebRTC library is external: it makes an offer and its candidate     *)
(* when it dials, and an answer to the offer it is given; a message that   *)
(* is out of place may be refused, ignored or taken for the right one.     *)
(* The candidates of the parent, which come behind its answer, are left    *)
(* out, and so are further ones of the child.                              *)
(***************************************************************************)
EXTENDS Integers, Sequences, SequencesExt

CONSTANTS
    \* MAX_RETRIES of establish_connection.
    DialAttempts,
    \* Bound: attempts that fail for reasons of the network.
    MaxFails

ASSUME HandshakeAssumption == DialAttempts \in Nat \ {0} /\ MaxFails \in Nat

Parent == "parent"
Child == "child"
End == {Parent, Child}

Attempt == 1 .. DialAttempts

\* The messages: of an attempt of the child, and the answers to it.
Offer(k) == <<"offer", k>>
Candidate(k) == <<"candidate", k>>
Answer(j, k) == <<"answer", j, k>>

Offers == { Offer(k) : k \in Attempt }
Candidates == { Candidate(k) : k \in Attempt }
Answers == { Answer(j, k) : j, k \in Attempt }
Messages == Offers \cup Candidates \cup Answers

VARIABLES
    clients, pending, queue, received, generation, pc, buffering, sent, cleaned,
    phase,      \* of each end: "try", "dial", "open" or "ended"
    attempt,    \* the attempts each end has begun
    handled,    \* how many of its received messages the attempt has handled
    remote,     \* the remote description it was given, or NoMessage
    reachable,  \* the parent: the candidates it was given
    fails,      \* failures of the network so far
    misplaced   \* history: messages that an attempt was given out of place

server == <<clients, pending, queue, received, generation, pc, buffering, sent, cleaned>>
ends == <<phase, attempt, handled, remote, reachable, fails, misplaced>>
vars == <<server, ends>>

NoMessage == <<>>
NoConnection == <<>>
NoNode == "none"

Connections == End \X Attempt
EndOf == [c \in Connections |-> c[1]]
From == [m \in Messages |-> IF m \in Answers THEN Parent ELSE Child]
To == [m \in Messages |-> IF m \in Answers THEN Child ELSE Parent]

Server ==
    INSTANCE Signaling WITH
        Conn <- Connections, IdOf <- EndOf, Id <- End,
        NodeOf <- [i \in End |-> NoNode], NoNode <- NoNode,
        Message <- Messages, None <- NoConnection

\* The connection of the attempt of end e, and what it has received next.
Connection(e) == <<e, attempt[e]>>
HasNext(e) == phase[e] = "dial" /\ handled[e] < Len(received[Connection(e)])
NextMessage(e) == received[Connection(e)][handled[e] + 1]

TypeOK ==
    /\ phase \in [End -> {"try", "dial", "open", "ended"}]
    /\ attempt \in [End -> 0 .. DialAttempts]
    /\ \A e \in End : phase[e] \in {"dial", "open"} =>
          attempt[e] > 0 /\ handled[e] \in 0 .. Len(received[Connection(e)])
    /\ remote[Parent] \in Offers \cup {NoMessage}
    /\ remote[Child] \in Answers \cup {NoMessage}
    /\ reachable \subseteq Candidates
    /\ misplaced \subseteq Messages
    /\ fails \in 0 .. MaxFails

Init ==
    /\ Server!Init
    /\ phase = [e \in End |-> "try"]
    /\ attempt = [e \in End |-> 0]
    /\ handled = [e \in End |-> 0]
    /\ remote = [e \in End |-> NoMessage]
    /\ reachable = {}
    /\ fails = 0
    /\ misplaced = {}

-----------------------------------------------------------------------------
(* An attempt: register_webrtc_stream. *)

\* connect_async: the attempt is a new connection to the server, with the id of
\* its end, and a new PeerConnection.
Dial(e) ==
    /\ phase[e] = "try"
    /\ phase' = [phase EXCEPT ![e] = "dial"]
    /\ attempt' = [attempt EXCEPT ![e] = @ + 1]
    /\ handled' = [handled EXCEPT ![e] = 0]
    /\ remote' = [remote EXCEPT ![e] = NoMessage]
    /\ reachable' = IF e = Parent THEN {} ELSE reachable
    /\ Server!Register(<<e, attempt[e] + 1>>)
    /\ UNCHANGED <<fails, misplaced>>

\* Mutant of Outbound: the parent does not learn its peer from the message.
OutboundToDialed(e) ==
    IF e = Child
    THEN IF Offer(attempt[e]) \in sent THEN {Candidate(attempt[e])} \ sent
                                       ELSE {Offer(attempt[e])}
    ELSE {}

\* What the library wants to send: the relay of the outbound messages knows the
\* id of the peer, from peer_to_dial or the message that came.
Outbound(e) ==
    IF e = Child
    THEN IF Offer(attempt[e]) \in sent THEN {Candidate(attempt[e])} \ sent
                                       ELSE {Offer(attempt[e])}
    ELSE { Answer(attempt[e], k) : k \in { k \in Attempt : remote[e] = Offer(k) } } \ sent

Send(e) ==
    /\ phase[e] = "dial"
    /\ \E m \in Outbound(e) :
          Server!Relay(Connection(e), m) \/ Server!TargetAbsent(Connection(e), m)
    /\ UNCHANGED ends

\* The message that the library expects next can be used as it is.
InPlace(e, m) ==
    \/ e = Parent /\ m \in Offers /\ remote[e] = NoMessage
    \/ e = Parent /\ m \in Candidates /\ remote[e] = Offer(m[2])
    \/ e = Child /\ \E j \in Attempt : m = Answer(j, attempt[e]) /\ remote[e] = NoMessage

\* accept or dial is given the message.
Adopt(e, m) ==
    IF m \in Candidates
    THEN reachable' = reachable \cup {m} /\ UNCHANGED remote
    ELSE remote' = [remote EXCEPT ![e] = m] /\ UNCHANGED reachable

Handle(e) ==
    /\ HasNext(e)
    /\ LET m == NextMessage(e)
       IN  \/ Adopt(e, m)
           \/ ~InPlace(e, m) /\ UNCHANGED <<remote, reachable>>
    /\ misplaced' = IF InPlace(e, NextMessage(e)) THEN misplaced
                    ELSE misplaced \cup {NextMessage(e)}
    /\ handled' = [handled EXCEPT ![e] = @ + 1]
    /\ UNCHANGED <<server, phase, attempt, fails>>

\* The attempt ends: its signaling client is closed, and another one follows
\* after a delay, up to DialAttempts.
EndAttempt(e) ==
    phase' = [phase EXCEPT ![e] = IF attempt[e] < DialAttempts THEN "try" ELSE "ended"]

\* accept or dial refuses a message that is out of place.
Refuse(e) ==
    /\ HasNext(e)
    /\ ~InPlace(e, NextMessage(e))
    /\ misplaced' = misplaced \cup {NextMessage(e)}
    /\ EndAttempt(e)
    /\ UNCHANGED <<server, attempt, handled, remote, reachable, fails>>

\* The two descriptions belong to each other, and the parent has the candidate:
\* the channel opens.
Matched ==
    /\ remote[Child] = Answer(attempt[Parent], attempt[Child])
    /\ remote[Parent] = Offer(attempt[Child])
    /\ Candidate(attempt[Child]) \in reachable

Connect ==
    /\ \A e \in End : phase[e] = "dial"
    /\ Matched
    /\ phase' = [e \in End |-> "open"]
    /\ UNCHANGED <<server, attempt, handled, remote, reachable, fails, misplaced>>

\* The network fails: the server cannot be reached, or the peer.
DialFails(e) ==
    /\ phase[e] = "dial"
    /\ fails < MaxFails
    /\ fails' = fails + 1
    /\ EndAttempt(e)
    /\ UNCHANGED <<server, attempt, handled, remote, reachable, misplaced>>

-----------------------------------------------------------------------------
(* The server.  What it does when the channel is open concerns no end.  *)

Opened == \A e \in End : phase[e] = "open"

\* The attempt of this connection is over, and its WebSocket dropped.
Over(c) == attempt[c[1]] > c[2] \/ (attempt[c[1]] = c[2] /\ phase[c[1]] \in {"try", "ended"})

Serve(c) ==
    /\ ~Opened
    /\ \/ Server!Drain(c) \/ Server!Buffer(c) \/ Server!Forward(c) \/ Server!Unregister(c)
       \/ Over(c) /\ Server!Close(c)
    /\ UNCHANGED ends

-----------------------------------------------------------------------------
Act(e) == Dial(e) \/ Send(e) \/ Handle(e) \/ Refuse(e)

Next ==
    \/ \E e \in End : Act(e) \/ DialFails(e)
    \/ Connect
    \/ \E c \in Connections : Serve(c)

Spec == Init /\ [][Next]_vars

\* The tasks of both ends and of the server run; backoffs end; ends that match
\* connect.  There is no timeout: an end may dial forever.
Fairness ==
    /\ \A e \in End : WF_vars(Act(e))
    /\ WF_vars(Connect)
    /\ \A c \in Connections : WF_vars(Serve(c))

FairSpec == Spec /\ Fairness

-----------------------------------------------------------------------------
(* Properties. *)

GaveUp == \E e \in End : phase[e] = "ended"

\* The present attempt of end e has lost its entry to the close of an earlier
\* one that had the same generation: those start again when an entry is removed.
Forgotten(e) ==
    /\ attempt[e] > 2
    /\ clients[e] = NoConnection
    /\ \E k \in 1 .. attempt[e] - 1 :
          pc[<<e, k>>] = "ended" /\ generation[<<e, k>>] = generation[Connection(e)]

\* Client.generation does its work for the retries: while an end dials, the
\* server has the connection of its present attempt for its id, although the
\* WebSocket of an earlier one may be noticed as closed only now.  That is so of
\* the first retry whatever happens, and of a later one as long as no attempt of
\* the same generation is noticed as closed after it has registered.
PresentAttemptRegistered ==
    \A e \in End :
        phase[e] \in {"dial", "open"} => clients[e] = Connection(e) \/ Forgotten(e)

\* A message waits in the pending map for a client that has been handed its own.
Stranded ==
    \E e \in End : phase[e] = "dial" /\ pc[Connection(e)] = "open" /\ pending[e] # <<>>

\* A message was taken by an attempt that has ended since.
Spent == \E c \in Connections : Over(c) /\ received[c] \o queue[c] # <<>>

\* "Establish WebRTC data channel via signaling server", "Retry WebRTC
\* connection up to 3 times": in whatever order the ends come, and whichever
\* attempts fail, the channel opens or an end has used up its attempts, unless
\* a message is stranded, was taken by an attempt that failed or arrived out of
\* place.  Those three are all that can keep the ends dialing for ever.
Meets == <>(Opened \/ GaveUp \/ Stranded \/ Spent \/ misplaced # {})

\* "Deliver any pending messages that were buffered before this client
\* connected": the ends meet whichever connects first.
EndsMeet == <>(Opened \/ GaveUp)
=============================================================================
