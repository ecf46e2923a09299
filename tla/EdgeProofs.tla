----------------------------- MODULE EdgeProofs -----------------------------
(***************************************************************************)
(* Theorems about Edge.  Its steps are steps of the server or of the       *)
(* channel, or leave them alone; so the invariants of SignalingProofs hold *)
(* of the server as the handshake uses it, and that of DataChannelProofs   *)
(* of the channel that it opens.                                           *)
(***************************************************************************)
EXTENDS Edge, SequenceLemmas, TLAPS

Serving ==
    INSTANCE SignalingProofs WITH
        Conn <- Connections, IdOf <- EndOf, Id <- End,
        NodeOf <- [i \in End |-> NoNode], NoNode <- NoNode,
        Message <- Messages, None <- NoConnection

Proven == INSTANCE DataChannelProofs
-----------------------------------------------------------------------------
(* The server. *)

LEMMA ConnectionsNamed ==
    /\ Serving!IdAssumption
    /\ \A c \in Connections : EndOf[c] = c[1]
    /\ \A m \in Messages : To[m] = IF m \in Answers THEN Child ELSE Parent
<1>1. NoConnection \notin Connections
  BY DEF NoConnection, Connections
<1>2. EndOf \in [Connections -> End]
  BY DEF EndOf, Connections
<1>3. From \in [Messages -> End] /\ To \in [Messages -> End]
  BY DEF From, To, End
<1>4. DOMAIN [i \in End |-> NoNode] = End
  OBVIOUS
<1>5. Serving!IdAssumption
  BY <1>1, <1>2, <1>3, <1>4 DEF Serving!IdAssumption
<1>6. QED
  BY <1>5 DEF EndOf, To

LEMMA ServerInit == Server!Init => Serving!Init
  BY DEF Server!Init, Serving!Init

\* An end that tries has an attempt left, and one that dials has begun one.
Attempts ==
    /\ phase \in [End -> {"try", "dial", "open", "ended"}]
    /\ attempt \in [End -> 0 .. DialAttempts]
    /\ \A e \in End :
          /\ phase[e] = "try" => attempt[e] < DialAttempts
          /\ phase[e] \in {"dial", "open"} => attempt[e] > 0

LEMMA InitAttempts == Init => Attempts
  BY HandshakeAssumption DEF Init, Attempts

LEMMA StepAttempts == Attempts /\ [Next]_vars => Attempts'
<1> SUFFICES ASSUME Attempts, [Next]_vars
             PROVE  Attempts'
  OBVIOUS
<1> USE HandshakeAssumption DEF Attempts
<1>1. CASE UNCHANGED <<phase, attempt>>
  BY <1>1
<1>2. ASSUME NEW e \in End, Dial(e)
      PROVE  Attempts'
  BY <1>2 DEF Dial
<1>3. ASSUME NEW e \in End, Refuse(e) \/ DialFails(e)
      PROVE  Attempts'
  BY <1>3 DEF Refuse, DialFails, EndAttempt, HasNext
<1>4. CASE Connect
  BY <1>4 DEF Connect
<1>5. QED
  BY <1>1, <1>2, <1>3, <1>4 DEF Next, Act, Send, Handle, Serve, vars, ends

\* The connection of an attempt.
LEMMA AttemptConnects ==
    ASSUME Attempts, NEW e \in End
    PROVE  /\ phase[e] \in {"dial", "open"} => Connection(e) \in Connections
           /\ phase[e] = "try" => <<e, attempt[e] + 1>> \in Connections
<1>1. attempt[e] \in Nat /\ attempt[e] <= DialAttempts /\ DialAttempts \in Nat
  BY HandshakeAssumption DEF Attempts
<1>2. QED
  BY <1>1 DEF Attempts, Connection, Connections, Attempt

\* Every step of the handshake is a step of the server or leaves it alone.
LEMMA ServerStep == Attempts /\ [Next]_vars => [Serving!Next]_Serving!vars
<1> SUFFICES ASSUME Attempts, [Next]_vars
             PROVE  [Serving!Next]_Serving!vars
  OBVIOUS
<1> USE DEF Server!Goto, Serving!Goto, Server!maps, Serving!maps
<1>1. UNCHANGED server => UNCHANGED Serving!vars
  BY DEF server, Serving!vars
<1>2. ASSUME NEW c \in Connections
      PROVE  /\ Server!Register(c) => Serving!Register(c)
             /\ Server!Drain(c) => Serving!Drain(c)
             /\ Server!Buffer(c) => Serving!Buffer(c)
             /\ Server!Forward(c) => Serving!Forward(c)
             /\ Server!Close(c) => Serving!Close(c)
             /\ Server!Unregister(c) => Serving!Unregister(c)
  BY DEF Server!Register, Serving!Register, Server!NextGeneration, Serving!NextGeneration,
         Server!SelfNode, Serving!SelfNode, Server!Drain, Serving!Drain, Server!Buffer,
         Serving!Buffer, Server!Forward, Serving!Forward, Server!Close, Serving!Close,
         Server!Unregister, Serving!Unregister, Server!IsMine, Serving!IsMine
<1>3. ASSUME NEW c \in Connections, NEW m
      PROVE  /\ Server!Relay(c, m) => Serving!Relay(c, m)
             /\ Server!TargetAbsent(c, m) => Serving!TargetAbsent(c, m)
  BY DEF Server!Relay, Serving!Relay, Server!TargetAbsent, Serving!TargetAbsent,
         Server!Sends, Serving!Sends
<1>4. ASSUME NEW m, NEW c \in Connections, Serving!Relay(c, m) \/ Serving!TargetAbsent(c, m)
      PROVE  Serving!Next
  <2>1. m \in Messages
    BY <1>4 DEF Serving!Relay, Serving!TargetAbsent, Serving!Sends
  <2>2. QED
    BY <1>4, <2>1 DEF Serving!Next, Serving!Client
<1>5. ASSUME NEW c \in Connections,
             \/ Serving!Register(c) \/ Serving!Drain(c) \/ Serving!Buffer(c)
             \/ Serving!Forward(c) \/ Serving!Close(c) \/ Serving!Unregister(c)
      PROVE  Serving!Next
  BY <1>5 DEF Serving!Next, Serving!Client, Serving!Task
<1>6. CASE UNCHANGED server
  BY <1>1, <1>6
<1>7. CASE ~UNCHANGED server
  <2>1. \/ \E e \in End : Dial(e) \/ Send(e)
        \/ \E c \in Connections : Serve(c)
    BY <1>7 DEF Next, Act, Handle, Refuse, DialFails, Connect, vars
  <2>2. ASSUME NEW e \in End, Dial(e)
        PROVE  Serving!Next
    BY <1>2, <1>5, <2>2, AttemptConnects DEF Dial
  <2>3. ASSUME NEW e \in End, Send(e)
        PROVE  Serving!Next
    <3>1. Connection(e) \in Connections
      BY <2>3, AttemptConnects DEF Send
    <3>2. PICK m \in Outbound(e) :
            Server!Relay(Connection(e), m) \/ Server!TargetAbsent(Connection(e), m)
      BY <2>3 DEF Send
    <3>3. QED
      BY <1>3, <1>4, <3>1, <3>2
  <2>4. ASSUME NEW c \in Connections, Serve(c)
        PROVE  Serving!Next
    BY <1>2, <1>5, <2>4 DEF Serve
  <2>5. QED
    BY <2>1, <2>2, <2>3, <2>4
<1>8. QED
  BY <1>6, <1>7
\* What the proofs about the server show of it here.
ServerSound == Serving!TypeOK /\ Serving!OnlyNodesAreCleaned /\ Serving!NoGhost /\ Serving!Delivery

LEMMA InitServerSound == Init => ServerSound
<1>1. Init => Serving!Init
  BY ServerInit DEF Init
<1>2. QED
  BY <1>1, ConnectionsNamed, Serving!InitHolds, Serving!InitDelivers DEF ServerSound

LEMMA StepServerSound == Attempts /\ ServerSound /\ [Next]_vars => ServerSound'
<1> SUFFICES ASSUME Attempts, ServerSound, [Next]_vars
             PROVE  ServerSound'
  OBVIOUS
<1>1. [Serving!Next]_Serving!vars
  BY ServerStep
<1>2. Serving!TypeOK' /\ Serving!OnlyNodesAreCleaned'
  BY <1>1, ConnectionsNamed, Serving!StepTyped, Serving!StepCleansNodes DEF ServerSound
<1>3. Serving!NoGhost'
  BY <1>1, ConnectionsNamed, Serving!StepNoGhost DEF ServerSound
<1>4. Serving!Delivery'
  BY <1>1, ConnectionsNamed, Serving!StepDelivers DEF ServerSound
<1>5. QED
  BY <1>2, <1>3, <1>4 DEF ServerSound

\* What a client has been sent only grows.
LEMMA ReceivedGrows ==
    ASSUME ServerSound, [Serving!Next]_Serving!vars, NEW c \in Connections
    PROVE  /\ received[c] \in Seq(Messages)
           /\ Len(received[c]) \in Nat /\ Len(received'[c]) \in Nat
           /\ Len(received[c]) <= Len(received'[c])
<1>1. received \in [Connections -> Seq(Messages)] /\ queue \in [Connections -> Seq(Messages)]
  BY DEF ServerSound, Serving!TypeOK
<1>2. received[c] \in Seq(Messages) /\ Len(received[c]) \in Nat
  BY <1>1, LenProperties
<1>3. CASE \E k \in Connections : Serving!Forward(k)
  <2>1. PICK k \in Connections : Serving!Forward(k)
    BY <1>3
  <2>2. /\ queue[k] # <<>>
        /\ received' = [received EXCEPT ![k] = Append(@, Head(queue[k]))]
    BY <2>1 DEF Serving!Forward
  <2>3. CASE k = c
    <3>1. queue[c] \in Seq(Messages) /\ queue[c] # <<>>
      BY <1>1, <2>2, <2>3
    <3>2. Head(queue[c]) \in Messages
      BY <3>1
    <3>3. received'[c] = Append(received[c], Head(queue[c]))
      BY <1>1, <2>2, <2>3
    <3>4. Len(received'[c]) = Len(received[c]) + 1
      BY <1>2, <3>2, <3>3, Grown
    <3>5. QED
      BY <1>2, <3>4
  <2>4. CASE k # c
    BY <1>1, <1>2, <2>2, <2>4
  <2>5. QED
    BY <2>3, <2>4
<1>4. CASE ~\E k \in Connections : Serving!Forward(k)
  <2>1. received' = received
    BY <1>4 DEF Serving!Next, Serving!vars, Serving!Task, Serving!Client, Serving!Register,
                Serving!Drain, Serving!Relay, Serving!TargetAbsent, Serving!Buffer,
                Serving!Close, Serving!Unregister, Serving!Debounced, Serving!CleanUp
  <2>2. QED
    BY <1>2, <2>1
<1>5. QED
  BY <1>3, <1>4
-----------------------------------------------------------------------------
(* The ends. *)

\* The types that TypeOK leaves out.
EndTypes == handled \in [End -> Nat] /\ remote \in [End -> Messages \cup {NoMessage}]

\* The next message is one for this end.
LEMMA NextIsForEnd ==
    ASSUME Attempts, ServerSound, TypeOK, EndTypes, NEW e \in End, HasNext(e)
    PROVE  /\ NextMessage(e) \in Messages
           /\ e = Parent => NextMessage(e) \in Offers \cup Candidates
           /\ e = Child => NextMessage(e) \in Answers
           /\ handled[e] + 1 \in 0 .. Len(received[Connection(e)])
<1> Connection(e) \in Connections
  BY AttemptConnects DEF HasNext
<1> PICK c \in Connections : c = Connection(e)
  OBVIOUS
<1>1. /\ received[c] \in Seq(Messages) /\ queue[c] \in Seq(Messages)
      /\ Len(received[c]) \in Nat
  BY LenProperties DEF ServerSound, Serving!TypeOK
<1>2. handled[e] \in Nat /\ handled[e] < Len(received[c])
  BY DEF EndTypes, HasNext
<1> PICK j \in Nat : j = handled[e] + 1
  BY <1>2
<1>3. j \in 1 .. Len(received[c])
  BY <1>1, <1>2
<1> PICK m : m = NextMessage(e)
  OBVIOUS
<1>4. m = received[c][j] /\ m \in Messages
  BY <1>1, <1>3, ElementOfSeq DEF NextMessage
<1>5. Serving!InLine(m, c, j)
  <2>1. \A s, t \in Seq(Messages) : IsAt(s, j, m) => IsAt(s \o t, j, m)
    BY AtConcatenated
  <2>2. IsAt(received[c], j, m)
    BY <1>3, <1>4 DEF IsAt
  <2>3. IsAt(received[c] \o queue[c], j, m)
    BY <1>1, <2>1, <2>2
  <2>4. QED
    BY <2>3 DEF IsAt, Serving!InLine, Serving!IsAt, Serving!Line
<1>6. To[m] = EndOf[c]
  BY <1>4, <1>5 DEF ServerSound, Serving!Delivery, Serving!Kept
<1>7. EndOf[c] = e
  BY ConnectionsNamed DEF Connection
<1>8. To[m] = IF m \in Answers THEN Child ELSE Parent
  BY <1>4, ConnectionsNamed
<1>9. Parent # Child
  BY DEF Parent, Child
<1>10. QED
  BY <1>3, <1>4, <1>6, <1>7, <1>8, <1>9 DEF Messages

LEMMA InitEnds == Init => TypeOK /\ EndTypes
<1> SUFFICES ASSUME Init
             PROVE  TypeOK /\ EndTypes
  OBVIOUS
<1>1. QED
  BY HandshakeAssumption DEF Init, TypeOK, EndTypes, End

\* A step that is not one of the ends leaves them typed.
LEMMA EndsStay ==
    ASSUME Attempts, ServerSound, TypeOK, EndTypes, [Next]_vars,
           UNCHANGED <<attempt, handled, remote, reachable, misplaced>>,
           \A e \in End : phase'[e] \in {"dial", "open"} => phase[e] \in {"dial", "open"},
           phase' \in [End -> {"try", "dial", "open", "ended"}],
           fails' \in 0 .. MaxFails
    PROVE  (TypeOK /\ EndTypes)'
<1>1. [Serving!Next]_Serving!vars
  BY ServerStep
<1>2. ASSUME NEW e \in End, phase'[e] \in {"dial", "open"}
      PROVE  attempt'[e] > 0 /\ handled'[e] \in 0 .. Len(received'[Connection(e)'])
  <2>1. Connection(e) \in Connections /\ Connection(e)' = Connection(e)
    BY <1>2, AttemptConnects DEF Connection
  <2>2. handled[e] \in 0 .. Len(received[Connection(e)]) /\ attempt[e] > 0
    BY <1>2 DEF TypeOK
  <2>3. /\ Len(received[Connection(e)]) \in Nat /\ Len(received'[Connection(e)]) \in Nat
        /\ Len(received[Connection(e)]) <= Len(received'[Connection(e)])
    BY <1>1, <2>1, ReceivedGrows
  <2>4. handled'[e] = handled[e] /\ attempt'[e] = attempt[e]
    OBVIOUS
  <2>5. handled[e] \in 0 .. Len(received'[Connection(e)])
    BY <2>2, <2>3
  <2>6. QED
    BY <2>1, <2>2, <2>4, <2>5
<1>3. QED
  BY <1>2 DEF TypeOK, EndTypes

LEMMA StepEnds ==
    Attempts /\ ServerSound /\ TypeOK /\ EndTypes /\ [Next]_vars => (TypeOK /\ EndTypes)'
<1> SUFFICES ASSUME Attempts, ServerSound, TypeOK, EndTypes, [Next]_vars
             PROVE  (TypeOK /\ EndTypes)'
  OBVIOUS
<1>0. /\ phase \in [End -> {"try", "dial", "open", "ended"}]
      /\ phase' \in [End -> {"try", "dial", "open", "ended"}]
      /\ attempt \in [End -> 0 .. DialAttempts] /\ attempt' \in [End -> 0 .. DialAttempts]
      /\ \A e \in End : phase'[e] \in {"dial", "open"} => attempt'[e] > 0
  BY StepAttempts DEF Attempts
<1>1. CASE UNCHANGED ends
  BY <1>0, <1>1, EndsStay DEF ends, TypeOK
<1>2. CASE Connect
  BY <1>0, <1>2, EndsStay DEF Connect, TypeOK
<1>3. ASSUME NEW e \in End, DialFails(e)
      PROVE  (TypeOK /\ EndTypes)'
  <2>1. fails' \in 0 .. MaxFails
    BY <1>3, HandshakeAssumption DEF DialFails, TypeOK
  <2>2. \A f \in End : phase'[f] \in {"dial", "open"} => phase[f] \in {"dial", "open"}
    BY <1>0, <1>3 DEF DialFails, EndAttempt
  <2>3. QED
    BY <1>0, <1>3, <2>1, <2>2, EndsStay DEF DialFails
<1>4. ASSUME NEW e \in End, Refuse(e)
      PROVE  (TypeOK /\ EndTypes)'
  <2>1. /\ misplaced' \subseteq Messages
        /\ UNCHANGED <<server, attempt, handled, remote, reachable, fails>>
    BY <1>4, NextIsForEnd DEF Refuse, TypeOK
  <2>2. \A f \in End : phase'[f] \in {"dial", "open"} => phase[f] \in {"dial", "open"}
    BY <1>0, <1>4 DEF Refuse, EndAttempt, HasNext
  <2>3. \A f \in End : Connection(f)' = Connection(f) /\ received' = received
    BY <2>1 DEF Connection, server
  <2>4. QED
    BY <1>0, <2>1, <2>2, <2>3 DEF TypeOK, EndTypes
<1>5. ASSUME NEW e \in End, Handle(e)
      PROVE  (TypeOK /\ EndTypes)'
  <2>1. /\ NextMessage(e) \in Messages
        /\ e = Parent => NextMessage(e) \in Offers \cup Candidates
        /\ e = Child => NextMessage(e) \in Answers
        /\ handled[e] + 1 \in 0 .. Len(received[Connection(e)])
    BY <1>5, NextIsForEnd DEF Handle
  <2>2. /\ misplaced' \subseteq Messages
        /\ handled' = [handled EXCEPT ![e] = @ + 1]
        /\ UNCHANGED <<server, phase, attempt, fails>>
    BY <1>5, <2>1 DEF Handle, TypeOK
  <2>3. \/ UNCHANGED <<remote, reachable>>
        \/ /\ NextMessage(e) \in Candidates
           /\ reachable' = reachable \cup {NextMessage(e)} /\ UNCHANGED remote
        \/ /\ NextMessage(e) \notin Candidates
           /\ remote' = [remote EXCEPT ![e] = NextMessage(e)] /\ UNCHANGED reachable
    BY <1>5 DEF Handle, Adopt
  <2>4. reachable' \subseteq Candidates
    BY <2>3 DEF TypeOK
  <2>5. /\ remote' \in [End -> Messages \cup {NoMessage}]
        /\ remote'[Parent] \in Offers \cup {NoMessage}
        /\ remote'[Child] \in Answers \cup {NoMessage}
    <3>1. e \in {Parent, Child} /\ Parent # Child /\ Parent \in End /\ Child \in End
      BY DEF End, Parent, Child
    <3>2. QED
      BY <2>1, <2>3, <3>1 DEF TypeOK, EndTypes
  <2>6. handled' \in [End -> Nat]
    BY <2>2 DEF EndTypes
  <2>7. \A f \in End : Connection(f)' = Connection(f) /\ received' = received
    BY <2>2 DEF Connection, server
  <2>8. ASSUME NEW f \in End, phase'[f] \in {"dial", "open"}
        PROVE  attempt'[f] > 0 /\ handled'[f] \in 0 .. Len(received'[Connection(f)'])
    BY <2>1, <2>2, <2>7, <2>8 DEF TypeOK, EndTypes
  <2>9. QED
    BY <1>0, <2>2, <2>4, <2>5, <2>6, <2>8 DEF TypeOK, EndTypes
<1>6. ASSUME NEW e \in End, Dial(e)
      PROVE  (TypeOK /\ EndTypes)'
  <2>1. /\ phase[e] = "try" /\ phase' = [phase EXCEPT ![e] = "dial"]
        /\ attempt' = [attempt EXCEPT ![e] = @ + 1]
        /\ handled' = [handled EXCEPT ![e] = 0]
        /\ remote' = [remote EXCEPT ![e] = NoMessage]
        /\ reachable' = IF e = Parent THEN {} ELSE reachable
        /\ received' = received
        /\ UNCHANGED <<fails, misplaced>>
    BY <1>6 DEF Dial, Server!Register
  <2>2. reachable' \subseteq Candidates
    BY <2>1 DEF TypeOK
  <2>3. /\ remote' \in [End -> Messages \cup {NoMessage}]
        /\ remote'[Parent] \in Offers \cup {NoMessage}
        /\ remote'[Child] \in Answers \cup {NoMessage}
    BY <2>1 DEF TypeOK, EndTypes, End
  <2>4. handled' \in [End -> Nat]
    BY <2>1 DEF EndTypes
  <2>5. ASSUME NEW f \in End, phase'[f] \in {"dial", "open"}
        PROVE  attempt'[f] > 0 /\ handled'[f] \in 0 .. Len(received'[Connection(f)'])
    <3>1. CASE f = e
      <4>1. Connection(e)' \in Connections
        BY <1>0, <2>1, AttemptConnects DEF Connection
      <4>2. Len(received[Connection(e)']) \in Nat
        BY <4>1, LenProperties DEF ServerSound, Serving!TypeOK
      <4>3. handled'[e] = 0
        BY <2>1 DEF EndTypes
      <4>4. QED
        BY <1>0, <2>1, <2>5, <3>1, <4>2, <4>3
    <3>2. CASE f # e
      <4>1. /\ phase[f] \in {"dial", "open"} /\ attempt'[f] = attempt[f]
            /\ handled'[f] = handled[f] /\ Connection(f)' = Connection(f)
        BY <1>0, <2>1, <2>5, <3>2 DEF EndTypes, Connection
      <4>2. QED
        BY <2>1, <4>1 DEF TypeOK
    <3>3. QED
      BY <3>1, <3>2
  <2>6. QED
    BY <1>0, <2>1, <2>2, <2>3, <2>4, <2>5 DEF TypeOK, EndTypes
<1>7. QED
  BY <1>1, <1>2, <1>3, <1>4, <1>5, <1>6 DEF Next, Act, Send, Serve, vars
-----------------------------------------------------------------------------
(* The entry of an end in the map of the clients. *)

\* The attempts begin one by one, and the connection of one that goes on is not
\* closed.  As long as that of the present attempt is registered, the entry of
\* its id is its own or is Forgotten; the first two attempts have different
\* generations, unless the second came after the first had been removed.
Begins(e) == \A k \in Attempt : pc[<<e, k>>] = "new" <=> k > attempt[e]
GoesOn(e) == phase[e] \in {"dial", "open"} => pc[Connection(e)] \in {"drain", "open", "buffer"}
Enters(e) ==
    attempt[e] > 0 /\ pc[Connection(e)] \in Server!Registered =>
       clients[e] = Connection(e) \/ Forgotten(e)
Differs(e) ==
    attempt[e] = 2 /\ pc[<<e, 1>>] \in Server!Registered =>
       generation[<<e, 1>>] # generation[<<e, 2>>]

EntryOf(e) == Begins(e) /\ GoesOn(e) /\ Enters(e) /\ Differs(e)
Entries == \A e \in End : EntryOf(e)

LEMMA InitEntries == Init => Entries
<1> SUFFICES ASSUME Init
             PROVE  Entries
  OBVIOUS
<1>1. \A e \in End : attempt[e] = 0 /\ phase[e] = "try"
  BY DEF Init
<1>2. \A e \in End, k \in Attempt : pc[<<e, k>>] = "new" /\ k > 0
  BY HandshakeAssumption DEF Init, Server!Init, Connections, Attempt
<1>3. QED
  BY <1>1, <1>2 DEF Entries, EntryOf, Begins, GoesOn, Enters, Differs

\* What is known of the server and the ends before a step.
Known == Attempts /\ ServerSound /\ Entries

\* The types, and an attempt that has begun is a connection.
Typing(e) ==
    /\ attempt[e] \in Nat
    /\ clients \in [End -> Connections \cup {NoConnection}]
    /\ pc \in [Connections -> Server!PCs]
    /\ generation \in [Connections -> Nat]
    /\ \A k : <<e, k>> \in Connections <=> k \in Attempt
    /\ \A k \in 1 .. attempt[e] : k \in Attempt
    /\ attempt[e] > 0 => attempt[e] \in Attempt /\ Connection(e) \in Connections

LEMMA Begun ==
    ASSUME Known, NEW e \in End
    PROVE  Typing(e)
<1>1. attempt[e] \in 0 .. DialAttempts /\ DialAttempts \in Nat
  BY HandshakeAssumption DEF Known, Attempts
<1>2. /\ clients \in [End -> Connections \cup {NoConnection}]
      /\ pc \in [Connections -> Server!PCs]
      /\ generation \in [Connections -> Nat]
  BY DEF Known, ServerSound, Serving!TypeOK, Serving!PCs, Server!PCs, Serving!Registered,
         Server!Registered
<1>3. \A k : <<e, k>> \in Connections <=> k \in Attempt
  BY DEF Connections
<1>4. QED
  BY <1>1, <1>2, <1>3 DEF Typing, Connection, Attempt

\* A step of a connection that stays registered and keeps the entries.
LEMMA EntriesStay ==
    ASSUME Known, UNCHANGED <<clients, generation, attempt>>,
           \A e \in End : phase'[e] \in {"dial", "open"} => phase[e] \in {"dial", "open"},
           \A c \in Connections :
              \/ pc'[c] = pc[c]
              \/ /\ pc[c] \in {"drain", "open", "buffer"}
                 /\ \/ pc'[c] \in {"drain", "open", "buffer"}
                    \/ pc'[c] = "closing" /\ Over(c)
                 /\ phase' = phase
    PROVE  Entries'
<1> SUFFICES ASSUME NEW e \in End
             PROVE  EntryOf(e)'
  BY DEF Entries
<1>0. Typing(e)
  BY Begun
<1> USE <1>0 DEF Typing
<1>1. \A c \in Connections :
        /\ pc'[c] = "new" <=> pc[c] = "new"
        /\ pc'[c] \in Server!Registered <=> pc[c] \in Server!Registered
        /\ pc[c] = "ended" => pc'[c] = "ended"
  BY DEF Server!Registered
<1>2. Begins(e)'
  BY <1>1 DEF Known, Entries, EntryOf, Begins
<1>3. ASSUME phase'[e] \in {"dial", "open"}
      PROVE  pc'[Connection(e)] \in {"drain", "open", "buffer"}
  <2>1. phase[e] \in {"dial", "open"} /\ attempt[e] > 0
    BY <1>3 DEF Known, Attempts
  <2>2. Connection(e) \in Connections /\ pc[Connection(e)] \in {"drain", "open", "buffer"}
    BY <2>1 DEF Known, Entries, EntryOf, GoesOn
  <2>3. ~Over(Connection(e))
    <3>1. Connection(e)[1] = e /\ Connection(e)[2] = attempt[e]
      BY DEF Connection
    <3>2. QED
      BY <2>1, <3>1 DEF Over
  <2>4. QED
    BY <2>2, <2>3
<1>4. Forgotten(e) => Forgotten(e)'
  BY <1>1 DEF Forgotten, Connection
<1>5. ASSUME attempt[e] > 0, pc'[Connection(e)] \in Server!Registered
      PROVE  clients[e] = Connection(e) \/ Forgotten(e)'
  BY <1>1, <1>4, <1>5 DEF Known, Entries, EntryOf, Enters
<1>6. ASSUME attempt[e] = 2, pc'[<<e, 1>>] \in Server!Registered
      PROVE  generation[<<e, 1>>] # generation[<<e, 2>>]
  <2>1. <<e, 1>> \in Connections
    BY <1>6
  <2>2. QED
    BY <1>1, <1>6, <2>1 DEF Known, Entries, EntryOf, Differs
<1>7. Connection(e)' = Connection(e)
  BY DEF Connection
<1>8. QED
  BY <1>2, <1>3, <1>5, <1>6, <1>7 DEF EntryOf, GoesOn, Enters, Differs

\* A step of one end leaves the entries of the other alone.
LEMMA OthersStay ==
    ASSUME Known, NEW e \in End,
           clients'[e] = clients[e], attempt'[e] = attempt[e], phase'[e] = phase[e],
           \A c \in Connections :
              c[1] = e => pc'[c] = pc[c] /\ generation'[c] = generation[c]
    PROVE  EntryOf(e)'
<1>0. Typing(e)
  BY Begun
<1> USE <1>0 DEF Typing
<1>1. Connection(e)' = Connection(e)
  BY DEF Connection
<1>2. \A k \in Attempt :
        /\ pc'[<<e, k>>] = pc[<<e, k>>]
        /\ generation'[<<e, k>>] = generation[<<e, k>>]
  OBVIOUS
<1>3. attempt[e] > 0 =>
        /\ pc'[Connection(e)] = pc[Connection(e)]
        /\ generation'[Connection(e)] = generation[Connection(e)]
  BY <1>2 DEF Connection
<1>4. Forgotten(e) => Forgotten(e)'
  BY <1>1, <1>2, <1>3 DEF Forgotten
<1>5. phase[e] \in {"dial", "open"} => attempt[e] > 0
  BY DEF Known, Attempts
<1>6. attempt[e] = 2 => 1 \in Attempt /\ 2 \in Attempt
  OBVIOUS
<1>7. QED
  BY <1>1, <1>2, <1>3, <1>4, <1>5, <1>6 DEF Known, Entries, EntryOf, Begins, GoesOn, Enters, Differs

\* The next attempt makes an entry of its own.
LEMMA DialEnters ==
    ASSUME Known, NEW e \in End, Dial(e)
    PROVE  Entries'
<1> DEFINE c == <<e, attempt[e] + 1>>
<1>0. Typing(e)
  BY Begun
<1> USE <1>0 DEF Typing
<1>1. /\ phase[e] = "try" /\ phase' = [phase EXCEPT ![e] = "dial"]
      /\ attempt' = [attempt EXCEPT ![e] = @ + 1]
      /\ pc' = [pc EXCEPT ![c] = "drain"]
      /\ generation' = [generation EXCEPT ![c] = Server!NextGeneration(EndOf[c])]
      /\ clients' = [clients EXCEPT ![EndOf[c]] = c]
  BY DEF Dial, Server!Register, Server!Goto
<1>2. c \in Connections /\ EndOf[c] = e /\ attempt[e] + 1 \in Attempt
  BY <1>1, AttemptConnects, ConnectionsNamed DEF Known, Connections
<1>3. /\ clients'[e] = c /\ pc'[c] = "drain" /\ phase'[e] = "dial"
      /\ attempt'[e] = attempt[e] + 1 /\ Connection(e)' = c
      /\ generation'[c] = Server!NextGeneration(e)
  BY <1>1, <1>2 DEF Known, Attempts, Connection
<1>4. Begins(e)'
  <2> SUFFICES ASSUME NEW k \in Attempt
               PROVE  pc'[<<e, k>>] = "new" <=> k > attempt[e] + 1
    BY <1>3 DEF Begins
  <2>1. k \in Nat
    BY DEF Attempt
  <2>2. CASE k = attempt[e] + 1
    BY <1>3, <2>2
  <2>3. CASE k # attempt[e] + 1
    <3>1. <<e, k>> # c /\ <<e, k>> \in Connections
      BY <2>3
    <3>2. pc'[<<e, k>>] = pc[<<e, k>>]
      BY <1>1, <3>1
    <3>3. pc[<<e, k>>] = "new" <=> k > attempt[e]
      BY DEF Known, Entries, EntryOf, Begins
    <3>4. QED
      BY <2>1, <2>3, <3>2, <3>3
  <2>4. QED
    BY <2>2, <2>3
<1>5. ASSUME attempt'[e] = 2, pc'[<<e, 1>>] \in Server!Registered
      PROVE  generation'[<<e, 1>>] # generation'[<<e, 2>>]
  <2>1. attempt[e] = 1 /\ c = <<e, 2>> /\ <<e, 1>> # c /\ Connection(e) = <<e, 1>>
    BY <1>3, <1>5 DEF Connection
  <2>2. <<e, 1>> \in Connections /\ pc'[<<e, 1>>] = pc[<<e, 1>>]
        /\ generation'[<<e, 1>>] = generation[<<e, 1>>]
    BY <1>1, <2>1
  <2>3. clients[e] = <<e, 1>>
    <3>1. attempt[e] > 0 /\ ~(attempt[e] > 2) /\ pc[Connection(e)] \in Server!Registered
      BY <1>5, <2>1, <2>2
    <3>2. QED
      BY <2>1, <3>1 DEF Known, Entries, EntryOf, Enters, Forgotten
  <2>4. <<e, 1>> # NoConnection
    BY DEF NoConnection
  <2>5. generation'[c] = generation[<<e, 1>>] + 1 /\ generation[<<e, 1>>] \in Nat
    BY <1>3, <2>2, <2>3, <2>4 DEF Server!NextGeneration
  <2>6. QED
    BY <2>1, <2>2, <2>5
<1>6. \A f \in End : f # e =>
        /\ clients'[f] = clients[f] /\ attempt'[f] = attempt[f] /\ phase'[f] = phase[f]
        /\ \A d \in Connections : d[1] = f => pc'[d] = pc[d] /\ generation'[d] = generation[d]
  BY <1>1, <1>2 DEF Known, Attempts
<1>7. EntryOf(e)'
  BY <1>3, <1>4, <1>5 DEF EntryOf, GoesOn, Enters, Differs
<1>8. \A f \in End : f # e => EntryOf(f)'
  BY <1>6, OthersStay
<1>9. QED
  BY <1>7, <1>8 DEF Entries

\* The end of a connection takes the entry of its id away only if it is its own,
\* or that of an attempt after the second that has its generation.
LEMMA UnregisterForgets ==
    ASSUME Known, NEW c \in Connections, Server!Unregister(c), UNCHANGED <<phase, attempt>>
    PROVE  Entries'
<1> PICK e \in End, k \in Attempt : c = <<e, k>>
  BY DEF Connections
<1>0. Typing(e)
  BY Begun
<1> USE <1>0 DEF Typing
<1>1. /\ pc[c] = "closing" /\ pc' = [pc EXCEPT ![c] = "ended"]
      /\ clients' = IF Server!IsMine(c) THEN [clients EXCEPT ![e] = NoConnection] ELSE clients
      /\ generation' = generation
  <2>1. EndOf[c] = e /\ Server!SelfNode(c) = NoNode
    BY ConnectionsNamed DEF Server!SelfNode
  <2>2. QED
    BY <2>1 DEF Server!Unregister, Server!Goto
<1>2. k \in Nat /\ k > 0 /\ k <= attempt[e]
  <2>1. k \in Nat /\ k > 0
    BY DEF Attempt
  <2>2. ~(k > attempt[e])
    BY <1>1 DEF Known, Entries, EntryOf, Begins
  <2>3. QED
    BY <2>1, <2>2
<1>3. /\ \A d \in Connections : d # c => pc'[d] = pc[d]
      /\ pc'[c] = "ended"
      /\ Connection(e)' = Connection(e)
  BY <1>1 DEF Connection
<1>4. Begins(e)'
  BY <1>1, <1>3 DEF Known, Entries, EntryOf, Begins
<1>5. ASSUME phase[e] \in {"dial", "open"}
      PROVE  pc'[Connection(e)] \in {"drain", "open", "buffer"}
  <2>1. pc[Connection(e)] \in {"drain", "open", "buffer"} /\ Connection(e) \in Connections
    BY <1>5 DEF Known, Entries, EntryOf, GoesOn, Attempts
  <2>2. QED
    BY <1>1, <1>3, <2>1
<1>6. ASSUME attempt[e] > 0, pc'[Connection(e)] \in Server!Registered
      PROVE  clients'[e] = Connection(e) \/ Forgotten(e)'
  <2>1. /\ Connection(e) # c /\ k # attempt[e]
        /\ pc[Connection(e)] \in Server!Registered
    BY <1>3, <1>6 DEF Connection, Server!Registered
  <2>2. clients[e] = Connection(e) \/ Forgotten(e)
    BY <1>6, <2>1 DEF Known, Entries, EntryOf, Enters
  <2>3. CASE Forgotten(e)
    <3>1. clients[e] = NoConnection /\ clients' = clients
      BY <1>1, <2>3, ConnectionsNamed DEF Forgotten, Server!IsMine
    <3>2. QED
      BY <1>1, <1>3, <2>3, <3>1 DEF Forgotten
  <2>4. CASE clients[e] = Connection(e) /\ ~Server!IsMine(c)
    BY <1>1, <2>4
  <2>5. CASE clients[e] = Connection(e) /\ Server!IsMine(c)
    <3>1. clients'[e] = NoConnection /\ generation[c] = generation[Connection(e)]
      BY <1>1, <2>5, ConnectionsNamed DEF Server!IsMine
    <3>2. attempt[e] > 2
      <4>1. SUFFICES ASSUME attempt[e] = 2
                     PROVE  FALSE
        BY <1>2, <2>1
      <4>2. c = <<e, 1>> /\ Connection(e) = <<e, 2>>
        BY <1>2, <2>1, <4>1 DEF Connection
      <4>3. pc[<<e, 1>>] \in Server!Registered
        BY <1>1, <4>2 DEF Server!Registered
      <4>4. QED
        BY <3>1, <4>1, <4>2, <4>3 DEF Known, Entries, EntryOf, Differs
    <3>3. k \in 1 .. attempt[e] - 1
      BY <1>2, <2>1
    <3>4. QED
      BY <1>1, <1>3, <3>1, <3>2, <3>3 DEF Forgotten
  <2>6. QED
    BY <2>2, <2>3, <2>4, <2>5
<1>7. ASSUME attempt[e] = 2, pc'[<<e, 1>>] \in Server!Registered
      PROVE  generation[<<e, 1>>] # generation[<<e, 2>>]
  <2>1. <<e, 1>> \in Connections /\ <<e, 1>> # c
    BY <1>3, <1>7 DEF Server!Registered
  <2>2. QED
    BY <1>3, <1>7, <2>1 DEF Known, Entries, EntryOf, Differs
<1>8. \A f \in End : f # e =>
        /\ clients'[f] = clients[f]
        /\ \A d \in Connections : d[1] = f => pc'[d] = pc[d] /\ generation'[d] = generation[d]
  BY <1>1
<1>9. EntryOf(e)'
  BY <1>1, <1>3, <1>4, <1>5, <1>6, <1>7 DEF EntryOf, GoesOn, Enters, Differs
<1>10. \A f \in End : f # e => EntryOf(f)'
  BY <1>1, <1>8, OthersStay
<1>11. QED
  BY <1>9, <1>10 DEF Entries

LEMMA StepEntries == Known /\ [Next]_vars => Entries'
<1> SUFFICES ASSUME Known, [Next]_vars
             PROVE  Entries'
  OBVIOUS
<1>0. pc \in [Connections -> Server!PCs]
  BY Begun DEF Typing, End
<1>1. CASE UNCHANGED <<server, phase, attempt>>
  BY <1>1, EntriesStay DEF server
<1>2. ASSUME NEW e \in End, Dial(e)
      PROVE  Entries'
  BY <1>2, DialEnters
<1>3. ASSUME NEW e \in End, Refuse(e) \/ DialFails(e)
      PROVE  Entries'
  <2>1. /\ UNCHANGED <<server, attempt>>
        /\ \A f \in End : phase'[f] \in {"dial", "open"} => phase[f] \in {"dial", "open"}
    BY <1>3 DEF Refuse, DialFails, EndAttempt, Known, Attempts
  <2>2. QED
    BY <2>1, EntriesStay DEF server
<1>4. CASE Connect
  <2>1. UNCHANGED <<server, attempt>> /\ \A f \in End : phase[f] = "dial"
    BY <1>4 DEF Connect
  <2>2. QED
    BY <2>1, EntriesStay DEF server
<1>5. ASSUME NEW e \in End, Send(e)
      PROVE  Entries'
  <2>1. Connection(e) \in Connections /\ phase[e] = "dial" /\ UNCHANGED ends
    BY <1>5, AttemptConnects DEF Send, Known
  <2>2. pc[Connection(e)] = "open" /\ UNCHANGED <<clients, generation>>
    BY <1>5 DEF Send, Server!Relay, Server!TargetAbsent, Server!Sends, Server!maps
  <2>3. pc' = pc \/ pc' = [pc EXCEPT ![Connection(e)] = "buffer"]
    BY <1>5 DEF Send, Server!Relay, Server!TargetAbsent, Server!Goto
  <2>4. \A d \in Connections :
          \/ pc'[d] = pc[d]
          \/ /\ pc[d] \in {"drain", "open", "buffer"}
             /\ pc'[d] \in {"drain", "open", "buffer"}
    BY <1>0, <2>1, <2>2, <2>3
  <2>5. UNCHANGED <<phase, attempt>>
    BY <2>1 DEF ends
  <2>6. QED
    BY <2>2, <2>4, <2>5, EntriesStay
<1>6. ASSUME NEW c \in Connections, Serve(c)
      PROVE  Entries'
  <2>1. UNCHANGED <<phase, attempt>>
    BY <1>6 DEF Serve, ends
  <2>2. CASE Server!Unregister(c)
    BY <2>1, <2>2, UnregisterForgets
  <2>3. CASE ~Server!Unregister(c)
    <3>1. /\ UNCHANGED <<clients, generation>>
          /\ pc[c] \in {"drain", "open", "buffer"}
          /\ \/ pc' = pc
             \/ pc' = [pc EXCEPT ![c] = "open"]
             \/ pc' = [pc EXCEPT ![c] = "closing"] /\ Over(c)
      BY <1>6, <2>3 DEF Serve, Server!Drain, Server!Buffer, Server!Forward, Server!Close,
                        Server!Goto, Server!maps
    <3>2. \A d \in Connections :
            \/ pc'[d] = pc[d]
            \/ /\ pc[d] \in {"drain", "open", "buffer"}
               /\ \/ pc'[d] \in {"drain", "open", "buffer"}
                  \/ pc'[d] = "closing" /\ Over(d)
      BY <1>0, <3>1
    <3>3. QED
      BY <2>1, <3>1, <3>2, EntriesStay
  <2>4. QED
    BY <2>2, <2>3
<1>7. QED
  BY <1>1, <1>2, <1>3, <1>4, <1>5, <1>6 DEF Next, Act, Handle, vars, ends
-----------------------------------------------------------------------------
(* The channel. *)

\* What Proven assumes of its constants is what Packets assumes.
LEMMA SameBytes ==
    /\ Proven!PacketAssumption
    /\ Data!Null = Proven!Null /\ Data!Garbage = Proven!Garbage
    /\ Data!Byte = Proven!Byte
    /\ \A l : Data!Header(l) = Proven!Header(l)
    /\ \A b : Data!Parses(b) = Proven!Parses(b)
    /\ \A m : Data!Packet(m) = Proven!Packet(m)
  BY PacketAssumption
     DEF Proven!PacketAssumption, Proven!Byte, Byte, Data!Byte,
         Proven!Null, Null, Data!Null, Proven!Brace, Brace, Data!Brace,
         Proven!Garbage, Garbage, Data!Garbage, Data!Header, Proven!Header,
         Data!Parses, Proven!Parses, Data!Packet, Proven!Packet

LEMMA SameInit == Data!Init => Proven!Init
  BY DEF Data!Init, Proven!Init, Data!None, Proven!None

LEMMA SameStep == Data!Next => Proven!Next
<1> USE SameBytes
    DEF Data!sending, Proven!sending, Data!parser, Proven!parser,
        Data!receiving, Proven!receiving, Data!None, Proven!None
<1>1. ASSUME NEW m \in Message, Data!RosMessage(m)
      PROVE  Proven!RosMessage(m)
  BY <1>1 DEF Data!RosMessage, Proven!RosMessage, Data!Range, Proven!Range
<1>2. Data!Write => Proven!Write
  BY DEF Data!Write, Proven!Write
<1>3. Data!WriteForeign => Proven!WriteForeign
  BY DEF Data!WriteForeign, Proven!WriteForeign
<1>4. Data!WriterEnds => Proven!WriterEnds
  BY DEF Data!WriterEnds, Proven!WriterEnds
<1>5. Data!WriteFails => Proven!WriteFails
  BY DEF Data!WriteFails, Proven!WriteFails
<1>6. Data!Read => Proven!Read
  BY DEF Data!Read, Proven!Read
<1>7. Data!NullPos = Proven!NullPos
  BY DEF Data!NullPos, Proven!NullPos, Data!SelectInSeq, Proven!SelectInSeq, Data!Min, Proven!Min
<1>8. Data!AtHeader = Proven!AtHeader /\ Data!HeaderBytes = Proven!HeaderBytes
      /\ Data!DropHeader = Proven!DropHeader
  BY <1>7 DEF Data!AtHeader, Proven!AtHeader, Data!HeaderBytes, Proven!HeaderBytes,
              Data!DropHeader, Proven!DropHeader
<1>9. Data!TakeHeader => Proven!TakeHeader
  BY <1>8 DEF Data!TakeHeader, Proven!TakeHeader
<1>10. Data!BadHeader => Proven!BadHeader
  BY <1>8 DEF Data!BadHeader, Proven!BadHeader
<1>11. Data!TakePayload => Proven!TakePayload
  BY DEF Data!TakePayload, Proven!TakePayload
<1>12. Data!Incomplete => Proven!Incomplete
  BY <1>7 DEF Data!Incomplete, Proven!Incomplete
<1>13. Data!ForwardPackets => Proven!ForwardPackets
  BY DEF Data!ForwardPackets, Proven!ForwardPackets
<1>14. Data!ReaderEnds => Proven!ReaderEnds
  BY DEF Data!ReaderEnds, Proven!ReaderEnds
<1>15. Data!Publish => Proven!Publish
  BY DEF Data!Publish, Proven!Publish
<1>16. Data!SinkEnds => Proven!SinkEnds
  BY DEF Data!SinkEnds, Proven!SinkEnds
<1>17. QED
  BY <1>1, <1>2, <1>3, <1>4, <1>5, <1>6, <1>9, <1>10, <1>11, <1>12, <1>13, <1>14, <1>15, <1>16
     DEF Data!Next, Proven!Next, Data!Receive, Proven!Receive, Data!Feed, Proven!Feed,
         Data!Sink, Proven!Sink
-----------------------------------------------------------------------------
(* The theorems. *)

\* The invariant of both parts.
EdgeInv == Attempts /\ ServerSound /\ TypeOK /\ EndTypes /\ Entries /\ Proven!Inv

LEMMA EdgeInvHolds == EdgeSpec => []EdgeInv
<1>1. EdgeInit => EdgeInv
  <2>1. Data!Init => Proven!Inv
    BY SameInit, SameBytes, Proven!InitTyped, Proven!InitAligned DEF Proven!Inv
  <2>2. QED
    BY <2>1, InitAttempts, InitServerSound, InitEnds, InitEntries DEF EdgeInit, EdgeInv
<1>2. EdgeInv /\ [EdgeNext]_edgeVars => EdgeInv'
  <2> SUFFICES ASSUME EdgeInv, [EdgeNext]_edgeVars
               PROVE  EdgeInv'
    OBVIOUS
  <2>1. [Next]_vars
    BY DEF EdgeNext, edgeVars
  <2>2. (Attempts /\ ServerSound /\ TypeOK /\ EndTypes /\ Entries)'
    BY <2>1, StepAttempts, StepServerSound, StepEnds, StepEntries DEF EdgeInv, Known
  <2>3. [Proven!Next]_Proven!vars
    BY SameStep DEF EdgeNext, edgeVars, data, Proven!vars, Proven!sending, Proven!parser,
                    Proven!receiving
  <2>4. Proven!Inv'
    BY <2>3, SameBytes, Proven!InvKept DEF EdgeInv
  <2>5. QED
    BY <2>2, <2>4 DEF EdgeInv
<1>3. QED
  BY <1>1, <1>2, PTL DEF EdgeSpec

\* EdgeTypeOK: the attempts stay within MAX_RETRIES, each end is only given
\* messages that are meant for it, handles no more of them than it was sent, and
\* the state of the channel has its types.
THEOREM EdgeTypeCorrect == EdgeSpec => []EdgeTypeOK
<1>1. EdgeInv => EdgeTypeOK
  BY DEF EdgeInv, EdgeTypeOK, Proven!Inv, Proven!TypeOK, Data!TypeOK, Proven!None, Data!None
<1>2. QED
  BY <1>1, EdgeInvHolds, PTL

\* PresentAttemptRegistered, for any number of attempts and of failures: while an
\* end dials or is connected, the server has its present attempt for its id,
\* unless it is an attempt after the second whose generation an earlier one had.
THEOREM EdgeAttemptRegistered == EdgeSpec => []PresentAttemptRegistered
<1>1. EdgeInv => PresentAttemptRegistered
  BY DEF EdgeInv, Attempts, Entries, EntryOf, GoesOn, Enters, PresentAttemptRegistered,
         Server!Registered
<1>2. QED
  BY <1>1, EdgeInvHolds, PTL

\* InOrder, of a channel that the handshake opens: what comes out of the parser
\* is what was sent, for any messages, payloads and pieces of the stream.
THEOREM EdgeInOrder == EdgeSpec => []InOrder
<1>1. Proven!Inv => Proven!InOrder
  BY SameBytes, Proven!PrefixParsed
<1>2. Proven!InOrder => InOrder
  BY DEF InOrder, Data!InOrder, Proven!InOrder, Data!Parsed, Proven!Parsed,
         Data!IsPrefix, Proven!IsPrefix
<1>3. EdgeInv => InOrder
  BY <1>1, <1>2 DEF EdgeInv
<1>4. QED
  BY <1>3, EdgeInvHolds, PTL
=============================================================================
