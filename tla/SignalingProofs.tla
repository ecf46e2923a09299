-------------------------- MODULE SignalingProofs ---------------------------
(***************************************************************************)
(* Theorems about Signaling: its state is well typed, and the map of the   *)
(* clients never holds an entry whose connection has been unregistered,    *)
(* for any number of connections, ids and messages.                        *)
(***************************************************************************)
EXTENDS Signaling, SequenceLemmas, FiniteSetTheorems, TLAPS

\* The three parts of the invariant hold at first.
LEMMA InitHolds == Init => TypeOK /\ OnlyNodesAreCleaned /\ NoGhost
  BY IdAssumption DEF Init, TypeOK, PCs, Registered, OnlyNodesAreCleaned, NoGhost

\* Every step keeps the types; the clean-up needs a node to clean.
LEMMA StepTyped == TypeOK /\ OnlyNodesAreCleaned /\ [Next]_vars => TypeOK'
<1> SUFFICES ASSUME TypeOK, OnlyNodesAreCleaned, [Next]_vars
             PROVE  TypeOK'
  OBVIOUS
<1> USE IdAssumption DEF TypeOK, Goto, PCs, Registered
<1>1. CASE UNCHANGED vars
  BY <1>1 DEF vars, maps
<1>2. ASSUME NEW k \in Conn, Register(k)
      PROVE  TypeOK'
  BY <1>2 DEF Register, NextGeneration
<1>3. ASSUME NEW k \in Conn, Drain(k)
      PROVE  TypeOK'
  <2>1. /\ IdOf[k] \in Id
        /\ pending[IdOf[k]] \in Seq(Message)
        /\ queue[k] \in Seq(Message)
    OBVIOUS
  <2>2. queue[k] \o pending[IdOf[k]] \in Seq(Message)
    BY <2>1
  <2>3. queue' \in [Conn -> Seq(Message)] /\ pending' \in [Id -> Seq(Message)]
    BY <1>3, <2>1, <2>2 DEF Drain
  <2>4. QED
    BY <1>3, <2>3 DEF Drain
<1>4. ASSUME NEW k \in Conn, NEW m \in Message, Relay(k, m)
      PROVE  TypeOK'
  <2>1. clients[To[m]] \in Conn
    BY <1>4 DEF Relay
  <2>2. queue' \in [Conn -> Seq(Message)]
    BY <1>4, <2>1 DEF Relay
  <2>3. QED
    BY <1>4, <2>2 DEF Relay, Sends, maps
<1>5. ASSUME NEW k \in Conn, NEW m \in Message, TargetAbsent(k, m)
      PROVE  TypeOK'
  BY <1>5 DEF TargetAbsent, Sends, maps
<1>6. ASSUME NEW k \in Conn, Buffer(k)
      PROVE  TypeOK'
  <2>1. PICK m \in buffering[k] : pending' = [pending EXCEPT ![To[m]] = Append(@, m)]
    BY <1>6 DEF Buffer
  <2>2. m \in Message /\ To[m] \in Id
    BY <2>1
  <2>3. pending' \in [Id -> Seq(Message)]
    BY <2>1, <2>2
  <2>4. QED
    BY <1>6, <2>3 DEF Buffer
<1>7. ASSUME NEW k \in Conn, Forward(k)
      PROVE  TypeOK'
  <2>1. queue[k] \in Seq(Message) /\ queue[k] # <<>> /\ received[k] \in Seq(Message)
    BY <1>7 DEF Forward
  <2>2. Head(queue[k]) \in Message /\ Tail(queue[k]) \in Seq(Message)
    BY <2>1
  <2>3. Append(received[k], Head(queue[k])) \in Seq(Message)
    BY <2>1, <2>2
  <2>4. queue' \in [Conn -> Seq(Message)] /\ received' \in [Conn -> Seq(Message)]
    BY <1>7, <2>2, <2>3 DEF Forward
  <2>5. QED
    BY <1>7, <2>4 DEF Forward, maps
<1>8. ASSUME NEW k \in Conn, Close(k)
      PROVE  TypeOK'
  BY <1>8 DEF Close, maps
<1>9. ASSUME NEW k \in Conn, Unregister(k)
      PROVE  TypeOK'
  BY <1>9 DEF Unregister
<1>10. ASSUME NEW k \in Conn, Debounced(k)
       PROVE  TypeOK'
  BY <1>10 DEF Debounced, maps
<1>11. ASSUME NEW k \in Conn, CleanUp(k)
       PROVE  TypeOK'
  <2>1. SelfNode(k) \in Node
    BY <1>11 DEF CleanUp, SelfNode, Node, OnlyNodesAreCleaned
  <2>2. QED
    BY <1>11, <2>1 DEF CleanUp, maps
<1>12. QED
  BY <1>1, <1>2, <1>3, <1>4, <1>5, <1>6, <1>7, <1>8, <1>9, <1>10, <1>11
     DEF Next, Task, Client

\* Only Unregister and Debounced lead to the clean-up, from ids with a node.
LEMMA StepCleansNodes ==
    TypeOK /\ OnlyNodesAreCleaned /\ [Next]_vars => OnlyNodesAreCleaned'
<1> SUFFICES ASSUME TypeOK, OnlyNodesAreCleaned, [Next]_vars, NEW c \in Conn,
                    pc'[c] \in {"debounce", "clean"}
             PROVE  SelfNode(c) # NoNode
  BY DEF OnlyNodesAreCleaned, SelfNode
<1>1. CASE pc'[c] = pc[c]
  BY <1>1 DEF OnlyNodesAreCleaned
<1>2. CASE pc'[c] # pc[c]
  <2>1. \/ Unregister(c)
        \/ Debounced(c)
    <3>1. PICK k \in Conn : Task(k) \/ Client(k)
      BY <1>2 DEF Next, vars
    <3>2. pc' = [pc EXCEPT ![k] = pc'[k]]
      BY <1>2, <3>1
         DEF Task, Client, TypeOK, Goto, Register, Drain, Relay, TargetAbsent, Buffer,
             Forward, Close, Unregister, Debounced, CleanUp
    <3>3. k = c
      BY <1>2, <3>2 DEF TypeOK
    <3>4. QED
      BY <1>2, <3>1, <3>3
         DEF Task, Client, TypeOK, Goto, Register, Drain, Relay, TargetAbsent, Buffer,
             Forward, Close, CleanUp
  <2>2. CASE Unregister(c)
    BY <2>2 DEF Unregister, Goto, TypeOK
  <2>3. CASE Debounced(c)
    BY <2>3 DEF Debounced, OnlyNodesAreCleaned
  <2>4. QED
    BY <2>1, <2>2, <2>3
<1>3. QED
  BY <1>1, <1>2

\* A connection leaves Registered only by Unregister, which removes its entry:
\* an entry of its own has its own generation.
LEMMA StepNoGhost == TypeOK /\ NoGhost /\ [Next]_vars => NoGhost'
<1> SUFFICES ASSUME TypeOK, NoGhost, [Next]_vars, NEW i \in Id, clients'[i] # None
             PROVE  IdOf[clients'[i]] = i /\ pc'[clients'[i]] \in Registered
  BY DEF NoGhost
<1>1. CASE \E k \in Conn : Register(k) /\ clients'[i] = k
  BY <1>1, IdAssumption DEF Register, Goto, TypeOK, Registered, NoGhost
<1>2. CASE clients'[i] = clients[i]
  <2> DEFINE k == clients[i]
  <2>1. k \in Conn /\ IdOf[k] = i /\ pc[k] \in Registered
    BY <1>2 DEF NoGhost, TypeOK
  <2>2. ~Unregister(k)
    BY <1>2, <2>1, IdAssumption DEF Unregister, IsMine, TypeOK
  <2>3. CASE pc'[k] = pc[k]
    BY <1>2, <2>1, <2>3
  <2>4. CASE pc'[k] # pc[k]
    <3>1. PICK c \in Conn : Task(c) \/ Client(c)
      BY <2>4 DEF Next, vars
    <3>2. \E x \in PCs : pc' = [pc EXCEPT ![c] = x]
      BY <3>1
         DEF Task, Client, Goto, Register, Drain, Relay, TargetAbsent, Buffer, Forward, Close,
             Unregister, Debounced, CleanUp, TypeOK, PCs, Registered
    <3>3. c = k
      BY <2>1, <2>4, <3>2 DEF TypeOK
    <3>4. \/ Drain(k) \/ Buffer(k) \/ Forward(k) \/ Debounced(k) \/ CleanUp(k) \/ Register(k)
          \/ Close(k) \/ \E m \in Message : Relay(k, m) \/ TargetAbsent(k, m)
      BY <2>2, <3>1, <3>3 DEF Task, Client
    <3>5. pc[k] \in PCs /\ pc'[k] \in Registered
      BY <2>1, <3>4
         DEF Goto, Register, Drain, Relay, TargetAbsent, Buffer, Forward, Close, Debounced,
             CleanUp, TypeOK, PCs, Registered
    <3>6. QED
      BY <1>2, <2>1, <3>5
  <2>5. QED
    BY <2>3, <2>4
<1>3. clients'[i] = clients[i] \/ \E k \in Conn : Register(k) /\ clients'[i] = k
  BY DEF Next, vars, maps, Task, Client, TypeOK, Register, Drain, Relay,
         TargetAbsent, Buffer, Forward, Close, Unregister, Debounced, CleanUp
<1>4. QED
  BY <1>1, <1>2, <1>3

-----------------------------------------------------------------------------
(* Every message that was sent is at one place. *)

\* Message m is with the relay of connection k, is number j of those that wait
\* for id i, or number j on the line of connection k.
InRelay(m, k) == m \in buffering[k]
InPending(m, i, j) == IsAt(pending[i], j, m)
InLine(m, k, j) == IsAt(Line(k), j, m)

Somewhere(m) ==
    \/ \E k \in Conn : InRelay(m, k)
    \/ \E i \in Id, j \in Nat : InPending(m, i, j)
    \/ \E k \in Conn, j \in Nat : InLine(m, k, j)

AtOnePlace(m) ==
    /\ \A k, l \in Conn : InRelay(m, k) /\ InRelay(m, l) => k = l
    /\ \A i, h \in Id, j, g \in Nat : InPending(m, i, j) /\ InPending(m, h, g) => i = h /\ j = g
    /\ \A k, l \in Conn, j, g \in Nat : InLine(m, k, j) /\ InLine(m, l, g) => k = l /\ j = g
    /\ \A k \in Conn, i \in Id, j \in Nat : ~(InRelay(m, k) /\ InPending(m, i, j))
    /\ \A k, l \in Conn, j \in Nat : ~(InRelay(m, k) /\ InLine(m, l, j))
    /\ \A i \in Id, k \in Conn, j, g \in Nat : ~(InPending(m, i, j) /\ InLine(m, k, g))

\* A message is somewhere once it was sent, at one place, and there for the id
\* that it names.
Kept(m) ==
    /\ m \in sent <=> Somewhere(m)
    /\ AtOnePlace(m)
    /\ \A i \in Id, j \in Nat : InPending(m, i, j) => To[m] = i
    /\ \A k \in Conn, j \in Nat : InLine(m, k, j) => To[m] = IdOf[k]

\* A task has a message between the two locks, and one only.
OneRelayed ==
    \A k \in Conn : IF pc[k] = "buffer" THEN \E m \in Message : buffering[k] = {m}
                                        ELSE buffering[k] = {}

Delivery == OneRelayed /\ \A m \in Message : Kept(m)

\* A line is a sequence of messages.
LEMMA LineType ==
    ASSUME TypeOK, NEW k \in Conn
    PROVE  /\ Line(k) \in Seq(Message)
           /\ received[k] \in Seq(Message) /\ queue[k] \in Seq(Message)
  BY ConcatProperties DEF TypeOK, Line

\* Nothing is anywhere at first.
LEMMA InitDelivers == Init => Delivery
<1> SUFFICES ASSUME Init
             PROVE  Delivery
  OBVIOUS
<1>1. \A k \in Conn : Line(k) = <<>> /\ buffering[k] = {} /\ pc[k] = "new"
  BY DEF Init, Line
<1>2. \A i \in Id : pending[i] = <<>>
  BY DEF Init
<1>3. \A j, e : ~IsAt(<<>>, j, e)
  BY DEF IsAt
<1>4. sent = {}
  BY DEF Init
<1>5. ASSUME NEW m \in Message
      PROVE  Kept(m)
  BY <1>1, <1>2, <1>3, <1>4 DEF Kept, Somewhere, AtOnePlace, InRelay, InPending, InLine
<1>6. QED
  BY <1>1, <1>5 DEF Delivery, OneRelayed

\* A step that moves no message.
LEMMA NothingMoves ==
    ASSUME Delivery, UNCHANGED <<sent, pending, buffering>>,
           \A k \in Conn : Line(k)' = Line(k),
           \A k \in Conn : pc'[k] = "buffer" <=> pc[k] = "buffer"
    PROVE  Delivery'
<1>1. \A m, k : InRelay(m, k)' <=> InRelay(m, k)
  BY DEF InRelay
<1>2. \A m, i, j : InPending(m, i, j)' <=> InPending(m, i, j)
  BY DEF InPending, IsAt
<1>3. \A m, j : \A k \in Conn : InLine(m, k, j)' <=> InLine(m, k, j)
  BY DEF InLine, IsAt
<1>4. ASSUME NEW m \in Message
      PROVE  Kept(m)'
  <2>1. Kept(m)
    BY DEF Delivery
  <2>2. Somewhere(m)' <=> Somewhere(m)
    BY <1>1, <1>2, <1>3 DEF Somewhere
  <2>3. AtOnePlace(m)' <=> AtOnePlace(m)
    BY <1>1, <1>2, <1>3 DEF AtOnePlace
  <2>4. QED
    BY <1>2, <1>3, <2>1, <2>2, <2>3 DEF Kept
<1>5. OneRelayed'
  BY DEF Delivery, OneRelayed
<1>6. QED
  BY <1>4, <1>5 DEF Delivery

\* The messages that waited go to the end of the line of their client.
LEMMA DrainDelivers ==
    ASSUME TypeOK, Delivery, NEW k \in Conn, Drain(k)
    PROVE  Delivery'
<1>1. /\ IdOf[k] \in Id
      /\ pc[k] = "drain" /\ pc' = [pc EXCEPT ![k] = "open"]
      /\ queue' = [queue EXCEPT ![k] = @ \o pending[IdOf[k]]]
      /\ pending' = [pending EXCEPT ![IdOf[k]] = <<>>]
      /\ UNCHANGED <<received, buffering, sent>>
  BY IdAssumption DEF Drain, Goto
<1> PICK i \in Id : i = IdOf[k]
  BY <1>1
<1>2. /\ Line(k) \in Seq(Message) /\ pending[i] \in Seq(Message)
      /\ received[k] \in Seq(Message) /\ queue[k] \in Seq(Message)
  BY <1>1, LineType DEF TypeOK
<1>3. Line(k)' = Line(k) \o pending[i]
  <2>1. received[k] \o (queue[k] \o pending[i]) = (received[k] \o queue[k]) \o pending[i]
    <3>1. \A s, t, u \in Seq(Message) : s \o (t \o u) = (s \o t) \o u
      BY Regrouped
    <3>2. QED
      BY ONLY <1>2, <3>1
  <2>2. received'[k] = received[k] /\ queue'[k] = queue[k] \o pending[i]
    BY <1>1 DEF TypeOK
  <2>3. QED
    BY <2>1, <2>2 DEF Line
<1>4. \A c \in Conn : c # k => Line(c)' = Line(c)
  BY <1>1 DEF Line, TypeOK
<1>5. pending'[i] = <<>> /\ \A h \in Id : h # i => pending'[h] = pending[h]
  BY <1>1 DEF TypeOK
<1>6. Len(Line(k)) \in Nat
  BY <1>2, LenProperties
<1> PICK n \in Nat : n = Len(Line(k))
  BY <1>6
<1>7. ASSUME NEW m, NEW j \in Nat
      PROVE  /\ InLine(m, k, j) => InLine(m, k, j)'
             /\ InPending(m, i, j) => InLine(m, k, n + j)'
             /\ InLine(m, k, j)' =>
                   InLine(m, k, j) \/ \E g \in Nat : j = n + g /\ InPending(m, i, g)
  <2>1. /\ IsAt(Line(k), j, m) => IsAt(Line(k) \o pending[i], j, m)
        /\ IsAt(pending[i], j, m) => IsAt(Line(k) \o pending[i], n + j, m)
        /\ IsAt(Line(k) \o pending[i], j, m) =>
              IsAt(Line(k), j, m) \/ \E g \in Nat : j = n + g /\ IsAt(pending[i], g, m)
    BY ONLY <1>2, AtConcatenated, n = Len(Line(k)), j \in Nat
  <2>2. \A x : InLine(m, k, x)' <=> IsAt(Line(k) \o pending[i], x, m)
    BY <1>3 DEF InLine, IsAt
  <2>3. QED
    BY ONLY <2>1, <2>2 DEF InLine, InPending
<1>8. \A m, j : \A c \in Conn : c # k => (InLine(m, c, j)' <=> InLine(m, c, j))
  BY <1>4 DEF InLine, IsAt
<1>9. \A m, j : /\ ~InPending(m, i, j)'
                /\ \A h \in Id : h # i => (InPending(m, h, j)' <=> InPending(m, h, j))
  BY <1>5 DEF InPending, IsAt
<1>10. \A m, c : InRelay(m, c)' <=> InRelay(m, c)
  BY <1>1 DEF InRelay
<1>11. ASSUME NEW m \in Message
       PROVE  Kept(m)'
  <2>1. Kept(m)
    BY DEF Delivery
  <2>2. AtOnePlace(m)
    BY <2>1 DEF Kept
  <2>3. ASSUME NEW c \in Conn, NEW d \in Conn, NEW j \in Nat, NEW g \in Nat,
               InLine(m, c, j)', InLine(m, d, g)'
        PROVE  c = d /\ j = g
    BY <1>6, <1>7, <1>8, <2>2, <2>3 DEF AtOnePlace
  <2>4. ASSUME NEW h \in Id, NEW c \in Conn, NEW j \in Nat, NEW g \in Nat,
               InPending(m, h, j)', InLine(m, c, g)'
        PROVE  FALSE
    BY <1>7, <1>8, <1>9, <2>2, <2>4 DEF AtOnePlace
  <2>5. ASSUME NEW c \in Conn, NEW d \in Conn, NEW j \in Nat,
               InRelay(m, c)', InLine(m, d, j)'
        PROVE  FALSE
    BY <1>7, <1>8, <1>10, <2>2, <2>5 DEF AtOnePlace
  <2>6. AtOnePlace(m)'
    BY <1>9, <1>10, <2>2, <2>3, <2>4, <2>5 DEF AtOnePlace
  <2>7. Somewhere(m)' <=> Somewhere(m)
    <3>1. ASSUME Somewhere(m)
          PROVE  Somewhere(m)'
      <4>1. CASE \E j \in Nat : InPending(m, i, j)
        <5>1. PICK j \in Nat : InPending(m, i, j)
          BY <4>1
        <5>2. n + j \in Nat /\ InLine(m, k, n + j)'
          BY <1>6, <1>7, <5>1
        <5>3. QED
          BY <5>2 DEF Somewhere
      <4>2. CASE ~\E j \in Nat : InPending(m, i, j)
        BY <1>7, <1>8, <1>9, <1>10, <3>1, <4>2 DEF Somewhere
      <4>3. QED
        BY <4>1, <4>2
    <3>2. ASSUME Somewhere(m)'
          PROVE  Somewhere(m)
      BY <1>7, <1>8, <1>9, <1>10, <3>2 DEF Somewhere
    <3>3. QED
      BY <3>1, <3>2
  <2>8. \A h \in Id, j \in Nat : InPending(m, h, j)' => To[m] = h
    BY <1>9, <2>1 DEF Kept
  <2>9. \A c \in Conn, j \in Nat : InLine(m, c, j)' => To[m] = IdOf[c]
    BY <1>7, <1>8, <2>1 DEF Kept
  <2>10. m \in sent' <=> m \in sent
    BY <1>1
  <2>11. QED
    BY <2>1, <2>6, <2>7, <2>8, <2>9, <2>10 DEF Kept
<1>12. OneRelayed'
  BY <1>1 DEF Delivery, OneRelayed, TypeOK
<1>13. QED
  BY <1>11, <1>12 DEF Delivery

\* A message goes to the end of the line of the client that it names.
LEMMA RelayDelivers ==
    ASSUME TypeOK, NoGhost, Delivery, NEW k \in Conn, NEW x \in Message, Relay(k, x)
    PROVE  Delivery'
<1>1. /\ x \notin sent /\ sent' = sent \cup {x}
      /\ clients[To[x]] # None
      /\ queue' = [queue EXCEPT ![clients[To[x]]] = Append(@, x)]
      /\ UNCHANGED <<pending, received, pc, buffering>>
  BY DEF Relay, Sends, maps
<1> To[x] \in Id
  BY IdAssumption
<1>2. clients[To[x]] \in Conn /\ IdOf[clients[To[x]]] = To[x]
  BY <1>1 DEF TypeOK, NoGhost
<1> PICK c \in Conn : c = clients[To[x]]
  BY <1>2
<1>3. received[c] \in Seq(Message) /\ queue[c] \in Seq(Message) /\ Line(c) \in Seq(Message)
  BY LineType
<1>4. Line(c)' = Append(Line(c), x)
  <2>1. queue'[c] = Append(queue[c], x)
    BY <1>1 DEF TypeOK
  <2>2. \A s, t \in Seq(Message) : s \o Append(t, x) = Append(s \o t, x)
    BY AppendAtEnd
  <2>3. received[c] \o Append(queue[c], x) = Append(received[c] \o queue[c], x)
    BY ONLY <1>3, <2>2
  <2>4. QED
    BY <1>1, <2>1, <2>3 DEF Line
<1>5. \A l \in Conn : l # c => Line(l)' = Line(l)
  BY <1>1 DEF Line, TypeOK
<1>6. Len(Line(c)) + 1 \in Nat
  BY <1>3, LenProperties
<1> PICK n \in Nat : n = Len(Line(c)) + 1
  BY <1>6
<1>7. ASSUME NEW m, NEW j \in Nat
      PROVE  InLine(m, c, j)' <=> InLine(m, c, j) \/ (j = n /\ m = x)
  <2>1. IsAt(Append(Line(c), x), j, m) <=> IsAt(Line(c), j, m) \/ (j = n /\ m = x)
    BY ONLY <1>3, AtAppended, n = Len(Line(c)) + 1, j \in Nat, x \in Message
  <2>2. InLine(m, c, j)' <=> IsAt(Append(Line(c), x), j, m)
    BY <1>4 DEF InLine, IsAt
  <2>3. QED
    BY ONLY <2>1, <2>2 DEF InLine
<1>8. \A m, j : \A l \in Conn : l # c => (InLine(m, l, j)' <=> InLine(m, l, j))
  BY <1>5 DEF InLine, IsAt
<1>9. /\ \A m, i, j : InPending(m, i, j)' <=> InPending(m, i, j)
      /\ \A m, l : InRelay(m, l)' <=> InRelay(m, l)
  BY <1>1 DEF InPending, IsAt, InRelay
<1>10. ASSUME NEW m \in Message
       PROVE  Kept(m)'
  <2>1. Kept(m)
    BY DEF Delivery
  <2>2. CASE m = x
    <3>1. ~Somewhere(m)
      BY <1>1, <2>1, <2>2 DEF Kept
    <3>2. AtOnePlace(m)'
      BY <1>7, <1>8, <1>9, <3>1 DEF AtOnePlace, Somewhere
    <3>3. InLine(m, c, n)'
      BY <1>7, <2>2
    <3>4. Somewhere(m)' /\ m \in sent'
      BY <1>1, <2>2, <3>3 DEF Somewhere
    <3>5. \A i \in Id, j \in Nat : ~InPending(m, i, j)'
      BY <1>9, <3>1 DEF Somewhere
    <3>6. \A l \in Conn, j \in Nat : InLine(m, l, j)' => l = c
      BY <1>8, <3>1 DEF Somewhere
    <3>7. QED
      BY <1>2, <2>2, <3>2, <3>4, <3>5, <3>6 DEF Kept
  <2>3. CASE m # x
    <3>1. \A j \in Nat : \A l \in Conn : InLine(m, l, j)' <=> InLine(m, l, j)
      BY <1>7, <1>8, <2>3
    <3>2. Somewhere(m)' <=> Somewhere(m)
      BY <1>9, <3>1 DEF Somewhere
    <3>3. AtOnePlace(m)' <=> AtOnePlace(m)
      BY <1>9, <3>1 DEF AtOnePlace
    <3>4. m \in sent' <=> m \in sent
      BY <1>1, <2>3
    <3>5. QED
      BY <1>9, <2>1, <3>1, <3>2, <3>3, <3>4 DEF Kept
  <2>4. QED
    BY <2>2, <2>3
<1>11. OneRelayed'
  BY <1>1 DEF Delivery, OneRelayed
<1>12. QED
  BY <1>10, <1>11 DEF Delivery

\* A message stays with the relay for a moment.
LEMMA AbsentDelivers ==
    ASSUME TypeOK, Delivery, NEW k \in Conn, NEW x \in Message, TargetAbsent(k, x)
    PROVE  Delivery'
<1>1. /\ x \notin sent /\ sent' = sent \cup {x}
      /\ pc[k] = "open" /\ pc' = [pc EXCEPT ![k] = "buffer"]
      /\ buffering' = [buffering EXCEPT ![k] = {x}]
      /\ UNCHANGED <<pending, received, queue>>
  BY DEF TargetAbsent, Sends, Goto, maps
<1>2. buffering[k] = {}
  BY <1>1 DEF Delivery, OneRelayed
<1>3. \A m : \A l \in Conn : InRelay(m, l)' <=> InRelay(m, l) \/ (m = x /\ l = k)
  BY <1>1, <1>2 DEF InRelay, TypeOK
<1>4. /\ \A m, i, j : InPending(m, i, j)' <=> InPending(m, i, j)
      /\ \A m, l, j : InLine(m, l, j)' <=> InLine(m, l, j)
  BY <1>1 DEF InPending, IsAt, InLine, Line
<1>5. ASSUME NEW m \in Message
      PROVE  Kept(m)'
  <2>1. Kept(m)
    BY DEF Delivery
  <2>2. CASE m = x
    <3>1. ~Somewhere(m)
      BY <1>1, <2>1, <2>2 DEF Kept
    <3>2. AtOnePlace(m)'
      BY <1>3, <1>4, <3>1 DEF AtOnePlace, Somewhere
    <3>3. InRelay(m, k)'
      BY <1>3, <2>2
    <3>4. Somewhere(m)' /\ m \in sent'
      BY <1>1, <2>2, <3>3 DEF Somewhere
    <3>5. QED
      BY <1>4, <2>1, <3>2, <3>4 DEF Kept
  <2>3. CASE m # x
    <3>1. \A l \in Conn : InRelay(m, l)' <=> InRelay(m, l)
      BY <1>3, <2>3
    <3>2. Somewhere(m)' <=> Somewhere(m)
      BY <1>4, <3>1 DEF Somewhere
    <3>3. AtOnePlace(m)' <=> AtOnePlace(m)
      BY <1>4, <3>1 DEF AtOnePlace
    <3>4. m \in sent' <=> m \in sent
      BY <1>1, <2>3
    <3>5. QED
      BY <1>4, <2>1, <3>2, <3>3, <3>4 DEF Kept
  <2>4. QED
    BY <2>2, <2>3
<1>6. OneRelayed'
  BY <1>1 DEF Delivery, OneRelayed, TypeOK
<1>7. QED
  BY <1>5, <1>6 DEF Delivery

\* And goes to the end of those that wait for its id.
LEMMA BufferDelivers ==
    ASSUME TypeOK, Delivery, NEW k \in Conn, Buffer(k)
    PROVE  Delivery'
<1>1. PICK x \in Message : buffering[k] = {x}
  BY DEF Buffer, Delivery, OneRelayed
<1> To[x] \in Id
  BY IdAssumption
<1> PICK i \in Id : i = To[x]
  OBVIOUS
<1>2. /\ pc[k] = "buffer" /\ pc' = [pc EXCEPT ![k] = "open"]
      /\ pending' = [pending EXCEPT ![i] = Append(@, x)]
      /\ buffering' = [buffering EXCEPT ![k] = {}]
      /\ UNCHANGED <<queue, received, sent>>
  BY <1>1 DEF Buffer, Goto
<1>3. pending[i] \in Seq(Message) /\ Len(pending[i]) + 1 \in Nat
  BY LenProperties DEF TypeOK
<1> PICK n \in Nat : n = Len(pending[i]) + 1
  BY <1>3
<1>4. pending'[i] = Append(pending[i], x) /\ \A h \in Id : h # i => pending'[h] = pending[h]
  BY <1>2 DEF TypeOK
<1>5. ASSUME NEW m, NEW j \in Nat
      PROVE  InPending(m, i, j)' <=> InPending(m, i, j) \/ (j = n /\ m = x)
  <2>1. IsAt(Append(pending[i], x), j, m) <=> IsAt(pending[i], j, m) \/ (j = n /\ m = x)
    BY ONLY <1>3, AtAppended, n = Len(pending[i]) + 1, j \in Nat, x \in Message
  <2>2. InPending(m, i, j)' <=> IsAt(Append(pending[i], x), j, m)
    BY <1>4 DEF InPending, IsAt
  <2>3. QED
    BY ONLY <2>1, <2>2 DEF InPending
<1>6. \A m, j : \A h \in Id : h # i => (InPending(m, h, j)' <=> InPending(m, h, j))
  BY <1>4 DEF InPending, IsAt
<1>7. /\ \A m : InRelay(m, k) <=> m = x
      /\ \A m : ~InRelay(m, k)'
      /\ \A m : \A l \in Conn : l # k => (InRelay(m, l)' <=> InRelay(m, l))
  BY <1>1, <1>2 DEF InRelay, TypeOK
<1>8. \A m, l, j : InLine(m, l, j)' <=> InLine(m, l, j)
  BY <1>2 DEF IsAt, InLine, Line
<1>9. ASSUME NEW m \in Message
      PROVE  Kept(m)'
  <2>1. Kept(m) /\ AtOnePlace(m)
    BY DEF Delivery, Kept
  <2>2. CASE m = x
    <3>1. /\ \A l \in Conn : ~InRelay(m, l)'
          /\ \A h \in Id, j \in Nat : ~InPending(m, h, j)
          /\ \A l \in Conn, j \in Nat : ~InLine(m, l, j)
      BY <1>7, <2>1, <2>2 DEF AtOnePlace
    <3>2. /\ \A h \in Id, j \in Nat : InPending(m, h, j)' => h = i /\ j = n
          /\ \A l \in Conn, j \in Nat : ~InLine(m, l, j)'
      BY <1>5, <1>6, <1>8, <3>1
    <3>3. AtOnePlace(m)'
      BY <3>1, <3>2 DEF AtOnePlace
    <3>4. InPending(m, i, n)'
      BY <1>5, <2>2
    <3>5. Somewhere(m)'
      BY <3>4 DEF Somewhere
    <3>6. m \in sent'
      <4>1. Somewhere(m)
        BY <1>7, <2>2 DEF Somewhere
      <4>2. QED
        BY <1>2, <2>1, <4>1 DEF Kept
    <3>7. QED
      BY <2>2, <3>2, <3>3, <3>5, <3>6 DEF Kept
  <2>3. CASE m # x
    <3>1. \A l \in Conn : InRelay(m, l)' <=> InRelay(m, l)
      BY <1>7, <2>3
    <3>2. \A h \in Id, j \in Nat : InPending(m, h, j)' <=> InPending(m, h, j)
      BY <1>5, <1>6, <2>3
    <3>3. Somewhere(m)' <=> Somewhere(m)
      BY <1>8, <3>1, <3>2 DEF Somewhere
    <3>4. AtOnePlace(m)' <=> AtOnePlace(m)
      BY <1>8, <3>1, <3>2 DEF AtOnePlace
    <3>5. m \in sent' <=> m \in sent
      BY <1>2
    <3>6. QED
      BY <1>8, <2>1, <3>2, <3>3, <3>4, <3>5 DEF Kept
  <2>4. QED
    BY <2>2, <2>3
<1>10. OneRelayed'
  BY <1>2 DEF Delivery, OneRelayed, TypeOK
<1>11. QED
  BY <1>9, <1>10 DEF Delivery

\* The client is sent the first message of its channel: its line stays as it is.
LEMMA ForwardDelivers ==
    ASSUME TypeOK, Delivery, NEW k \in Conn, Forward(k)
    PROVE  Delivery'
<1>1. /\ queue[k] # <<>>
      /\ received' = [received EXCEPT ![k] = Append(@, Head(queue[k]))]
      /\ queue' = [queue EXCEPT ![k] = Tail(@)]
      /\ UNCHANGED <<pending, pc, buffering, sent>>
  BY DEF Forward, maps
<1>2. received[k] \in Seq(Message) /\ queue[k] \in Seq(Message)
  BY LineType
<1>3. Line(k)' = Line(k)
  <2>1. \A s, t \in Seq(Message) : t # <<>> => Append(s, Head(t)) \o Tail(t) = s \o t
    BY HandedOver
  <2>2. Append(received[k], Head(queue[k])) \o Tail(queue[k]) = received[k] \o queue[k]
    BY <1>1, <1>2, <2>1
  <2>3. received'[k] = Append(received[k], Head(queue[k])) /\ queue'[k] = Tail(queue[k])
    BY <1>1 DEF TypeOK
  <2>4. QED
    BY <2>2, <2>3 DEF Line
<1>4. \A l \in Conn : l # k => Line(l)' = Line(l)
  BY <1>1 DEF Line, TypeOK
<1>5. QED
  BY <1>1, <1>3, <1>4, NothingMoves

\* Every step keeps the messages.
LEMMA StepDelivers == TypeOK /\ NoGhost /\ Delivery /\ [Next]_vars => Delivery'
<1> SUFFICES ASSUME TypeOK, NoGhost, Delivery, [Next]_vars
             PROVE  Delivery'
  OBVIOUS
<1>1. CASE UNCHANGED vars
  BY <1>1, NothingMoves DEF vars, maps, Line
<1>2. ASSUME NEW k \in Conn,
             Register(k) \/ Close(k) \/ Unregister(k) \/ Debounced(k) \/ CleanUp(k)
      PROVE  Delivery'
  <2>1. UNCHANGED <<sent, pending, buffering, received, queue>>
    BY <1>2 DEF Register, Close, Unregister, Debounced, CleanUp, maps
  <2>2. \A l \in Conn : Line(l)' = Line(l)
    BY <2>1 DEF Line
  <2>3. \A l \in Conn : pc'[l] = "buffer" <=> pc[l] = "buffer"
    BY <1>2 DEF Register, Close, Unregister, Debounced, CleanUp, Goto, TypeOK
  <2>4. QED
    BY <2>1, <2>2, <2>3, NothingMoves
<1>3. QED
  BY <1>1, <1>2, DrainDelivers, RelayDelivers, AbsentDelivers, BufferDelivers, ForwardDelivers
     DEF Next, Task, Client

\* Its places are as many as Delivery says.
LEMMA PlacesCounted ==
    ASSUME TypeOK, Delivery, NEW m \in Message
    PROVE  Cardinality(Places(m)) = IF m \in sent THEN 1 ELSE 0
<1>1. Kept(m) /\ AtOnePlace(m)
  BY DEF Delivery, Kept
<1>2. \A k \in Conn : Line(k) \in Seq(Message) /\ DOMAIN Line(k) = 1 .. Len(Line(k))
  BY LineType, LenProperties
<1>3. \A i \in Id : DOMAIN pending[i] = 1 .. Len(pending[i])
  BY LenProperties DEF TypeOK
<1>4. ASSUME NEW x
      PROVE  x \in Places(m) <=>
                \/ \E k \in Conn : InRelay(m, k) /\ x = <<"relay", k, 0>>
                \/ \E i \in Id, j \in Nat : InPending(m, i, j) /\ x = <<"pending", i, j>>
                \/ \E k \in Conn, j \in Nat : InLine(m, k, j) /\ x = <<"line", k, j>>
  <2>1. x \in { <<"relay", k, 0>> : k \in { k \in Conn : m \in buffering[k] } }
           <=> \E k \in Conn : InRelay(m, k) /\ x = <<"relay", k, 0>>
    BY DEF InRelay
  <2>2. x \in UNION { { <<"pending", i, j>> :
                           j \in { j \in DOMAIN pending[i] : pending[i][j] = m } }
                      : i \in Id }
           <=> \E i \in Id, j \in Nat : InPending(m, i, j) /\ x = <<"pending", i, j>>
    <3>1. \A i \in Id : \A j : InPending(m, i, j) <=> j \in DOMAIN pending[i] /\ pending[i][j] = m
      BY <1>3 DEF InPending, IsAt
    <3>2. \A i \in Id : \A j \in DOMAIN pending[i] : j \in Nat
      BY <1>3
    <3>3. QED
      BY <3>1, <3>2
  <2>3. x \in UNION { { <<"line", k, j>> : j \in { j \in DOMAIN Line(k) : Line(k)[j] = m } }
                      : k \in Conn }
           <=> \E k \in Conn, j \in Nat : InLine(m, k, j) /\ x = <<"line", k, j>>
    <3>1. \A k \in Conn : \A j : InLine(m, k, j) <=> j \in DOMAIN Line(k) /\ Line(k)[j] = m
      BY <1>2 DEF InLine, IsAt
    <3>2. \A k \in Conn : \A j \in DOMAIN Line(k) : j \in Nat
      BY <1>2
    <3>3. QED
      BY <3>1, <3>2
  <2>4. QED
    BY <2>1, <2>2, <2>3 DEF Places
<1>5. CASE m \notin sent
  <2>1. Places(m) = {}
    BY <1>1, <1>4, <1>5 DEF Kept, Somewhere
  <2>2. QED
    BY <1>5, <2>1, FS_EmptySet
<1>6. CASE m \in sent
  <2>1. \E x : Places(m) = {x}
    <3>1. CASE \E k \in Conn : InRelay(m, k)
      <4>1. PICK k \in Conn : InRelay(m, k)
        BY <3>1
      <4>2. Places(m) = {<<"relay", k, 0>>}
        BY <1>1, <1>4, <4>1 DEF AtOnePlace
      <4>3. QED
        BY <4>2
    <3>2. CASE \E i \in Id, j \in Nat : InPending(m, i, j)
      <4>1. PICK i \in Id, j \in Nat : InPending(m, i, j)
        BY <3>2
      <4>2. Places(m) = {<<"pending", i, j>>}
        BY <1>1, <1>4, <4>1 DEF AtOnePlace
      <4>3. QED
        BY <4>2
    <3>3. CASE \E k \in Conn, j \in Nat : InLine(m, k, j)
      <4>1. PICK k \in Conn, j \in Nat : InLine(m, k, j)
        BY <3>3
      <4>2. Places(m) = {<<"line", k, j>>}
        BY <1>1, <1>4, <4>1 DEF AtOnePlace
      <4>3. QED
        BY <4>2
    <3>4. QED
      BY <1>1, <1>6, <3>1, <3>2, <3>3 DEF Kept, Somewhere
  <2>2. \A x : Cardinality({x}) = 1
    BY FS_Singleton
  <2>3. QED
    BY <1>6, <2>1, <2>2
<1>7. QED
  BY <1>5, <1>6

\* And it only is on lines of the id that it names.
LEMMA LinesAddressed ==
    ASSUME TypeOK, Delivery, NEW m \in Message, NEW k \in Conn, m \in Range(Line(k))
    PROVE  IdOf[k] = To[m]
<1>1. Line(k) \in Seq(Message)
  BY LineType
<1>2. DOMAIN Line(k) = 1 .. Len(Line(k)) /\ Len(Line(k)) \in Nat
  BY <1>1, LenProperties
<1>3. PICK j \in DOMAIN Line(k) : Line(k)[j] = m
  BY DEF Range
<1>4. j \in Nat /\ InLine(m, k, j)
  BY <1>2, <1>3 DEF InLine, IsAt
<1>5. QED
  BY <1>4 DEF Delivery, Kept

-----------------------------------------------------------------------------
(* The theorems. *)

\* TypeOK: whatever the interleaving, every variable of the server has its type.
THEOREM ServerTypeCorrect == Spec => []TypeOK
<1>1. Init => TypeOK /\ OnlyNodesAreCleaned
  BY InitHolds
<1>2. TypeOK /\ OnlyNodesAreCleaned /\ [Next]_vars => (TypeOK /\ OnlyNodesAreCleaned)'
  BY StepTyped, StepCleansNodes
<1>3. QED
  BY <1>1, <1>2, PTL DEF Spec

\* NoGhost: no entry of the map of the clients outlives its connection, for any
\* number of connections with the same id and any reuse of generations.
THEOREM NoGhostClient == Spec => []NoGhost
<1>1. Init => NoGhost
  BY InitHolds
<1>2. TypeOK /\ NoGhost /\ [Next]_vars => NoGhost'
  BY StepNoGhost
<1>3. QED
  BY <1>1, <1>2, ServerTypeCorrect, PTL DEF Spec

\* OneCopy: whatever the order in which relays, drains and reconnections take the
\* two locks, each message that was sent is at one place, none at two, and only
\* connections with the id that it names get it.
THEOREM MessagesKept == Spec => []OneCopy
<1>1. Init => Delivery
  BY InitDelivers
<1>2. TypeOK /\ NoGhost /\ Delivery /\ [Next]_vars => Delivery'
  BY StepDelivers
<1>3. TypeOK /\ Delivery => OneCopy
  BY PlacesCounted, LinesAddressed DEF OneCopy
<1>4. QED
  BY <1>1, <1>2, <1>3, ServerTypeCorrect, NoGhostClient, PTL DEF Spec
=============================================================================
