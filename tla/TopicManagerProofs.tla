-------------------------- MODULE TopicManagerProofs --------------------------
(***************************************************************************)
(* Theorems about TopicManager: its types, that a process that has handled *)
(* its notifications is in step with the table, that its tasks never use   *)
(* one id at once, and that a subscriber without a parent has a call to    *)
(* come.                                                                   *)
(***************************************************************************)
EXTENDS TopicManager, RoutingTableProofs, SequenceLemmas

-----------------------------------------------------------------------------
(* The calls on the table. *)

\* The operators of TopicTree are those of RoutingTable.
LEMMA TreeOperators ==
    ASSUME NEW st, NEW n, NEW s, NEW x, NEW M
    PROVE  /\ Tree!AddPublisher(st, n) = AddPublisher(st, n)
           /\ Tree!AddProxy(st, n) = AddProxy(st, n)
           /\ Tree!HasParent(st, n) <=> HasParent(st, n)
           /\ Tree!Reach(st) = Reach(st)
           /\ Tree!Full(st, n) <=> Full(st, n)
           /\ Tree!Stamp(st, s) = Stamp(st, s)
           /\ Tree!Attach(st, n, s) = Attach(st, n, s)
           /\ Tree!Proxies(st) = Proxies(st)
           /\ Tree!UsedNodes(st) = UsedNodes(st)
           /\ Tree!Moves(st, n) = Moves(st, n)
           /\ Tree!Graft(st, n, x, s, M) = Graft(st, n, x, s, M)
           /\ Tree!CleanUp(st, n) = CleanUp(st, n)
<1>0. \A S : Tree!Cardinality(S) = Cardinality(S)
  BY DEF Tree!Cardinality, Cardinality
<1>1. /\ Tree!AddPublisher(st, n) = AddPublisher(st, n)
      /\ Tree!AddProxy(st, n) = AddProxy(st, n)
  BY DEF Tree!AddPublisher, Tree!AddProxy, AddPublisher, AddProxy, Tree!AppendUnique,
         AppendUnique, Tree!Range, Range
<1>2. /\ Tree!Publishers(st) = Publishers(st)
      /\ Tree!Proxies(st) = Proxies(st)
  BY DEF Tree!Publishers, Publishers, Tree!Proxies, Proxies, Tree!Range, Range
<1>3. Tree!Intermediates(st) = Intermediates(st)
  BY <1>2 DEF Tree!Intermediates, Intermediates
<1>4. \A m : /\ Tree!HasParent(st, m) <=> HasParent(st, m)
             /\ Tree!Children(st, m) = Children(st, m)
             /\ Tree!Full(st, m) <=> Full(st, m)
  <2>1. \A m : Tree!Children(st, m) = Children(st, m)
    BY DEF Tree!Children, Children
  <2>2. \A m : Tree!HasParent(st, m) <=> HasParent(st, m)
    BY DEF Tree!HasParent, HasParent
  <2>3. \A m : Tree!Full(st, m) <=> Full(st, m)
    BY <1>0, <2>1 DEF Tree!Full, Full
  <2> QED
    BY <2>1, <2>2, <2>3
<1>5. Tree!Reach(st) = Reach(st)
  <2>1. \A S : Tree!ReachClosed(st, S) = ReachClosed(st, S)
    BY <1>3 DEF Tree!ReachClosed, ReachClosed, Tree!Root, Root
  <2> QED
    BY <1>3, <2>1 DEF Tree!Reach, Reach
<1>6. Tree!Stamp(st, s) = Stamp(st, s)
  BY <1>3, <1>4 DEF Tree!Stamp, Stamp
<1>7. Tree!UsedNodes(st) = UsedNodes(st)
  BY <1>2, <1>4 DEF Tree!UsedNodes, UsedNodes
<1>8. Tree!Moves(st, n) = Moves(st, n)
  <2>1. \A S : Tree!Max(S) = Max(S) /\ Tree!Min(S) = Min(S)
    BY DEF Tree!Max, Max, Tree!Min, Min
  <2>2. \A k : Tree!MoveCount(k) = MoveCount(k)
    BY <2>1 DEF Tree!MoveCount, MoveCount
  <2> QED
    BY <1>0, <1>2, <1>4, <2>2 DEF Tree!Moves, Moves
<1>9. Tree!CleanUp(st, n) = CleanUp(st, n)
  <2>1. \A vec : Tree!Without(vec, n) = Without(vec, n)
    BY DEF Tree!Without, Without, Tree!RemoveAt, RemoveAt, Tree!Range, Range
  <2>2. Tree!Subtree(st, n) = Subtree(st, n)
    BY DEF Tree!Subtree, Subtree, Tree!SubtreeClosed, SubtreeClosed
  <2> QED
    BY <2>1, <2>2 DEF Tree!CleanUp, CleanUp, Tree!DropEdges, DropEdges
<1> QED
  BY <1>1, <1>2, <1>4, <1>5, <1>6, <1>7, <1>8, <1>9
     DEF Tree!Attach, Attach, Tree!Graft, Graft

-----------------------------------------------------------------------------
(* What the processes of the topic make of its table. *)

\* A table that the calls of processes can make: each registers as what it is.
Fit(st) ==
    /\ st \in Table
    /\ st.edges \subseteq Edge
    /\ Unique(st)
    /\ Hanging(st)
    /\ \A n \in Publishers(st) : Role[n] = "publisher"
    /\ \A n \in Proxies(st) : Role[n] = "proxy"

\* The nodes that a table says nothing of.
Unknown(st, n) == n \notin Intermediates(st) /\ Relevant(st.edges, n) = {}

\* What the walk reaches below the publishers has a parent.
LEMMA ReachedHasParent ==
    ASSUME NEW st \in Table, st.publishers # <<>>, NEW m \in Reach(st), m \notin Publishers(st)
    PROVE  HasParent(st, m)
<1> DEFINE S == Publishers(st) \cup { k \in Node : HasParent(st, k) }
<1>1. Root(st) \in S
  BY DEF Table, Root, Publishers, Range
<1>2. ASSUME NEW e \in st.edges
      PROVE  e[2] \in S
  <2>1. e[1] \in Node /\ e[2] \in Node /\ e = <<e[1], e[2]>>
    BY DEF Table
  <2>2. HasParent(st, e[2])
    BY <2>1 DEF HasParent
  <2> QED
    BY <2>1, <2>2
<1>3. ReachClosed(st, S)
  BY <1>1, <1>2 DEF ReachClosed
<1>4. Reach(st) \subseteq S
  BY <1>3, ReachIsLeast
<1> QED
  BY <1>4

\* A proxy that has children has a parent.
LEMMA ParentsAreFed ==
    ASSUME NEW st, Fit(st), NEW e \in st.edges, Role[e[1]] = "proxy"
    PROVE  \E f \in st.edges : f[2] = e[1]
<1>1. st \in Table /\ e[1] \in Reach(st) /\ e[1] \notin Publishers(st)
  BY DEF Fit, Hanging
<1>2. st.publishers # <<>>
  BY <1>1 DEF Reach
<1>3. HasParent(st, e[1])
  BY <1>1, <1>2, ReachedHasParent
<1>4. PICK p \in Node : <<p, e[1]>> \in st.edges
  BY <1>3 DEF HasParent
<1> QED
  BY <1>4

\* A process that registers as what it is.
LEMMA RegisterFits ==
    ASSUME NEW st, Fit(st), NEW n \in Node, NEW new,
           \/ Role[n] = "publisher" /\ new = AddPublisher(st, n)
           \/ Role[n] = "proxy" /\ new = AddProxy(st, n)
    PROVE  /\ Fit(new)
           /\ new.edges = st.edges
           /\ \A m \in Node \ {n} : Unknown(st, m) => Unknown(new, m)
<1>1. st \in Table /\ Unique(st) /\ Hanging(st)
  BY DEF Fit
<1>2. new \in Table
  BY <1>1, EditTypes
<1>3. Unique(new) /\ Hanging(new)
  BY <1>1, <1>2, RegistrationIsSound
<1>4. /\ new.edges = st.edges
      /\ \/ new.publishers = st.publishers
         \/ new.publishers = AppendUnique(st.publishers, n) /\ Role[n] = "publisher"
      /\ \/ new.proxies = st.proxies
         \/ new.proxies = AppendUnique(st.proxies, n) /\ Role[n] = "proxy"
  BY <1>1 DEF AddPublisher, AddProxy, Table
<1>5. /\ Range(AppendUnique(st.publishers, n)) = Range(st.publishers) \cup {n}
      /\ Range(AppendUnique(st.proxies, n)) = Range(st.proxies) \cup {n}
  BY <1>1, AppendFacts DEF Unique, Table
<1>6. /\ \A m \in Publishers(new) : Role[m] = "publisher"
      /\ \A m \in Proxies(new) : Role[m] = "proxy"
  BY <1>4, <1>5 DEF Publishers, Proxies, Fit
<1>7. Intermediates(new) \subseteq Intermediates(st) \cup {n}
  BY <1>4, <1>5 DEF Publishers, Proxies, Intermediates
<1>8. new.edges \subseteq Edge
  BY <1>4 DEF Fit
<1> QED
  BY <1>2, <1>3, <1>4, <1>6, <1>7, <1>8 DEF Fit, Unknown

\* A subscriber that is put under a node that the walk reaches.
LEMMA JoinFits ==
    ASSUME NEW st, Fit(st), NEW s \in Node, Role[s] = "subscriber",
           st.publishers # <<>>, NEW m \in Reach(st)
    PROVE  /\ Fit(Attach(Stamp(st, s), m, s))
           /\ \A k \in Node \ {s} : Unknown(st, k) => Unknown(Attach(Stamp(st, s), m, s), k)
<1> DEFINE mid == Stamp(st, s)
           new == Attach(mid, m, s)
<1>1. st \in Table /\ mid \in Table /\ m \in Node /\ m \in Intermediates(st)
  BY EditTypes, ReachType DEF Fit
<1>2. mid.edges = st.edges /\ mid.publishers = st.publishers /\ mid.proxies = st.proxies
  BY <1>1, StampKeeps
<1> HIDE DEF mid
<1>3. /\ new \in Table
      /\ new.publishers = st.publishers /\ new.proxies = st.proxies
      /\ new.edges = st.edges \cup {<<m, s>>}
  <2>1. new \in Table
    BY <1>1, EditTypes
  <2>2. /\ new.publishers = mid.publishers /\ new.proxies = mid.proxies
        /\ new.edges = mid.edges \cup {<<m, s>>}
    BY <1>1, AttachKeeps
  <2> QED
    BY <1>2, <2>1, <2>2
<1>4. Reach(mid) = Reach(st)
  BY <1>2 DEF Reach, ReachClosed, Root, Intermediates, Publishers, Proxies
<1>5. Hanging(mid)
  BY <1>2, <1>4 DEF Hanging, Fit
<1>6. Hanging(new)
  BY <1>1, <1>2, <1>4, <1>5, AttachHangs
<1> HIDE DEF new
<1>7. Role[m] \in {"publisher", "proxy"}
  BY <1>1 DEF Fit, Intermediates
<1>8. <<m, s>> \in Edge
  BY <1>1, <1>7 DEF Edge
<1>9. Fit(new)
  BY <1>3, <1>6, <1>8 DEF Fit, Unique, Publishers, Proxies
<1>10. ASSUME NEW k \in Node \ {s}, Unknown(st, k)
       PROVE  Unknown(new, k)
  BY <1>1, <1>3, <1>10 DEF Unknown, Intermediates, Publishers, Proxies, Relevant
<1> QED
  BY <1>9, <1>10 DEF new, mid

\* A subscriber that comes in with a proxy.
LEMMA GraftFits ==
    ASSUME NEW st, Fit(st), NEW s \in Node, Role[s] = "subscriber",
           st.publishers # <<>>, NEW m \in Reach(st),
           NEW x \in Proxies(st) \ UsedNodes(st), NEW M \in Moves(st, m)
    PROVE  /\ Fit(Graft(Stamp(st, s), m, x, s, M))
           /\ \A k \in Node \ {s} :
                 Unknown(st, k) => Unknown(Graft(Stamp(st, s), m, x, s, M), k)
<1> DEFINE mid == Stamp(st, s)
           new == Graft(mid, m, x, s, M)
<1>1. /\ st \in Table /\ mid \in Table /\ m \in Node /\ m \in Intermediates(st)
      /\ x \in Node /\ x \in Proxies(st)
  BY EditTypes, ReachType DEF Fit, Intermediates
<1>2. mid.edges = st.edges /\ mid.publishers = st.publishers /\ mid.proxies = st.proxies
  BY <1>1, StampKeeps
<1> HIDE DEF mid
<1>3. M \subseteq Children(st, m) /\ M \in SUBSET Node
  BY DEF Moves, Children
<1>4. /\ new \in Table
      /\ new.publishers = st.publishers /\ new.proxies = st.proxies
      /\ new.edges = (st.edges \ ({m} \X M)) \cup {<<m, x>>, <<x, s>>} \cup ({x} \X M)
  <2>1. new \in Table
    BY <1>1, <1>3, EditTypes
  <2> DEFINE E == (mid.edges \ ({m} \X M)) \cup {<<m, x>>, <<x, s>>} \cup ({x} \X M)
  <2>2. new = [mid EXCEPT !.edges = E, !.attach_ms = @ \cup M]
    BY DEF Graft
  <2> HIDE DEF E
  <2>3. new.publishers = mid.publishers /\ new.proxies = mid.proxies /\ new.edges = E
    BY <1>1, <2>2 DEF Table
  <2> QED
    BY <1>2, <2>1, <2>3 DEF E
<1>5. Reach(mid) = Reach(st) /\ Proxies(mid) = Proxies(st)
  BY <1>2 DEF Reach, ReachClosed, Root, Intermediates, Publishers, Proxies
<1>6. Hanging(mid)
  BY <1>2, <1>5 DEF Hanging, Fit
<1>7. Hanging(new)
  BY <1>1, <1>2, <1>3, <1>5, <1>6, GraftHangs
<1> HIDE DEF new
<1>8. x # m /\ x \notin M
  <2>1. ~HasParent(st, x) /\ x \notin Publishers(st)
    BY <1>1 DEF UsedNodes
  <2>2. x # m
    BY <1>1, <2>1, ReachedHasParent
  <2>3. x \notin M
    BY <1>1, <1>3, <2>1 DEF Children, HasParent
  <2> QED
    BY <2>2, <2>3
<1>9. Role[m] \in {"publisher", "proxy"} /\ Role[x] = "proxy"
  BY <1>1 DEF Fit, Intermediates
<1>10. <<m, x>> \in Edge /\ <<x, s>> \in Edge
  BY <1>1, <1>8, <1>9 DEF Edge
<1>11. \A c \in M : <<m, c>> \in st.edges /\ <<x, c>> \in Edge
  BY <1>1, <1>3, <1>8, <1>9 DEF Edge, Children, Fit
<1>12. new.edges \subseteq Edge
  <2>1. st.edges \subseteq Edge
    BY DEF Fit
  <2>2. ASSUME NEW e \in {x} \X M
        PROVE  e \in Edge
    <3>1. PICK c \in M : e = <<x, c>>
      OBVIOUS
    <3> QED
      BY <1>11, <3>1
  <2> QED
    BY <1>4, <1>10, <2>1, <2>2
<1>13. Fit(new)
  BY <1>4, <1>7, <1>12 DEF Fit, Unique, Publishers, Proxies
<1>14. ASSUME NEW k \in Node \ {s}, Unknown(st, k)
       PROVE  Unknown(new, k)
  <2>1. k # m /\ k # x
    BY <1>1, <1>14 DEF Unknown, Intermediates
  <2>2. k \notin M
    <3>1. ASSUME k \in M
          PROVE  <<m, k>> \in Relevant(st.edges, k)
      BY <1>11, <3>1 DEF Relevant
    <3> QED
      BY <1>14, <3>1 DEF Unknown
  <2>3. ASSUME NEW e \in new.edges
        PROVE  k \notin {e[1], e[2]}
    <3>1. CASE e \in st.edges
      BY <1>14, <3>1 DEF Unknown, Relevant
    <3>2. CASE e = <<m, x>> \/ e = <<x, s>>
      BY <2>1, <3>2
    <3>3. CASE e \in {x} \X M
      BY <2>1, <2>2, <3>3
    <3> QED
      BY <1>4, <3>1, <3>2, <3>3
  <2>4. k \notin Intermediates(new)
    BY <1>4, <1>14 DEF Unknown, Intermediates, Publishers, Proxies
  <2> QED
    BY <2>3, <2>4 DEF Unknown, Relevant
<1> QED
  BY <1>13, <1>14 DEF new, mid

\* A node that the signaling server takes out.
LEMMA CleanUpFits ==
    ASSUME NEW st, Fit(st), NEW n \in Node
    PROVE  /\ Fit(CleanUp(st, n))
           /\ \A k \in Node : Unknown(st, k) => Unknown(CleanUp(st, n), k)
<1> DEFINE new == CleanUp(st, n)
<1>1. st \in Table /\ Unique(st) /\ Hanging(st)
  BY DEF Fit
<1>2. new \in Table
  BY <1>1, EditTypes
<1>3. /\ new.edges = DropEdges(st, Subtree(st, n))
      /\ new.publishers = Without(st.publishers, n)
      /\ new.proxies = Without(st.proxies, n)
  BY DEF CleanUp
<1> HIDE DEF new
<1>4. Unique(new) /\ Hanging(new)
  BY <1>1, <1>2, <1>3, DropIsSound
<1>5. Publishers(new) \subseteq Publishers(st) /\ Proxies(new) \subseteq Proxies(st)
  BY <1>1, <1>3, WithoutFacts DEF Unique, Publishers, Proxies, Table
<1>6. new.edges \subseteq st.edges
  BY <1>3 DEF DropEdges
<1>7. Fit(new)
  BY <1>2, <1>4, <1>5, <1>6 DEF Fit
<1>8. ASSUME NEW k \in Node, Unknown(st, k)
      PROVE  Unknown(new, k)
  BY <1>5, <1>6, <1>8 DEF Unknown, Intermediates, Relevant
<1> QED
  BY <1>7, <1>8 DEF new

-----------------------------------------------------------------------------
(* The sequences and the tasks. *)

\* The edges between nodes are finitely many.
LEMMA EdgesAreFinite ==
    ASSUME NEW S \in SUBSET Edge
    PROVE  IsFiniteSet(S) /\ Cardinality(S) \in Nat
<1>1. IsFiniteSet(Node \X Node)
  BY NodeAssumption, FS_Product
<1>2. S \in SUBSET (Node \X Node)
  BY DEF Edge
<1> QED
  BY <1>1, <1>2, FS_Subset, FS_CardinalityType

\* SetToSeq lists a set of edges, each once.
LEMMA Listed ==
    ASSUME NEW S \in SUBSET Edge
    PROVE  /\ SetToSeq(S) \in Seq(S)
           /\ DOMAIN SetToSeq(S) = 1 .. Len(SetToSeq(S)) /\ Len(SetToSeq(S)) \in Nat
           /\ Range(SetToSeq(S)) = S
           /\ \A i, j \in DOMAIN SetToSeq(S) : SetToSeq(S)[i] = SetToSeq(S)[j] => i = j
<1> DEFINE k == Cardinality(S)
<1>1. IsFiniteSet(S) /\ k \in Nat
  BY EdgesAreFinite
<1>2. ExistsBijection(1 .. k, S)
  BY <1>1, FS_CardinalityType
<1>3. \E f \in [1 .. k -> S] : IsInjective(f)
  <2>1. PICK f \in Bijection(1 .. k, S) : TRUE
    BY <1>2 DEF ExistsBijection
  <2>2. f \in [1 .. k -> S] /\ \A i, j \in 1 .. k : f[i] = f[j] => i = j
    BY <2>1 DEF Bijection, Injection, IsInjective
  <2> QED
    BY <2>2 DEF IsInjective
<1> DEFINE q == SetToSeq(S)
<1>4. q \in [1 .. k -> S] /\ IsInjective(q)
  BY <1>3 DEF SetToSeq
<1> HIDE DEF q
<1>5. q \in Injection(1 .. k, S)
  BY <1>4 DEF Injection, IsInjective
<1>6. q \in Surjection(1 .. k, S)
  <2>1. Cardinality(1 .. k) = k
    BY <1>1, FS_Interval
  <2> QED
    BY <1>1, <1>5, <2>1, FS_Injection
<1>7. \A e \in S : \E i \in 1 .. k : q[i] = e
  BY <1>6 DEF Surjection
<1>8. q \in Seq(S) /\ DOMAIN q = 1 .. Len(q) /\ Len(q) \in Nat
  BY <1>1, <1>4
<1>9. Range(q) = S
  BY <1>4, <1>7 DEF Range
<1>10. \A i, j \in DOMAIN q : q[i] = q[j] => i = j
  BY <1>4 DEF IsInjective
<1> QED
  BY <1>8, <1>9, <1>10 DEF q

\* A task that tries has attempts left.
Attempt == { t \in Task : t.phase \in {"try", "dial", "hung"} => t.tries < DialAttempts }

\* The tasks of all processes.
Tasks == [Node -> Seq(Attempt)]

\* One task of a process is replaced.
Replaced(ts, n, i, t, new) == new = [ts EXCEPT ![n][i] = t]

LEMMA TaskReplaced ==
    ASSUME NEW ts \in Tasks, NEW n \in Node, NEW i \in DOMAIN ts[n], NEW t \in Attempt,
           NEW new, Replaced(ts, n, i, t, new)
    PROVE  /\ new \in Tasks
           /\ \A m \in Node : DOMAIN new[m] = DOMAIN ts[m]
           /\ new[n][i] = t
           /\ \A m \in Node \ {n} : new[m] = ts[m]
           /\ \A j \in DOMAIN ts[n] \ {i} : new[n][j] = ts[n][j]
<1>1. ts[n] \in Seq(Attempt) /\ i \in 1 .. Len(ts[n])
  BY DEF Tasks
<1> DEFINE s == [ts[n] EXCEPT ![i] = t]
<1>2. s \in Seq(Attempt)
  BY <1>1, ExceptSeq
<1>3. DOMAIN s = DOMAIN ts[n] /\ s[i] = t /\ \A j \in DOMAIN ts[n] \ {i} : s[j] = ts[n][j]
  BY <1>1
<1>4. new = [ts EXCEPT ![n] = s]
  BY DEF Replaced
<1> HIDE DEF s
<1>5. /\ new \in Tasks
      /\ new[n] = s
      /\ \A m \in Node \ {n} : new[m] = ts[m]
  BY <1>2, <1>4 DEF Tasks
<1> QED
  BY <1>3, <1>5

\* The phases in which a task has its id.
InUse(t) == t.phase \in {"dial", "hung", "open"}

\* Task i of n becomes t, of the same edge, and keeps, takes or gives up its id.
Turned(n, i, t) ==
    /\ t \in Attempt
    /\ t.edge = tasks[n][i].edge
    /\ Replaced(tasks, n, i, t, tasks')

Stays(n, i, t) ==
    /\ Turned(n, i, t)
    /\ InUse(t) <=> InUse(tasks[n][i])
    /\ active' = active

Enters(n, i, t) ==
    /\ Turned(n, i, t)
    /\ InUse(t) /\ ~InUse(tasks[n][i])
    /\ TaskPeer(n, i) \notin active[n]
    /\ active' = [active EXCEPT ![n] = @ \cup {TaskPeer(n, i)}]

Leaves(n, i, t) ==
    /\ Turned(n, i, t)
    /\ ~InUse(t) /\ InUse(tasks[n][i])
    /\ active' = [active EXCEPT ![n] = @ \ {TaskPeer(n, i)}]

Moved(n, i) == \E t : Stays(n, i, t) \/ Enters(n, i, t) \/ Leaves(n, i, t)

\* A task in its next phase.
LEMMA Rephased ==
    ASSUME NEW t \in Attempt, NEW phase \in Phases,
           phase \in {"try", "dial", "hung"} => t.phase \in {"try", "dial", "hung"},
           NEW u, u = [t EXCEPT !.phase = phase]
    PROVE  u \in Attempt /\ u.edge = t.edge /\ u.phase = phase
BY DEF Attempt, Task, Phases

\* An attempt that failed.
LEMMA RetriedFacts ==
    ASSUME NEW t \in Attempt, t.phase \in {"try", "dial", "hung"}
    PROVE  /\ Retried(t) \in Attempt
           /\ Retried(t).edge = t.edge
           /\ Retried(t).phase \in {"try", "ended"}
<1> DEFINE k == t.tries + 1
           phase == IF k >= DialAttempts THEN "ended" ELSE "try"
<1>1. t \in Task /\ t.tries \in 0 .. DialAttempts /\ t.tries < DialAttempts
  BY DEF Attempt, Task
<1>2. k \in 0 .. DialAttempts /\ (phase = "try" => k < DialAttempts)
  BY <1>1, DialAssumption
<1>3. phase \in {"try", "ended"}
  OBVIOUS
<1>4. Retried(t) = [t EXCEPT !.tries = k, !.phase = phase]
  BY DEF Retried
<1> HIDE DEF k, phase
<1> QED
  BY <1>1, <1>2, <1>3, <1>4 DEF Attempt, Task, Phases

\* What the steps of a task do to it.
LEMMA TaskMoves ==
    ASSUME tasks \in Tasks, NEW n \in Node, NEW i \in DOMAIN tasks[n],
           \/ Dial(n, i) \/ Refused(n, i) \/ DialFails(n, i) \/ DialHangs(n, i)
           \/ DialResumes(n, i) \/ PeerGone(n, i) \/ ChannelFails(n, i) \/ Shutdown(n, i)
    PROVE  Moved(n, i)
<1> DEFINE t == tasks[n][i]
           In(phase) == [t EXCEPT !.phase = phase]
<1>0. t \in Attempt
  BY DEF Tasks
<1>1. CASE Dial(n, i)
  <2>1. t.phase = "try" /\ tasks' = [tasks EXCEPT ![n][i] = In("dial")]
    BY <1>1 DEF Dial, Is
  <2>2. In("dial") \in Attempt /\ In("dial").edge = t.edge /\ In("dial").phase = "dial"
    BY <1>0, <2>1, Rephased DEF Phases
  <2>3. Enters(n, i, In("dial"))
    BY <1>1, <2>1, <2>2 DEF Dial, IdInUse, Enters, Turned, Replaced, InUse
  <2> QED
    BY <2>3 DEF Moved
<1>2. CASE Refused(n, i)
  <2>1. t.phase = "try" /\ tasks' = [tasks EXCEPT ![n][i] = Retried(t)]
    BY <1>2 DEF Refused, Is
  <2>2. Stays(n, i, Retried(t))
    BY <1>0, <1>2, <2>1, RetriedFacts DEF Refused, Stays, Turned, Replaced, InUse
  <2> QED
    BY <2>2 DEF Moved
<1>3. CASE DialFails(n, i)
  <2>1. t.phase \in {"dial", "hung"} /\ tasks' = [tasks EXCEPT ![n][i] = Retried(t)]
    BY <1>3 DEF DialFails, Is
  <2>2. Leaves(n, i, Retried(t))
    BY <1>0, <1>3, <2>1, RetriedFacts DEF DialFails, Leaves, Turned, Replaced, InUse
  <2> QED
    BY <2>2 DEF Moved
<1>4. CASE DialHangs(n, i)
  <2>1. t.phase = "dial" /\ tasks' = [tasks EXCEPT ![n][i] = In("hung")]
    BY <1>4 DEF DialHangs, Is
  <2>2. In("hung") \in Attempt /\ In("hung").edge = t.edge /\ In("hung").phase = "hung"
    BY <1>0, <2>1, Rephased DEF Phases
  <2>3. Stays(n, i, In("hung"))
    BY <1>4, <2>1, <2>2 DEF DialHangs, Stays, Turned, Replaced, InUse
  <2> QED
    BY <2>3 DEF Moved
<1>5. CASE DialResumes(n, i)
  <2>1. t.phase = "hung" /\ tasks' = [tasks EXCEPT ![n][i] = In("dial")]
    BY <1>5 DEF DialResumes, Is
  <2>2. In("dial") \in Attempt /\ In("dial").edge = t.edge /\ In("dial").phase = "dial"
    BY <1>0, <2>1, Rephased DEF Phases
  <2>3. Stays(n, i, In("dial"))
    BY <1>5, <2>1, <2>2 DEF DialResumes, Stays, Turned, Replaced, InUse
  <2> QED
    BY <2>3 DEF Moved
<1>6. CASE PeerGone(n, i) \/ ChannelFails(n, i)
  <2>0. Break(n, i)
    BY <1>6 DEF PeerGone, ChannelFails
  <2>1. t.phase = "open" /\ tasks' = [tasks EXCEPT ![n][i] = In("broken")]
    BY <2>0 DEF Break, Is
  <2>2. In("broken") \in Attempt /\ In("broken").edge = t.edge /\ In("broken").phase = "broken"
    BY <1>0, <2>1, Rephased DEF Phases
  <2>3. Leaves(n, i, In("broken"))
    BY <2>0, <2>1, <2>2 DEF Break, Leaves, Turned, Replaced, InUse
  <2> QED
    BY <2>3 DEF Moved
<1>7. CASE Shutdown(n, i)
  <2>1. t.phase \in {"open", "broken"} /\ tasks' = [tasks EXCEPT ![n][i] = In("ended")]
    BY <1>7 DEF Shutdown, Is
  <2>2. In("ended") \in Attempt /\ In("ended").edge = t.edge /\ In("ended").phase = "ended"
    BY <1>0, <2>1, Rephased DEF Phases
  <2>3. CASE t.phase = "open"
    <3>1. active' = [active EXCEPT ![n] = @ \ {TaskPeer(n, i)}]
      BY <1>7, <2>3 DEF Shutdown, Is
    <3>2. Leaves(n, i, In("ended"))
      BY <2>1, <2>2, <2>3, <3>1 DEF Leaves, Turned, Replaced, InUse
    <3> QED
      BY <3>2 DEF Moved
  <2>4. CASE t.phase = "broken"
    <3>1. active' = active
      BY <1>7, <2>4 DEF Shutdown, Is
    <3>2. Stays(n, i, In("ended"))
      BY <2>1, <2>2, <2>4, <3>1 DEF Stays, Turned, Replaced, InUse
    <3> QED
      BY <3>2 DEF Moved
  <2> QED
    BY <2>1, <2>3, <2>4
<1> QED
  BY <1>1, <1>2, <1>3, <1>4, <1>5, <1>6, <1>7

\* The tasks keep their edges.
SameEdges ==
    \A m \in Node :
        /\ DOMAIN tasks'[m] = DOMAIN tasks[m]
        /\ \A j \in DOMAIN tasks[m] : tasks'[m][j].edge = tasks[m][j].edge

LEMMA PeerType ==
    ASSUME NEW n, NEW e \in Edge
    PROVE  Peer(n, e) \in Node
BY DEF Edge, Peer

LEMMA MovedTypes ==
    ASSUME tasks \in Tasks, active \in [Node -> SUBSET Node],
           NEW n \in Node, NEW i \in DOMAIN tasks[n], Moved(n, i)
    PROVE  tasks' \in Tasks /\ SameEdges /\ active' \in [Node -> SUBSET Node]
<1>1. PICK t \in Attempt : Stays(n, i, t) \/ Enters(n, i, t) \/ Leaves(n, i, t)
  BY DEF Moved, Stays, Enters, Leaves, Turned
<1>2. t.edge = tasks[n][i].edge /\ Replaced(tasks, n, i, t, tasks')
  BY <1>1 DEF Stays, Enters, Leaves, Turned
<1>3. /\ tasks' \in Tasks
      /\ \A m \in Node : DOMAIN tasks'[m] = DOMAIN tasks[m]
      /\ tasks'[n][i] = t
      /\ \A m \in Node \ {n} : tasks'[m] = tasks[m]
      /\ \A j \in DOMAIN tasks[n] \ {i} : tasks'[n][j] = tasks[n][j]
  BY <1>2, TaskReplaced
<1>4. SameEdges
  BY <1>2, <1>3 DEF SameEdges
<1>5. TaskPeer(n, i) \in Node
  <2>1. tasks[n][i] \in Attempt
    BY DEF Tasks
  <2> QED
    BY <2>1, PeerType DEF TaskPeer, Attempt, Task
<1>6. active' \in [Node -> SUBSET Node]
  BY <1>1, <1>5 DEF Stays, Enters, Leaves
<1> QED
  BY <1>3, <1>4, <1>6

\* The tasks of n that have an id.
Users(ts, n) == { i \in DOMAIN ts[n] : InUse(ts[n][i]) }

\* IdsExclusive, of tasks ts and active ids ac.
OneIdEach(ts, ac) ==
    \A n \in Node :
        /\ ac[n] = { Peer(n, ts[n][i].edge) : i \in Users(ts, n) }
        /\ \A i, j \in Users(ts, n) : Peer(n, ts[n][i].edge) = Peer(n, ts[n][j].edge) => i = j

LEMMA IdsAreOneEach == IdsExclusive <=> OneIdEach(tasks, active)
BY DEF IdsExclusive, OneIdEach, Users, InUse, TaskPeer

\* A task that keeps, takes or gives up its id leaves one user of each.
LEMMA IdsMoved ==
    ASSUME NEW ts \in Tasks, NEW ac \in [Node -> SUBSET Node], OneIdEach(ts, ac),
           NEW n \in Node, NEW i \in DOMAIN ts[n], NEW t \in Attempt, t.edge = ts[n][i].edge,
           NEW new, Replaced(ts, n, i, t, new),
           NEW p, p = Peer(n, ts[n][i].edge), NEW nac,
           \/ (InUse(t) <=> InUse(ts[n][i])) /\ nac = ac
           \/ InUse(t) /\ ~InUse(ts[n][i]) /\ p \notin ac[n] /\ nac = [ac EXCEPT ![n] = @ \cup {p}]
           \/ ~InUse(t) /\ InUse(ts[n][i]) /\ nac = [ac EXCEPT ![n] = @ \ {p}]
    PROVE  OneIdEach(new, nac)
<1>1. /\ new \in Tasks
      /\ \A m \in Node : DOMAIN new[m] = DOMAIN ts[m]
      /\ new[n][i] = t
      /\ \A m \in Node \ {n} : new[m] = ts[m]
      /\ \A j \in DOMAIN ts[n] \ {i} : new[n][j] = ts[n][j]
  BY TaskReplaced
<1> SUFFICES ASSUME NEW m \in Node
             PROVE  /\ nac[m] = { Peer(m, new[m][j].edge) : j \in Users(new, m) }
                    /\ \A j, k \in Users(new, m) :
                          Peer(m, new[m][j].edge) = Peer(m, new[m][k].edge) => j = k
  BY DEF OneIdEach
<1>2. CASE m # n
  BY <1>1, <1>2 DEF OneIdEach, Users
<1>3. CASE m = n
  <2> DEFINE U == Users(ts, n)
             V == Users(new, n)
             P(j) == Peer(n, ts[n][j].edge)
  <2>1. \A j \in DOMAIN ts[n] : new[n][j].edge = ts[n][j].edge
    BY <1>1
  <2>2. \A j \in V : Peer(n, new[n][j].edge) = P(j)
    BY <1>1, <2>1 DEF Users
  <2>3. /\ ac[n] = { P(j) : j \in U }
        /\ \A j, k \in U : P(j) = P(k) => j = k
    BY DEF OneIdEach
  <2>4. SUFFICES nac[n] = { P(j) : j \in V } /\ \A j, k \in V : P(j) = P(k) => j = k
    <3>1. { Peer(n, new[n][j].edge) : j \in V } = { P(j) : j \in V }
      BY <2>2
    <3>2. ASSUME \A j, k \in V : P(j) = P(k) => j = k, NEW j \in V, NEW k \in V,
                 Peer(n, new[n][j].edge) = Peer(n, new[n][k].edge)
          PROVE  j = k
      <4>1. P(j) = P(k)
        BY <2>2, <3>2
      <4> HIDE DEF P, V
      <4> QED
        BY <3>2, <4>1
    <3> QED
      BY <1>3, <3>1, <3>2
  <2>5. CASE (InUse(t) <=> InUse(ts[n][i])) /\ nac = ac
    <3>1. V = U
      BY <1>1, <2>5 DEF Users
    <3> HIDE DEF P, U, V
    <3> QED
      BY <2>3, <2>5, <3>1
  <2>6. CASE InUse(t) /\ ~InUse(ts[n][i]) /\ p \notin ac[n] /\ nac = [ac EXCEPT ![n] = @ \cup {p}]
    <3>1. V = U \cup {i} /\ i \notin U
      BY <1>1, <2>6 DEF Users
    <3>2. p = P(i) /\ nac[n] = ac[n] \cup {p}
      BY <2>6
    <3> HIDE DEF P, U, V
    <3>3. nac[n] = { P(j) : j \in V }
      BY <2>3, <3>1, <3>2
    <3>4. \A j \in U : P(j) # P(i)
      BY <2>3, <2>6, <3>2
    <3>5. \A j, k \in V : P(j) = P(k) => j = k
      BY <2>3, <3>1, <3>4
    <3> QED
      BY <3>3, <3>5
  <2>7. CASE ~InUse(t) /\ InUse(ts[n][i]) /\ nac = [ac EXCEPT ![n] = @ \ {p}]
    <3>1. V = U \ {i} /\ i \in U
      BY <1>1, <2>7 DEF Users
    <3>2. p = P(i) /\ nac[n] = ac[n] \ {p}
      BY <2>7
    <3> HIDE DEF P, U, V
    <3>3. nac[n] = { P(j) : j \in V }
      BY <2>3, <3>1, <3>2
    <3>4. \A j, k \in V : P(j) = P(k) => j = k
      BY <2>3, <3>1
    <3> QED
      BY <3>3, <3>4
  <2> QED
    BY <2>5, <2>6, <2>7
<1> QED
  BY <1>2, <1>3

\* Both ends of an edge connect: a task of each is replaced.
LEMMA ConnectMoves ==
    ASSUME tasks \in Tasks, NEW p \in Node, NEW c \in Node,
           NEW i \in DOMAIN tasks[p], NEW j \in DOMAIN tasks[c], Connect(p, i, c, j)
    PROVE  /\ p # c
           /\ InUse(tasks[p][i]) /\ InUse(tasks[c][j])
           /\ active' = active
           /\ \E t, u \in Attempt : \E mid :
                 /\ Replaced(tasks, p, i, t, mid) /\ Replaced(mid, c, j, u, tasks')
                 /\ t.edge = tasks[p][i].edge /\ u.edge = tasks[c][j].edge
                 /\ InUse(t) /\ InUse(u)
<1> DEFINE t == [tasks[p][i] EXCEPT !.phase = "open", !.link = j]
           u == [tasks[c][j] EXCEPT !.phase = "open", !.link = i]
           mid == [tasks EXCEPT ![p][i] = t]
<1>1. /\ tasks[p][i] \in Attempt /\ tasks[c][j] \in Attempt
      /\ tasks[p] \in Seq(Attempt) /\ tasks[c] \in Seq(Attempt)
      /\ i \in Nat /\ j \in Nat
  BY DEF Tasks
<1>2. /\ tasks[p][i].phase = "dial" /\ tasks[c][j].phase = "dial"
      /\ tasks[p][i].edge = <<p, c>>
      /\ active' = active
  BY DEF Connect, Is
<1>3. p # c
  <2>1. <<p, c>> \in Edge
    BY <1>1, <1>2 DEF Attempt, Task
  <2> QED
    BY <2>1 DEF Edge
<1>4. /\ t \in Attempt /\ t.edge = tasks[p][i].edge /\ t.phase = "open"
      /\ u \in Attempt /\ u.edge = tasks[c][j].edge /\ u.phase = "open"
  BY <1>1 DEF Attempt, Task, Phases
<1>5. tasks' = [mid EXCEPT ![c][j] = u]
  <2>1. tasks' = [tasks EXCEPT ![p][i].phase = "open", ![p][i].link = j,
                               ![c][j].phase = "open", ![c][j].link = i]
    BY DEF Connect
  <2>2. /\ mid = [tasks EXCEPT ![p] = [tasks[p] EXCEPT ![i] = t]]
        /\ mid[c] = tasks[c]
    BY <1>3 DEF Tasks
  <2> QED
    BY <1>1, <1>3, <2>1, <2>2 DEF Tasks
<1> HIDE DEF t, u, mid
<1> QED
  BY <1>2, <1>3, <1>4, <1>5 DEF InUse, Replaced, mid

\* Tasks behind tasks.
LEMMA TasksBehind ==
    ASSUME NEW s \in Seq(Attempt), NEW b \in Seq(Attempt)
    PROVE  /\ s \o b \in Seq(Attempt) /\ Len(s \o b) = Len(s) + Len(b)
           /\ \A x \in 1 .. Len(s) : (s \o b)[x] = s[x]
           /\ \A y \in 1 .. Len(b) : (s \o b)[Len(s) + y] = b[y]
BY Concatenated

\* Behind the tasks s the edges A get one each; K and the new ones are held.
AddsTasks(s, A, K, q, new, H) ==
    /\ s \in Seq(Attempt) /\ K \subseteq DOMAIN s
    /\ A \in SUBSET Edge /\ q \in Seq(A) /\ Range(q) = A
    /\ new = s \o [k \in DOMAIN q |-> NewTask(q[k])]
    /\ H = K \cup ((Len(s) + 1) .. (Len(s) + Len(q)))

\* The edges of some of the tasks s.
EdgesOf(s, I) == { s[i].edge : i \in I }

LEMMA TasksAdded ==
    ASSUME NEW s, NEW A, NEW K, NEW q, NEW new, NEW H, AddsTasks(s, A, K, q, new, H)
    PROVE  /\ new \in Seq(Attempt)
           /\ H \in SUBSET DOMAIN new
           /\ \A i \in DOMAIN s : i \in DOMAIN new /\ new[i] = s[i]
           /\ \A i \in DOMAIN new \ DOMAIN s : new[i].phase = "try"
           /\ EdgesOf(new, H) = EdgesOf(s, K) \cup A
<1> DEFINE b == [k \in DOMAIN q |-> NewTask(q[k])]
<1>0. /\ s \in Seq(Attempt) /\ K \subseteq DOMAIN s
      /\ A \in SUBSET Edge /\ q \in Seq(A) /\ Range(q) = A
  BY DEF AddsTasks
<1>1. \A e \in A : NewTask(e) \in Attempt /\ NewTask(e).phase = "try" /\ NewTask(e).edge = e
  BY <1>0, DialAssumption DEF NewTask, Attempt, Task, Phases
<1>2. DOMAIN q = 1 .. Len(q) /\ Len(q) \in Nat /\ DOMAIN s = 1 .. Len(s) /\ Len(s) \in Nat
  BY <1>0
<1>3. /\ b \in Seq(Attempt) /\ Len(b) = Len(q)
      /\ \A k \in 1 .. Len(q) : b[k].phase = "try" /\ b[k].edge = q[k]
  <2>1. \A k \in 1 .. Len(q) : q[k] \in A
    BY <1>0
  <2>2. b \in [1 .. Len(q) -> Attempt]
    BY <1>0, <1>1, <1>2, <2>1
  <2>3. b \in Seq(Attempt) /\ Len(b) = Len(q)
    BY <1>2, <2>2
  <2> QED
    BY <1>1, <1>2, <2>1, <2>3
<1> HIDE DEF b
<1>4. /\ new \in Seq(Attempt) /\ Len(new) = Len(s) + Len(q)
      /\ \A x \in 1 .. Len(s) : new[x] = s[x]
      /\ \A y \in 1 .. Len(q) : new[Len(s) + y] = b[y]
  <2>1. new = s \o b
    BY DEF b, AddsTasks
  <2> HIDE DEF Attempt
  <2>2. /\ s \o b \in Seq(Attempt) /\ Len(s \o b) = Len(s) + Len(b)
        /\ \A x \in 1 .. Len(s) : (s \o b)[x] = s[x]
        /\ \A y \in 1 .. Len(b) : (s \o b)[Len(s) + y] = b[y]
    BY <1>0, <1>3, TasksBehind
  <2> QED
    BY ONLY <1>3, <2>1, <2>2
<1>5. DOMAIN new = 1 .. Len(s) + Len(q)
  BY <1>4
<1>6. ASSUME NEW i \in DOMAIN s
      PROVE  i \in DOMAIN new /\ new[i] = s[i]
  BY <1>2, <1>4, <1>5
<1>7. ASSUME NEW x \in (Len(s) + 1) .. (Len(s) + Len(q))
      PROVE  x - Len(s) \in 1 .. Len(q) /\ new[x] = b[x - Len(s)]
  <2>1. x - Len(s) \in 1 .. Len(q) /\ Len(s) + (x - Len(s)) = x
    BY <1>2
  <2> QED
    BY <1>4, <2>1
<1>8. \A i \in DOMAIN new \ DOMAIN s : new[i].phase = "try"
  <2>1. DOMAIN new \ DOMAIN s \subseteq (Len(s) + 1) .. (Len(s) + Len(q))
    BY <1>2, <1>5
  <2> QED
    BY <1>3, <1>7, <2>1
<1>9. H \in SUBSET DOMAIN new
  BY <1>0, <1>2, <1>5 DEF AddsTasks
<1>10. { new[i].edge : i \in K } = { s[i].edge : i \in K }
  BY <1>0, <1>6
<1>11. { new[x].edge : x \in (Len(s) + 1) .. (Len(s) + Len(q)) } = A
  <2>1. ASSUME NEW x \in (Len(s) + 1) .. (Len(s) + Len(q))
        PROVE  new[x].edge \in A
    <3>1. /\ x - Len(s) \in 1 .. Len(q)
          /\ new[x].edge = q[x - Len(s)]
      BY <1>3, <1>7
    <3>2. \A k \in 1 .. Len(q) : q[k] \in A
      BY <1>0
    <3> QED
      BY <3>1, <3>2
  <2>2. ASSUME NEW e \in A
        PROVE  \E x \in (Len(s) + 1) .. (Len(s) + Len(q)) : new[x].edge = e
    <3>1. PICK y \in 1 .. Len(q) : q[y] = e
      BY <1>0, <1>2 DEF Range
    <3>2. Len(s) + y \in (Len(s) + 1) .. (Len(s) + Len(q))
      BY <1>2
    <3>3. new[Len(s) + y].edge = e
      BY <1>3, <1>4, <3>1
    <3> QED
      BY <3>2, <3>3
  <2> QED
    BY <2>1, <2>2
<1>12. { new[i].edge : i \in H } = { s[i].edge : i \in K } \cup A
  BY <1>10, <1>11 DEF AddsTasks
<1> QED
  BY <1>4, <1>6, <1>8, <1>9, <1>12 DEF EdgesOf

-----------------------------------------------------------------------------
(* The invariants of the types and of the table. *)

Types == TypeOK /\ tasks \in Tasks

\* The table fits the roles of the nodes, a process that has not started is not
\* in it, only a subscriber calls subscribe, and in every reading of the table a
\* proxy with children has a parent (so a proxy never joins again by itself).
Placed ==
    /\ Fit(table)
    /\ \A n \in Node : pc[n] = "off" => Unknown(table, n) /\ attaches[n] = 0
    /\ \A n \in Node : attaches[n] > 0 => Role[n] = "subscriber"
    /\ \A n \in Node : \A e \in view[n] :
          Role[e[1]] = "proxy" => \E f \in view[n] : f[2] = e[1]

\* The steps of a task by itself.
TaskStep(n, i) ==
    \/ Dial(n, i) \/ Refused(n, i) \/ DialFails(n, i) \/ DialHangs(n, i)
    \/ DialResumes(n, i) \/ PeerGone(n, i) \/ ChannelFails(n, i) \/ Shutdown(n, i)

\* The steps that leave the table, the managers and the calls alone.
Quiet(n) ==
    \/ Beat(n) \/ Expire(n) \/ Debounced(n)
    \/ \E i \in DOMAIN tasks[n] : TaskStep(n, i)
    \/ \E i \in DOMAIN tasks[n] : \E c \in Node : \E j \in DOMAIN tasks[c] : Connect(n, i, c, j)

LEMMA Steps ==
    ASSUME [Next]_vars
    PROVE  \/ UNCHANGED vars
           \/ \E n \in Node :
                 \/ Quiet(n) \/ Start(n) \/ StartFails(n) \/ Listen(n) \/ ListenFails(n)
                 \/ StreamEnds(n) \/ Discard(n) \/ Read(n) \/ ReadFails(n) \/ Apply(n)
                 \/ Joined(n) \/ NotJoined(n) \/ JoinFails(n) \/ CleansUp(n) \/ Crash(n)
<1>1. SUFFICES ASSUME Next
               PROVE  \E n \in Node :
                 \/ Quiet(n) \/ Start(n) \/ StartFails(n) \/ Listen(n) \/ ListenFails(n)
                 \/ StreamEnds(n) \/ Discard(n) \/ Read(n) \/ ReadFails(n) \/ Apply(n)
                 \/ Joined(n) \/ NotJoined(n) \/ JoinFails(n) \/ CleansUp(n) \/ Crash(n)
  OBVIOUS
<1>2. PICK n \in Node :
        \/ Start(n) \/ Manage(n) \/ Subscribes(n) \/ Beat(n)
        \/ Runs(n) \/ Connects(n) \/ Serve(n) \/ Fails(n)
  BY <1>1 DEF Next
<1>3. CASE Runs(n) \/ Connects(n)
  BY <1>3 DEF Runs, Connects, Quiet, TaskStep
<1>4. CASE Manage(n) \/ Subscribes(n) \/ Serve(n)
  BY <1>4 DEF Manage, Subscribes, Serve, Quiet
<1>5. CASE Fails(n)
  BY <1>5 DEF Fails, Quiet, TaskStep
<1> QED
  BY <1>2, <1>3, <1>4, <1>5 DEF Quiet

LEMMA QuietKeeps ==
    ASSUME NEW n \in Node, Quiet(n)
    PROVE  UNCHANGED <<table, manager, held, joining>>
<1>1. CASE Beat(n) \/ Expire(n) \/ Debounced(n)
  BY <1>1 DEF Beat, Expire, Debounced, manager, channels, joining, store
<1>2. ASSUME NEW i \in DOMAIN tasks[n], TaskStep(n, i)
      PROVE  UNCHANGED <<table, manager, held, joining>>
  BY <1>2 DEF TaskStep, Dial, Refused, DialFails, DialHangs, DialResumes, PeerGone,
     ChannelFails, Break, Shutdown, store
<1>3. ASSUME NEW i, NEW c, NEW j, Connect(n, i, c, j)
      PROVE  UNCHANGED <<table, manager, held, joining>>
  BY <1>3 DEF Connect, store
<1> QED
  BY <1>1, <1>2, <1>3 DEF Quiet

\* A call that joins.
LEMMA JoinedFits ==
    ASSUME Types, Placed, NEW n \in Node, Joined(n)
    PROVE  /\ Fit(table')
           /\ \A k \in Node \ {n} : Unknown(table, k) => Unknown(table', k)
<1>1. /\ Fit(table) /\ Role[n] = "subscriber"
  BY DEF Placed, Joined, Waiting
<1>2. PICK m \in Node :
        Tree!JoinUnder(n, m) \/ \E x \in alive : Tree!JoinByGraft(n, m, x)
  BY DEF Joined
<1>3. CASE Tree!JoinUnder(n, m)
  <2>1. /\ table.publishers # <<>> /\ m \in Reach(table)
        /\ table' = Attach(Stamp(table, n), m, n)
    BY <1>3, TreeOperators DEF Tree!JoinUnder, Tree!Joins
  <2> QED
    BY <1>1, <2>1, JoinFits
<1>4. ASSUME NEW x \in alive, Tree!JoinByGraft(n, m, x)
      PROVE  /\ Fit(table')
             /\ \A k \in Node \ {n} : Unknown(table, k) => Unknown(table', k)
  <2>1. /\ table.publishers # <<>> /\ m \in Reach(table)
        /\ x \in Proxies(table) \ UsedNodes(table)
    BY <1>4, TreeOperators DEF Tree!JoinByGraft, Tree!Joins
  <2>2. PICK M \in Moves(table, m) : table' = Graft(Stamp(table, n), m, x, n, M)
    <3>1. Tree!Moves(table, m) = Moves(table, m) /\ Tree!Stamp(table, n) = Stamp(table, n)
      BY TreeOperators
    <3>2. PICK M \in Moves(table, m) : table' = Tree!Graft(Stamp(table, n), m, x, n, M)
      BY <1>4, <3>1 DEF Tree!JoinByGraft
    <3> QED
      BY <3>2, TreeOperators
  <2> QED
    BY <1>1, <2>1, <2>2, GraftFits
<1> QED
  BY <1>2, <1>3, <1>4

LEMMA PlacedStep ==
    ASSUME Types, Placed, [Next]_vars
    PROVE  Placed'
<1> DEFINE Fastened(v) == \A e \in v : Role[e[1]] = "proxy" => \E f \in v : f[2] = e[1]
<1>0. /\ table \in Table /\ Fit(table)
      /\ pc \in [Node -> PCs] /\ attaches \in [Node -> Nat] /\ view \in [Node -> SUBSET Edge]
      /\ \A n \in Node : Fastened(view[n])
      /\ \A n \in Node : pc[n] = "off" => Unknown(table, n) /\ attaches[n] = 0
      /\ \A n \in Node : attaches[n] > 0 => Role[n] = "subscriber"
  BY DEF Types, TypeOK, Placed
<1> SUFFICES /\ Fit(table')
             /\ \A n \in Node : pc'[n] = "off" => Unknown(table', n) /\ attaches'[n] = 0
             /\ \A n \in Node : attaches'[n] > 0 => Role[n] = "subscriber"
             /\ \A n \in Node : Fastened(view'[n])
  BY DEF Placed, Unknown, Relevant, Intermediates, Publishers, Proxies, Fit, Unique,
         Hanging, Reach, ReachClosed, Root
<1>a. Fastened({})
  OBVIOUS
<1>b. Fastened(table.edges)
  BY <1>0, ParentsAreFed
<1>1. CASE UNCHANGED vars
  BY <1>0, <1>1 DEF vars, store, manager, joining
<1>2. ASSUME NEW n \in Node, Quiet(n)
      PROVE  UNCHANGED <<table, pc, attaches, view>>
  BY <1>2, QuietKeeps DEF manager, joining
<1> HIDE DEF Fastened
<1>3. ASSUME NEW n \in Node, Start(n)
      PROVE  /\ Fit(table')
             /\ \A m \in Node : pc'[m] = "off" => Unknown(table', m) /\ attaches'[m] = 0
             /\ \A m \in Node : attaches'[m] > 0 => Role[m] = "subscriber"
             /\ \A m \in Node : Fastened(view'[m])
  <2>1. pc' = [pc EXCEPT ![n] = "connect"] /\ view' = view
    BY <1>3 DEF Start
  <2>2. \/ table' = table
        \/ Role[n] = "publisher" /\ table' = AddPublisher(table, n)
        \/ Role[n] = "proxy" /\ table' = AddProxy(table, n)
    BY <1>3, TreeOperators DEF Start, Tree!RegisterPublisher, Tree!RegisterProxy
  <2>3. \/ attaches' = attaches
        \/ Role[n] = "subscriber" /\ attaches' = [attaches EXCEPT ![n] = @ + 1]
    BY <1>3 DEF Start
  <2>4. Fit(table') /\ \A m \in Node \ {n} : Unknown(table, m) => Unknown(table', m)
    BY <1>0, <2>2, RegisterFits
  <2>5. \A m \in Node : pc'[m] = "off" => m # n /\ pc[m] = "off"
    BY <1>0, <2>1
  <2> QED
    BY <1>0, <2>1, <2>3, <2>4, <2>5
<1>4. ASSUME NEW n \in Node,
             \/ StartFails(n) \/ Listen(n) \/ ListenFails(n) \/ StreamEnds(n) \/ Discard(n)
      PROVE  /\ UNCHANGED <<table, attaches, view>>
             /\ \A m \in Node : pc'[m] = "off" => pc[m] = "off"
  BY <1>0, <1>4 DEF StartFails, Listen, ListenFails, StreamEnds, Discard, store, joining
<1>5. ASSUME NEW n \in Node, Read(n) \/ ReadFails(n)
      PROVE  /\ UNCHANGED <<table, attaches>>
             /\ \A m \in Node : pc'[m] = "off" => pc[m] = "off"
             /\ view' = [view EXCEPT ![n] = table.edges] \/ view' = [view EXCEPT ![n] = {}]
  BY <1>0, <1>5 DEF Read, ReadFails, TakesNote, store, joining
<1>6. ASSUME NEW n \in Node, Apply(n)
      PROVE  /\ UNCHANGED table
             /\ \A m \in Node : pc'[m] = "off" => pc[m] = "off" /\ attaches'[m] = attaches[m]
             /\ \A m \in Node : attaches'[m] > 0 => attaches[m] > 0 \/ Role[m] = "subscriber"
             /\ view' = [view EXCEPT ![n] = {}]
  <2>1. /\ table' = table /\ pc[n] = "apply" /\ pc' = [pc EXCEPT ![n] = "wait"]
        /\ view' = [view EXCEPT ![n] = {}]
        /\ attaches' = IF Rejoins(n) THEN [attaches EXCEPT ![n] = @ + 1] ELSE attaches
    BY <1>6 DEF Apply, Reconcile, store
  <2>2. Rejoins(n) => Role[n] = "subscriber"
    <3>1. CASE Role[n] = "proxy"
      BY <1>0, <3>1 DEF Rejoins, Fastened
    <3> QED
      BY <3>1 DEF Rejoins
  <2> QED
    BY <1>0, <2>1, <2>2
<1>7. ASSUME NEW n \in Node, Joined(n)
      PROVE  /\ Fit(table')
             /\ \A m \in Node : pc'[m] = "off" => Unknown(table', m) /\ attaches'[m] = 0
             /\ \A m \in Node : attaches'[m] > 0 => attaches[m] > 0
             /\ view' = view
  <2>1. /\ pc[n] # "off" /\ pc' = pc /\ view' = view
        /\ attaches[n] > 0 /\ attaches' = [attaches EXCEPT ![n] = @ - 1]
    BY <1>7 DEF Joined, Waiting, Up
  <2>2. /\ Fit(table')
        /\ \A k \in Node \ {n} : Unknown(table, k) => Unknown(table', k)
    BY <1>7, JoinedFits
  <2> QED
    BY <1>0, <2>1, <2>2
<1>8. ASSUME NEW n \in Node, NotJoined(n) \/ JoinFails(n)
      PROVE  /\ UNCHANGED <<table, pc, view>>
             /\ \A m \in Node : pc[m] = "off" => attaches'[m] = attaches[m]
             /\ \A m \in Node : attaches'[m] > 0 => attaches[m] > 0
  <2>1. /\ UNCHANGED <<table, pc, view>> /\ pc[n] # "off"
        /\ attaches[n] > 0 /\ attaches' = [attaches EXCEPT ![n] = @ - 1]
    BY <1>8 DEF NotJoined, JoinFails, Waiting, Up, store, manager
  <2> QED
    BY <1>0, <2>1
<1>9. ASSUME NEW n \in Node, CleansUp(n)
      PROVE  /\ UNCHANGED <<pc, attaches, view>>
             /\ Fit(table')
             /\ \A k \in Node : Unknown(table, k) => Unknown(table', k)
  <2>1. UNCHANGED <<pc, attaches, view>>
    BY <1>9 DEF CleansUp, joining
  <2>2. table' = CleanUp(table, n)
    BY <1>9, TreeOperators DEF CleansUp, Tree!Lose
  <2> QED
    BY <1>0, <2>1, <2>2, CleanUpFits
<1>10. ASSUME NEW n \in Node, Crash(n)
       PROVE  /\ UNCHANGED table
              /\ \A m \in Node : pc'[m] = "off" => pc[m] = "off" /\ attaches'[m] = attaches[m]
              /\ \A m \in Node : attaches'[m] > 0 => attaches[m] > 0
              /\ view' = [view EXCEPT ![n] = {}]
  <2>1. /\ table' = table /\ pc' = [pc EXCEPT ![n] = "down"]
        /\ attaches' = [attaches EXCEPT ![n] = 0] /\ view' = [view EXCEPT ![n] = {}]
    BY <1>10 DEF Crash, store
  <2> QED
    BY <1>0, <2>1
<1>11. ASSUME NEW n \in Node, NEW v, v \in {table.edges, {}}, view' = [view EXCEPT ![n] = v]
       PROVE  \A m \in Node : Fastened(view'[m])
  BY <1>0, <1>a, <1>b, <1>11
<1>12. ASSUME NEW n \in Node, Quiet(n)
       PROVE  /\ Fit(table')
              /\ \A m \in Node : pc'[m] = "off" => Unknown(table', m) /\ attaches'[m] = 0
              /\ \A m \in Node : attaches'[m] > 0 => Role[m] = "subscriber"
              /\ \A m \in Node : Fastened(view'[m])
  BY <1>0, <1>2, <1>12
<1> QED
  BY <1>0, <1>1, <1>3, <1>4, <1>5, <1>6, <1>7, <1>8, <1>9, <1>10, <1>11, <1>12, Steps

\* What a reconciliation does to the tasks.
LEMMA ApplyFacts ==
    ASSUME Types, NEW n \in Node, Apply(n)
    PROVE  /\ tasks' \in Tasks
           /\ \A m \in Node \ {n} : tasks'[m] = tasks[m] /\ held'[m] = held[m]
           /\ held' \in [Node -> SUBSET Nat]
           /\ \A m \in Node : held'[m] \subseteq DOMAIN tasks'[m]
           /\ \A i \in DOMAIN tasks[n] : i \in DOMAIN tasks'[n] /\ tasks'[n][i] = tasks[n][i]
           /\ \A i \in DOMAIN tasks'[n] \ DOMAIN tasks[n] : tasks'[n][i].phase = "try"
           /\ EdgesOf(tasks'[n], held'[n]) = EdgesOf(tasks[n], Kept(n)) \cup Added(n)
<1> DEFINE A == Added(n)
           q == SetToSeq(A)
           s == tasks[n]
           K == Kept(n)
           new == s \o [k \in DOMAIN q |-> NewTask(q[k])]
           H == K \cup ((Len(s) + 1) .. (Len(s) + Len(q)))
<1>1. /\ tasks \in Tasks /\ s \in Seq(Attempt)
      /\ held \in [Node -> SUBSET Nat]
      /\ \A m \in Node : held[m] \subseteq DOMAIN tasks[m]
      /\ view[n] \subseteq Edge
  BY DEF Types, TypeOK, Tasks
<1>2. A \in SUBSET Edge
  BY <1>1 DEF Added, Relevant
<1>3. q \in Seq(A) /\ Range(q) = A
  BY <1>2, Listed
<1>4. K \in SUBSET DOMAIN s
  BY <1>1 DEF Kept
<1>5. tasks' = [tasks EXCEPT ![n] = new] /\ held' = [held EXCEPT ![n] = H]
  BY DEF Apply, Reconcile
<1> HIDE DEF A, q, K
<1>a. AddsTasks(s, A, K, q, new, H)
  BY <1>1, <1>2, <1>3, <1>4 DEF AddsTasks
<1> HIDE DEF new, H, s
<1>6. /\ new \in Seq(Attempt)
      /\ H \in SUBSET DOMAIN new
      /\ \A i \in DOMAIN s : i \in DOMAIN new /\ new[i] = s[i]
      /\ \A i \in DOMAIN new \ DOMAIN s : new[i].phase = "try"
      /\ EdgesOf(new, H) = EdgesOf(s, K) \cup A
  BY <1>a, TasksAdded
<1>7. tasks' \in Tasks /\ tasks'[n] = new /\ \A m \in Node \ {n} : tasks'[m] = tasks[m]
  BY <1>1, <1>5, <1>6 DEF Tasks, s
<1>8. DOMAIN new \subseteq Nat
  BY <1>6
<1>9. /\ held' \in [Node -> SUBSET Nat] /\ held'[n] = H
      /\ \A m \in Node \ {n} : held'[m] = held[m]
  BY <1>1, <1>5, <1>6, <1>8
<1>10. \A m \in Node : held'[m] \subseteq DOMAIN tasks'[m]
  BY <1>1, <1>6, <1>7, <1>9
<1>11. EdgesOf(tasks'[n], held'[n]) = EdgesOf(s, K) \cup A
  BY <1>6, <1>7, <1>9
<1> QED
  BY <1>6, <1>7, <1>9, <1>10, <1>11 DEF A, K, s

\* What a crash does to them.
LEMMA CrashFacts ==
    ASSUME Types, NEW n \in Node, Crash(n)
    PROVE  /\ tasks' \in Tasks
           /\ \A m \in Node \ {n} : tasks'[m] = tasks[m]
           /\ DOMAIN tasks'[n] = DOMAIN tasks[n]
           /\ \A i \in DOMAIN tasks[n] : tasks'[n][i].phase = "ended"
           /\ held' = [held EXCEPT ![n] = {}] /\ active' = [active EXCEPT ![n] = {}]
<1> DEFINE new == [i \in DOMAIN tasks[n] |-> [tasks[n][i] EXCEPT !.phase = "ended"]]
<1>1. tasks \in Tasks /\ tasks[n] \in Seq(Attempt)
  BY DEF Types, Tasks
<1>2. \A t \in Attempt : [t EXCEPT !.phase = "ended"] \in Attempt
                         /\ [t EXCEPT !.phase = "ended"].phase = "ended"
  BY DEF Attempt, Task, Phases
<1>3. PICK k \in Nat : DOMAIN tasks[n] = 1 .. k
  BY <1>1
<1>4. \A i \in 1 .. k : tasks[n][i] \in Attempt
  BY <1>1, <1>3
<1>5. new \in [1 .. k -> Attempt] /\ \A i \in 1 .. k : new[i].phase = "ended"
  BY <1>2, <1>3, <1>4
<1>6. tasks' = [tasks EXCEPT ![n] = new]
  BY DEF Crash
<1>7. held' = [held EXCEPT ![n] = {}] /\ active' = [active EXCEPT ![n] = {}]
  BY DEF Crash
<1> HIDE DEF new
<1>8. new \in Seq(Attempt) /\ DOMAIN new = 1 .. k
  BY <1>5
<1> QED
  BY <1>1, <1>3, <1>5, <1>6, <1>7, <1>8 DEF Tasks

\* The clients of a process can be counted.
LEMMA ClientsAreCounted ==
    ASSUME Types, NEW n \in Node
    PROVE  Cardinality(Clients(n)) \in Nat
<1>1. PICK k \in Nat : DOMAIN tasks[n] = 1 .. k
  <2>1. tasks[n] \in Seq(Attempt)
    BY DEF Types, Tasks
  <2> QED
    BY <2>1
<1>2. IsFiniteSet(1 .. k)
  BY FS_Interval
<1>3. Clients(n) \in SUBSET (1 .. k)
  BY <1>1 DEF Clients
<1> QED
  BY <1>2, <1>3, FS_Subset, FS_CardinalityType

LEMMA TypesStep ==
    ASSUME Types, Placed, Placed', [Next]_vars
    PROVE  Types'
<1> DEFINE
      TaskTypes == /\ tasks' \in Tasks
                   /\ held' \in [Node -> SUBSET Nat]
                   /\ \A m \in Node : held'[m] \subseteq DOMAIN tasks'[m]
                   /\ active' \in [Node -> SUBSET Node]
      ManagerTypes == /\ pc' \in [Node -> PCs]
                      /\ listening' \subseteq Node
                      /\ notes' \in [Node -> Nat]
                      /\ view' \in [Node -> SUBSET Edge]
                      /\ seen' \in [Node -> SUBSET Edge]
                      /\ missed' \subseteq Node
      JoinTypes == attaches' \in [Node -> Nat] /\ unlucky' \subseteq Node
      ServerTypes == debounces' \in [Node -> Nat] /\ doomed' \subseteq Node
      Counts == /\ dialFaults' \in 0 .. MaxDialFaults
                /\ faults' \in 0 .. MaxFaults
                /\ cleanUps' \in 0 .. MaxCleanUps
      Beats == alive' \subseteq { n \in Node : Role[n] = "proxy" }
<1>0. /\ tasks \in Tasks /\ TypeOK
      /\ table.edges \subseteq Edge /\ table' \in Table
  BY DEF Types, Placed, Fit
<1> SUFFICES TaskTypes /\ ManagerTypes /\ JoinTypes /\ ServerTypes /\ Counts /\ Beats
  <2>1. Seq(Attempt) \subseteq Seq(Task)
    BY DEF Attempt
  <2>2. tasks' \in Tasks => tasks' \in [Node -> Seq(Task)]
    BY <2>1 DEF Tasks
  <2> QED
    BY <1>0, <2>2 DEF Types, TypeOK, Tasks, Attempt
<1>a. /\ pc \in [Node -> PCs] /\ listening \subseteq Node /\ notes \in [Node -> Nat]
      /\ view \in [Node -> SUBSET Edge] /\ seen \in [Node -> SUBSET Edge]
      /\ missed \subseteq Node
  BY <1>0 DEF TypeOK
<1>b. /\ attaches \in [Node -> Nat] /\ unlucky \subseteq Node
      /\ debounces \in [Node -> Nat] /\ doomed \subseteq Node
  BY <1>0 DEF TypeOK
<1> DEFINE Spent == /\ faults' = faults \/ Fault
                    /\ \/ dialFaults' = dialFaults
                       \/ dialFaults < MaxDialFaults /\ dialFaults' = dialFaults + 1
                    /\ \/ cleanUps' = cleanUps
                       \/ cleanUps < MaxCleanUps /\ cleanUps' = cleanUps + 1
<1>c. Spent => Counts
  <2>1. /\ dialFaults \in 0 .. MaxDialFaults /\ faults \in 0 .. MaxFaults
        /\ cleanUps \in 0 .. MaxCleanUps
    BY <1>0 DEF TypeOK
  <2> QED
    BY <2>1, BoundAssumption DEF Fault
<1>d. Notify => notes' \in [Node -> Nat] /\ missed' \subseteq Node
  BY <1>a DEF Notify
<1>1. CASE UNCHANGED vars
  BY <1>0, <1>1 DEF vars, store, manager, channels, joining, server, TypeOK
<1>2. ASSUME NEW n \in Node, Quiet(n)
      PROVE  TaskTypes /\ ManagerTypes /\ JoinTypes /\ ServerTypes /\ Counts /\ Beats
  <2>1. UNCHANGED <<manager, held, joining>>
    BY <1>2, QuietKeeps
  <2>2. ManagerTypes /\ JoinTypes
    BY <1>0, <2>1 DEF manager, joining, TypeOK
  <2>3. CASE Beat(n) \/ Expire(n) \/ Debounced(n)
    <3>1. TaskTypes
      BY <1>0, <2>3 DEF Beat, Expire, Debounced, channels, TypeOK
    <3>2. Counts
      <4>1. Spent
        BY <2>3 DEF Beat, Expire, Debounced, server
      <4> QED
        BY <1>c, <4>1
    <3>3. ServerTypes
      <4>1. \/ UNCHANGED <<debounces, doomed>>
            \/ /\ debounces[n] > 0 /\ debounces' = [debounces EXCEPT ![n] = @ - 1]
               /\ doomed' \in {doomed, doomed \cup {n}}
        BY <2>3 DEF Beat, Expire, Debounced, server
      <4> QED
        BY <1>b, <4>1
    <3>4. Beats
      BY <1>0, <2>3 DEF Beat, Expire, Debounced, store, TypeOK
    <3> QED
      BY <2>2, <3>1, <3>2, <3>3, <3>4
  <2>4. ASSUME NEW i \in DOMAIN tasks[n], TaskStep(n, i)
        PROVE  TaskTypes /\ ServerTypes /\ Counts /\ Beats
    <3>1. Moved(n, i)
      BY <1>0, <2>4, TaskMoves DEF TaskStep
    <3>2. tasks' \in Tasks /\ SameEdges /\ active' \in [Node -> SUBSET Node]
      BY <1>0, <3>1, MovedTypes DEF TypeOK
    <3>3. TaskTypes
      BY <1>0, <2>1, <3>2 DEF SameEdges, TypeOK
    <3>4. Counts
      <4>1. Spent
        BY <2>4 DEF TaskStep, Dial, Refused, DialFails, DialHangs, DialResumes, PeerGone,
           ChannelFails, Break, Shutdown, server
      <4> QED
        BY <1>c, <4>1
    <3>5. ServerTypes
      <4>1. doomed' = doomed /\ (debounces' = debounces \/ ClientCloses(n))
        BY <2>4 DEF TaskStep, Dial, Refused, DialFails, DialHangs, DialResumes, PeerGone,
           ChannelFails, Break, Shutdown, server
      <4> QED
        BY <1>b, <4>1 DEF ClientCloses
    <3>6. Beats
      BY <1>0, <2>4 DEF TaskStep, Dial, Refused, DialFails, DialHangs, DialResumes, PeerGone,
         ChannelFails, Break, Shutdown, store, TypeOK
    <3> QED
      BY <3>3, <3>4, <3>5, <3>6
  <2>5. ASSUME NEW i \in DOMAIN tasks[n], NEW c \in Node, NEW j \in DOMAIN tasks[c],
               Connect(n, i, c, j)
        PROVE  TaskTypes /\ ServerTypes /\ Counts /\ Beats
    <3>1. n # c /\ active' = active
      BY <1>0, <2>5, ConnectMoves
    <3> PICK t, u \in Attempt : \E mid :
            Replaced(tasks, n, i, t, mid) /\ Replaced(mid, c, j, u, tasks')
      BY <1>0, <2>5, ConnectMoves
    <3>2. PICK mid :
            Replaced(tasks, n, i, t, mid) /\ Replaced(mid, c, j, u, tasks')
      OBVIOUS
    <3>3. mid \in Tasks /\ \A m \in Node : DOMAIN mid[m] = DOMAIN tasks[m]
      BY <1>0, <3>2, TaskReplaced
    <3>4. tasks' \in Tasks /\ \A m \in Node : DOMAIN tasks'[m] = DOMAIN tasks[m]
      BY <3>2, <3>3, TaskReplaced
    <3>5. TaskTypes
      BY <1>0, <2>1, <3>1, <3>4 DEF TypeOK
    <3>6. ServerTypes /\ Counts /\ Beats
      BY <1>0, <2>5 DEF Connect, server, store, TypeOK
    <3> QED
      BY <3>5, <3>6
  <2>6. ServerTypes /\ Counts /\ Beats /\ TaskTypes
    BY <1>2, <2>3, <2>4, <2>5 DEF Quiet
  <2> QED
    BY <2>2, <2>6
<1>3. ASSUME NEW n \in Node,
             \/ Start(n) \/ StartFails(n) \/ Listen(n) \/ ListenFails(n) \/ StreamEnds(n)
             \/ Discard(n) \/ Read(n) \/ ReadFails(n)
      PROVE  TaskTypes /\ ManagerTypes /\ JoinTypes /\ ServerTypes /\ Counts /\ Beats
  <2>1. TaskTypes
    BY <1>0, <1>3 DEF Start, StartFails, Listen, ListenFails, StreamEnds, Discard, Read,
       ReadFails, channels, TypeOK
  <2>2. ManagerTypes
    <3>1. CASE Start(n)
      BY <1>a, <1>d, <3>1 DEF Start, PCs
    <3>2. CASE StartFails(n) \/ Listen(n) \/ ListenFails(n) \/ StreamEnds(n)
      BY <1>a, <3>2 DEF StartFails, Listen, ListenFails, StreamEnds, PCs
    <3>3. CASE Discard(n)
      BY <1>a, <3>3 DEF Discard, PCs
    <3>4. CASE Read(n) \/ ReadFails(n)
      <4>1. /\ pc' = [pc EXCEPT ![n] = "apply"] /\ listening' = listening /\ seen' = seen
            /\ notes[n] > 0 /\ notes' = [notes EXCEPT ![n] = @ - 1]
            /\ \/ view' = [view EXCEPT ![n] = table.edges]
               \/ view' = [view EXCEPT ![n] = {}]
            /\ missed' \in {missed \ {n}, missed \cup {n}}
        BY <3>4 DEF Read, ReadFails, TakesNote
      <4> QED
        BY <1>0, <1>a, <4>1 DEF PCs
    <3> QED
      BY <1>3, <3>1, <3>2, <3>3, <3>4
  <2>3. JoinTypes
    <3>1. /\ unlucky' = unlucky
          /\ attaches' = attaches \/ attaches' = [attaches EXCEPT ![n] = @ + 1]
      BY <1>3 DEF Start, StartFails, Listen, ListenFails, StreamEnds, Discard, Read,
         ReadFails, joining
    <3> QED
      BY <1>b, <3>1
  <2>4. ServerTypes /\ Counts
    <3>1. UNCHANGED <<debounces, doomed>> /\ Spent
      BY <1>3 DEF Start, StartFails, Listen, ListenFails, StreamEnds, Discard, Read,
         ReadFails, server
    <3> QED
      BY <1>b, <1>c, <3>1
  <2>5. Beats
    BY <1>0, <1>3 DEF Start, StartFails, Listen, ListenFails, StreamEnds, Discard, Read,
       ReadFails, store, TypeOK
  <2> QED
    BY <2>1, <2>2, <2>3, <2>4, <2>5
<1>4. ASSUME NEW n \in Node, Joined(n) \/ NotJoined(n) \/ JoinFails(n) \/ CleansUp(n)
      PROVE  TaskTypes /\ ManagerTypes /\ JoinTypes /\ ServerTypes /\ Counts /\ Beats
  <2>1. TaskTypes
    BY <1>0, <1>4 DEF Joined, NotJoined, JoinFails, CleansUp, channels, TypeOK
  <2>2. ManagerTypes
    <3>1. /\ UNCHANGED <<pc, listening, view, seen>>
          /\ UNCHANGED <<notes, missed>> \/ Notify
      BY <1>4 DEF Joined, NotJoined, JoinFails, CleansUp, manager
    <3> QED
      BY <1>a, <1>d, <3>1
  <2>3. JoinTypes
    <3>1. /\ \/ attaches' = attaches
             \/ attaches[n] > 0 /\ attaches' = [attaches EXCEPT ![n] = @ - 1]
          /\ unlucky' \in {unlucky, unlucky \ {n}, unlucky \cup {n}}
      BY <1>4 DEF Joined, NotJoined, JoinFails, CleansUp, Waiting, joining
    <3> QED
      BY <1>b, <3>1
  <2>4. ServerTypes /\ Counts
    <3>1. /\ debounces' = debounces /\ doomed' \in {doomed, doomed \ {n}}
          /\ Spent
      BY <1>4 DEF Joined, NotJoined, JoinFails, CleansUp, server
    <3> QED
      BY <1>b, <1>c, <3>1
  <2>5. Beats
    BY <1>0, <1>4 DEF Joined, NotJoined, JoinFails, CleansUp, store, TypeOK
  <2> QED
    BY <2>1, <2>2, <2>3, <2>4, <2>5
<1>5. ASSUME NEW n \in Node, Apply(n)
      PROVE  TaskTypes /\ ManagerTypes /\ JoinTypes /\ ServerTypes /\ Counts /\ Beats
  <2>1. TaskTypes
    BY <1>0, <1>5, ApplyFacts DEF Apply, Reconcile, TypeOK
  <2>2. ManagerTypes /\ JoinTypes
    BY <1>0, <1>5 DEF Apply, Reconcile, Relevant, PCs, TypeOK
  <2>3. ServerTypes /\ Counts /\ Beats
    BY <1>0, <1>5 DEF Apply, Reconcile, server, store, TypeOK
  <2> QED
    BY <2>1, <2>2, <2>3
<1>6. ASSUME NEW n \in Node, Crash(n)
      PROVE  TaskTypes /\ ManagerTypes /\ JoinTypes /\ ServerTypes /\ Counts /\ Beats
  <2>1. TaskTypes
    BY <1>0, <1>6, CrashFacts DEF TypeOK
  <2>2. ManagerTypes /\ JoinTypes
    BY <1>0, <1>6, SMTT(30) DEF Crash, PCs, TypeOK
  <2>3. Counts /\ Beats
    <3>1. alive' = alive /\ Spent
      BY <1>6 DEF Crash, store
    <3> QED
      BY <1>0, <1>c, <3>1 DEF TypeOK
  <2>4. ServerTypes
    BY <1>0, <1>6, ClientsAreCounted DEF Crash, TypeOK
  <2> QED
    BY <2>1, <2>2, <2>3, <2>4
<1> HIDE DEF TaskTypes, ManagerTypes, JoinTypes, ServerTypes, Counts, Beats
<1> QED
  BY <1>1, <1>2, <1>3, <1>4, <1>5, <1>6, Steps

\* The edges of a process at the start, and the tasks of them.
LEMMA FirstFacts ==
    ASSUME NEW n \in Node
    PROVE  /\ First(n) \in Seq(Edge)
           /\ DOMAIN First(n) = 1 .. Len(First(n)) /\ Len(First(n)) \in Nat
           /\ Range(First(n)) = Relevant(Initial.edges, n)
           /\ \A i \in DOMAIN First(n) : First(n)[i] \in Relevant(Initial.edges, n)
           /\ \A i, j \in DOMAIN First(n) : First(n)[i] = First(n)[j] => i = j
<1> DEFINE S == Relevant(Initial.edges, n)
<1>1. S \in SUBSET Edge
  BY RunningAssumption DEF Relevant
<1> HIDE DEF S
<1>2. /\ SetToSeq(S) \in Seq(S)
      /\ DOMAIN SetToSeq(S) = 1 .. Len(SetToSeq(S)) /\ Len(SetToSeq(S)) \in Nat
      /\ Range(SetToSeq(S)) = S
      /\ \A i, j \in DOMAIN SetToSeq(S) : SetToSeq(S)[i] = SetToSeq(S)[j] => i = j
  BY <1>1, Listed
<1>3. SetToSeq(S) \in Seq(Edge) /\ \A i \in DOMAIN SetToSeq(S) : SetToSeq(S)[i] \in S
  BY <1>1, <1>2
<1> QED
  BY <1>2, <1>3 DEF First, S

LEMMA InitTasks ==
    ASSUME Init
    PROVE  /\ tasks \in Tasks
           /\ \A n \in Node :
                 /\ DOMAIN tasks[n] = DOMAIN First(n) /\ held[n] = DOMAIN First(n)
                 /\ \A i \in DOMAIN First(n) :
                       tasks[n][i].edge = First(n)[i] /\ tasks[n][i].phase = "open"
<1> DEFINE Link(n, e) ==
             CHOOSE j \in DOMAIN First(Peer(n, e)) : First(Peer(n, e))[j] = e
           Opened(n, i) == [edge |-> First(n)[i], phase |-> "open", tries |-> 0,
                            link |-> Link(n, First(n)[i])]
<1>1. ASSUME NEW n \in Node, NEW e \in Relevant(Initial.edges, n)
      PROVE  Link(n, e) \in Nat
  <2>1. e \in Initial.edges /\ e \in Edge
    BY RunningAssumption DEF Relevant
  <2>2. Peer(n, e) \in Node /\ e \in Relevant(Initial.edges, Peer(n, e))
    BY <2>1 DEF Relevant, Peer, Edge
  <2>3. \E j \in DOMAIN First(Peer(n, e)) : First(Peer(n, e))[j] = e
    BY <2>2, FirstFacts DEF Range
  <2>4. DOMAIN First(Peer(n, e)) \subseteq Nat
    BY <2>2, FirstFacts
  <2> QED
    BY <2>3, <2>4
<1> HIDE DEF Link
<1>2. ASSUME NEW n \in Node, NEW i \in DOMAIN First(n)
      PROVE  Opened(n, i) \in Attempt /\ Opened(n, i).edge = First(n)[i]
             /\ Opened(n, i).phase = "open"
  <2>1. First(n)[i] \in Relevant(Initial.edges, n) /\ First(n)[i] \in Edge
    BY FirstFacts
  <2>2. Link(n, First(n)[i]) \in Nat
    BY <1>1, <2>1
  <2> QED
    BY <2>1, <2>2, DialAssumption DEF Attempt, Task, Phases
<1>3. /\ tasks = [n \in Node |-> [i \in DOMAIN First(n) |-> Opened(n, i)]]
      /\ held = [n \in Node |-> DOMAIN First(n)]
  BY DEF Init, Link
<1> HIDE DEF Opened
<1>4. ASSUME NEW n \in Node
      PROVE  [i \in DOMAIN First(n) |-> Opened(n, i)] \in Seq(Attempt)
  <2>1. PICK k \in Nat : DOMAIN First(n) = 1 .. k
    BY FirstFacts
  <2> QED
    BY <1>2, <2>1
<1> QED
  BY <1>2, <1>3, <1>4 DEF Tasks

LEMMA InitTypes ==
    ASSUME Init
    PROVE  Types
<1>1. tasks \in Tasks /\ \A n \in Node : DOMAIN tasks[n] = DOMAIN First(n)
                                         /\ held[n] = DOMAIN First(n)
  BY InitTasks
<1>2. \A n \in Node : DOMAIN First(n) \subseteq Nat
  BY FirstFacts
<1>3. /\ held \in [Node -> SUBSET Nat]
      /\ \A n \in Node : held[n] \subseteq DOMAIN tasks[n]
  BY <1>1, <1>2 DEF Init
<1>4. tasks \in [Node -> Seq(Task)]
  <2>1. Seq(Attempt) \subseteq Seq(Task)
    BY DEF Attempt
  <2> QED
    BY <1>1, <2>1 DEF Tasks
<1>5. \A n \in Node : Range(First(n)) \subseteq Edge
  BY FirstFacts, RunningAssumption DEF Relevant
<1>6. seen \in [Node -> SUBSET Edge]
  BY <1>5 DEF Init
<1>7. \A n \in Node : { Peer(n, e) : e \in Range(First(n)) } \subseteq Node
  BY <1>5, PeerType
<1>8. active \in [Node -> SUBSET Node]
  BY <1>7 DEF Init
<1>9. /\ table \in Table /\ alive \subseteq { n \in Node : Role[n] = "proxy" }
      /\ pc \in [Node -> PCs] /\ listening \subseteq Node /\ notes \in [Node -> Nat]
      /\ view \in [Node -> SUBSET Edge]
      /\ attaches \in [Node -> Nat] /\ debounces \in [Node -> Nat]
      /\ doomed \subseteq Node /\ missed \subseteq Node /\ unlucky \subseteq Node
  BY RunningAssumption DEF Init, PCs
<1>10. /\ dialFaults \in 0 .. MaxDialFaults /\ faults \in 0 .. MaxFaults
       /\ cleanUps \in 0 .. MaxCleanUps
  BY BoundAssumption DEF Init
<1> QED
  BY <1>1, <1>3, <1>4, <1>6, <1>8, <1>9, <1>10 DEF Types, TypeOK

LEMMA InitPlaced ==
    ASSUME Init
    PROVE  Placed
<1>1. table = Initial /\ view = [n \in Node |-> {}] /\ attaches = [n \in Node |-> 0]
  BY DEF Init
<1>2. Fit(table)
  BY <1>1, RunningAssumption DEF Fit, Sound
<1>3. ASSUME NEW n \in Node, pc[n] = "off"
      PROVE  Unknown(table, n)
  <2>1. n \notin Running
    BY <1>3 DEF Init
  <2>2. n \notin Intermediates(Initial)
    BY <2>1, RunningAssumption DEF Intermediates
  <2>3. Relevant(Initial.edges, n) = {}
    BY <2>1, RunningAssumption DEF Relevant
  <2> QED
    BY <1>1, <2>2, <2>3 DEF Unknown
<1> QED
  BY <1>1, <1>2, <1>3 DEF Placed

LEMMA PlacedHolds == Spec => [](Types /\ Placed)
<1>1. Init => Types /\ Placed
  BY InitTypes, InitPlaced
<1>2. Types /\ Placed /\ [Next]_vars => Types' /\ Placed'
  BY TypesStep, PlacedStep
<1> QED
  BY <1>1, <1>2, PTL DEF Spec

\* Every reachable state is a state of the types: TypeOK, with the attempts that
\* a task has left and the roles in the table that it rests on.
THEOREM ManagersTypeCorrect == Spec => []TypeOK
<1>1. Types => TypeOK
  BY DEF Types
<1> QED
  BY <1>1, PlacedHolds, PTL

\* OnlySubscribersJoin, for any processes that start, crash, lose their
\* heartbeats or are cleaned up in any order: a proxy with children has a parent
\* in every reading of the table, so the re-join policy never applies to one.
THEOREM ProxiesNeverRejoin == Spec => []OnlySubscribersJoin
<1>1. Placed => OnlySubscribersJoin
  BY DEF Placed, OnlySubscribersJoin
<1> QED
  BY <1>1, PlacedHolds, PTL

\* Fit: whatever the processes do, the table stays a tree that fits their roles.
\* Each node has one parent, each edge hangs from the root, publishers are not
\* fed, subscribers feed nobody, and only publishers and proxies are registered.
THEOREM TableStaysTree == Spec => []Fit(table)
<1>1. Placed => Fit(table)
  BY DEF Placed
<1> QED
  BY <1>1, PlacedHolds, PTL

-----------------------------------------------------------------------------
(* The ids of the signaling server. *)

LEMMA IdsStep ==
    ASSUME Types, OneIdEach(tasks, active), [Next]_vars
    PROVE  OneIdEach(tasks', active')
<1>0. tasks \in Tasks /\ active \in [Node -> SUBSET Node]
  BY DEF Types, TypeOK
<1>1. CASE UNCHANGED <<tasks, active>>
  BY <1>1
<1>2. ASSUME NEW n \in Node, NEW i \in DOMAIN tasks[n], TaskStep(n, i)
      PROVE  OneIdEach(tasks', active')
  <2>1. Moved(n, i)
    BY <1>0, <1>2, TaskMoves DEF TaskStep
  <2>2. PICK t : Stays(n, i, t) \/ Enters(n, i, t) \/ Leaves(n, i, t)
    BY <2>1 DEF Moved
  <2>3. /\ t \in Attempt /\ t.edge = tasks[n][i].edge
        /\ Replaced(tasks, n, i, t, tasks')
    BY <2>2 DEF Stays, Enters, Leaves, Turned
  <2> DEFINE p == Peer(n, tasks[n][i].edge)
  <2>4. \/ (InUse(t) <=> InUse(tasks[n][i])) /\ active' = active
        \/ /\ InUse(t) /\ ~InUse(tasks[n][i]) /\ p \notin active[n]
           /\ active' = [active EXCEPT ![n] = @ \cup {p}]
        \/ ~InUse(t) /\ InUse(tasks[n][i]) /\ active' = [active EXCEPT ![n] = @ \ {p}]
    BY <2>2 DEF Stays, Enters, Leaves, TaskPeer
  <2> QED
    BY <1>0, <2>3, <2>4, IdsMoved
<1>3. ASSUME NEW n \in Node, NEW i \in DOMAIN tasks[n], NEW c \in Node,
             NEW j \in DOMAIN tasks[c], Connect(n, i, c, j)
      PROVE  OneIdEach(tasks', active')
  <2>1. /\ n # c /\ active' = active
        /\ InUse(tasks[n][i]) /\ InUse(tasks[c][j])
    BY <1>0, <1>3, ConnectMoves
  <2> PICK t, u \in Attempt : \E mid :
          /\ Replaced(tasks, n, i, t, mid) /\ Replaced(mid, c, j, u, tasks')
          /\ t.edge = tasks[n][i].edge /\ u.edge = tasks[c][j].edge
          /\ InUse(t) /\ InUse(u)
    BY <1>0, <1>3, ConnectMoves
  <2>2. PICK mid :
          /\ Replaced(tasks, n, i, t, mid) /\ Replaced(mid, c, j, u, tasks')
          /\ t.edge = tasks[n][i].edge /\ u.edge = tasks[c][j].edge
          /\ InUse(t) /\ InUse(u)
    OBVIOUS
  <2>3. mid \in Tasks /\ mid[c] = tasks[c]
    BY <1>0, <2>1, <2>2, TaskReplaced
  <2>4. OneIdEach(mid, active)
    BY <1>0, <2>1, <2>2, IdsMoved
  <2>5. OneIdEach(tasks', active)
    BY <1>0, <2>1, <2>2, <2>3, <2>4, IdsMoved
  <2> QED
    BY <2>1, <2>5
<1>4. ASSUME NEW n \in Node, Apply(n)
      PROVE  OneIdEach(tasks', active')
  <2>1. active' = active
    BY <1>4 DEF Apply, Reconcile
  <2>2. /\ \A m \in Node \ {n} : tasks'[m] = tasks[m]
        /\ \A i \in DOMAIN tasks[n] : i \in DOMAIN tasks'[n] /\ tasks'[n][i] = tasks[n][i]
        /\ \A i \in DOMAIN tasks'[n] \ DOMAIN tasks[n] : tasks'[n][i].phase = "try"
    BY <1>4, ApplyFacts
  <2>3. ASSUME NEW m \in Node
        PROVE  /\ Users(tasks', m) = Users(tasks, m)
               /\ \A i \in Users(tasks, m) : tasks'[m][i] = tasks[m][i]
    BY <2>2 DEF Users, InUse
  <2> QED
    BY <2>1, <2>3 DEF OneIdEach
<1>5. ASSUME NEW n \in Node, Crash(n)
      PROVE  OneIdEach(tasks', active')
  <2>1. /\ \A m \in Node \ {n} : tasks'[m] = tasks[m]
        /\ DOMAIN tasks'[n] = DOMAIN tasks[n]
        /\ \A i \in DOMAIN tasks[n] : tasks'[n][i].phase = "ended"
        /\ active' = [active EXCEPT ![n] = {}]
    BY <1>5, CrashFacts
  <2>2. Users(tasks', n) = {}
    BY <2>1 DEF Users, InUse
  <2>3. active'[n] = {} /\ \A m \in Node \ {n} : active'[m] = active[m]
    BY <1>0, <2>1
  <2>4. ASSUME NEW m \in Node \ {n}
        PROVE  Users(tasks', m) = Users(tasks, m)
    BY <2>1 DEF Users
  <2> QED
    BY <2>1, <2>2, <2>3, <2>4 DEF OneIdEach
<1>6. ASSUME NEW n \in Node,
             \/ Start(n) \/ StartFails(n) \/ Listen(n) \/ ListenFails(n)
             \/ StreamEnds(n) \/ Discard(n) \/ Read(n) \/ ReadFails(n)
             \/ Joined(n) \/ NotJoined(n) \/ JoinFails(n) \/ CleansUp(n)
             \/ Beat(n) \/ Expire(n) \/ Debounced(n)
      PROVE  UNCHANGED <<tasks, active>>
  BY <1>6 DEF Start, StartFails, Listen, ListenFails, StreamEnds, Discard, Read, ReadFails,
     Joined, NotJoined, JoinFails, CleansUp, Beat, Expire, Debounced, channels
<1>7. ASSUME NEW n \in Node, Quiet(n)
      PROVE  OneIdEach(tasks', active')
  BY <1>1, <1>2, <1>3, <1>6, <1>7 DEF Quiet
<1>8. CASE UNCHANGED vars
  BY <1>8 DEF vars, channels
<1> QED
  BY <1>1, <1>4, <1>5, <1>6, <1>7, <1>8, Steps

\* At the start every edge of a process has one open task, and by the tree no
\* other edge of it has the same peer.
LEMMA OnePeerPerEdge ==
    ASSUME NEW n \in Node, NEW e \in Relevant(Initial.edges, n),
           NEW f \in Relevant(Initial.edges, n), Peer(n, e) = Peer(n, f)
    PROVE  e = f
<1> DEFINE st == Initial
<1>1. /\ st \in Table /\ Hanging(st) /\ st.edges \subseteq Edge
      /\ \A a, b \in st.edges : a[2] = b[2] => a = b
      /\ \A k \in Publishers(st) : Role[k] = "publisher"
  BY RunningAssumption DEF Sound
<1>2. /\ e \in st.edges /\ f \in st.edges
      /\ n \in {e[1], e[2]} /\ n \in {f[1], f[2]}
      /\ e = <<e[1], e[2]>> /\ f = <<f[1], f[2]>>
      /\ e[1] # e[2] /\ f[1] # f[2]
  BY <1>1 DEF Relevant, Edge
<1> HIDE DEF st
<1>3. CASE e[1] = n /\ f[1] = n
  BY <1>2, <1>3 DEF Peer
<1>4. CASE e[2] = f[2]
  BY <1>1, <1>2, <1>4
<1>5. ASSUME NEW m \in Node, <<n, m>> \in st.edges, <<m, n>> \in st.edges
      PROVE  FALSE
  <2>1. Role[m] # "publisher" /\ Role[n] # "publisher" /\ n \in Reach(st)
    BY <1>1, <1>5 DEF Edge, Hanging
  <2>2. st.publishers # <<>>
    BY <2>1 DEF Reach
  <2> DEFINE S == Node \ {n, m}
  <2>3. Root(st) \in Publishers(st) /\ Root(st) \in Node
    BY <1>1, <2>2 DEF Root, Publishers, Range, Table
  <2>4. Root(st) \in S
    BY <1>1, <2>1, <2>3
  <2>5. ASSUME NEW g \in st.edges, g[1] \in S
        PROVE  g[2] \in S
    <3>1. g[2] \in Node
      BY <1>1 DEF Edge
    <3>2. g[2] = m => g = <<n, m>>
      BY <1>1, <1>5
    <3>3. g[2] = n => g = <<m, n>>
      BY <1>1, <1>5
    <3> QED
      BY <2>5, <3>1, <3>2, <3>3
  <2>6. ReachClosed(st, S)
    BY <2>4, <2>5 DEF ReachClosed
  <2> QED
    BY <1>1, <2>1, <2>2, <2>6, ReachIsLeast
<1>6. CASE e[1] = n /\ f[2] = n /\ f[1] # n
  <2>1. e[2] = f[1] /\ e[2] \in Node
    BY <1>1, <1>2, <1>6 DEF Peer, Edge
  <2> QED
    BY <1>2, <1>5, <1>6, <2>1
<1>7. CASE f[1] = n /\ e[2] = n /\ e[1] # n
  <2>1. f[2] = e[1] /\ f[2] \in Node
    BY <1>1, <1>2, <1>7 DEF Peer, Edge
  <2> QED
    BY <1>2, <1>5, <1>7, <2>1
<1> QED
  BY <1>2, <1>3, <1>4, <1>6, <1>7

LEMMA InitIds ==
    ASSUME Init
    PROVE  OneIdEach(tasks, active)
<1> SUFFICES ASSUME NEW n \in Node
             PROVE  /\ active[n] = { Peer(n, tasks[n][i].edge) : i \in Users(tasks, n) }
                    /\ \A i, j \in Users(tasks, n) :
                          Peer(n, tasks[n][i].edge) = Peer(n, tasks[n][j].edge) => i = j
  BY DEF OneIdEach
<1> DEFINE q == First(n)
<1>1. /\ DOMAIN tasks[n] = DOMAIN q
      /\ \A i \in DOMAIN q : tasks[n][i].edge = q[i] /\ tasks[n][i].phase = "open"
  BY InitTasks
<1>2. active[n] = { Peer(n, e) : e \in Range(q) }
  BY DEF Init
<1>3. /\ \A i \in DOMAIN q : q[i] \in Relevant(Initial.edges, n)
      /\ \A i, j \in DOMAIN q : q[i] = q[j] => i = j
  BY FirstFacts
<1> HIDE DEF q
<1>4. Users(tasks, n) = DOMAIN q
  BY <1>1 DEF Users, InUse
<1>5. Range(q) = { q[i] : i \in DOMAIN q }
  BY DEF Range
<1>6. \A i, j \in DOMAIN q : Peer(n, q[i]) = Peer(n, q[j]) => i = j
  BY <1>3, OnePeerPerEdge
<1>7. active[n] = { Peer(n, q[i]) : i \in DOMAIN q }
  BY <1>2, <1>5
<1>8. active[n] = { Peer(n, tasks[n][i].edge) : i \in DOMAIN q }
  BY <1>1, <1>7
<1> QED
  BY <1>1, <1>4, <1>6, <1>8

\* Two tasks of a process never use one id of the signaling server at once: the
\* set of ids in use is exactly that of the tasks that dial or have a channel,
\* whatever fails, ends or is reconciled meanwhile (WebRtcGuard).
THEOREM OneTaskPerId == Spec => []IdsExclusive
<1> DEFINE Inv == Types /\ Placed /\ OneIdEach(tasks, active)
<1>1. Init => Inv
  BY InitTypes, InitPlaced, InitIds
<1>2. Inv /\ [Next]_vars => Inv'
  <2>1. SUFFICES ASSUME Inv, [Next]_vars
                 PROVE  Types' /\ Placed' /\ OneIdEach(tasks', active')
    BY DEF OneIdEach, Users, InUse
  <2> QED
    BY <2>1, TypesStep, PlacedStep, IdsStep
<1>3. Inv => IdsExclusive
  BY IdsAreOneEach
<1> QED
  BY <1>1, <1>2, <1>3, PTL DEF Spec

-----------------------------------------------------------------------------
(* A process and the table. *)

\* A process holds one task for each edge that it has reconciled with.
Matched ==
    \A n \in Node :
        /\ EdgesOf(tasks[n], held[n]) = seen[n]
        /\ \A e \in seen[n] : n \in {e[1], e[2]}

\* n has no notification to handle and missed none, whether it is between the
\* read of the table and the reconciliation or not.
Informed(n) == notes[n] = 0 /\ n \notin missed

\* What such a process knows is the table as it is.
Following ==
    \A n \in Node : Informed(n) =>
        /\ pc[n] \in {"off", "connect", "discard", "wait"} =>
              seen[n] = Relevant(table.edges, n)
        /\ pc[n] = "apply" => view[n] = table.edges

\* A subscriber that is in the table nowhere and does not read it at the moment
\* has a call to come, unless it has no place or its last call was unlucky.
Waking ==
    \A n \in Node :
        /\ Role[n] = "subscriber"
        /\ Informed(n)
        /\ pc[n] \in {"connect", "discard", "wait"}
        /\ ~HasParent(table, n)
        => attaches[n] > 0 \/ n \in unlucky \/ NoPlace

LEMMA QuietEdges ==
    ASSUME Types, NEW n \in Node, Quiet(n)
    PROVE  SameEdges /\ held' = held
<1>0. tasks \in Tasks /\ active \in [Node -> SUBSET Node] /\ held' = held
  BY QuietKeeps DEF Types, TypeOK
<1>1. CASE Beat(n) \/ Expire(n) \/ Debounced(n)
  BY <1>0, <1>1 DEF Beat, Expire, Debounced, channels, SameEdges
<1>2. ASSUME NEW i \in DOMAIN tasks[n], TaskStep(n, i)
      PROVE  SameEdges
  BY <1>0, <1>2, TaskMoves, MovedTypes DEF TaskStep
<1>3. ASSUME NEW i \in DOMAIN tasks[n], NEW c \in Node, NEW j \in DOMAIN tasks[c],
             Connect(n, i, c, j)
      PROVE  SameEdges
  <2>1. n # c
    BY <1>0, <1>3, ConnectMoves
  <2> PICK t, u \in Attempt : \E mid :
          /\ Replaced(tasks, n, i, t, mid) /\ Replaced(mid, c, j, u, tasks')
          /\ t.edge = tasks[n][i].edge /\ u.edge = tasks[c][j].edge
    BY <1>0, <1>3, ConnectMoves
  <2>2. PICK mid :
          /\ Replaced(tasks, n, i, t, mid) /\ Replaced(mid, c, j, u, tasks')
          /\ t.edge = tasks[n][i].edge /\ u.edge = tasks[c][j].edge
    OBVIOUS
  <2>3. /\ mid \in Tasks
        /\ \A m \in Node : DOMAIN mid[m] = DOMAIN tasks[m]
        /\ mid[n][i] = t
        /\ \A m \in Node \ {n} : mid[m] = tasks[m]
        /\ \A k \in DOMAIN tasks[n] \ {i} : mid[n][k] = tasks[n][k]
    BY <1>0, <2>2, TaskReplaced
  <2>4. /\ \A m \in Node : DOMAIN tasks'[m] = DOMAIN mid[m]
        /\ tasks'[c][j] = u
        /\ \A m \in Node \ {c} : tasks'[m] = mid[m]
        /\ \A k \in DOMAIN mid[c] \ {j} : tasks'[c][k] = mid[c][k]
    BY <2>1, <2>2, <2>3, TaskReplaced
  <2> QED
    BY <2>1, <2>2, <2>3, <2>4 DEF SameEdges
<1> QED
  BY <1>0, <1>1, <1>2, <1>3 DEF Quiet

LEMMA MatchedStep ==
    ASSUME Types, Matched, [Next]_vars
    PROVE  Matched'
<1> SUFFICES \A n \in Node : /\ EdgesOf(tasks'[n], held'[n]) = seen'[n]
                             /\ \A e \in seen'[n] : n \in {e[1], e[2]}
  BY DEF Matched, EdgesOf
<1>0. /\ \A n \in Node : held[n] \subseteq DOMAIN tasks[n]
      /\ seen \in [Node -> SUBSET Edge] /\ held \in [Node -> SUBSET Nat]
  BY DEF Types, TypeOK
<1>1. CASE UNCHANGED <<tasks, held, seen>>
  BY <1>1 DEF Matched
<1>2. ASSUME NEW m \in Node, Quiet(m), NEW n \in Node
      PROVE  EdgesOf(tasks'[n], held'[n]) = seen'[n] /\ \A e \in seen'[n] : n \in {e[1], e[2]}
  <2>1. SameEdges /\ held' = held /\ seen' = seen
    BY <1>2, QuietEdges, QuietKeeps DEF manager
  <2>2. \A i \in held[n] : tasks'[n][i].edge = tasks[n][i].edge
    BY <1>0, <2>1 DEF SameEdges
  <2>3. EdgesOf(tasks'[n], held[n]) = EdgesOf(tasks[n], held[n])
    BY <2>2 DEF EdgesOf
  <2> QED
    BY <2>1, <2>3 DEF Matched
<1>3. ASSUME NEW m \in Node, Apply(m), NEW n \in Node
      PROVE  EdgesOf(tasks'[n], held'[n]) = seen'[n] /\ \A e \in seen'[n] : n \in {e[1], e[2]}
  <2>1. seen' = [seen EXCEPT ![m] = Relevant(view[m], m)]
    BY <1>3 DEF Apply, Reconcile
  <2>2. CASE n # m
    <3>1. tasks'[n] = tasks[n] /\ held'[n] = held[n] /\ seen'[n] = seen[n]
      BY <1>0, <1>3, <2>1, <2>2, ApplyFacts
    <3> QED
      BY <3>1 DEF Matched
  <2>3. CASE n = m
    <3>1. EdgesOf(tasks'[n], held'[n]) = EdgesOf(tasks[n], Kept(n)) \cup Added(n)
      BY <1>3, <2>3, ApplyFacts
    <3>2. EdgesOf(tasks[n], Kept(n)) = seen[n] \cap view[n]
      BY DEF Matched, EdgesOf, Kept
    <3>3. Added(n) = Relevant(view[n], n) \ seen[n]
      <4>1. ASSUME NEW e, e \notin seen[n]
            PROVE  ~\E i \in Kept(n) : tasks[n][i].edge = e
        BY <4>1 DEF Matched, EdgesOf, Kept
      <4> QED
        BY <4>1 DEF Added
    <3>4. seen[n] \cap view[n] = Relevant(view[n], n) \cap seen[n]
      BY DEF Matched, Relevant
    <3>5. seen'[n] = Relevant(view[n], n)
      BY <1>0, <2>1, <2>3
    <3>6. EdgesOf(tasks'[n], held'[n]) = seen'[n]
      BY <3>1, <3>2, <3>3, <3>4, <3>5
    <3> QED
      BY <3>5, <3>6 DEF Relevant
  <2> QED
    BY <2>2, <2>3
<1>4. ASSUME NEW m \in Node, Crash(m), NEW n \in Node
      PROVE  EdgesOf(tasks'[n], held'[n]) = seen'[n] /\ \A e \in seen'[n] : n \in {e[1], e[2]}
  <2>1. seen' = [seen EXCEPT ![m] = {}] /\ held' = [held EXCEPT ![m] = {}]
    BY <1>4 DEF Crash
  <2>2. CASE n # m
    <3>1. tasks'[n] = tasks[n] /\ held'[n] = held[n] /\ seen'[n] = seen[n]
      BY <1>0, <1>4, <2>1, <2>2, CrashFacts
    <3> QED
      BY <3>1 DEF Matched
  <2>3. CASE n = m
    <3>1. held'[n] = {} /\ seen'[n] = {}
      BY <1>0, <2>1, <2>3
    <3> QED
      BY <3>1 DEF EdgesOf
  <2> QED
    BY <2>2, <2>3
<1>5. ASSUME NEW n \in Node,
             \/ Start(n) \/ StartFails(n) \/ Listen(n) \/ ListenFails(n)
             \/ StreamEnds(n) \/ Discard(n) \/ Read(n) \/ ReadFails(n)
             \/ Joined(n) \/ NotJoined(n) \/ JoinFails(n) \/ CleansUp(n)
      PROVE  UNCHANGED <<tasks, held, seen>>
  BY <1>5 DEF Start, StartFails, Listen, ListenFails, StreamEnds, Discard, Read, ReadFails,
     Joined, NotJoined, JoinFails, CleansUp, channels, manager
<1>6. CASE UNCHANGED vars
  BY <1>1, <1>6 DEF vars, channels, manager
<1> QED
  BY <1>1, <1>2, <1>3, <1>4, <1>5, <1>6, Steps

\* A process that a change of the table leaves informed does not run.
LEMMA AfterNotify ==
    ASSUME Types, Notify, NEW n \in Node, notes'[n] = 0, n \notin missed'
    PROVE  Informed(n) /\ pc[n] \in {"off", "down"}
<1>1. notes \in [Node -> Nat] /\ pc \in [Node -> PCs]
  BY DEF Types, TypeOK
<1>2. notes'[n] = IF n \in listening THEN notes[n] + 1 ELSE notes[n]
  BY DEF Notify
<1>3. n \notin listening /\ notes[n] = 0
  BY <1>1, <1>2
<1>4. n \notin missed /\ ~Up(n)
  BY <1>3 DEF Notify
<1> QED
  BY <1>3, <1>4 DEF Informed, Up

LEMMA FollowingStep ==
    ASSUME Types, Placed, Following, [Next]_vars
    PROVE  Following'
<1> DEFINE Reconciled == {"off", "connect", "discard", "wait"}
           Knows(n) == /\ pc'[n] \in Reconciled => seen'[n] = Relevant(table'.edges, n)
                       /\ pc'[n] = "apply" => view'[n] = table'.edges
<1> SUFFICES ASSUME NEW n \in Node, notes'[n] = 0, n \notin missed'
             PROVE  Knows(n)
  BY DEF Following, Informed, Relevant
<1>0. /\ pc \in [Node -> PCs] /\ notes \in [Node -> Nat]
      /\ view \in [Node -> SUBSET Edge] /\ seen \in [Node -> SUBSET Edge]
      /\ Fit(table)
  BY DEF Types, TypeOK, Placed
<1>1. Informed(n) =>
        /\ pc[n] \in Reconciled => seen[n] = Relevant(table.edges, n)
        /\ pc[n] = "apply" => view[n] = table.edges
  BY DEF Following
<1>2. CASE UNCHANGED <<table, notes, missed, pc, seen, view>>
  BY <1>1, <1>2 DEF Informed
<1>3. ASSUME NEW m \in Node, Quiet(m)
      PROVE  UNCHANGED <<table, notes, missed, pc, seen, view>>
  BY <1>3, QuietKeeps DEF manager
<1>4. ASSUME UNCHANGED vars
      PROVE  UNCHANGED <<table, notes, missed, pc, seen, view>>
  BY <1>4 DEF vars, store, manager
<1>5. ASSUME Notify, pc' = pc, seen' = seen,
             Unknown(table, n) => Unknown(table', n)
      PROVE  Knows(n)
  <2>1. Informed(n) /\ pc[n] \in {"off", "down"}
    BY <1>5, AfterNotify
  <2>2. CASE pc[n] = "off"
    <3>1. Unknown(table, n)
      BY <2>2 DEF Placed
    <3>2. Relevant(table.edges, n) = {} /\ Relevant(table'.edges, n) = {}
      BY <1>5, <3>1 DEF Unknown
    <3>3. seen'[n] = {}
      BY <1>1, <1>5, <2>1, <2>2, <3>2
    <3> QED
      BY <1>5, <2>2, <3>2, <3>3
  <2> QED
    BY <1>5, <2>1, <2>2
<1>6. ASSUME NEW m \in Node, Start(m)
      PROVE  Knows(n)
  <2>1. pc[m] = "off" /\ pc' = [pc EXCEPT ![m] = "connect"] /\ UNCHANGED <<seen, view>>
    BY <1>6 DEF Start
  <2>2. \/ UNCHANGED <<table, notes, missed>>
        \/ /\ Notify
           /\ \/ Role[m] = "publisher" /\ table' = AddPublisher(table, m)
              \/ Role[m] = "proxy" /\ table' = AddProxy(table, m)
    BY <1>6, TreeOperators DEF Start, Tree!RegisterPublisher, Tree!RegisterProxy
  <2>3. table'.edges = table.edges
    BY <1>0, <2>2, RegisterFits
  <2>4. Informed(n)
    BY <2>2, AfterNotify DEF Informed
  <2>5. pc[n] \in Reconciled => seen[n] = Relevant(table.edges, n)
    BY <1>1, <2>4
  <2>6. pc'[n] = pc[n] \/ (pc'[n] = "connect" /\ pc[n] = "off")
    BY <1>0, <2>1
  <2>7. pc[n] = "apply" => view[n] = table.edges
    BY <1>1, <2>4
  <2> QED
    BY <2>1, <2>3, <2>5, <2>6, <2>7
<1>7. ASSUME NEW m \in Node, StartFails(m) \/ Listen(m) \/ StreamEnds(m)
      PROVE  Knows(n)
  <2>1. UNCHANGED <<table, notes, missed, seen, view>>
    BY <1>7 DEF StartFails, Listen, StreamEnds, store
  <2>2. \/ pc' = pc
        \/ pc[m] = "off" /\ pc' = [pc EXCEPT ![m] = "connect"]
        \/ pc[m] = "connect" /\ pc' = [pc EXCEPT ![m] = "discard"]
    BY <1>7 DEF StartFails, Listen, StreamEnds
  <2>3. pc'[n] = pc[n] \/ (pc'[n] \in Reconciled /\ pc[n] \in Reconciled)
    BY <1>0, <2>2
  <2>4. Informed(n)
    BY <2>1 DEF Informed
  <2>5. pc'[n] # "apply" \/ pc[n] = "apply"
    BY <2>3
  <2> QED
    BY <1>1, <2>1, <2>3, <2>4, <2>5
<1>8. ASSUME NEW m \in Node, ListenFails(m) \/ Discard(m)
      PROVE  Knows(n)
  <2>1. UNCHANGED <<table, seen, view>> /\ missed \subseteq missed'
    BY <1>8 DEF ListenFails, Discard, store
  <2>2. /\ pc[m] \in {"connect", "discard"} /\ pc' = [pc EXCEPT ![m] = "wait"]
        /\ m \in missed' \/ notes' = notes
    BY <1>8 DEF ListenFails, Discard
  <2>3. notes'[n] = notes[n]
    <3>1. CASE m = n
      BY <2>2, <3>1
    <3>2. CASE m # n
      <4>1. notes' = notes \/ notes' = [notes EXCEPT ![m] = @ - 1]
        BY <1>8 DEF ListenFails, Discard
      <4> QED
        BY <1>0, <3>2, <4>1
    <3> QED
      BY <3>1, <3>2
  <2>4. Informed(n)
    BY <2>1, <2>3 DEF Informed
  <2>5. pc'[n] = pc[n] \/ (pc'[n] = "wait" /\ pc[n] \in {"connect", "discard"})
    BY <1>0, <2>2
  <2> QED
    BY <1>1, <2>1, <2>4, <2>5
<1>9. ASSUME NEW m \in Node, Read(m) \/ ReadFails(m)
      PROVE  Knows(n)
  <2>1. /\ UNCHANGED <<table, seen>>
        /\ pc' = [pc EXCEPT ![m] = "apply"] /\ notes' = [notes EXCEPT ![m] = @ - 1]
        /\ \/ view' = [view EXCEPT ![m] = table.edges] /\ missed' = missed \ {m}
           \/ view' = [view EXCEPT ![m] = {}] /\ missed' = missed \cup {m}
    BY <1>9 DEF Read, ReadFails, TakesNote, store
  <2>2. CASE m = n
    <3>1. view'[n] = table.edges /\ pc'[n] = "apply"
      BY <1>0, <2>1, <2>2
    <3> QED
      BY <2>1, <3>1
  <2>3. CASE m # n
    <3>1. pc'[n] = pc[n] /\ notes[n] = 0 /\ view'[n] = view[n] /\ n \notin missed
      BY <1>0, <2>1, <2>3
    <3> QED
      BY <1>1, <2>1, <3>1 DEF Informed
  <2> QED
    BY <2>2, <2>3
<1>10. ASSUME NEW m \in Node, Apply(m)
       PROVE  Knows(n)
  <2>1. /\ UNCHANGED <<table, notes, missed>>
        /\ pc[m] = "apply" /\ pc' = [pc EXCEPT ![m] = "wait"]
        /\ seen' = [seen EXCEPT ![m] = Relevant(view[m], m)]
        /\ view' = [view EXCEPT ![m] = {}]
    BY <1>10 DEF Apply, Reconcile, store
  <2>2. Informed(n)
    BY <2>1 DEF Informed
  <2>3. CASE m = n
    <3>1. pc'[n] = "wait" /\ seen'[n] = Relevant(view[n], n) /\ view[n] = table.edges
      BY <1>0, <1>1, <2>1, <2>2, <2>3
    <3> QED
      BY <2>1, <3>1
  <2>4. CASE m # n
    <3>1. pc'[n] = pc[n] /\ seen'[n] = seen[n] /\ view'[n] = view[n]
      BY <1>0, <2>1, <2>4
    <3> QED
      BY <1>1, <2>1, <2>2, <3>1
  <2> QED
    BY <2>3, <2>4
<1>11. ASSUME NEW m \in Node, Joined(m) \/ CleansUp(m)
       PROVE  Knows(n)
  <2>1. Notify /\ pc' = pc /\ seen' = seen
    BY <1>11 DEF Joined, CleansUp
  <2>2. CASE CleansUp(m)
    <3>1. table' = CleanUp(table, m)
      BY <2>2, TreeOperators DEF CleansUp, Tree!Lose
    <3> QED
      BY <1>0, <1>5, <2>1, <3>1, CleanUpFits
  <2>3. CASE Joined(m)
    <3>1. m # n
      <4>1. Up(m) /\ pc[n] \in {"off", "down"}
        BY <2>1, <2>3, AfterNotify DEF Joined, Waiting
      <4> QED
        BY <4>1 DEF Up
    <3> QED
      BY <1>5, <2>1, <2>3, <3>1, JoinedFits
  <2> QED
    BY <1>11, <2>2, <2>3
<1>12. ASSUME NEW m \in Node, NotJoined(m) \/ JoinFails(m)
       PROVE  UNCHANGED <<table, notes, missed, pc, seen, view>>
  BY <1>12 DEF NotJoined, JoinFails, store, manager
<1>13. ASSUME NEW m \in Node, Crash(m)
       PROVE  Knows(n)
  <2>1. /\ table' = table /\ pc' = [pc EXCEPT ![m] = "down"]
        /\ notes' = [notes EXCEPT ![m] = 0] /\ missed' = missed \ {m}
        /\ view' = [view EXCEPT ![m] = {}] /\ seen' = [seen EXCEPT ![m] = {}]
    BY <1>13 DEF Crash, store
  <2>2. CASE m = n
    <3>1. pc'[n] = "down"
      BY <1>0, <2>1, <2>2
    <3> QED
      BY <3>1
  <2>3. CASE m # n
    <3>1. /\ pc'[n] = pc[n] /\ seen'[n] = seen[n] /\ view'[n] = view[n]
          /\ notes[n] = 0 /\ n \notin missed
      BY <1>0, <2>1, <2>3
    <3> QED
      BY <1>1, <2>1, <3>1 DEF Informed
  <2> QED
    BY <2>2, <2>3
<1> HIDE DEF Knows
<1> QED
  BY <1>2, <1>3, <1>4, <1>6, <1>7, <1>8, <1>9, <1>10, <1>11, <1>12, <1>13, Steps

\* A table that stays has the same places.
LEMMA SamePlaces ==
    ASSUME table' = table
    PROVE  NoPlace' <=> NoPlace
  BY DEF NoPlace, NoPlaceBelow, Usable, Full, Moves, UsedNodes, HasParent, Children, Reach,
     ReachClosed, Root, Intermediates, Publishers, Proxies

LEMMA WakingStep ==
    ASSUME Types, Placed, Following, Waking, [Next]_vars
    PROVE  Waking'
<1> DEFINE Reading == {"connect", "discard", "wait"}
           Wakes(n) == attaches'[n] > 0 \/ n \in unlucky' \/ NoPlace'
<1> SUFFICES ASSUME NEW n \in Node, Role[n] = "subscriber", notes'[n] = 0, n \notin missed',
                    pc'[n] \in Reading, ~HasParent(table', n)
             PROVE  Wakes(n)
  BY DEF Waking, Informed, HasParent
<1>0. /\ pc \in [Node -> PCs] /\ notes \in [Node -> Nat] /\ attaches \in [Node -> Nat]
      /\ view \in [Node -> SUBSET Edge]
  BY DEF Types, TypeOK
<1> DEFINE Woken == attaches[n] > 0 \/ n \in unlucky \/ NoPlace
<1>1. Informed(n) /\ pc[n] \in Reading /\ table' = table => Woken
  BY DEF Waking
<1>2. Informed(n) /\ pc[n] = "apply" => view[n] = table.edges
  BY DEF Following
<1>3. ASSUME table' = table, Woken, attaches'[n] = attaches[n],
             unlucky' = unlucky \/ \E m \in Node \ {n} : unlucky' = unlucky \ {m}
                                                        \/ unlucky' = unlucky \cup {m}
      PROVE  Wakes(n)
  BY <1>3, SamePlaces
<1> HIDE DEF Woken
<1>4. CASE UNCHANGED <<table, notes, missed, pc, attaches, unlucky>>
  BY <1>1, <1>3, <1>4 DEF Informed
<1>5. ASSUME NEW m \in Node, Quiet(m)
      PROVE  UNCHANGED <<table, notes, missed, pc, attaches, unlucky>>
  BY <1>5, QuietKeeps DEF manager, joining
<1>6. ASSUME UNCHANGED vars
      PROVE  UNCHANGED <<table, notes, missed, pc, attaches, unlucky>>
  BY <1>6 DEF vars, store, manager, joining
<1>7. ASSUME Notify, pc' = pc
      PROVE  FALSE
  BY <1>7, AfterNotify
<1>8. ASSUME NEW m \in Node, Start(m)
      PROVE  Wakes(n)
  <2>1. pc' = [pc EXCEPT ![m] = "connect"] /\ unlucky' = unlucky
    BY <1>8 DEF Start
  <2>2. CASE m = n
    <3>1. attaches' = [attaches EXCEPT ![n] = @ + 1]
      BY <1>8, <2>2 DEF Start
    <3> QED
      BY <1>0, <3>1
  <2>3. CASE m # n
    <3>1. pc'[n] = pc[n]
      BY <1>0, <2>1, <2>3
    <3>2. ~Notify
      BY <3>1, AfterNotify
    <3>3. /\ attaches' = [attaches EXCEPT ![m] = @ + 1]
          /\ UNCHANGED <<table, notes, missed>>
      BY <1>8, <3>2 DEF Start
    <3>4. attaches'[n] = attaches[n]
      BY <1>0, <2>3, <3>3
    <3> QED
      BY <1>1, <1>3, <2>1, <3>1, <3>3, <3>4 DEF Informed
  <2> QED
    BY <2>2, <2>3
<1>9. ASSUME NEW m \in Node, StartFails(m) \/ Listen(m) \/ StreamEnds(m)
      PROVE  Wakes(n)
  <2>1. UNCHANGED <<table, notes, missed, attaches, unlucky>>
    BY <1>9 DEF StartFails, Listen, StreamEnds, store, joining
  <2>2. \/ pc' = pc
        \/ Role[m] # "subscriber" /\ pc' = [pc EXCEPT ![m] = "connect"]
        \/ pc[m] = "connect" /\ pc' = [pc EXCEPT ![m] = "discard"]
    BY <1>9 DEF StartFails, Listen, StreamEnds
  <2>3. pc[n] \in Reading
    BY <1>0, <2>2
  <2> QED
    BY <1>1, <1>3, <2>1, <2>3 DEF Informed
<1>10. ASSUME NEW m \in Node, ListenFails(m) \/ Discard(m)
       PROVE  Wakes(n)
  <2>1. UNCHANGED <<table, attaches, unlucky>> /\ missed \subseteq missed'
    BY <1>10 DEF ListenFails, Discard, store, joining
  <2>2. /\ pc[m] \in {"connect", "discard"} /\ pc' = [pc EXCEPT ![m] = "wait"]
        /\ notes' = notes \/ (m \in missed' /\ notes' = [notes EXCEPT ![m] = @ - 1])
    BY <1>10 DEF ListenFails, Discard
  <2>3. notes'[n] = notes[n] /\ pc[n] \in Reading
    BY <1>0, <2>2
  <2> QED
    BY <1>1, <1>3, <2>1, <2>3 DEF Informed
<1>11. ASSUME NEW m \in Node, Read(m) \/ ReadFails(m)
       PROVE  Wakes(n)
  <2>1. /\ UNCHANGED <<table, attaches, unlucky>>
        /\ pc' = [pc EXCEPT ![m] = "apply"] /\ notes' = [notes EXCEPT ![m] = @ - 1]
        /\ missed' = missed \ {m} \/ missed' = missed \cup {m}
    BY <1>11 DEF Read, ReadFails, TakesNote, store, joining
  <2>2. m # n
    BY <1>0, <2>1
  <2>3. notes[n] = 0 /\ pc[n] \in Reading /\ n \notin missed
    BY <1>0, <2>1, <2>2
  <2> QED
    BY <1>1, <1>3, <2>1, <2>3 DEF Informed
<1>12. ASSUME NEW m \in Node, Apply(m)
       PROVE  Wakes(n)
  <2>1. /\ UNCHANGED <<table, notes, missed, unlucky>>
        /\ pc[m] = "apply" /\ pc' = [pc EXCEPT ![m] = "wait"]
        /\ attaches' = IF Rejoins(m) THEN [attaches EXCEPT ![m] = @ + 1] ELSE attaches
    BY <1>12 DEF Apply, Reconcile, store
  <2>2. Informed(n)
    BY <2>1 DEF Informed
  <2>3. CASE m = n
    <3>1. view[n] = table.edges
      BY <1>2, <2>1, <2>2, <2>3
    <3>2. ~\E e \in view[n] : e[2] = n
      <4>1. ASSUME NEW e \in table.edges, e[2] = n
            PROVE  FALSE
        <5>1. e = <<e[1], n>> /\ e[1] \in Node
          BY <4>1 DEF Placed, Fit, Edge
        <5> QED
          BY <2>1, <5>1 DEF HasParent
      <4> QED
        BY <3>1, <4>1
    <3>3. attaches' = [attaches EXCEPT ![n] = @ + 1]
      BY <2>1, <2>3, <3>2 DEF Rejoins
    <3> QED
      BY <1>0, <3>3
  <2>4. CASE m # n
    <3>1. pc'[n] = pc[n] /\ attaches'[n] = attaches[n]
      BY <1>0, <2>1, <2>4
    <3> QED
      BY <1>1, <1>3, <2>1, <2>2, <3>1
  <2> QED
    BY <2>3, <2>4
<1>13. ASSUME NEW m \in Node, Joined(m) \/ CleansUp(m)
       PROVE  FALSE
  BY <1>7, <1>13 DEF Joined, CleansUp
<1>14. ASSUME NEW m \in Node, NotJoined(m) \/ JoinFails(m)
       PROVE  Wakes(n)
  <2>1. /\ UNCHANGED <<table, notes, missed, pc>>
        /\ attaches' = [attaches EXCEPT ![m] = @ - 1]
        /\ unlucky' = unlucky \ {m} \/ unlucky' = unlucky \cup {m}
    BY <1>14 DEF NotJoined, JoinFails, Waiting, store, manager
  <2>2. Informed(n)
    BY <2>1 DEF Informed
  <2>3. CASE m = n
    <3>1. HasParent(table, n) \/ NoPlace \/ unlucky' = unlucky \cup {n}
      BY <1>14, <2>3 DEF NotJoined, JoinFails
    <3>2. NoPlace \/ n \in unlucky'
      BY <2>1, <3>1
    <3> QED
      BY <2>1, <3>2, SamePlaces
  <2>4. CASE m # n
    <3>1. attaches'[n] = attaches[n]
      BY <1>0, <2>1, <2>4
    <3> QED
      BY <1>1, <1>3, <2>1, <2>2, <2>4, <3>1
  <2> QED
    BY <2>3, <2>4
<1>15. ASSUME NEW m \in Node, Crash(m)
       PROVE  Wakes(n)
  <2>1. /\ table' = table /\ pc' = [pc EXCEPT ![m] = "down"]
        /\ notes' = [notes EXCEPT ![m] = 0] /\ missed' = missed \ {m}
        /\ attaches' = [attaches EXCEPT ![m] = 0] /\ unlucky' = unlucky \ {m}
    BY <1>15 DEF Crash, store
  <2>2. m # n
    BY <1>0, <2>1
  <2>3. /\ pc'[n] = pc[n] /\ attaches'[n] = attaches[n] /\ notes[n] = 0 /\ n \notin missed
    BY <1>0, <2>1, <2>2
  <2> QED
    BY <1>1, <1>3, <2>1, <2>2, <2>3 DEF Informed
<1> HIDE DEF Wakes
<1> QED
  BY <1>4, <1>5, <1>6, <1>8, <1>9, <1>10, <1>11, <1>12, <1>13, <1>14, <1>15, Steps

LEMMA InitKnowledge ==
    ASSUME Init
    PROVE  Matched /\ Following /\ Waking
<1>1. ASSUME NEW n \in Node
      PROVE  /\ EdgesOf(tasks[n], held[n]) = seen[n]
             /\ seen[n] = Relevant(table.edges, n)
  <2>1. /\ held[n] = DOMAIN First(n)
        /\ \A i \in DOMAIN First(n) : tasks[n][i].edge = First(n)[i]
    BY InitTasks
  <2>2. seen[n] = Range(First(n)) /\ table = Initial
    BY DEF Init
  <2>3. Range(First(n)) = Relevant(Initial.edges, n)
    BY FirstFacts
  <2>4. Range(First(n)) = { First(n)[i] : i \in DOMAIN First(n) }
    BY DEF Range
  <2>5. EdgesOf(tasks[n], held[n]) = { First(n)[i] : i \in DOMAIN First(n) }
    BY <2>1 DEF EdgesOf
  <2> QED
    BY <2>2, <2>3, <2>4, <2>5
<1>2. table = Initial /\ pc = [n \in Node |-> IF n \in Running THEN "wait" ELSE "off"]
  BY DEF Init
<1>3. Matched
  BY <1>1 DEF Matched, Relevant
<1>4. Following
  BY <1>1, <1>2 DEF Following
<1>5. Waking
  BY <1>2, RunningAssumption DEF Waking
<1> QED
  BY <1>3, <1>4, <1>5

LEMMA KnowledgeHolds == Spec => [](Types /\ Placed /\ Matched /\ Following /\ Waking)
<1>1. Init => Types /\ Placed /\ Matched /\ Following /\ Waking
  BY InitTypes, InitPlaced, InitKnowledge
<1>2. /\ Types /\ Placed /\ Matched /\ Following /\ Waking
      /\ [Next]_vars
      => Types' /\ Placed' /\ Matched' /\ Following' /\ Waking'
  BY TypesStep, PlacedStep, MatchedStep, FollowingStep, WakingStep
<1> QED
  BY <1>1, <1>2, PTL DEF Spec

\* A process that has handled its notifications and missed none has seen exactly
\* the edges of the table that concern it and holds one connection for each: what
\* it reads of the key later than it is notified, and applies later than it reads,
\* is never older than a notification that it has still to handle.
THEOREM KnowsTheTable == Spec => []InStep
<1>1. Matched /\ Following => InStep
  BY DEF Matched, EdgesOf, Following, Informed, InStep, CaughtUp
<1> QED
  BY <1>1, KnowledgeHolds, PTL

\* A subscriber that has handled its notifications and has no parent has another
\* subscribe call to come, or the table has no place for it, or its last call was
\* unlucky: each change of the table that opens a place wakes it.
THEOREM WokenWhenAlone == Spec => []AloneOnlyWithoutPlace
<1>1. Waking => AloneOnlyWithoutPlace
  BY DEF Waking, Informed, AloneOnlyWithoutPlace, CaughtUp
<1> QED
  BY <1>1, KnowledgeHolds, PTL
=============================================================================
