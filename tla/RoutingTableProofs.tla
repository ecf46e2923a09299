-------------------------- MODULE RoutingTableProofs --------------------------
(***************************************************************************)
(* Lemmas about the operators of RoutingTable: the types of the edits, and *)
(* that each edit keeps a table sound.  They carry the theorems about the  *)
(* concurrent calls in RoutingCasProofs.                                   *)
(***************************************************************************)
EXTENDS RoutingTable, FiniteSetTheorems, TLAPS

-----------------------------------------------------------------------------
(* The types of the operators on tables. *)

\* Leaving a name out of a Vec of names leaves a Vec of names.
LEMMA WithoutType ==
    ASSUME NEW vec \in Seq(Node), NEW n \in Node
    PROVE  Without(vec, n) \in Seq(Node)
<1>1. CASE n \in Range(vec)
  <2>1. PICK i \in DOMAIN vec : vec[i] = n
    BY <1>1 DEF Range
  <2>2. (CHOOSE j \in DOMAIN vec : vec[j] = n) \in 1 .. Len(vec)
    BY <2>1
  <2>3. ASSUME NEW j \in 1 .. Len(vec)
        PROVE  RemoveAt(vec, j) \in Seq(Node)
    <3>1. SubSeq(vec, 1, j - 1) \in Seq(Node)
      OBVIOUS
    <3>2. SubSeq(vec, j + 1, Len(vec)) \in Seq(Node)
      OBVIOUS
    <3> QED BY <3>1, <3>2 DEF RemoveAt
  <2> QED BY <1>1, <2>2, <2>3 DEF Without
<1>2. CASE n \notin Range(vec)
  BY <1>2 DEF Without
<1> QED BY <1>1, <1>2

\* AppendUnique leaves a Vec of names too.
LEMMA AppendType ==
    ASSUME NEW vec \in Seq(Node), NEW n \in Node
    PROVE  AppendUnique(vec, n) \in Seq(Node)
BY DEF AppendUnique

\* An absent key reads as a table.
LEMMA UnwrittenType == Unwritten \in Table
BY DEF Unwritten, Table

\* Every edit of a table yields a table.
LEMMA EditTypes ==
    ASSUME NEW st \in Table, NEW n \in Node, NEW s \in Node, NEW x \in Node,
           NEW M \in SUBSET Node
    PROVE  /\ AddPublisher(st, n) \in Table
           /\ AddProxy(st, n) \in Table
           /\ Stamp(st, s) \in Table
           /\ Attach(st, n, s) \in Table
           /\ Graft(st, n, x, s, M) \in Table
           /\ Detach(st, n) \in Table
           /\ CleanUp(st, n) \in Table
<1>1. AddPublisher(st, n) \in Table
  BY AppendType DEF AddPublisher, Table
<1>2. AddProxy(st, n) \in Table
  BY AppendType DEF AddProxy, Table
<1>3. Stamp(st, s) \in Table
  BY DEF Stamp, Table
<1>4. Attach(st, n, s) \in Table
  BY DEF Attach, Table
<1>5. Graft(st, n, x, s, M) \in Table
  <2> DEFINE E == (st.edges \ ({n} \X M)) \cup {<<n, x>>, <<x, s>>} \cup ({x} \X M)
  <2>1. {x} \X M \subseteq Node \X Node
    OBVIOUS
  <2>2. {<<n, x>>, <<x, s>>} \subseteq Node \X Node
    OBVIOUS
  <2>3. st.edges \subseteq Node \X Node
    BY DEF Table
  <2>4. E \in SUBSET (Node \X Node)
    BY <2>1, <2>2, <2>3
  <2>5. Graft(st, n, x, s, M) =
            [st EXCEPT !.edges = E, !.attach_ms = @ \cup M]
    BY DEF Graft
  <2> HIDE DEF E
  <2> QED BY <2>4, <2>5 DEF Table
<1>6. Detach(st, n) \in Table
  BY DEF Detach, DropEdges, Table
<1>7. CleanUp(st, n) \in Table
  <2>1. /\ Without(st.publishers, n) \in Seq(Node)
        /\ Without(st.proxies, n) \in Seq(Node)
    BY WithoutType DEF Table
  <2> QED BY <2>1 DEF CleanUp, DropEdges, Table
<1> QED BY <1>1, <1>2, <1>3, <1>4, <1>5, <1>6, <1>7

\* The walk of subscribe visits publishers and proxies only.
LEMMA ReachType ==
    ASSUME NEW st \in Table
    PROVE  /\ Intermediates(st) \subseteq Node
           /\ Reach(st) \subseteq Node
           /\ Reach(st) \subseteq Intermediates(st)
BY DEF Reach, Intermediates, Publishers, Proxies, Range, Table

-----------------------------------------------------------------------------
(* The walk from the root. *)

\* Reach is closed under the step of the walk: it is the least such set.
LEMMA ReachIsClosed ==
    ASSUME NEW st \in Table, st.publishers # <<>>
    PROVE  ReachClosed(st, Reach(st))
<1>1. Root(st) \in Intermediates(st)
  BY DEF Table, Root, Intermediates, Publishers, Range
<1>2. Root(st) \in Reach(st)
  BY <1>1 DEF Reach, ReachClosed
<1>3. ASSUME NEW e \in st.edges, e[1] \in Reach(st), e[2] \in Intermediates(st)
      PROVE  e[2] \in Reach(st)
  BY <1>3 DEF Reach, ReachClosed
<1> QED BY <1>2, <1>3 DEF ReachClosed

\* Any set that is closed under the walk holds what the walk reaches.
LEMMA ReachIsLeast ==
    ASSUME NEW st \in Table, st.publishers # <<>>, NEW S, ReachClosed(st, S)
    PROVE  Reach(st) \subseteq S
<1> DEFINE T == S \cap Intermediates(st)
<1>1. Root(st) \in Intermediates(st)
  BY DEF Table, Root, Intermediates, Publishers, Range
<1>2. ReachClosed(st, T)
  BY <1>1 DEF ReachClosed
<1>3. T \in SUBSET Intermediates(st)
  OBVIOUS
<1> QED BY <1>2, <1>3 DEF Reach

\* A table without publishers that hangs from its root has no edges.
LEMMA NoRootNoEdges ==
    ASSUME NEW st \in Table, Hanging(st), st.publishers = <<>>
    PROVE  st.edges = {}
BY DEF Hanging, Reach

\* Where the walk of st stays inside the walk of new, every edge of st hangs.
LEMMA StillHanging ==
    ASSUME NEW st \in Table, NEW new \in Table, Hanging(st),
           Reach(st) \subseteq Reach(new),
           \A e \in new.edges : e \in st.edges \/ e[1] \in Reach(new)
    PROVE  Hanging(new)
BY DEF Hanging

-----------------------------------------------------------------------------
(* The edits of the Vecs of names. *)

\* add_publisher and add_proxy add the name, keep the others and the first one,
\* and leave the Vec unique.
LEMMA AppendFacts ==
    ASSUME NEW vec \in Seq(Node), NEW n \in Node, IsInjective(vec)
    PROVE  /\ Range(AppendUnique(vec, n)) = Range(vec) \cup {n}
           /\ IsInjective(AppendUnique(vec, n))
           /\ AppendUnique(vec, n) # <<>>
           /\ vec # <<>> => AppendUnique(vec, n)[1] = vec[1]
<1>1. CASE n \in Range(vec)
  BY <1>1 DEF AppendUnique, Range, IsInjective
<1>2. CASE n \notin Range(vec)
  <2> DEFINE w == Append(vec, n)
  <2>1. /\ w \in Seq(Node)
        /\ Len(w) = Len(vec) + 1
        /\ \A i \in 1 .. Len(vec) : w[i] = vec[i]
        /\ w[Len(vec) + 1] = n
        /\ DOMAIN w = 1 .. (Len(vec) + 1)
        /\ DOMAIN vec = 1 .. Len(vec)
    OBVIOUS
  <2>2. AppendUnique(vec, n) = w
    BY <1>2 DEF AppendUnique
  <2> HIDE DEF w
  <2>3. Range(w) = Range(vec) \cup {n}
    BY <2>1 DEF Range
  <2>4. IsInjective(w)
    BY <1>2, <2>1 DEF IsInjective, Range
  <2>5. w # <<>>
    BY <2>1
  <2>6. vec # <<>> => w[1] = vec[1]
    BY <2>1
  <2> QED BY <2>2, <2>3, <2>4, <2>5, <2>6
<1> QED BY <1>1, <1>2

\* The type and the length of a concatenation.
LEMMA Concatenation ==
    ASSUME NEW a \in Seq(Node), NEW b \in Seq(Node)
    PROVE  a \o b \in Seq(Node) /\ Len(a \o b) = Len(a) + Len(b)
<1>1. a \o b \in Seq(Node)
  OBVIOUS
<1>2. Len(a \o b) = Len(a) + Len(b)
  OBVIOUS
<1> QED BY <1>1, <1>2

\* retain(|p| p != n) removes n and nothing else, keeps the Vec unique, and
\* keeps its first name unless that is n.
LEMMA WithoutFacts ==
    ASSUME NEW vec \in Seq(Node), NEW n \in Node, IsInjective(vec)
    PROVE  /\ Range(Without(vec, n)) = Range(vec) \ {n}
           /\ IsInjective(Without(vec, n))
           /\ vec # <<>> /\ vec[1] # n =>
                 Without(vec, n) # <<>> /\ Without(vec, n)[1] = vec[1]
<1>1. CASE n \notin Range(vec)
  BY <1>1 DEF Without
<1>2. CASE n \in Range(vec)
  <2> DEFINE k == CHOOSE i \in DOMAIN vec : vec[i] = n
             w == RemoveAt(vec, k)
  <2>1. k \in 1 .. Len(vec) /\ vec[k] = n
    <3>1. \E i \in DOMAIN vec : vec[i] = n
      BY <1>2 DEF Range
    <3> QED BY <3>1
  <2>2. Without(vec, n) = w
    BY <1>2 DEF Without
  <2> HIDE DEF k
  <2>3. /\ w \in Seq(Node)
        /\ Len(w) = Len(vec) - 1
        /\ \A i \in 1 .. Len(w) : w[i] = IF i < k THEN vec[i] ELSE vec[i + 1]
    <3> DEFINE A == SubSeq(vec, 1, k - 1)
               B == SubSeq(vec, k + 1, Len(vec))
    <3>1. /\ A \in Seq(Node)
          /\ Len(A) = k - 1
          /\ \A i \in 1 .. Len(A) : A[i] = vec[i]
      BY <2>1
    <3>2. /\ B \in Seq(Node)
          /\ Len(B) = Len(vec) - k
          /\ \A i \in 1 .. Len(B) : B[i] = vec[k + i]
      BY <2>1
    <3>3. w = A \o B
      BY DEF RemoveAt
    <3> HIDE DEF A, B, w
    <3>4. w \in Seq(Node) /\ Len(w) = Len(A) + Len(B)
      <4>1. A \o B \in Seq(Node) /\ Len(A \o B) = Len(A) + Len(B)
        BY <3>1, <3>2, Concatenation
      <4> QED BY <4>1, <3>3
    <3>5. ASSUME NEW i \in 1 .. Len(w)
          PROVE  w[i] = IF i < k THEN vec[i] ELSE vec[i + 1]
      <4>1. CASE i < k
        BY <2>1, <3>1, <3>2, <3>3, <3>4, <4>1
      <4>2. CASE i >= k
        <5>1. w[i] = B[i - Len(A)]
          BY <2>1, <3>1, <3>2, <3>3, <3>4, <4>2
        <5>2. i - Len(A) \in 1 .. Len(B) /\ k + (i - Len(A)) = i + 1
          BY <2>1, <3>1, <3>2, <3>4, <4>2
        <5>3. ~(i < k)
          BY <2>1, <3>1, <3>2, <3>4, <4>2
        <5>4. w[i] = vec[i + 1]
          BY <3>2, <5>1, <5>2
        <5> QED BY <5>3, <5>4
      <4>3. i < k \/ i >= k
        BY <2>1, <3>1, <3>2, <3>4
      <4> QED BY <2>1, <3>1, <3>2, <3>4, <4>1, <4>2, <4>3
    <3> QED BY <2>1, <3>1, <3>2, <3>4, <3>5
  <2>4. DOMAIN w = 1 .. Len(w) /\ DOMAIN vec = 1 .. Len(vec) /\ Len(vec) \in Nat
    BY <2>3
  <2> HIDE DEF w
  <2>5. \A i \in 1 .. Len(w) : w[i] \in Range(vec) /\ w[i] # n
    BY <2>1, <2>3, <2>4 DEF IsInjective, Range
  <2>6. ASSUME NEW m \in Range(vec), m # n
        PROVE  m \in Range(w)
    <3>1. PICK j \in 1 .. Len(vec) : vec[j] = m
      BY <2>4 DEF Range
    <3>2. CASE j < k
      <4>1. j \in 1 .. Len(w) /\ w[j] = m
        BY <2>1, <2>3, <2>4, <3>1, <3>2
      <4> QED BY <2>4, <4>1 DEF Range
    <3>3. CASE j > k
      <4>1. j - 1 \in 1 .. Len(w) /\ w[j - 1] = m
        BY <2>1, <2>3, <2>4, <3>1, <3>3
      <4> QED BY <2>4, <4>1 DEF Range
    <3> QED BY <2>1, <2>6, <3>1, <3>2, <3>3
  <2>7. Range(w) = Range(vec) \ {n}
    BY <2>4, <2>5, <2>6 DEF Range
  <2>8. IsInjective(w)
    <3> SUFFICES ASSUME NEW i \in 1 .. Len(w), NEW j \in 1 .. Len(w), w[i] = w[j]
                 PROVE  i = j
      BY <2>4 DEF IsInjective
    <3> DEFINE at(l) == IF l < k THEN l ELSE l + 1
    <3>1. at(i) \in 1 .. Len(vec) /\ at(j) \in 1 .. Len(vec)
      BY <2>1, <2>3, <2>4
    <3>2. vec[at(i)] = vec[at(j)]
      BY <2>3
    <3>3. at(i) = at(j)
      BY <2>4, <3>1, <3>2 DEF IsInjective
    <3> QED BY <2>1, <2>3, <3>3
  <2>9. vec # <<>> /\ vec[1] # n => w # <<>> /\ w[1] = vec[1]
    BY <2>1, <2>3, <2>4
  <2> QED BY <2>2, <2>7, <2>8, <2>9
<1> QED BY <1>1, <1>2
-----------------------------------------------------------------------------
(* Registrations and attachments. *)

\* A node has finitely many children.
LEMMA ChildrenFinite ==
    ASSUME NEW st, NEW n
    PROVE  IsFiniteSet(Children(st, n)) /\ Cardinality(Children(st, n)) \in Nat
<1>1. Children(st, n) \in SUBSET Node /\ IsFiniteSet(Node)
  BY NodeAssumption DEF Children
<1>2. IsFiniteSet(Children(st, n))
  BY <1>1, FS_Subset
<1> QED BY <1>2, FS_CardinalityType

\* Fewer children are no more than the fanout.
LEMMA FewerChildren ==
    ASSUME NEW st, NEW new, Bounded(st),
           \A n \in Node : Children(new, n) \subseteq Children(st, n)
    PROVE  Bounded(new)
<1> SUFFICES ASSUME NEW n \in Node
             PROVE  Cardinality(Children(new, n)) <= Fanout
  BY DEF Bounded
<1>1. Cardinality(Children(new, n)) <= Cardinality(Children(st, n))
  BY ChildrenFinite, FS_Subset
<1>2. Cardinality(Children(st, n)) <= Fanout
  BY DEF Bounded
<1> QED BY <1>1, <1>2, ChildrenFinite, FanoutAssumption

\* Registering a publisher or a proxy keeps the table sound.
LEMMA RegistrationIsSound ==
    ASSUME NEW st \in Table, NEW n \in Node, NEW new \in Table,
           new = AddPublisher(st, n) \/ new = AddProxy(st, n)
    PROVE  /\ Unique(st) => Unique(new)
           /\ Bounded(st) => Bounded(new)
           /\ Unique(st) /\ Hanging(st) => Hanging(new)
           /\ Unique(st) => Intermediates(st) \subseteq Intermediates(new)
<1>1. /\ new.edges = st.edges
      /\ new.publishers \in {st.publishers, AppendUnique(st.publishers, n)}
      /\ new.proxies \in {st.proxies, AppendUnique(st.proxies, n)}
  BY DEF AddPublisher, AddProxy, Table
<1>2. st.publishers \in Seq(Node) /\ st.proxies \in Seq(Node)
  BY DEF Table
<1>3. ASSUME Unique(st)
      PROVE  /\ Unique(new)
             /\ Intermediates(st) \subseteq Intermediates(new)
             /\ st.publishers # <<>> =>
                   new.publishers # <<>> /\ Root(new) = Root(st)
  BY <1>1, <1>2, <1>3, AppendFacts DEF Unique, Intermediates, Publishers, Proxies, Root
<1>4. Bounded(st) => Bounded(new)
  BY <1>1 DEF Bounded, Children
<1>5. ASSUME Unique(st), Hanging(st)
      PROVE  Hanging(new)
  <2>1. CASE st.publishers = <<>>
    BY <1>1, <1>5, <2>1, NoRootNoEdges DEF Hanging
  <2>2. CASE st.publishers # <<>>
    <3>1. ReachClosed(new, Reach(new))
      BY <1>3, <1>5, <2>2, ReachIsClosed
    <3>2. ReachClosed(st, Reach(new))
      BY <1>1, <1>3, <1>5, <2>2, <3>1 DEF ReachClosed
    <3>3. Reach(st) \subseteq Reach(new)
      BY <2>2, <3>2, ReachIsLeast
    <3> QED BY <1>1, <1>5, <3>3, StillHanging
  <2> QED BY <2>1, <2>2
<1> QED BY <1>3, <1>4, <1>5

\* stamps change nothing that the walk or the bounds look at.
LEMMA StampKeeps ==
    ASSUME NEW st \in Table, NEW s \in Node
    PROVE  /\ Stamp(st, s).edges = st.edges
           /\ Stamp(st, s).publishers = st.publishers
           /\ Stamp(st, s).proxies = st.proxies
BY DEF Stamp, Table

\* Attaching a node under one that is reached keeps the tree hanging from its
\* root and loses no edge.
LEMMA AttachKeeps ==
    ASSUME NEW st \in Table, NEW n \in Node, NEW s \in Node
    PROVE  /\ Attach(st, n, s).publishers = st.publishers
           /\ Attach(st, n, s).proxies = st.proxies
           /\ Attach(st, n, s).edges = st.edges \cup {<<n, s>>}
           /\ Children(Attach(st, n, s), n) = Children(st, n) \cup {s}
           /\ \A m \in Node \ {n} : Children(Attach(st, n, s), m) = Children(st, m)
<1>1. /\ Attach(st, n, s).publishers = st.publishers
      /\ Attach(st, n, s).proxies = st.proxies
      /\ Attach(st, n, s).edges = st.edges \cup {<<n, s>>}
  BY DEF Attach, Table
<1> QED BY <1>1 DEF Children

\* An edge under a node the walk reaches keeps the table hanging.
LEMMA AttachHangs ==
    ASSUME NEW st \in Table, NEW n \in Reach(st), NEW s \in Node,
           st.publishers # <<>>, Hanging(st)
    PROVE  /\ Hanging(Attach(st, n, s))
           /\ Reach(st) \subseteq Reach(Attach(st, n, s))
<1> DEFINE new == Attach(st, n, s)
<1>1. n \in Node
  BY ReachType
<1>2. new \in Table
  BY <1>1, EditTypes
<1>3. /\ new.publishers = st.publishers
      /\ new.proxies = st.proxies
      /\ new.edges = st.edges \cup {<<n, s>>}
  BY <1>1, AttachKeeps
<1> HIDE DEF new
<1>4. ReachClosed(new, Reach(new))
  BY <1>2, <1>3, ReachIsClosed
<1>5. ReachClosed(st, Reach(new))
  BY <1>3, <1>4 DEF ReachClosed, Root, Intermediates, Publishers, Proxies
<1>6. Reach(st) \subseteq Reach(new)
  BY <1>5, ReachIsLeast
<1>7. \A e \in new.edges : e \in st.edges \/ e[1] \in Reach(new)
  BY <1>3, <1>6
<1>8. Hanging(new)
  BY <1>2, <1>6, <1>7, StillHanging
<1> QED BY <1>6, <1>8 DEF new

\* An attachment to a node with spare fanout keeps the bound.
LEMMA AttachBounded ==
    ASSUME NEW st \in Table, NEW n \in Node, NEW s \in Node,
           Bounded(st), ~Full(st, n)
    PROVE  Bounded(Attach(st, n, s))
<1> SUFFICES ASSUME NEW m \in Node
             PROVE  Cardinality(Children(Attach(st, n, s), m)) <= Fanout
  BY DEF Bounded
<1>1. CASE m = n
  <2> DEFINE C == Children(st, n)
  <2>1. IsFiniteSet(C) /\ Cardinality(C) \in Nat /\ ~(Cardinality(C) >= Fanout)
    BY ChildrenFinite DEF Full
  <2>2. Children(Attach(st, n, s), m) = C \cup {s}
    BY <1>1, AttachKeeps
  <2> HIDE DEF C
  <2>3. Cardinality(C \cup {s}) \in {Cardinality(C), Cardinality(C) + 1}
    <3>1. Cardinality(C \cup {s}) = IF s \in C THEN Cardinality(C) ELSE Cardinality(C) + 1
      BY <2>1, FS_AddElement
    <3> QED BY <3>1
  <2> QED BY <2>1, <2>2, <2>3, FanoutAssumption
<1>2. CASE m # n
  BY <1>2, AttachKeeps DEF Bounded
<1> QED BY <1>1, <1>2
-----------------------------------------------------------------------------
(* Grafts. *)

\* So does grafting an unused proxy between a reached node and its listeners:
\* they move to the proxy, and everything reached before still is.
LEMMA GraftKeeps ==
    ASSUME NEW st \in Table, NEW n \in Node, NEW x \in Node, NEW s \in Node,
           NEW M \in SUBSET Node
    PROVE  /\ Graft(st, n, x, s, M).publishers = st.publishers
           /\ Graft(st, n, x, s, M).proxies = st.proxies
           /\ \A e \in Graft(st, n, x, s, M).edges :
                 e \in st.edges \/ e[1] = n \/ e[1] = x
           /\ \A e \in st.edges :
                 e \in Graft(st, n, x, s, M).edges \/ (e[1] = n /\ e[2] \in M)
           /\ <<n, x>> \in Graft(st, n, x, s, M).edges
           /\ <<x, s>> \in Graft(st, n, x, s, M).edges
           /\ \A m \in M : <<x, m>> \in Graft(st, n, x, s, M).edges
<1> DEFINE E == (st.edges \ ({n} \X M)) \cup {<<n, x>>, <<x, s>>} \cup ({x} \X M)
<1>1. st.edges \subseteq Node \X Node
  BY DEF Table
<1>2. \A e \in st.edges : e \in E \/ (e[1] = n /\ e[2] \in M)
  BY <1>1
<1>3. \A e \in E : e \in st.edges \/ e[1] = n \/ e[1] = x
  BY <1>1
<1>4. <<n, x>> \in E /\ <<x, s>> \in E /\ \A m \in M : <<x, m>> \in E
  OBVIOUS
<1>5. Graft(st, n, x, s, M) = [st EXCEPT !.edges = E, !.attach_ms = @ \cup M]
  BY DEF Graft
<1> HIDE DEF E
<1>6. /\ Graft(st, n, x, s, M).edges = E
      /\ Graft(st, n, x, s, M).publishers = st.publishers
      /\ Graft(st, n, x, s, M).proxies = st.proxies
  BY <1>5 DEF Table
<1> QED BY <1>2, <1>3, <1>4, <1>6

\* Who the children are after a graft.
LEMMA GraftChildren ==
    ASSUME NEW st \in Table, NEW n \in Node, NEW x \in Node, NEW s \in Node,
           NEW M \in SUBSET Node, x # n
    PROVE  /\ Children(Graft(st, n, x, s, M), n) = (Children(st, n) \ M) \cup {x}
           /\ Children(Graft(st, n, x, s, M), x) = Children(st, x) \cup M \cup {s}
           /\ \A m \in Node \ {n, x} :
                 Children(Graft(st, n, x, s, M), m) = Children(st, m)
<1> DEFINE E == (st.edges \ ({n} \X M)) \cup {<<n, x>>, <<x, s>>} \cup ({x} \X M)
<1>1. Graft(st, n, x, s, M).edges = E
  <2>1. Graft(st, n, x, s, M) = [st EXCEPT !.edges = E, !.attach_ms = @ \cup M]
    BY DEF Graft
  <2> HIDE DEF E
  <2> QED BY <2>1 DEF Table
<1>2. \A c \in Node : <<n, c>> \in E <=> (<<n, c>> \in st.edges /\ c \notin M) \/ c = x
  OBVIOUS
<1>3. \A c \in Node : <<x, c>> \in E <=> <<x, c>> \in st.edges \/ c \in M \/ c = s
  OBVIOUS
<1>4. \A m \in Node \ {n, x} : \A c \in Node : <<m, c>> \in E <=> <<m, c>> \in st.edges
  OBVIOUS
<1> HIDE DEF E
<1> QED BY <1>1, <1>2, <1>3, <1>4 DEF Children

\* A graft under a node the walk reaches loses nothing the walk reaches: the
\* children it moves are reached through the new proxy.
LEMMA GraftHangs ==
    ASSUME NEW st \in Table, NEW n \in Reach(st), NEW x \in Proxies(st),
           NEW s \in Node, NEW M \in SUBSET Node,
           st.publishers # <<>>, Hanging(st)
    PROVE  /\ Hanging(Graft(st, n, x, s, M))
           /\ Reach(st) \subseteq Reach(Graft(st, n, x, s, M))
<1> DEFINE new == Graft(st, n, x, s, M)
<1>1. n \in Node /\ x \in Node /\ x \in Intermediates(st)
  BY ReachType DEF Intermediates
<1>2. new \in Table
  BY <1>1, EditTypes
<1>3. /\ new.publishers = st.publishers
      /\ new.proxies = st.proxies
      /\ \A e \in new.edges : e \in st.edges \/ e[1] = n \/ e[1] = x
      /\ \A e \in st.edges : e \in new.edges \/ (e[1] = n /\ e[2] \in M)
      /\ <<n, x>> \in new.edges
      /\ \A m \in M : <<x, m>> \in new.edges
  BY <1>1, GraftKeeps
<1> HIDE DEF new
<1>4. Root(new) = Root(st) /\ Intermediates(new) = Intermediates(st)
  BY <1>3 DEF Root, Intermediates, Publishers, Proxies
<1>5. ReachClosed(new, Reach(new))
  BY <1>2, <1>3, ReachIsClosed
<1>6. n \in Reach(new) => x \in Reach(new)
  BY <1>1, <1>3, <1>4, <1>5 DEF ReachClosed
<1>7. ASSUME NEW e \in st.edges, e[1] \in Reach(new), e[2] \in Intermediates(st)
      PROVE  e[2] \in Reach(new)
  <2>1. CASE e \in new.edges
    BY <1>4, <1>5, <1>7, <2>1 DEF ReachClosed
  <2>2. CASE e[1] = n /\ e[2] \in M
    <3>1. <<x, e[2]>> \in new.edges /\ x \in Reach(new)
      BY <1>3, <1>6, <1>7, <2>2
    <3> QED BY <1>4, <1>5, <1>7, <3>1 DEF ReachClosed
  <2> QED BY <1>3, <2>1, <2>2
<1>8. ReachClosed(st, Reach(new))
  BY <1>4, <1>5, <1>7 DEF ReachClosed
<1>9. Reach(st) \subseteq Reach(new)
  BY <1>8, ReachIsLeast
<1>10. \A e \in new.edges : e \in st.edges \/ e[1] \in Reach(new)
  BY <1>3, <1>6, <1>9
<1>11. Hanging(new)
  BY <1>2, <1>9, <1>10, StillHanging
<1> QED BY <1>9, <1>11 DEF new

\* With a fanout of two or more, a graft of an unused proxy that takes at
\* least one child from n, and at most fanout() - 1, keeps the bound.
LEMMA GraftBounded ==
    ASSUME NEW st \in Table, NEW n \in Node, NEW x \in Node, NEW s \in Node,
           NEW M \in SUBSET Children(st, n),
           Bounded(st), x # n, Children(st, x) = {},
           M # {}, Cardinality(M) <= Fanout - 1
    PROVE  Bounded(Graft(st, n, x, s, M))
<1>0. M \in SUBSET Node /\ IsFiniteSet(M) /\ Cardinality(M) \in Nat
  <2>1. M \in SUBSET Node
    BY DEF Children
  <2>2. IsFiniteSet(M)
    BY ChildrenFinite, FS_Subset
  <2> QED BY <2>1, <2>2, FS_CardinalityType
<1> SUFFICES ASSUME NEW m \in Node
             PROVE  Cardinality(Children(Graft(st, n, x, s, M), m)) <= Fanout
  BY DEF Bounded
<1>1. CASE m = n
  <2> DEFINE C == Children(st, n)
  <2>1. IsFiniteSet(C) /\ Cardinality(C) \in Nat /\ Cardinality(C) <= Fanout
    BY ChildrenFinite DEF Bounded
  <2>2. Children(Graft(st, n, x, s, M), m) = (C \ M) \cup {x}
    BY <1>0, <1>1, GraftChildren
  <2>3. M \subseteq C
    OBVIOUS
  <2> HIDE DEF C
  <2>4. PICK c \in M : TRUE
    OBVIOUS
  <2>5. Cardinality(C \ {c}) = Cardinality(C) - 1 /\ IsFiniteSet(C \ {c})
    BY <2>1, <2>3, <2>4, FS_RemoveElement
  <2>6. Cardinality(C \ M) <= Cardinality(C \ {c}) /\ IsFiniteSet(C \ M)
    BY <2>4, <2>5, FS_Subset
  <2>7. Cardinality(C \ M) \in Nat
    BY <2>6, FS_CardinalityType
  <2>8. Cardinality((C \ M) \cup {x}) \in {Cardinality(C \ M), Cardinality(C \ M) + 1}
    <3>1. Cardinality((C \ M) \cup {x}) =
            IF x \in C \ M THEN Cardinality(C \ M) ELSE Cardinality(C \ M) + 1
      BY <2>6, FS_AddElement
    <3> QED BY <3>1
  <2> QED BY <2>1, <2>2, <2>5, <2>6, <2>7, <2>8, FanoutAssumption
<1>2. CASE m = x
  <2>1. Children(Graft(st, n, x, s, M), m) = M \cup {s}
    BY <1>0, <1>2, GraftChildren
  <2>2. Cardinality(M \cup {s}) \in {Cardinality(M), Cardinality(M) + 1}
    <3>1. Cardinality(M \cup {s}) = IF s \in M THEN Cardinality(M) ELSE Cardinality(M) + 1
      BY <1>0, FS_AddElement
    <3> QED BY <3>1
  <2> QED BY <1>0, <2>1, <2>2, FanoutAssumption
<1>3. CASE m \notin {n, x}
  BY <1>0, <1>3, GraftChildren DEF Bounded
<1> QED BY <1>1, <1>2, <1>3

\* What the code moves in a graft, when there is a listener to move.
LEMMA MovesFacts ==
    ASSUME NEW st, NEW n \in Node, NEW M \in Moves(st, n),
           ~(Children(st, n) \subseteq Proxies(st)), Fanout >= 2
    PROVE  /\ M \subseteq Children(st, n)
           /\ M # {}
           /\ Cardinality(M) <= Fanout - 1
<1> DEFINE listeners == Children(st, n) \ Proxies(st)
           k == Cardinality(listeners)
           least == Min({k, Fanout - 1})
<1>1. M \in SUBSET listeners /\ Cardinality(M) = Max({least, 1})
  BY DEF Moves, MoveCount
<1>2. IsFiniteSet(listeners) /\ k \in Nat /\ k # 0
  <2>1. IsFiniteSet(listeners)
    BY ChildrenFinite, FS_Subset
  <2>2. listeners # {}
    OBVIOUS
  <2> QED BY <2>1, <2>2, FS_CardinalityType, FS_EmptySet
<1>3. M \subseteq Children(st, n)
  BY <1>1
<1> HIDE DEF listeners, k
<1>4. least \in 1 .. (Fanout - 1)
  <2>1. \E a \in {k, Fanout - 1} : \A b \in {k, Fanout - 1} : a =< b
    BY <1>2, FanoutAssumption
  <2>2. least \in {k, Fanout - 1} /\ \A b \in {k, Fanout - 1} : least =< b
    BY <2>1 DEF Min
  <2> QED BY <1>2, <2>2, FanoutAssumption
<1> HIDE DEF least
<1>5. Max({least, 1}) = least
  <2>1. least \in {least, 1} /\ \A b \in {least, 1} : least >= b
    BY <1>4
  <2>2. Max({least, 1}) \in {least, 1} /\ \A b \in {least, 1} : Max({least, 1}) >= b
    BY <2>1 DEF Max
  <2> QED BY <1>4, <2>2
<1>6. M # {}
  BY <1>1, <1>4, <1>5, FS_EmptySet
<1> QED BY <1>1, <1>3, <1>4, <1>5, <1>6
-----------------------------------------------------------------------------
(* Detaching a subtree. *)

\* A subtree contains its node and the children of its members.
LEMMA SubtreeIsClosed ==
    ASSUME NEW st \in Table, NEW n \in Node
    PROVE  SubtreeClosed(st, n, Subtree(st, n))
<1> DEFINE below == {n} \cup { e[2] : e \in st.edges }
<1>1. Subtree(st, n) =
        { m \in below : \A S \in SUBSET below : SubtreeClosed(st, n, S) => m \in S }
  BY DEF Subtree
<1>2. n \in Subtree(st, n)
  BY <1>1 DEF SubtreeClosed
<1>3. ASSUME NEW e \in st.edges, e[1] \in Subtree(st, n)
      PROVE  e[2] \in Subtree(st, n)
  BY <1>1, <1>3 DEF SubtreeClosed
<1> QED BY <1>2, <1>3 DEF SubtreeClosed

\* Dropping the edges of a subtree, and perhaps its top from the registries,
\* keeps the rest hanging from the root.  When the top is the root itself the
\* subtree holds all that the walk reaches, so no edge is left.
LEMMA DropIsSound ==
    ASSUME NEW st \in Table, NEW n \in Node, NEW new \in Table,
           Unique(st), Hanging(st),
           new.edges = DropEdges(st, Subtree(st, n)),
           new.publishers \in {st.publishers, Without(st.publishers, n)},
           new.proxies \in {st.proxies, Without(st.proxies, n)}
    PROVE  /\ Unique(new)
           /\ Hanging(new)
           /\ Bounded(st) => Bounded(new)
           /\ Intermediates(st) \ {n} \subseteq Intermediates(new)
           /\ \A m \in Node \ Subtree(st, n) : HasParent(st, m) => HasParent(new, m)
<1> DEFINE D == Subtree(st, n)
<1>1. SubtreeClosed(st, n, D)
  BY SubtreeIsClosed
<1> HIDE DEF D
<1>2. new.edges = { e \in st.edges : e[1] \notin D /\ e[2] \notin D }
  BY DEF DropEdges, D
<1>3. st.publishers \in Seq(Node) /\ st.proxies \in Seq(Node) /\ st.edges \subseteq Node \X Node
  BY DEF Table
<1>4. /\ Unique(new)
      /\ Intermediates(st) \ {n} \subseteq Intermediates(new)
  BY <1>3, WithoutFacts DEF Unique, Intermediates, Publishers, Proxies
<1>5. Bounded(st) => Bounded(new)
  <2>1. \A m \in Node : Children(new, m) \subseteq Children(st, m)
    BY <1>2 DEF Children
  <2> QED BY <2>1, FewerChildren
<1>6. ASSUME NEW m \in Node \ D, HasParent(st, m)
      PROVE  HasParent(new, m)
  <2>1. PICK p \in Node : <<p, m>> \in st.edges
    BY <1>6 DEF HasParent
  <2>2. p \notin D
    BY <1>1, <2>1 DEF SubtreeClosed
  <2>3. <<p, m>> \in new.edges
    BY <1>2, <2>1, <2>2
  <2> QED BY <2>3 DEF HasParent
<1>7. Hanging(new)
  <2>1. CASE st.publishers = <<>>
    BY <1>2, <2>1, NoRootNoEdges DEF Hanging
  <2>2. CASE st.publishers # <<>> /\ Root(st) = n
    <3>1. ReachClosed(st, D)
      BY <1>1, <2>2 DEF ReachClosed, SubtreeClosed
    <3>2. Reach(st) \subseteq D
      BY <2>2, <3>1, ReachIsLeast
    <3>3. new.edges = {}
      BY <1>2, <3>2 DEF Hanging
    <3> QED BY <3>3 DEF Hanging
  <2>3. CASE st.publishers # <<>> /\ Root(st) # n
    <3> DEFINE S == Reach(new) \cup D
    <3>1. new.publishers # <<>> /\ Root(new) = Root(st)
      BY <1>3, <2>3, WithoutFacts DEF Unique, Root
    <3>2. ReachClosed(new, Reach(new))
      BY <3>1, ReachIsClosed
    <3>3. ASSUME NEW e \in st.edges, e[1] \in S, e[2] \in Intermediates(st)
          PROVE  e[2] \in S
      <4>1. CASE e[1] \in D \/ e[2] \in D
        BY <1>1, <4>1 DEF SubtreeClosed
      <4>2. CASE e[1] \notin D /\ e[2] \notin D
        <5>1. e \in new.edges
          BY <1>2, <4>2
        <5>2. e[2] # n
          BY <1>1, <4>2 DEF SubtreeClosed
        <5>3. e[2] \in Intermediates(new) /\ e[1] \in Reach(new)
          BY <1>4, <3>3, <4>2, <5>2
        <5> QED BY <3>2, <5>1, <5>3 DEF ReachClosed
      <4> QED BY <4>1, <4>2
    <3>4. ReachClosed(st, S)
      BY <3>1, <3>2, <3>3 DEF ReachClosed
    <3>5. Reach(st) \subseteq S
      BY <2>3, <3>4, ReachIsLeast
    <3>6. \A e \in new.edges : e[1] \in Reach(new)
      BY <1>2, <3>5 DEF Hanging
    <3> QED BY <3>6 DEF Hanging
  <2> QED BY <2>1, <2>2, <2>3
<1> QED BY <1>4, <1>5, <1>6, <1>7 DEF D
===============================================================================
