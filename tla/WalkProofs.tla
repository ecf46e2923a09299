----------------------------- MODULE WalkProofs -----------------------------
(***************************************************************************)
(* The breadth-first walk of subscribe, bfs_intermediates_with_depth, on   *)
(* any table: its loop ends, and it visits the publishers and proxies that *)
(* can be reached from the root, each of them once and none before one     *)
(* that is less deep.                                                      *)
(*                                                                         *)
(* Walk is a recursive function whose argument is the queue and the set of *)
(* nodes seen.  A turn takes one node from the queue and queues the fresh  *)
(* ones, so the number of nodes that are queued or not seen falls by one   *)
(* (TurnShortens); that makes the recursion well founded.                  *)
(***************************************************************************)
EXTENDS RoutingTableProofs, SequenceLemmas

-----------------------------------------------------------------------------
(* children.sort(). *)

\* There are k numbers from 1 to k.
LEMMA UpTo ==
    ASSUME NEW k \in Nat
    PROVE  IsFiniteSet(1 .. k) /\ Cardinality(1 .. k) = k
  BY FS_Interval

\* The nodes of S before n.
Below(S, n) == {m \in S : m < n}

\* A finite set of numbers is enumerated by Sorted: in ascending order, each
\* element at one place.
LEMMA SortedFacts ==
    ASSUME NEW S, S \subseteq Nat, IsFiniteSet(S)
    PROVE  /\ Cardinality(S) \in Nat
           /\ Sorted(S) \in [1 .. Cardinality(S) -> S]
           /\ \A n \in S : \E i \in 1 .. Cardinality(S) : Sorted(S)[i] = n
           /\ \A i, j \in 1 .. Cardinality(S) : i < j => Sorted(S)[i] < Sorted(S)[j]
<1> DEFINE k == Cardinality(S)
           Rank(n) == Cardinality(Below(S, n))
           f == [n \in S |-> Rank(n) + 1]
<1>1. k \in Nat
  BY FS_CardinalityType
<1>2. ASSUME NEW n \in S
      PROVE  Rank(n) \in 0 .. k - 1
  <2>1. Below(S, n) \in SUBSET (S \ {n})
    BY DEF Below
  <2>2. IsFiniteSet(S \ {n}) /\ Cardinality(S \ {n}) = k - 1
    BY FS_RemoveElement
  <2>3. IsFiniteSet(Below(S, n)) /\ Rank(n) <= k - 1
    BY <2>1, <2>2, FS_Subset
  <2>4. Rank(n) \in Nat
    BY <2>3, FS_CardinalityType
  <2> QED BY <1>1, <2>3, <2>4
<1>3. ASSUME NEW m \in S, NEW n \in S, m < n
      PROVE  Rank(m) < Rank(n)
  <2>1. Below(S, m) \in SUBSET S /\ Below(S, n) \in SUBSET S
    BY DEF Below
  <2>2. IsFiniteSet(Below(S, m)) /\ IsFiniteSet(Below(S, n))
    BY <2>1, FS_Subset
  <2>3. m \in Nat /\ n \in Nat
    OBVIOUS
  <2>4. m \notin Below(S, m) /\ Below(S, m) \cup {m} \subseteq Below(S, n)
    <3>1. m \notin Below(S, m) /\ m \in Below(S, n)
      BY <1>3, <2>3 DEF Below
    <3>2. \A p \in S : p \in Nat
      OBVIOUS
    <3>3. \A p \in S : p < m => p < n
      BY <1>3, <2>3, <3>2
    <3> QED BY <3>1, <3>3 DEF Below
  <2>5. Cardinality(Below(S, m) \cup {m}) = Rank(m) + 1
    BY <2>2, <2>4, FS_AddElement
  <2>6. Cardinality(Below(S, m) \cup {m}) <= Rank(n)
    BY <2>2, <2>4, FS_Subset
  <2> QED BY <1>2, <2>5, <2>6
<1>4. ASSUME NEW m \in S, NEW n \in S, Rank(m) = Rank(n)
      PROVE  m = n
  <2>1. m \in Nat /\ n \in Nat /\ Rank(m) \in Int /\ Rank(n) \in Int
    BY <1>2
  <2>2. ~(m < n) /\ ~(n < m)
    <3> HIDE DEF Rank
    <3> QED BY <1>3, <1>4, <2>1
  <2> QED BY <2>1, <2>2
<1> HIDE DEF Rank
<1>5. f \in Injection(S, 1 .. k)
  <2>1. f \in [S -> 1 .. k]
    BY <1>1, <1>2
  <2>2. ASSUME NEW m \in S, NEW n \in S, f[m] = f[n]
        PROVE  m = n
    BY <1>2, <1>4, <2>2
  <2> QED BY <2>1, <2>2 DEF Injection, IsInjective
<1>6. f \in Surjection(S, 1 .. k)
  <2>1. IsFiniteSet(1 .. k) /\ Cardinality(1 .. k) = k
    BY <1>1, UpTo
  <2> HIDE DEF f
  <2> QED BY <1>5, <2>1, FS_Injection
<1>7. ASSUME NEW i \in 1 .. k
      PROVE  Sorted(S)[i] \in S /\ Rank(Sorted(S)[i]) = i - 1
  <2>1. PICK n \in S : f[n] = i
    BY <1>6 DEF Surjection
  <2>2. Rank(n) = i - 1
    BY <1>2, <2>1
  <2>3. Sorted(S)[i] = CHOOSE m \in S : Rank(m) = i - 1
    BY DEF Sorted, Below, Rank
  <2> QED BY <2>2, <2>3
<1>8. Sorted(S) \in [1 .. k -> S]
  BY <1>7 DEF Sorted
<1>9. ASSUME NEW n \in S
      PROVE  \E i \in 1 .. k : Sorted(S)[i] = n
  <2>1. Rank(n) + 1 \in 1 .. k /\ (Rank(n) + 1) - 1 = Rank(n)
    BY <1>1, <1>2
  <2>2. Sorted(S)[Rank(n) + 1] \in S /\ Rank(Sorted(S)[Rank(n) + 1]) = Rank(n)
    BY <1>7, <2>1
  <2> QED BY <1>4, <2>1, <2>2
<1>10. ASSUME NEW i \in 1 .. k, NEW j \in 1 .. k, i < j
       PROVE  Sorted(S)[i] < Sorted(S)[j]
  <2>1. Sorted(S)[i] \in S /\ Sorted(S)[j] \in S
    BY <1>7
  <2>2. Rank(Sorted(S)[i]) < Rank(Sorted(S)[j])
    BY <1>7, <1>10
  <2>3. Sorted(S)[i] \in Nat /\ Sorted(S)[j] \in Nat
    BY <2>1
  <2>4. Rank(Sorted(S)[i]) \in Int /\ Rank(Sorted(S)[j]) \in Int
    BY <1>7
  <2>5. Sorted(S)[i] # Sorted(S)[j]
    BY <2>2, <2>4
  <2>6. ~(Sorted(S)[j] < Sorted(S)[i])
    <3>1. Sorted(S)[j] < Sorted(S)[i] => Rank(Sorted(S)[j]) < Rank(Sorted(S)[i])
      BY <1>3, <2>1
    <3> QED BY <2>2, <2>4, <3>1
  <2> QED BY <2>3, <2>5, <2>6
<1> QED BY <1>1, <1>8, <1>9, <1>10

-----------------------------------------------------------------------------
(* A turn of the loop. *)

\* A queue, and with it the nodes seen.
Queue == Seq(Node \X Nat)
Situation == Queue \X SUBSET Node

\* The situation after the head of the queue was taken out.
Turn(st, w) ==
    LET fresh == Fresh(st, Head(w[1])[1], w[2])
    IN  << Tail(w[1]) \o AtDepth(Head(w[1])[2] + 1, fresh), w[2] \cup fresh >>

\* The turns that are left at most: the nodes that are queued or not seen.
Left(w) == Len(w[1]) + Cardinality(Node \ w[2])

\* The fresh nodes are queued as their sorted names, at one depth.
LEMMA AtDepthFacts ==
    ASSUME NEW S \in SUBSET Node, NEW d \in Nat
    PROVE  /\ IsFiniteSet(S) /\ Cardinality(S) \in Nat
           /\ AtDepth(d, S) \in Queue
           /\ Len(AtDepth(d, S)) = Cardinality(S)
           /\ \A i \in 1 .. Cardinality(S) : AtDepth(d, S)[i] = <<Sorted(S)[i], d>>
<1>1. S \subseteq Nat /\ IsFiniteSet(S)
  BY NodeAssumption, FS_Subset
<1>2. Cardinality(S) \in Nat /\ Sorted(S) \in [1 .. Cardinality(S) -> S]
  BY <1>1, SortedFacts
<1>3. \A i \in 1 .. Cardinality(S) : <<Sorted(S)[i], d>> \in Node \X Nat
  BY <1>2
<1>4. AtDepth(d, S) \in [1 .. Cardinality(S) -> Node \X Nat]
  BY <1>3 DEF AtDepth
<1>5. AtDepth(d, S) \in Queue
  BY <1>2, <1>4 DEF Queue
<1>6. Len(AtDepth(d, S)) = Cardinality(S)
  BY <1>2, <1>4
<1> QED BY <1>1, <1>2, <1>5, <1>6 DEF AtDepth

\* Every turn leaves one turn fewer.
LEMMA TurnShortens ==
    ASSUME NEW st, NEW w \in Situation, w[1] # <<>>
    PROVE  /\ Turn(st, w) \in Situation
           /\ Left(w) \in Nat /\ Left(Turn(st, w)) \in Nat
           /\ Left(Turn(st, w)) = Left(w) - 1
<1> DEFINE fresh == Fresh(st, Head(w[1])[1], w[2])
           d == Head(w[1])[2] + 1
           A == AtDepth(d, fresh)
           unseen == Node \ w[2]
<1>1. w[1] \in Queue /\ w[2] \in SUBSET Node
  BY DEF Situation
<1>2. /\ Head(w[1]) \in Node \X Nat /\ Tail(w[1]) \in Queue
      /\ Len(w[1]) \in Nat /\ Len(Tail(w[1])) = Len(w[1]) - 1
  BY <1>1 DEF Queue
<1>3. d \in Nat
  BY <1>2
<1>4. fresh \in SUBSET Node /\ fresh \in SUBSET unseen
  BY DEF Fresh, Children
<1> HIDE DEF fresh, d
<1>5. IsFiniteSet(fresh) /\ Cardinality(fresh) \in Nat /\ A \in Queue /\ Len(A) = Cardinality(fresh)
  BY <1>3, <1>4, AtDepthFacts
<1> HIDE DEF A
<1>6. /\ Tail(w[1]) \o A \in Queue
      /\ Len(Tail(w[1]) \o A) = Len(w[1]) - 1 + Cardinality(fresh)
  <2>1. Tail(w[1]) \in Seq(Node \X Nat) /\ A \in Seq(Node \X Nat)
    BY <1>2, <1>5 DEF Queue
  <2>2. /\ Tail(w[1]) \o A \in Seq(Node \X Nat)
        /\ Len(Tail(w[1]) \o A) = Len(Tail(w[1])) + Len(A)
    BY <2>1, Concatenated
  <2> QED BY <1>2, <1>5, <2>2 DEF Queue
<1>7. IsFiniteSet(unseen) /\ Cardinality(unseen) \in Nat
  BY NodeAssumption, FS_Subset, FS_CardinalityType
<1>8. /\ Node \ (w[2] \cup fresh) = unseen \ fresh
      /\ Cardinality(unseen \ fresh) = Cardinality(unseen) - Cardinality(fresh)
      /\ Cardinality(unseen \ fresh) \in Nat
  <2>1. unseen \cap fresh = fresh
    BY <1>4
  <2>2. Cardinality(unseen \ fresh) = Cardinality(unseen) - Cardinality(unseen \cap fresh)
    BY <1>5, <1>7, FS_Difference
  <2>3. IsFiniteSet(unseen \ fresh)
    BY <1>7, FS_Difference
  <2>4. Cardinality(unseen \ fresh) \in Nat
    BY <2>3, FS_CardinalityType
  <2> QED BY <2>1, <2>2, <2>4
<1>9. Turn(st, w) = <<Tail(w[1]) \o A, w[2] \cup fresh>>
  BY DEF Turn, A, d, fresh
<1>10. Turn(st, w) \in Situation
  <2> DEFINE q == Tail(w[1]) \o A
             seen == w[2] \cup fresh
  <2>1. q \in Queue /\ seen \in SUBSET Node /\ Turn(st, w) = <<q, seen>>
    BY <1>1, <1>4, <1>6, <1>9
  <2> HIDE DEF q, seen
  <2> QED BY <2>1 DEF Situation
<1>11. Left(w) = Len(w[1]) + Cardinality(unseen)
  BY DEF Left
<1>12. Left(Turn(st, w)) = Len(Tail(w[1]) \o A) + Cardinality(unseen \ fresh)
  <2>1. Turn(st, w)[1] = Tail(w[1]) \o A /\ Turn(st, w)[2] = w[2] \cup fresh
    BY <1>9
  <2>2. Node \ Turn(st, w)[2] = unseen \ fresh
    BY <1>8, <2>1
  <2> HIDE DEF unseen
  <2> QED BY <2>1, <2>2 DEF Left
<1> HIDE DEF unseen
<1>13. Left(w) \in Nat /\ Left(Turn(st, w)) = Left(w) - 1
  BY <1>2, <1>5, <1>6, <1>7, <1>8, <1>11, <1>12, SMTT(30)
<1>14. Left(Turn(st, w)) \in Nat
  <2>1. Len(Tail(w[1]) \o A) \in Nat
    BY <1>6 DEF Queue
  <2> QED BY <1>8, <1>12, <2>1
<1> QED BY <1>10, <1>13, <1>14

\* The number of turns left is a number, also when there are none.
LEMMA LeftType ==
    ASSUME NEW w \in Situation
    PROVE  Left(w) \in Nat /\ w[1] \in Queue /\ w[2] \in SUBSET Node /\ Len(w[1]) \in Nat
<1>1. w[1] \in Queue /\ w[2] \in SUBSET Node
  BY DEF Situation
<1>2. Len(w[1]) \in Nat
  BY <1>1 DEF Queue
<1>3. Cardinality(Node \ w[2]) \in Nat
  BY NodeAssumption, FS_Subset, FS_CardinalityType
<1> QED BY <1>1, <1>2, <1>3 DEF Left

-----------------------------------------------------------------------------
(* The loop ends, so that Walk is what its definition says. *)

\* f gives what comes out of every situation with at most n turns left.
Unfolds(st, f, n) ==
    \A w \in Situation :
        Left(w) <= n =>
            f[w] = IF w[1] = <<>> THEN <<>> ELSE <<Head(w[1])>> \o f[Turn(st, w)]

\* For every number of turns there is such a function.
LEMMA SomeUnfolds ==
    ASSUME NEW st
    PROVE  \A n \in Nat : \E f : Unfolds(st, f, n)
<1> DEFINE T == {n \in Nat : ~\E f : Unfolds(st, f, n)}
<1>1. SUFFICES ASSUME T # {}
               PROVE  FALSE
  OBVIOUS
<1>2. PICK n \in T : \A y \in T : n =< y
  <2>1. T \subseteq Nat
    OBVIOUS
  <2> HIDE DEF T
  <2> QED BY <1>1, <2>1, LeastNumber
<1>3. CASE n = 0
  <2> DEFINE f == [w \in Situation |-> <<>>]
  <2>1. ASSUME NEW w \in Situation, Left(w) <= 0
        PROVE  w[1] = <<>>
    <3>1. w[1] # <<>> => Left(w) >= 1
      BY TurnShortens
    <3> QED BY <2>1, <3>1, LeftType
  <2>2. Unfolds(st, f, 0)
    BY <2>1 DEF Unfolds
  <2> QED BY <1>3, <2>2
<1>4. CASE n # 0
  <2>1. n \in Nat /\ n - 1 \in Nat /\ ~(n =< n - 1)
    BY <1>4
  <2>2. PICK f : Unfolds(st, f, n - 1)
    BY <1>2, <2>1
  <2> DEFINE g == [w \in Situation |->
                      IF w[1] = <<>> THEN <<>> ELSE <<Head(w[1])>> \o f[Turn(st, w)]]
  <2>3. ASSUME NEW w \in Situation, Left(w) <= n, w[1] # <<>>
        PROVE  g[Turn(st, w)] = f[Turn(st, w)]
    <3>1. Turn(st, w) \in Situation /\ Left(Turn(st, w)) <= n - 1
      BY <2>1, <2>3, TurnShortens
    <3>2. f[Turn(st, w)] = g[Turn(st, w)]
      BY <2>2, <3>1 DEF Unfolds
    <3> QED BY <3>2
  <2>4. Unfolds(st, g, n)
    BY <2>3 DEF Unfolds
  <2> QED BY <2>4
<1> QED BY <1>3, <1>4

\* And any two of them agree.
LEMMA UnfoldsAgree ==
    ASSUME NEW st, NEW n \in Nat, NEW f, NEW g, Unfolds(st, f, n), Unfolds(st, g, n)
    PROVE  \A w \in Situation : Left(w) <= n => f[w] = g[w]
<1> DEFINE Apart == {w \in Situation : Left(w) <= n /\ f[w] # g[w]}
           T == {Left(w) : w \in Apart}
<1>1. SUFFICES ASSUME T # {}
               PROVE  FALSE
  OBVIOUS
<1>2. T \subseteq Nat
  BY LeftType
<1>3. PICK k \in T : \A y \in T : k =< y
  <2> HIDE DEF T
  <2> QED BY <1>1, <1>2, LeastNumber
<1>4. PICK w \in Apart : k = Left(w)
  OBVIOUS
<1>5. w[1] # <<>>
  BY <1>4 DEF Unfolds
<1>6. /\ Turn(st, w) \in Situation /\ Left(Turn(st, w)) \in Nat /\ Left(w) \in Nat
      /\ Left(Turn(st, w)) = Left(w) - 1
  BY <1>4, <1>5, TurnShortens
<1>7. Left(Turn(st, w)) <= n /\ ~(k =< Left(Turn(st, w)))
  BY <1>4, <1>6
<1>8. f[Turn(st, w)] = g[Turn(st, w)]
  BY <1>3, <1>6, <1>7
<1>9. f[w] = g[w]
  BY <1>4, <1>5, <1>8 DEF Unfolds
<1> QED BY <1>4, <1>9

\* So the recursive definition has a solution, and Walk unfolds.
LEMMA WalkUnfolds ==
    ASSUME NEW st, NEW w \in Situation
    PROVE  Walk(st)[w] = IF w[1] = <<>> THEN <<>>
                         ELSE <<Head(w[1])>> \o Walk(st)[Turn(st, w)]
<1> DEFINE G(n) == CHOOSE f : Unfolds(st, f, n)
           W == [v \in Situation |-> G(Left(v))[v]]
<1>1. \A n \in Nat : Unfolds(st, G(n), n)
  BY SomeUnfolds
<1> HIDE DEF G
<1>2. ASSUME NEW v \in Situation
      PROVE  W[v] = IF v[1] = <<>> THEN <<>> ELSE <<Head(v[1])>> \o W[Turn(st, v)]
  <2> DEFINE f == G(Left(v))
             u == Turn(st, v)
  <2>1. W[v] = f[v] /\ Left(v) \in Nat
    BY LeftType
  <2>2. Unfolds(st, f, Left(v))
    BY <1>1, <2>1
  <2>3. v[1] # <<>> => W[u] = f[u]
    <3> SUFFICES ASSUME v[1] # <<>>
                 PROVE  W[u] = f[u]
      OBVIOUS
    <3>1. u \in Situation /\ Left(u) \in Nat /\ Left(u) = Left(v) - 1
      BY TurnShortens
    <3>2. Unfolds(st, f, Left(u))
      <4> HIDE DEF f, u
      <4> QED BY <2>1, <2>2, <3>1, LeftType DEF Unfolds
    <3>3. Unfolds(st, G(Left(u)), Left(u))
      BY <1>1, <3>1
    <3>4. f[u] = G(Left(u))[u]
      BY <3>1, <3>2, <3>3, UnfoldsAgree
    <3> QED BY <3>1, <3>4
  <2> HIDE DEF f, W
  <2>4. Left(v) <= Left(v)
    BY <2>1
  <2> QED BY <2>1, <2>2, <2>3, <2>4 DEF Unfolds
<1> HIDE DEF W
<1>3. W = [v \in Situation |->
              IF v[1] = <<>> THEN <<>> ELSE <<Head(v[1])>> \o W[Turn(st, v)]]
  BY <1>2 DEF W
<1>4. Walk(st) = [v \in Situation |->
                     IF v[1] = <<>> THEN <<>> ELSE <<Head(v[1])>> \o Walk(st)[Turn(st, v)]]
  BY <1>3 DEF Walk, Situation, Queue, Turn
<1> QED BY <1>4

-----------------------------------------------------------------------------
(* Queues. *)

\* The nodes of a queue, and that none is in it twice.
Nodes(q) == {q[i][1] : i \in 1 .. Len(q)}
Distinct(q) == \A i, j \in 1 .. Len(q) : q[i][1] = q[j][1] => i = j

\* No depth in q is less than one before it.
Rising(q) == \A i, j \in 1 .. Len(q) : i <= j => q[i][2] <= q[j][2]

\* The depths in q differ by one at most.
Level(q) == \A i, j \in 1 .. Len(q) : q[j][2] <= q[i][2] + 1

\* A queue behind another.
LEMMA JoinedQueues ==
    ASSUME NEW s \in Queue, NEW t \in Queue
    PROVE  /\ s \o t \in Queue
           /\ \A i \in 1 .. Len(s \o t) : \/ \E x \in 1 .. Len(s) : (s \o t)[i] = s[x]
                                          \/ \E y \in 1 .. Len(t) : (s \o t)[i] = t[y]
           /\ Nodes(s \o t) = Nodes(s) \cup Nodes(t)
           /\ Distinct(s) /\ Distinct(t) /\ Nodes(s) \cap Nodes(t) = {} => Distinct(s \o t)
           /\ /\ Rising(s) /\ Rising(t)
              /\ \A i \in 1 .. Len(s), j \in 1 .. Len(t) : s[i][2] <= t[j][2]
              => Rising(s \o t)
<1> DEFINE q == s \o t
<1>1. /\ q \in Queue /\ Len(s) \in Nat /\ Len(t) \in Nat /\ Len(q) = Len(s) + Len(t)
      /\ \A x \in 1 .. Len(s) : q[x] = s[x]
      /\ \A y \in 1 .. Len(t) : q[Len(s) + y] = t[y]
  BY Concatenated DEF Queue
<1> HIDE DEF q
<1>2. ASSUME NEW i \in 1 .. Len(q)
      PROVE  \/ i \in 1 .. Len(s) /\ q[i] = s[i]
             \/ \E y \in 1 .. Len(t) : i = Len(s) + y /\ q[i] = t[y]
  <2>1. CASE i <= Len(s)
    BY <1>1, <2>1
  <2>2. CASE ~(i <= Len(s))
    <3>1. i - Len(s) \in 1 .. Len(t) /\ i = Len(s) + (i - Len(s))
      BY <1>1, <2>2
    <3> QED BY <1>1, <3>1
  <2> QED BY <2>1, <2>2
<1>3. /\ \A x \in 1 .. Len(s) : x \in 1 .. Len(q)
      /\ \A y \in 1 .. Len(t) : Len(s) + y \in 1 .. Len(q)
  BY <1>1
<1>4. Nodes(q) = Nodes(s) \cup Nodes(t)
  <2>1. ASSUME NEW n \in Nodes(q)
        PROVE  n \in Nodes(s) \cup Nodes(t)
    <3>1. PICK i \in 1 .. Len(q) : n = q[i][1]
      BY DEF Nodes
    <3> QED BY <1>2, <3>1 DEF Nodes
  <2>2. Nodes(s) \subseteq Nodes(q)
    BY <1>1, <1>3 DEF Nodes
  <2>3. Nodes(t) \subseteq Nodes(q)
    BY <1>1, <1>3 DEF Nodes
  <2> QED BY <2>1, <2>2, <2>3
<1>5. ASSUME Distinct(s), Distinct(t), Nodes(s) \cap Nodes(t) = {}
      PROVE  Distinct(q)
  <2> SUFFICES ASSUME NEW i \in 1 .. Len(q), NEW j \in 1 .. Len(q), q[i][1] = q[j][1]
               PROVE  i = j
    BY DEF Distinct
  <2>1. \A x \in 1 .. Len(s), y \in 1 .. Len(t) : s[x][1] # t[y][1]
    BY <1>5 DEF Nodes
  <2>2. CASE i \in 1 .. Len(s) /\ q[i] = s[i]
    <3>1. j \in 1 .. Len(s) /\ q[j] = s[j]
      BY <1>2, <2>1, <2>2
    <3> QED BY <1>5, <2>2, <3>1 DEF Distinct
  <2>3. CASE \E y \in 1 .. Len(t) : i = Len(s) + y /\ q[i] = t[y]
    BY <1>2, <1>5, <2>1, <2>3 DEF Distinct
  <2> QED BY <1>2, <2>2, <2>3
<1>6. ASSUME Rising(s), Rising(t),
             \A i \in 1 .. Len(s), j \in 1 .. Len(t) : s[i][2] <= t[j][2]
      PROVE  Rising(q)
  <2> SUFFICES ASSUME NEW i \in 1 .. Len(q), NEW j \in 1 .. Len(q), i <= j
               PROVE  q[i][2] <= q[j][2]
    BY DEF Rising
  <2>1. CASE i \in 1 .. Len(s) /\ q[i] = s[i]
    BY <1>2, <1>6, <2>1 DEF Rising
  <2>2. CASE \E y \in 1 .. Len(t) : i = Len(s) + y /\ q[i] = t[y]
    <3>1. PICK y \in 1 .. Len(t) : i = Len(s) + y /\ q[i] = t[y]
      BY <2>2
    <3>2. ~(j \in 1 .. Len(s))
      BY <1>1, <3>1
    <3>3. PICK z \in 1 .. Len(t) : j = Len(s) + z /\ q[j] = t[z]
      BY <1>2, <3>2
    <3>4. y <= z
      BY <1>1, <3>1, <3>3
    <3> QED BY <1>6, <3>1, <3>3, <3>4 DEF Rising
  <2> QED BY <1>2, <2>1, <2>2
<1>7. \A i \in 1 .. Len(q) : \/ \E x \in 1 .. Len(s) : q[i] = s[x]
                             \/ \E y \in 1 .. Len(t) : q[i] = t[y]
  BY <1>2
<1> QED BY <1>1, <1>4, <1>5, <1>6, <1>7 DEF q

\* One entry.
LEMMA SingleEntry ==
    ASSUME NEW e \in Node \X Nat
    PROVE  /\ <<e>> \in Queue /\ Len(<<e>>) = 1 /\ <<e>>[1] = e
           /\ Nodes(<<e>>) = {e[1]} /\ Distinct(<<e>>) /\ Rising(<<e>>) /\ Level(<<e>>)
<1> DEFINE s == <<e>>
<1>1. s \in Queue /\ Len(s) = 1 /\ s[1] = e /\ 1 .. Len(s) = {1}
  BY DEF Queue
<1>2. e[2] \in Nat
  OBVIOUS
<1> HIDE DEF s
<1>3. Nodes(s) = {e[1]} /\ Distinct(s)
  BY <1>1 DEF Nodes, Distinct
<1>4. Rising(s) /\ Level(s)
  BY <1>1, <1>2 DEF Rising, Level
<1> QED BY <1>1, <1>3, <1>4 DEF s

\* The head of a queue and the rest of it.
LEMMA HeadAndRest ==
    ASSUME NEW q \in Queue, q # <<>>
    PROVE  /\ Head(q) \in Node \X Nat /\ Tail(q) \in Queue
           /\ Nodes(q) = {Head(q)[1]} \cup Nodes(Tail(q))
           /\ Distinct(q) => Distinct(Tail(q)) /\ Head(q)[1] \notin Nodes(Tail(q))
           /\ Rising(q) => /\ Rising(Tail(q))
                           /\ \A i \in 1 .. Len(Tail(q)) : Head(q)[2] <= Tail(q)[i][2]
           /\ Level(q) => \A i \in 1 .. Len(Tail(q)) : Tail(q)[i][2] <= Head(q)[2] + 1
<1> DEFINE t == Tail(q)
           h == Head(q)
<1>1. /\ Len(q) \in Nat /\ Len(q) >= 1 /\ t \in Queue /\ Len(t) = Len(q) - 1
      /\ \A i \in 1 .. Len(t) : t[i] = q[i + 1] /\ i + 1 \in 1 .. Len(q)
      /\ h = q[1] /\ 1 \in 1 .. Len(q) /\ h \in Node \X Nat
  BY DEF Queue
<1> HIDE DEF t, h
<1>2. \A i \in 1 .. Len(q) : i = 1 \/ (i - 1 \in 1 .. Len(t) /\ q[i] = t[i - 1])
  BY <1>1
<1>3. Nodes(q) = {h[1]} \cup Nodes(t)
  BY <1>1, <1>2 DEF Nodes
<1>4. ASSUME Distinct(q)
      PROVE  Distinct(t) /\ h[1] \notin Nodes(t)
  <2>1. Distinct(t)
    <3> SUFFICES ASSUME NEW i \in 1 .. Len(t), NEW j \in 1 .. Len(t), t[i][1] = t[j][1]
                 PROVE  i = j
      BY DEF Distinct
    <3>1. i + 1 = j + 1
      BY <1>1, <1>4 DEF Distinct
    <3> QED BY <3>1
  <2>2. ASSUME NEW i \in 1 .. Len(t)
        PROVE  t[i][1] # h[1]
    <3>1. t[i][1] = h[1] => i + 1 = 1
      BY <1>1, <1>4 DEF Distinct
    <3> QED BY <3>1
  <2> QED BY <2>1, <2>2 DEF Nodes
<1>5. ASSUME Rising(q)
      PROVE  Rising(t) /\ \A i \in 1 .. Len(t) : h[2] <= t[i][2]
  <2>1. ASSUME NEW i \in 1 .. Len(t), NEW j \in 1 .. Len(t), i <= j
        PROVE  t[i][2] <= t[j][2]
    <3>1. i + 1 <= j + 1
      BY <2>1
    <3> QED BY <1>1, <1>5, <3>1 DEF Rising
  <2>2. ASSUME NEW i \in 1 .. Len(t)
        PROVE  h[2] <= t[i][2]
    <3>1. 1 <= i + 1
      OBVIOUS
    <3> QED BY <1>1, <1>5, <3>1 DEF Rising
  <2> QED BY <2>1, <2>2 DEF Rising
<1>6. Level(q) => \A i \in 1 .. Len(t) : t[i][2] <= h[2] + 1
  BY <1>1 DEF Level
<1> QED BY <1>1, <1>3, <1>4, <1>5, <1>6 DEF t, h

-----------------------------------------------------------------------------
(* What the loop visits. *)

\* S has no edge out of it to a publisher or proxy.
StepClosed(st, S) == \A e \in st.edges : e[1] \in S /\ e[2] \in Intermediates(st) => e[2] \in S

\* The situations of the loop: the queue holds intermediates that were seen,
\* the less deep first, and of two depths at most.
Proper(st, w) ==
    /\ Distinct(w[1]) /\ Rising(w[1]) /\ Level(w[1])
    /\ Nodes(w[1]) \subseteq w[2] \cap Intermediates(st)

\* What is to come out of them: the queue and everything below it that was not
\* seen before, once and the less deep first.
Explored(st, w, out) ==
    /\ out \in Queue /\ Distinct(out) /\ Rising(out)
    /\ Nodes(w[1]) \subseteq Nodes(out)
    /\ Nodes(out) \cap w[2] \subseteq Nodes(w[1])
    /\ \A e \in st.edges :
          e[1] \in Nodes(out) /\ e[2] \in Intermediates(st) => e[2] \in w[2] \cup Nodes(out)
    /\ \A S : StepClosed(st, S) /\ Nodes(w[1]) \subseteq S => Nodes(out) \subseteq S
    /\ w[1] # <<>> => \A i \in 1 .. Len(out) : Head(w[1])[2] <= out[i][2]
    /\ w[1] = <<>> => out = <<>>

\* A turn queues the fresh children of the head, and leaves a proper situation.
LEMMA TurnIsProper ==
    ASSUME NEW st, NEW w \in Situation, w[1] # <<>>, Proper(st, w)
    PROVE  LET fresh == Fresh(st, Head(w[1])[1], w[2])
           IN  /\ Proper(st, Turn(st, w))
               /\ Turn(st, w)[2] = w[2] \cup fresh
               /\ Nodes(Turn(st, w)[1]) = Nodes(Tail(w[1])) \cup fresh
               /\ \A i \in 1 .. Len(Turn(st, w)[1]) : Head(w[1])[2] <= Turn(st, w)[1][i][2]
<1> DEFINE h == Head(w[1])
           t == Tail(w[1])
           fresh == Fresh(st, h[1], w[2])
           A == AtDepth(h[2] + 1, fresh)
           q == t \o A
<1>1. w[1] \in Queue /\ w[2] \in SUBSET Node
  BY LeftType
<1>2. /\ h \in Node \X Nat /\ t \in Queue
      /\ Nodes(w[1]) = {h[1]} \cup Nodes(t)
      /\ Distinct(t) /\ h[1] \notin Nodes(t)
      /\ Rising(t)
      /\ \A i \in 1 .. Len(t) : h[2] <= t[i][2] /\ t[i][2] <= h[2] + 1
  BY <1>1, HeadAndRest DEF Proper
<1>3. fresh \in SUBSET Node /\ fresh \cap w[2] = {} /\ fresh \subseteq Intermediates(st)
  BY DEF Fresh, Children
<1>4. Turn(st, w)[1] = q /\ Turn(st, w)[2] = w[2] \cup fresh
  BY DEF Turn
<1> HIDE DEF h, t, fresh
<1>5. h[2] + 1 \in Nat
  BY <1>2
<1>6. /\ A \in Queue /\ Len(A) = Cardinality(fresh) /\ Cardinality(fresh) \in Nat
      /\ IsFiniteSet(fresh)
      /\ \A i \in 1 .. Cardinality(fresh) : A[i] = <<Sorted(fresh)[i], h[2] + 1>>
  BY <1>3, <1>5, AtDepthFacts
<1>7. /\ Sorted(fresh) \in [1 .. Cardinality(fresh) -> fresh]
      /\ \A n \in fresh : \E i \in 1 .. Cardinality(fresh) : Sorted(fresh)[i] = n
      /\ \A i, j \in 1 .. Cardinality(fresh) : i < j => Sorted(fresh)[i] < Sorted(fresh)[j]
  <2>1. fresh \subseteq Nat
    BY <1>3, NodeAssumption
  <2> QED BY <1>6, <2>1, SortedFacts
<1> HIDE DEF A
<1>8. Nodes(A) = fresh
  BY <1>6, <1>7 DEF Nodes
<1>9. Distinct(A)
  <2> SUFFICES ASSUME NEW i \in 1 .. Len(A), NEW j \in 1 .. Len(A), A[i][1] = A[j][1]
               PROVE  i = j
    BY DEF Distinct
  <2>1. i \in 1 .. Cardinality(fresh) /\ j \in 1 .. Cardinality(fresh)
    BY <1>6
  <2>2. A[i] = <<Sorted(fresh)[i], h[2] + 1>> /\ A[j] = <<Sorted(fresh)[j], h[2] + 1>>
    BY <1>6, <2>1
  <2>3. Sorted(fresh)[i] = Sorted(fresh)[j]
    BY <2>2
  <2>4. Sorted(fresh)[i] \in fresh
    BY <1>7, <2>1
  <2>5. Sorted(fresh)[i] \in Nat
    BY <1>3, <2>4, NodeAssumption
  <2>6. ~(i < j) /\ ~(j < i)
    BY <1>7, <2>1, <2>3, <2>5
  <2> QED BY <1>6, <2>1, <2>6
<1>10. \A i \in 1 .. Len(A) : A[i][2] = h[2] + 1
  BY <1>6
<1>11. Rising(A)
  BY <1>5, <1>10 DEF Rising
<1>12. Nodes(t) \cap Nodes(A) = {}
  BY <1>2, <1>3, <1>8 DEF Proper
<1>13. /\ q \in Queue /\ Nodes(q) = Nodes(t) \cup fresh
       /\ Distinct(q) /\ Rising(q)
  <2>1. q \in Queue /\ Nodes(q) = Nodes(t) \cup fresh
    BY <1>2, <1>6, <1>8, JoinedQueues
  <2>2. Distinct(q)
    BY <1>2, <1>6, <1>9, <1>12, JoinedQueues
  <2>3. \A i \in 1 .. Len(t), j \in 1 .. Len(A) : t[i][2] <= A[j][2]
    BY <1>2, <1>10
  <2>4. Rising(q)
    BY <1>2, <1>6, <1>11, <2>3, JoinedQueues
  <2> QED BY <2>1, <2>2, <2>4
<1>14. \A i \in 1 .. Len(q) : q[i][2] \in Nat /\ h[2] <= q[i][2] /\ q[i][2] <= h[2] + 1
  <2>1. \A i \in 1 .. Len(q) : \/ \E x \in 1 .. Len(t) : q[i] = t[x]
                               \/ \E y \in 1 .. Len(A) : q[i] = A[y]
    BY <1>2, <1>6, JoinedQueues
  <2> HIDE DEF q
  <2> SUFFICES ASSUME NEW i \in 1 .. Len(q)
               PROVE  q[i][2] \in Nat /\ h[2] <= q[i][2] /\ q[i][2] <= h[2] + 1
    OBVIOUS
  <2>2. q[i][2] \in Nat /\ h[2] \in Nat
    BY <1>2, <1>13 DEF Queue
  <2>3. CASE \E x \in 1 .. Len(t) : q[i] = t[x]
    BY <1>2, <2>2, <2>3
  <2>4. CASE \E y \in 1 .. Len(A) : q[i] = A[y]
    <3>1. q[i][2] = h[2] + 1
      BY <1>10, <2>4
    <3> QED BY <2>2, <3>1
  <2> QED BY <2>1, <2>3, <2>4
<1> HIDE DEF q
<1>15. Level(q)
  BY <1>2, <1>14 DEF Level
<1>16. Nodes(q) \subseteq (w[2] \cup fresh) \cap Intermediates(st)
  BY <1>2, <1>3, <1>13 DEF Proper
<1>17. Proper(st, Turn(st, w))
  BY <1>4, <1>13, <1>15, <1>16 DEF Proper
<1> QED BY <1>4, <1>13, <1>14, <1>17 DEF h, t, fresh

\* If the rest of the loop explores, so does the loop.
LEMMA TurnExplores ==
    ASSUME NEW st \in Table, NEW w \in Situation, w[1] # <<>>, Proper(st, w),
           NEW rest, Explored(st, Turn(st, w), rest)
    PROVE  Explored(st, w, <<Head(w[1])>> \o rest)
<1> DEFINE h == Head(w[1])
           t == Tail(w[1])
           fresh == Fresh(st, h[1], w[2])
           q == Turn(st, w)[1]
           out == <<h>> \o rest
<1>1. w[1] \in Queue /\ w[2] \in SUBSET Node
  BY LeftType
<1>2. /\ h \in Node \X Nat /\ t \in Queue
      /\ Nodes(w[1]) = {h[1]} \cup Nodes(t)
      /\ h[1] \notin Nodes(t)
  BY <1>1, HeadAndRest DEF Proper
<1>3. /\ Turn(st, w)[2] = w[2] \cup fresh
      /\ Nodes(q) = Nodes(t) \cup fresh
      /\ \A i \in 1 .. Len(q) : h[2] <= q[i][2]
  BY TurnIsProper
<1>4. q \in Queue
  BY TurnShortens, LeftType
<1>5. fresh = (Children(st, h[1]) \cap Intermediates(st)) \ w[2]
  BY DEF Fresh
<1> HIDE DEF h, t, fresh, q
<1>6. /\ rest \in Queue /\ Distinct(rest) /\ Rising(rest)
      /\ Nodes(q) \subseteq Nodes(rest)
      /\ Nodes(rest) \cap (w[2] \cup fresh) \subseteq Nodes(q)
      /\ \A e \in st.edges : e[1] \in Nodes(rest) /\ e[2] \in Intermediates(st) =>
            e[2] \in w[2] \cup fresh \cup Nodes(rest)
      /\ \A S : StepClosed(st, S) /\ Nodes(q) \subseteq S => Nodes(rest) \subseteq S
      /\ q # <<>> => \A i \in 1 .. Len(rest) : Head(q)[2] <= rest[i][2]
      /\ q = <<>> => rest = <<>>
  BY <1>3 DEF Explored, q
<1>7. h[1] \in w[2] /\ h[1] \in Intermediates(st) /\ Nodes(t) \subseteq w[2]
  BY <1>2 DEF Proper
<1>8. h[1] \notin Nodes(rest)
  BY <1>2, <1>3, <1>5, <1>6, <1>7
<1>9. \A i \in 1 .. Len(rest) : rest[i][2] \in Nat /\ h[2] <= rest[i][2]
  <2>1. \A i \in 1 .. Len(rest) : rest[i][2] \in Nat
    BY <1>6 DEF Queue
  <2>2. CASE q = <<>>
    BY <1>6, <2>1, <2>2
  <2>3. CASE q # <<>>
    <3>1. Head(q)[2] \in Nat /\ h[2] <= Head(q)[2]
      <4>1. Head(q) = q[1] /\ 1 \in 1 .. Len(q) /\ q[1] \in Node \X Nat
        BY <1>4, <2>3 DEF Queue
      <4> QED BY <1>3, <4>1
    <3> QED BY <1>2, <1>6, <2>1, <2>3, <3>1
  <2> QED BY <2>2, <2>3
<1>10. /\ <<h>> \in Queue /\ Len(<<h>>) = 1 /\ <<h>>[1] = h
       /\ Nodes(<<h>>) = {h[1]} /\ Distinct(<<h>>) /\ Rising(<<h>>)
  BY <1>2, SingleEntry
<1>11. \A i \in 1 .. Len(<<h>>), j \in 1 .. Len(rest) : <<h>>[i][2] <= rest[j][2]
  <2>1. \A i \in 1 .. Len(<<h>>) : <<h>>[i][2] = h[2]
    BY <1>10
  <2> QED BY <1>9, <2>1
<1>12. out \in Queue /\ Nodes(out) = {h[1]} \cup Nodes(rest) /\ Distinct(out) /\ Rising(out)
  <2>1. out \in Queue /\ Nodes(out) = {h[1]} \cup Nodes(rest)
    <3>1. <<h>> \in Queue /\ rest \in Queue
      BY <1>6, <1>10
    <3>2. out \in Queue /\ Nodes(out) = Nodes(<<h>>) \cup Nodes(rest)
      BY <3>1, JoinedQueues
    <3> QED
      BY <1>10, <3>2
  <2>2. Distinct(out)
    <3>1. Nodes(<<h>>) \cap Nodes(rest) = {}
      BY <1>8, <1>10
    <3>2. <<h>> \in Queue /\ rest \in Queue /\ Distinct(<<h>>) /\ Distinct(rest)
      BY <1>6, <1>10
    <3> QED BY <3>1, <3>2, JoinedQueues
  <2>3. Rising(out)
    BY <1>6, <1>10, <1>11, JoinedQueues
  <2> QED BY <2>1, <2>2, <2>3
<1> HIDE DEF out
<1>13. /\ Nodes(w[1]) \subseteq Nodes(out)
       /\ Nodes(out) \cap w[2] \subseteq Nodes(w[1])
  BY <1>2, <1>3, <1>5, <1>6, <1>12
<1>14. ASSUME NEW e \in st.edges, e[1] \in Nodes(out), e[2] \in Intermediates(st)
       PROVE  e[2] \in w[2] \cup Nodes(out)
  <2>1. CASE e[1] = h[1]
    <3>1. e = <<h[1], e[2]>> /\ e[2] \in Node
      BY <1>14, <2>1 DEF Table
    <3>2. e[2] \in Children(st, h[1])
      BY <1>14, <3>1 DEF Children
    <3> QED BY <1>3, <1>5, <1>6, <1>12, <1>14, <3>2
  <2>2. CASE e[1] # h[1]
    BY <1>3, <1>6, <1>12, <1>14, <2>2
  <2> QED BY <2>1, <2>2
<1>15. ASSUME NEW S, StepClosed(st, S), Nodes(w[1]) \subseteq S
       PROVE  Nodes(out) \subseteq S
  <2>1. h[1] \in S
    BY <1>2, <1>15
  <2>2. \A n \in fresh : <<h[1], n>> \in st.edges /\ n \in Intermediates(st)
    BY <1>5 DEF Children
  <2>3. fresh \subseteq S
    BY <1>15, <2>1, <2>2 DEF StepClosed
  <2>4. Nodes(rest) \subseteq S
    BY <1>2, <1>3, <1>6, <1>15, <2>3
  <2> QED BY <1>12, <2>1, <2>4
<1>16. ASSUME NEW i \in 1 .. Len(out)
       PROVE  h[2] <= out[i][2]
  <2>1. \/ \E x \in 1 .. Len(<<h>>) : out[i] = <<h>>[x]
        \/ \E y \in 1 .. Len(rest) : out[i] = rest[y]
    BY <1>6, <1>10, JoinedQueues DEF out
  <2>2. CASE \E x \in 1 .. Len(<<h>>) : out[i] = <<h>>[x]
    <3>1. out[i] = h /\ h[2] \in Nat
      BY <1>2, <1>10, <2>2
    <3> QED BY <3>1
  <2>3. CASE \E y \in 1 .. Len(rest) : out[i] = rest[y]
    BY <1>9, <2>3
  <2> QED BY <2>1, <2>2, <2>3
<1>17. out = <<h>> \o rest /\ h = Head(w[1])
  BY DEF out, h
<1> QED BY <1>12, <1>13, <1>14, <1>15, <1>16, <1>17 DEF Explored

\* What comes out of every proper situation, by induction on the turns left.
LEMMA WalkExplores ==
    ASSUME NEW st \in Table, NEW w \in Situation, Proper(st, w)
    PROVE  Explored(st, w, Walk(st)[w])
<1> DEFINE Bad == {v \in Situation : Proper(st, v) /\ ~Explored(st, v, Walk(st)[v])}
           T == {Left(v) : v \in Bad}
<1>1. SUFFICES ASSUME T # {}
               PROVE  FALSE
  OBVIOUS
<1>2. T \subseteq Nat
  BY LeftType
<1>3. PICK k \in T : \A y \in T : k =< y
  <2> HIDE DEF T
  <2> QED BY <1>1, <1>2, LeastNumber
<1>4. PICK v \in Bad : k = Left(v)
  OBVIOUS
<1>5. CASE v[1] = <<>>
  <2>1. Walk(st)[v] = <<>>
    BY <1>4, <1>5, WalkUnfolds
  <2>2. <<>> \in Queue /\ Nodes(<<>>) = {} /\ Distinct(<<>>) /\ Rising(<<>>)
    BY DEF Queue, Nodes, Distinct, Rising
  <2>3. Explored(st, v, <<>>)
    BY <1>5, <2>2 DEF Explored
  <2> QED BY <1>4, <2>1, <2>3
<1>6. CASE v[1] # <<>>
  <2>1. /\ Turn(st, v) \in Situation /\ Left(Turn(st, v)) \in Nat /\ Left(v) \in Nat
        /\ Left(Turn(st, v)) = Left(v) - 1
    BY <1>4, <1>6, TurnShortens
  <2>2. Proper(st, Turn(st, v))
    BY <1>4, <1>6, TurnIsProper
  <2>3. ~(k =< Left(Turn(st, v)))
    BY <1>4, <2>1
  <2>4. Explored(st, Turn(st, v), Walk(st)[Turn(st, v)])
    BY <1>3, <2>1, <2>2, <2>3
  <2>5. Explored(st, v, <<Head(v[1])>> \o Walk(st)[Turn(st, v)])
    BY <1>4, <1>6, <2>4, TurnExplores
  <2>6. Walk(st)[v] = <<Head(v[1])>> \o Walk(st)[Turn(st, v)]
    BY <1>4, <1>6, WalkUnfolds
  <2> QED BY <1>4, <2>5, <2>6
<1> QED BY <1>5, <1>6

-----------------------------------------------------------------------------
(* The walk of subscribe. *)

\* bfs_intermediates_with_depth visits exactly the publishers and proxies that
\* can be reached from the root, each of them once, and none before one that is
\* less deep: the first pass of subscribe looks at every node it could attach
\* to, the shallowest first.
THEOREM BfsOrderVisitsReach ==
    ASSUME NEW st \in Table, st.publishers # <<>>
    PROVE  LET order == BfsOrder(st)
           IN  /\ order \in Seq(Node \X Nat)
               /\ { order[i][1] : i \in DOMAIN order } = Reach(st)
               /\ Len(order) = Cardinality(Reach(st))
               /\ \A i, j \in DOMAIN order : i < j => order[i][1] # order[j][1]
               /\ \A i, j \in DOMAIN order : i < j => order[i][2] <= order[j][2]
<1> DEFINE e == <<Root(st), 0>>
           w == << <<e>>, {Root(st)} >>
           order == BfsOrder(st)
<1>1. Root(st) \in Node /\ Root(st) \in Intermediates(st)
  BY DEF Table, Root, Intermediates, Publishers, Range
<1>2. e \in Node \X Nat /\ e[1] = Root(st)
  BY <1>1
<1>3. /\ <<e>> \in Queue /\ Nodes(<<e>>) = {Root(st)}
      /\ Distinct(<<e>>) /\ Rising(<<e>>) /\ Level(<<e>>)
  BY <1>2, SingleEntry
<1>4. w \in Situation /\ w[1] = <<e>> /\ w[2] = {Root(st)}
  BY <1>1, <1>3 DEF Situation
<1>5. order = Walk(st)[w]
  BY DEF BfsOrder
<1> HIDE DEF e, w, order
<1>6. Proper(st, w)
  BY <1>1, <1>3, <1>4 DEF Proper
<1>7. Explored(st, w, order)
  BY <1>4, <1>5, <1>6, WalkExplores
<1>8. /\ order \in Queue /\ Distinct(order) /\ Rising(order)
      /\ Root(st) \in Nodes(order)
      /\ \A d \in st.edges :
            d[1] \in Nodes(order) /\ d[2] \in Intermediates(st) => d[2] \in Nodes(order)
      /\ \A S : StepClosed(st, S) /\ Root(st) \in S => Nodes(order) \subseteq S
  BY <1>3, <1>4, <1>7 DEF Explored
<1>9. Nodes(order) = Reach(st)
  <2>1. ReachClosed(st, Nodes(order))
    BY <1>8 DEF ReachClosed
  <2>2. Reach(st) \subseteq Nodes(order)
    BY <2>1, ReachIsLeast
  <2>3. StepClosed(st, Reach(st)) /\ Root(st) \in Reach(st)
    BY ReachIsClosed DEF ReachClosed, StepClosed
  <2> QED BY <1>8, <2>2, <2>3
<1>10. order \in Seq(Node \X Nat) /\ Len(order) \in Nat /\ DOMAIN order = 1 .. Len(order)
  BY <1>8 DEF Queue
<1>11. Len(order) = Cardinality(Reach(st))
  <2> DEFINE f == [i \in 1 .. Len(order) |-> order[i][1]]
  <2>1. f \in [1 .. Len(order) -> Nodes(order)]
    BY DEF Nodes
  <2>2. f \in Injection(1 .. Len(order), Nodes(order))
    BY <1>8, <2>1 DEF Injection, IsInjective, Distinct
  <2>3. f \in Surjection(1 .. Len(order), Nodes(order))
    BY <2>1 DEF Surjection, Nodes
  <2>4. ExistsBijection(1 .. Len(order), Nodes(order))
    BY <2>2, <2>3 DEF ExistsBijection, Bijection
  <2>5. IsFiniteSet(1 .. Len(order)) /\ Cardinality(1 .. Len(order)) = Len(order)
    BY <1>10, UpTo
  <2> QED BY <1>9, <2>4, <2>5, FS_Bijection
<1>12. \A i, j \in 1 .. Len(order) : i < j => order[i][1] # order[j][1]
  BY <1>8, <1>10 DEF Distinct
<1>13. \A i, j \in 1 .. Len(order) : i < j => order[i][2] <= order[j][2]
  BY <1>8, <1>10 DEF Rising
<1>14. { order[i][1] : i \in DOMAIN order } = Reach(st)
  BY <1>9, <1>10 DEF Nodes
<1> QED BY <1>10, <1>11, <1>12, <1>13, <1>14 DEF order
=============================================================================
