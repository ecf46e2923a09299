---------------------------- MODULE RoutingTable ----------------------------
(***************************************************************************)
(* The routing table of one topic: the JSON value of the Redis key         *)
(* {topic}-routing, the questions routing.rs asks of it, and the edits     *)
(* that routing.rs and the signaling server make before they write it      *)
(* back.  The operators here are pure; RoutingCas runs them concurrently.  *)
(*                                                                         *)
(* A node stands for its hex GDPName.  Nodes are numbers because the code  *)
(* breaks ties by comparing the names as strings.                          *)
(***************************************************************************)
EXTENDS Integers, FiniteSets, SequencesExt

CONSTANTS
    \* The nodes (processes) that may appear in the table.
    Node,
    \* The children a node may have: FANOUT_FACTOR.
    Fanout

ASSUME NodeAssumption == Node \subseteq Nat /\ IsFiniteSet(Node)

ASSUME FanoutAssumption == Fanout \in 1 .. 1024

(***************************************************************************)
(* The two Vecs of names keep their order: publishers[1] is the root and   *)
(* proxies are tried from the first.  The Vec of edges is a set (its order *)
(* is never used).  attach_ms keeps which nodes have a timestamp, not the  *)
(* time: the times come from the clocks of many hosts.  "by" is the        *)
(* program that serialised the value, as the two formats differ: only      *)
(* core/routing.rs writes the attach_ms field.  "none" is an absent key.   *)
(***************************************************************************)
Table ==
    [ by         : {"none", "core", "signaling"},
      publishers : Seq(Node),
      proxies    : Seq(Node),
      edges      : SUBSET (Node \X Node),
      attach_ms  : SUBSET Node ]

Unwritten ==
    [ by |-> "none", publishers |-> <<>>, proxies |-> <<>>,
      edges |-> {}, attach_ms |-> {} ]

-----------------------------------------------------------------------------
(* What the code asks of a table. *)

Publishers(st) == Range(st.publishers)

Proxies(st) == Range(st.proxies)

Intermediates(st) == Publishers(st) \cup Proxies(st)

Root(st) == st.publishers[1]

Children(st, n) == { c \in Node : <<n, c>> \in st.edges }

HasParent(st, n) == \E p \in Node : <<p, n>> \in st.edges

Full(st, n) == Cardinality(Children(st, n)) >= Fanout

\* Nodes that a graft may not bring in: they are already placed.
UsedNodes(st) ==
    { n \in Node : \/ n \in Publishers(st)
                   \/ HasParent(st, n)
                   \/ Children(st, n) # {} }

\* pick_unused_proxy returns x: the first registered proxy that is unused and
\* whose heartbeat is seen.
IsPick(st, alive, x) ==
    \E i \in DOMAIN st.proxies :
        /\ x = st.proxies[i]
        /\ x \in alive \ UsedNodes(st)
        /\ \A j \in 1 .. (i - 1) : st.proxies[j] \notin alive \ UsedNodes(st)

\* A registered proxy counts as a parent only while its heartbeat is seen.
Usable(st, alive, n) == n \in Proxies(st) /\ n \notin Publishers(st) => n \in alive

-----------------------------------------------------------------------------
(* Walks of the tree. *)

(***************************************************************************)
(* What the breadth-first walks of the code visit, as the least set closed *)
(* under the step of the walk.  Reach goes from the root through           *)
(* publishers and proxies only; Subtree goes from a node through all       *)
(* edges.                                                                  *)
(***************************************************************************)
ReachClosed(st, S) ==
    /\ Root(st) \in S
    /\ \A e \in st.edges :
          e[1] \in S /\ e[2] \in Intermediates(st) => e[2] \in S

Reach(st) ==
    { m \in Intermediates(st) :
        /\ st.publishers # <<>>
        /\ \A S \in SUBSET Intermediates(st) : ReachClosed(st, S) => m \in S }

SubtreeClosed(st, n, S) ==
    /\ n \in S
    /\ \A e \in st.edges : e[1] \in S => e[2] \in S

\* Mutant of Subtree: only the node itself, not what hangs from it.
SubtreeNodeOnly(st, n) == {n}

Subtree(st, n) ==
    LET below == {n} \cup { e[2] : e \in st.edges }
    IN  { m \in below : \A S \in SUBSET below : SubtreeClosed(st, n, S) => m \in S }

\* The elements of S in ascending order: children.sort().
Sorted(S) ==
    [i \in 1 .. Cardinality(S) |-> CHOOSE n \in S : Cardinality({m \in S : m < n}) = i - 1]

\* The fresh nodes as they are queued behind a node of depth d - 1.
AtDepth(d, fresh) == [i \in 1 .. Cardinality(fresh) |-> <<Sorted(fresh)[i], d>>]

\* Mutant of Fresh: the walk also enters listeners (no is_intermediate).
FreshAll(st, n, seen) == Children(st, n) \ seen

\* The children of n that the walk has not seen yet.
Fresh(st, n, seen) == (Children(st, n) \cap Intermediates(st)) \ seen

\* The loop of bfs_intermediates_with_depth, from a queue and the nodes seen to
\* what is still to come out, as <<node, depth>> pairs.
Walk(st) ==
    LET From[w \in Seq(Node \X Nat) \X SUBSET Node] ==
            LET fresh == Fresh(st, Head(w[1])[1], w[2])
            IN  IF w[1] = <<>> THEN <<>>
                ELSE <<Head(w[1])>> \o From[<< Tail(w[1]) \o AtDepth(Head(w[1])[2] + 1, fresh),
                                               w[2] \cup fresh >>]
    IN  From

\* bfs_intermediates_with_depth: the order in which Reach(st) is visited; the
\* children of a node are visited by name.
BfsOrder(st) == Walk(st)[<< << <<Root(st), 0>> >>, {Root(st)} >>]

\* The place of n in such an order, and its depth.
Place(order, n) == CHOOSE i \in DOMAIN order : order[i][1] = n

Depth(order, n) == order[Place(order, n)][2]

\* The first pass of subscribe visits in that order, the second visits the
\* deepest nodes first and equally deep ones by name.
VisitedFirst(order, m, n) == Place(order, m) < Place(order, n)

GraftedFirst(order, m, n) ==
    \/ Depth(order, m) > Depth(order, n)
    \/ Depth(order, m) = Depth(order, n) /\ m < n

-----------------------------------------------------------------------------
(* The edits. *)

AppendUnique(vec, n) == IF n \in Range(vec) THEN vec ELSE Append(vec, n)

\* retain(|p| p != n) on a Vec without duplicates.
Without(vec, n) ==
    IF n \in Range(vec)
    THEN RemoveAt(vec, CHOOSE i \in DOMAIN vec : vec[i] = n)
    ELSE vec

AddPublisher(st, n) ==
    [st EXCEPT !.by = "core", !.publishers = AppendUnique(@, n)]

AddProxy(st, n) ==
    [st EXCEPT !.by = "core", !.proxies = AppendUnique(@, n)]

\* subscribe stamps the subscriber and every listener that has no stamp.
Stamp(st, s) ==
    [st EXCEPT !.by = "core",
               !.attach_ms = @ \cup {s}
                   \cup { c \in Node \ Intermediates(st) : HasParent(st, c) }]

Attach(st, n, s) == [st EXCEPT !.edges = @ \cup {<<n, s>>}]

\* Mutant of MoveCount: it forgets that the subscriber takes a place too.
MoveCountNoRoom(k) == Max({Min({k, Fanout}), 1})

\* How many of the k >= 1 children of a grafted parent move under the proxy.
MoveCount(k) == Max({Min({k, Fanout - 1}), 1})

\* The choices of children to move: the code takes the oldest by timestamps
\* written by unsynchronised hosts, so any of them may be the oldest.
Moves(st, n) ==
    LET listeners == Children(st, n) \ Proxies(st)
    IN  { M \in SUBSET listeners : Cardinality(M) = MoveCount(Cardinality(listeners)) }

\* Mutant of Graft: remove_edge of the moved children is forgotten.
GraftKeepsEdges(st, n, x, s, M) ==
    [st EXCEPT !.edges = @ \cup {<<n, x>>, <<x, s>>} \cup ({x} \X M),
               !.attach_ms = @ \cup M]

\* Mutant of Graft: the proxy is not put under the parent.
GraftUnlinked(st, n, x, s, M) ==
    [st EXCEPT !.edges = (@ \ ({n} \X M)) \cup {<<x, s>>} \cup ({x} \X M),
               !.attach_ms = @ \cup M]

Graft(st, n, x, s, M) ==
    [st EXCEPT !.edges = (@ \ ({n} \X M)) \cup {<<n, x>>, <<x, s>>} \cup ({x} \X M),
               !.attach_ms = @ \cup M]

DropEdges(st, D) == { e \in st.edges : e[1] \notin D /\ e[2] \notin D }

\* routing.rs disconnect: the edges of the subtree go, the registries stay.
Detach(st, n) ==
    [st EXCEPT !.by = "core", !.edges = DropEdges(st, Subtree(st, n))]

\* Mutant of CleanUp: it deregisters the whole subtree.
CleanUpSubtree(st, n) ==
    [ by         |-> "signaling",
      publishers |-> SelectSeq(st.publishers, LAMBDA p : p \notin Subtree(st, n)),
      proxies    |-> SelectSeq(st.proxies, LAMBDA p : p \notin Subtree(st, n)),
      edges      |-> DropEdges(st, Subtree(st, n)),
      attach_ms  |-> {} ]

\* Mutant of CleanUp: the node is taken away from its parent, its children keep
\* their edges to it.
CleanUpKeepsChildren(st, n) ==
    [ by         |-> "signaling",
      publishers |-> Without(st.publishers, n),
      proxies    |-> Without(st.proxies, n),
      edges      |-> { e \in st.edges : e[2] # n },
      attach_ms  |-> {} ]

\* The signaling server's disconnect_node: it also deregisters the node, and
\* its RoutingState has no attach_ms.
CleanUp(st, n) ==
    [ by         |-> "signaling",
      publishers |-> Without(st.publishers, n),
      proxies    |-> Without(st.proxies, n),
      edges      |-> DropEdges(st, Subtree(st, n)),
      attach_ms  |-> {} ]

-----------------------------------------------------------------------------
(* What routing.rs says of a table, "maintained by construction". *)

\* "publishers is unique", "proxies is unique".
Unique(st) == IsInjective(st.publishers) /\ IsInjective(st.proxies)

\* "For all parents, children.len() <= fanout()".
Bounded(st) == \A n \in Node : Cardinality(Children(st, n)) <= Fanout

\* The edges hang from the root: the walk of subscribe reaches every parent.
Hanging(st) == \A e \in st.edges : e[1] \in Reach(st)

Sound(st) == Unique(st) /\ Bounded(st) /\ Hanging(st)
=============================================================================
