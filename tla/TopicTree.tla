----------------------------- MODULE TopicTree ------------------------------
(***************************************************************************)
(* What routing.rs promises of a topic: every operation is one atomic step *)
(* on its tree ("This performs one CAS update of {topic}-routing").  A     *)
(* call that joins puts its node under one parent, and only if it has      *)
(* none; it grows the tree only if the root is full.  RoutingCas           *)
(* implements this with loads, walks, retries and WATCH/MULTI/EXEC.        *)
(***************************************************************************)
EXTENDS RoutingTable

CONSTANT Start

VARIABLE tree

Init == tree = Start

RegisterPublisher(n) == tree' = AddPublisher(tree, n)

RegisterProxy(n) == tree' = AddProxy(tree, n)

\* A node without a parent is placed in the tree of a publisher.
Joins(s) == tree.publishers # <<>> /\ ~HasParent(tree, s)

JoinUnder(s, n) ==
    /\ Joins(s)
    /\ n \in Reach(tree)
    /\ ~Full(tree, n)
    /\ tree' = Attach(Stamp(tree, s), n, s)

\* A registered proxy that is not in the tree comes between n and some of its
\* listeners.
JoinByGraft(s, n, x) ==
    /\ Joins(s)
    /\ n \in Reach(tree)
    /\ Full(tree, Root(tree))
    /\ x \in Proxies(tree) \ UsedNodes(tree)
    /\ \E M \in Moves(tree, n) : tree' = Graft(Stamp(tree, s), n, x, s, M)

Disconnect(n) == tree' = Detach(tree, n)

Lose(n) == tree' = CleanUp(tree, n)

Next ==
    \/ \E n \in Node : \/ RegisterPublisher(n) \/ RegisterProxy(n)
                       \/ Disconnect(n) \/ Lose(n)
    \/ \E s, n \in Node : JoinUnder(s, n)
    \/ \E s, n, x \in Node : JoinByGraft(s, n, x)

Spec == Init /\ [][Next]_tree
=============================================================================
