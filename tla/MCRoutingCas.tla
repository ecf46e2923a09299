---------------------------- MODULE MCRoutingCas ----------------------------
(***************************************************************************)
(* Small instances of RoutingCas.  The nodes are numbered in the order of  *)
(* their names; each scenario below gives Op and Who for its calls.        *)
(***************************************************************************)
EXTENDS RoutingCas

\* The table after a publisher and some proxies registered, with these edges.
Registered(pubs, prox, edges) ==
    [ by |-> "core", publishers |-> pubs, proxies |-> prox, edges |-> edges,
      attach_ms |-> { e[2] : e \in edges } \ (Range(pubs) \cup Range(prox)) ]

\* Joins: publisher 3 is full with listeners 2 and 5.  Proxy 1 and publisher 6
\* register while listener 4 subscribes twice at once (every change of the key
\* that finds it without a parent starts a call).
JoinOp == [regProxy |-> "proxy", regPub |-> "publisher",
           sub4 |-> "subscribe", sub4b |-> "subscribe"]
JoinWho == [regProxy |-> 1, regPub |-> 6, sub4 |-> 4, sub4b |-> 4]
JoinStart == Registered(<<3>>, <<>>, {<<3, 2>>, <<3, 5>>})

\* Churn: publisher 3 feeds listener 2 and proxy 1, which feeds listener 4;
\* publisher 5 waits to be the root.  Proxy 1 is disconnected and lost at once,
\* publisher 3 is lost too, and listener 4 subscribes again.
ChurnOp == [leave1 |-> "disconnect", lost1 |-> "cleanup", lost3 |-> "cleanup",
            sub4 |-> "subscribe"]
ChurnWho == [leave1 |-> 1, lost1 |-> 1, lost3 |-> 3, sub4 |-> 4]
ChurnStart == Registered(<<3, 5>>, <<1>>, {<<3, 1>>, <<3, 2>>, <<1, 4>>})

\* Contend: publisher 3 has room for listeners 2 and 4, and no proxy exists.
ContendOp == [sub2 |-> "subscribe", sub4 |-> "subscribe"]
ContendWho == [sub2 |-> 2, sub4 |-> 4]
ContendStart == Registered(<<3>>, <<>>, {<<3, 5>>})
=============================================================================
