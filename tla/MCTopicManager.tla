--------------------------- MODULE MCTopicManager ---------------------------
(***************************************************************************)
(* Small instances of TopicManager.                                        *)
(***************************************************************************)
EXTENDS TopicManager

\* Fleet: publisher 3 and subscriber 2 start in any order.
PairRole == [n \in {2, 3} |-> IF n = 3 THEN "publisher" ELSE "subscriber"]

\* Regraft: with a fanout of one, publisher 3 feeds subscriber 4 and knows proxy
\* 1; subscriber 2 starts, and comes in with the proxy.
RegraftRole == <<"proxy", "subscriber", "publisher", "subscriber">>
RegraftStart ==
    [ by |-> "core", publishers |-> <<3>>, proxies |-> <<1>>, edges |-> {<<3, 4>>},
      attach_ms |-> {4} ]

\* Failover: with a fanout of one, publisher 3 feeds proxy 1, the only place for
\* subscriber 2, which starts.
ChainRole == <<"proxy", "subscriber", "publisher">>
ChainStart ==
    [ by |-> "core", publishers |-> <<3>>, proxies |-> <<1>>, edges |-> {<<3, 1>>},
      attach_ms |-> {} ]
=============================================================================
