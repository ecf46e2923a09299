---------------------------- MODULE MCSignaling -----------------------------
(***************************************************************************)
(* Small instances of Signaling: client "ab" is of node "a", about its    *)
(* peer "b", and "ba" the other way round; "ac" is another client of a,    *)
(* and "x" an id without three parts.                                      *)
(***************************************************************************)
EXTENDS Signaling

NodeOfId == [ab |-> "a", ac |-> "a", ba |-> "b", x |-> "none"]

\* Exchange: a connects twice as "ab" and once as "ac", and exchanges messages
\* with "x".
ExchangeConn == [a1 |-> "ab", a2 |-> "ab", a3 |-> "ac", x1 |-> "x"]
ExchangeFrom == [offer |-> "ab", answer |-> "x"]
ExchangeTo == [offer |-> "x", answer |-> "ab"]

\* Reconnects: a connects three times as "ab", and may send an offer.
ReconnectConn == [a1 |-> "ab", a2 |-> "ab", a3 |-> "ab"]
ReconnectFrom == [offer |-> "ab"]
ReconnectTo == [offer |-> "ba"]
=============================================================================
