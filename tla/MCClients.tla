------------------------------- MODULE MCClients -------------------------------
(***************************************************************************)
(* An instance of Clients for TLC: one client and one poller of the same   *)
(* node, with a snapshot that grows, one that shrinks and an empty one.    *)
(***************************************************************************)
EXTENDS Clients

CONSTANTS a, b, cds, v1, v2, n1

NoMatches == [g \in Globs |-> {}]

EnumOrder == [t \in Types |-> 0]

OneNode == [c \in Streams |-> n1]

Typed(v, items) == [version |-> v, items |-> items]

Small   == [t \in Types |-> Typed(v1, {a})]
Large   == [t \in Types |-> Typed(v2, {a, b})]
Nothing == [t \in Types |-> Typed(Blank, {})]

AllSnapshots == {Small, Large, Nothing}

Unused == [t \in Types |-> {}]

Clusters == [c \in Streams |-> cds]

NodeOfPoller == [p \in Pollers |-> n1]
TypeOfPoller == [p \in Pollers |-> cds]
SomeNames    == {{}, {b}, {a, b}}
=============================================================================
