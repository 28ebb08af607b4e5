---------------------------- MODULE MCSnapshotDelta ----------------------------
(***************************************************************************)
(* Instances of SnapshotDelta for TLC: clusters by wildcard and endpoints  *)
(* by name on one delta stream, next to a state of the world stream.       *)
(***************************************************************************)
EXTENDS SnapshotDelta

CONSTANTS a, b, cds, eds, rds, v1, v2, n1, x, y, bad

NoMatches == [g \in Globs |-> {}]

EnumOrder == [t \in Types |-> IF t = cds THEN 0 ELSE IF t = eds THEN 1 ELSE 2]

OneNode == [c \in Streams |-> n1]

OneDeltaNode == [d \in DeltaStreams |-> n1]

Typed(version, items) == [version |-> version, items |-> items]

Small == [t \in Types |-> IF t = cds THEN Typed(v1, {a}) ELSE Typed(v1, {a, b})]
Large == [t \in Types |-> IF t = eds THEN Typed(v2, {b}) ELSE Typed(v2, {a, b})]

TwoSnapshots == {Small, Large}

\* Everything changes; an endpoint of the large snapshot does not marshal.
SomeContents ==
    [s \in Snapshots |-> [t \in Types |-> [n \in Names |->
        IF s = Small THEN x ELSE IF t = eds /\ n = b THEN bad ELSE y]]]

\* Every snapshot has a cluster that does not marshal, and the endpoints change.
BrokenContents ==
    [s \in Snapshots |-> [t \in Types |-> [n \in Names |->
        IF t = cds THEN bad ELSE IF s = Small THEN x ELSE y]]]

OneRequest == {[type |-> cds, resourceNames |-> {}, versionInfo |-> Blank]}

DeltaRequestOf(t, subscribe, unsubscribe, nonce) ==
    [type |-> t, subscribe |-> subscribe, unsubscribe |-> unsubscribe, responseNonce |-> nonce]

\* All clusters, at first and again, and endpoints by name.
ByType == {DeltaRequestOf(cds, {}, <<>>, FALSE), DeltaRequestOf(cds, {}, <<>>, TRUE),
           DeltaRequestOf(eds, {a}, <<>>, TRUE)}

\* A request too for a type that no cache has.
WithUnclassified == ByType \cup {DeltaRequestOf(rds, {}, <<>>, TRUE)}

\* A client that changes the endpoints it asks for.
WithChange == ByType \cup {DeltaRequestOf(eds, {b}, <<a>>, TRUE)}
=============================================================================
