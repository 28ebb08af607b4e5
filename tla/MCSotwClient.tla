----------------------------- MODULE MCSotwClient -----------------------------
(***************************************************************************)
(* Instances of SotwClient for TLC.                                        *)
(***************************************************************************)
EXTENDS SotwClient

CONSTANTS a, b, cds, eds, v1, v2, v3, n1

NoMatches == [g \in Globs |-> {}]

EnumOrder == [t \in Types |-> IF t = cds THEN 0 ELSE 1]

OneNode == [c \in Streams |-> n1]

Typed(v, items) == [version |-> v, items |-> items]

Small == [t \in Types |-> Typed(v1, {a})]
Large == [t \in Types |-> Typed(v2, {a, b})]
Other == [t \in Types |-> Typed(v3, {b})]

GrowAndShrink == {Small, Large}
BackAndForth  == {[t \in Types |-> Typed(v1, {a, b})], Large}
AllSnapshots  == {Small, Large, Other}

\* Clusters by wildcard, endpoints by a growing list of names.
SomeNames == [t \in Types |-> IF t = cds THEN {{}} ELSE {{a}, {a, b}}]

\* Endpoints by either name, or by wildcard next to one.
MixedNames == [t \in Types |-> IF t = cds THEN {{}} ELSE {{a}, {b}, {Star, b}}]

\* Every list of names there is.
AllNames == [t \in Types |-> IF t = cds THEN {{}} ELSE {{a, b}}]
=============================================================================
