----------------------------- MODULE MCLinearCache -----------------------------
(***************************************************************************)
(* Instances of LinearCache for TLC: two names, one of them also covered   *)
(* by a glob, and a few requests on each kind of stream.                   *)
(***************************************************************************)
EXTENDS LinearCacheService

CONSTANTS a, b, g, x

GlobOfB == [h \in {g} |-> {b}]

\* A name or the wildcard.
SomeSotwRequests ==
    [resourceNames : {{a}, {Star}}, versionInfo : {"empty", "prefixed"}]

\* A name and a glob.
SomeDeltaRequests ==
    [subscribe : {{a, g}}, unsubscribe : {<<>>},
     initialVersions : {NothingKnown}, responseNonce : {TRUE}]
=============================================================================
