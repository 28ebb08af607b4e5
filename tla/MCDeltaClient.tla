----------------------------- MODULE MCDeltaClient -----------------------------
(***************************************************************************)
(* Instances of DeltaClient for TLC: two names, one of them also covered   *)
(* by a glob, and one delta client.                                        *)
(***************************************************************************)
EXTENDS DeltaClient, LinearCacheService

CONSTANTS a, b, g

GlobOfB == [h \in {g} |-> {b}]

GlobOrWildcard == {{g}, {Star, b}}
=============================================================================
