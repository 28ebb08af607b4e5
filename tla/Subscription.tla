------------------------------ MODULE Subscription ------------------------------
(***************************************************************************)
(* The server's view of what one stream subscribes to for one resource     *)
(* type, pkg/server/stream/v3/subscription.go.                             *)
(*                                                                         *)
(* A request lists tokens: resource names, prefix globs ("collection/*")   *)
(* and the explicit wildcard "*".  A glob stands for the prefix that the   *)
(* code stores for it (TrimSuffix(resource, "*") loses nothing, so the two *)
(* are one to one), and Matches[g] is the set of names that have it.       *)
(*                                                                         *)
(* A Go map from names to values is a total function on Names whose value  *)
(* is None where the map has no key.                                       *)
(***************************************************************************)
EXTENDS Naturals, Sequences

CONSTANTS
    Names,      \* resource names
    Globs,      \* prefix globs
    Matches,    \* the names covered by each glob
    Star,       \* the explicit wildcard "*"
    Blank,      \* the empty version ""
    None        \* no key in a map, a nil pointer

ASSUME TokenAssumption ==
    /\ Matches \in [Globs -> SUBSET Names]
    /\ Names \cap Globs = {}
    /\ Star \notin Names \cup Globs

Tokens == Names \cup Globs \cup {Star}

\* Subscriptions whose known versions come from the set V.
SubscriptionsOver(V) ==
    [wildcard : BOOLEAN,
     allowLegacyWildcard : BOOLEAN,
     subscribedResourceNames : SUBSET Names,
     subscribedPrefixes : SUBSET Globs,
     returnedResources : [Names -> V \cup {None}]]

matchesAnyPrefix(prefixes, n) == \E g \in prefixes : n \in Matches[g]

isSubscribedTo(s, n) ==
    \/ n \in s.subscribedResourceNames
    \/ matchesAnyPrefix(s.subscribedPrefixes, n)

\* The names a subscription asks for, whether they exist or not.
Requested(s) == {n \in Names : s.wildcard \/ isSubscribedTo(s, n)}

\* The names the server believes the client holds.
Known(s) == {n \in Names : s.returnedResources[n] # None}

Listed(list) == {list[i] : i \in DOMAIN list}

-----------------------------------------------------------------------------

NothingKnown == [n \in Names |-> None]

newSubscription(emptyRequest, legacy, initialResourceVersions) ==
    [wildcard                |-> emptyRequest /\ legacy,
     allowLegacyWildcard     |-> legacy,
     subscribedResourceNames |-> {},
     subscribedPrefixes      |-> {},
     returnedResources       |-> initialResourceVersions]

-----------------------------------------------------------------------------
(* State of the world: each request carries the whole set of tokens.       *)

SetResourceSubscription_KeepsReturned(s, subscribed) ==
    IF s.allowLegacyWildcard /\ subscribed = {}
    THEN s
    ELSE [wildcard                |-> Star \in subscribed,
          allowLegacyWildcard     |-> FALSE,
          subscribedResourceNames |-> subscribed \cap Names,
          subscribedPrefixes      |-> subscribed \cap Globs,
          returnedResources       |-> s.returnedResources]

SetResourceSubscription(s, subscribed) ==
    IF s.allowLegacyWildcard /\ subscribed = {}
    THEN s
    ELSE LET prefixes == subscribed \cap Globs
             kept == IF Star \in subscribed
                     THEN Names
                     ELSE {n \in Names : n \in subscribed \/ matchesAnyPrefix(prefixes, n)}
         IN  [wildcard                |-> Star \in subscribed,
              allowLegacyWildcard     |-> FALSE,
              subscribedResourceNames |-> subscribed \cap Names,
              subscribedPrefixes      |-> prefixes,
              returnedResources       |->
                  [n \in Names |-> IF n \in kept THEN s.returnedResources[n] ELSE None]]

NewSotwSubscription(subscribed, legacy) ==
    SetResourceSubscription(newSubscription(subscribed = {}, legacy, NothingKnown), subscribed)

-----------------------------------------------------------------------------
(* Delta: each request carries additions and removals.  The additions form *)
(* a set; the removals are a list, because the code walks it and a name is *)
(* treated differently before and after an unsubscription from "*".        *)

\* The names of the list that are unsubscribed while the subscription is still
\* wildcard: the walk marks them as returned with the empty version.  A second
\* occurrence of a name finds it no longer subscribed and forgets it instead.
MarkedForResend(names, wildcard, unsubscribed) ==
    {n \in names :
        /\ wildcard
        /\ \E i \in DOMAIN unsubscribed :
              /\ unsubscribed[i] = n
              /\ \A j \in DOMAIN unsubscribed :
                    /\ unsubscribed[j] = n => j = i
                    /\ unsubscribed[j] = Star => j > i}

UpdateResourceSubscriptions(s, subscribed, unsubscribed) ==
    IF s.allowLegacyWildcard /\ subscribed = {}
    THEN s
    ELSE LET names    == s.subscribedResourceNames \cup (subscribed \cap Names)
             wildcard == s.wildcard \/ Star \in subscribed
             marked   == MarkedForResend(names, wildcard, unsubscribed)
         IN  [wildcard                |-> wildcard /\ Star \notin Listed(unsubscribed),
              allowLegacyWildcard     |-> FALSE,
              subscribedResourceNames |-> names \ Listed(unsubscribed),
              subscribedPrefixes      |->
                  (s.subscribedPrefixes \cup (subscribed \cap Globs)) \ Listed(unsubscribed),
              returnedResources       |->
                  [n \in Names |-> IF n \in marked THEN Blank
                                   ELSE IF n \in Listed(unsubscribed) THEN None
                                   ELSE s.returnedResources[n]]]

NewDeltaSubscription(subscribed, unsubscribed, initialResourceVersions, legacy) ==
    UpdateResourceSubscriptions(
        newSubscription(subscribed = {}, legacy, initialResourceVersions),
        subscribed, unsubscribed)

SetReturnedResources(s, versions) == [s EXCEPT !.returnedResources = versions]

-----------------------------------------------------------------------------
(* A response carries the names and versions known to the client once it   *)
(* has it; the server sends it only if they fit the subscription.          *)

responseMatchesCurrentSubscription(resp, s) ==
    s.wildcard \/ \A n \in Names : resp.returnedResources[n] # None => isSubscribedTo(s, n)
=============================================================================
