------------------------------ MODULE DeltaClient ------------------------------
(***************************************************************************)
(* Delta clients on top of LinearCache: the two directions of each stream, *)
(* the subscription the client means and the resources it holds.  The      *)
(* client is not part of the repository; it follows the comments of        *)
(* DeltaDiscoveryRequest in envoy/service/discovery/v3/discovery.pb.go:    *)
(* requests add and remove tokens, every response is acknowledged, and a   *)
(* request that is not an acknowledgement has no nonce.                    *)
(***************************************************************************)
EXTENDS LinearCache

CONSTANTS
    Subscriptions0, \* sets of tokens a client may start with
    LaterTokens,    \* tokens a client may subscribe to later
    ContentsRepeat, \* a resource may come back to a content it had before
    MaxChanges      \* bound: changes of its subscription a client makes

ASSUME DeltaClientAssumption ==
    /\ Subscriptions0 \subseteq SUBSET Tokens
    /\ LaterTokens \subseteq Tokens
    /\ ContentsRepeat \in BOOLEAN
    /\ MaxChanges \in Nat

VARIABLES
    wants,   \* tokens the client subscribes to
    view,    \* contents the client holds, by name
    up,      \* requests on their way to the server
    down,    \* responses on their way to the client
    changes, \* changes of its subscription so far; 0 before it connects
    had      \* history: contents each resource has had

clientVars == <<wants, view, up, down, changes>>
allVars    == <<vars, clientVars, had>>

Content(n) == {v \in Values : resources[n] # None /\ resources[n].resource = v}

Asked(tokens) ==
    {n \in Names : Star \in tokens \/ n \in tokens \/ matchesAnyPrefix(tokens \cap Globs, n)}

Restricted(v, tokens) == [n \in Names |-> IF n \in Asked(tokens) THEN v[n] ELSE None]

DeltaMessage(subscribe, unsubscribe, nonce) ==
    [subscribe |-> subscribe, unsubscribe |-> unsubscribe,
     initialVersions |-> NothingKnown, responseNonce |-> nonce]

ClientInit ==
    /\ Init
    /\ wants = [c \in DeltaStreams |-> {}]
    /\ view = [c \in DeltaStreams |-> [n \in Names |-> None]]
    /\ up = [c \in DeltaStreams |-> <<>>]
    /\ down = [c \in DeltaStreams |-> <<>>]
    /\ changes = [c \in DeltaStreams |-> 0]
    /\ had = [n \in Names |-> Content(n)]

-----------------------------------------------------------------------------
(* The client.                                                             *)

\* The client changes its mind and tells the server in the request req.
ClientAsks(c, tokens, v, req) ==
    /\ changes[c] < MaxChanges
    /\ changes' = [changes EXCEPT ![c] = @ + 1]
    /\ wants' = [wants EXCEPT ![c] = tokens]
    /\ view' = [view EXCEPT ![c] = v]
    /\ up' = [up EXCEPT ![c] = Append(@, req)]
    /\ UNCHANGED <<vars, down, had>>

ClientConnect(c, tokens) ==
    /\ changes[c] = 0
    /\ ClientAsks(c, tokens, view[c], DeltaMessage(tokens, <<>>, FALSE))

ClientSubscribe(c, t) ==
    /\ changes[c] > 0
    /\ Asked({t}) \cap Asked(wants[c]) = {}
    /\ ClientAsks(c, wants[c] \cup {t}, view[c], DeltaMessage({t}, <<>>, FALSE))

ClientUnsubscribe(c, t) ==
    /\ t \in wants[c]
    /\ ClientAsks(c, wants[c] \ {t}, Restricted(view[c], wants[c] \ {t}),
                  DeltaMessage({}, <<t>>, FALSE))

\* The client drops a resource and regains interest before it unsubscribes.
ClientDropAndRegain(c, n) ==
    /\ n \in wants[c] /\ view[c][n] # None
    /\ ClientAsks(c, wants[c], [view[c] EXCEPT ![n] = None], DeltaMessage({n}, <<>>, FALSE))

\* What a client that asks for tokens holds once it has applied a response.
Applied(v, resp, tokens) ==
    Restricted([n \in Names |-> IF resp.resources[n] # None THEN resp.resources[n]
                                ELSE IF n \in resp.removed THEN None ELSE v[n]], tokens)

\* The client applies a response and acknowledges it.
ClientReceive(c) ==
    /\ down[c] # <<>>
    /\ view' = [view EXCEPT ![c] = Applied(@, Head(down[c]), wants[c])]
    /\ down' = [down EXCEPT ![c] = Tail(@)]
    /\ up' = [up EXCEPT ![c] = Append(@, DeltaMessage({}, <<>>, TRUE))]
    /\ UNCHANGED <<vars, wants, changes, had>>

ClientStep(c) ==
    \/ \E tokens \in Subscriptions0 : ClientConnect(c, tokens)
    \/ \E t \in LaterTokens : ClientSubscribe(c, t)
    \/ \E t \in Tokens : ClientUnsubscribe(c, t)
    \/ ClientReceive(c)

-----------------------------------------------------------------------------
(* The server loop on the requests that arrive.                            *)

ServerTakesRequest(c) ==
    /\ up[c] # <<>>
    /\ \/ DeltaFirstRequest(c, Head(up[c]))
       \/ DeltaRewatch(c, Head(up[c]))
    /\ up' = [up EXCEPT ![c] = Tail(@)]
    /\ UNCHANGED <<wants, view, down, changes, had>>

ServerPrepares(c) ==
    /\ up[c] # <<>>
    /\ DeltaDrained(c) \/ DeltaCancelWatch(c)
    /\ UNCHANGED <<clientVars, had>>

ServerSends(c) ==
    /\ DeltaProcess(c)
    /\ down' = [down EXCEPT ![c] = Append(@, Head(chan[c]))]
    /\ UNCHANGED <<wants, view, up, changes, had>>

ServerStep(c) == ServerTakesRequest(c) \/ ServerPrepares(c) \/ ServerSends(c)

\* The control plane writes to the cache, with contents of its choice.
CacheChanges ==
    /\ CacheNext
    /\ ~ContentsRepeat => \A n \in Names : (Content(n)' \ Content(n)) \cap had[n] = {}
    /\ had' = [n \in Names |-> had[n] \cup Content(n)']
    /\ UNCHANGED clientVars

ClientNext ==
    \/ CacheChanges
    \/ \E c \in DeltaStreams : \/ Open(c) /\ UNCHANGED <<clientVars, had>>
                               \/ ServerStep(c)
                               \/ ClientStep(c)

ClientSpec == ClientInit /\ [][ClientNext]_allVars

\* The goroutine of a stream keeps running and the client reads its stream and
\* acknowledges; nobody has to change a subscription or the cache.
ClientFairness ==
    \A c \in DeltaStreams : /\ WF_allVars(Open(c) /\ UNCHANGED <<clientVars, had>>)
                            /\ WF_allVars(ServerStep(c))
                            /\ WF_allVars(ClientReceive(c))

FairClientSpec == ClientSpec /\ ClientFairness

\* With clients that count on a resource being sent again when they list it again.
DemandingNext == ClientNext \/ \E c \in DeltaStreams, n \in Names : ClientDropAndRegain(c, n)

DemandingSpec == ClientInit /\ [][DemandingNext]_allVars

-----------------------------------------------------------------------------

\* The client holds the current content of every resource it subscribes to.
HoldsCurrent(c) ==
    \A n \in Asked(wants[c]) : resources[n] # None => view[c][n] = resources[n].resource

\* Nothing is on its way between the cache and the client.
Settled(c) ==
    /\ pc[c] = "idle"
    /\ chan[c] = <<>> /\ up[c] = <<>> /\ down[c] = <<>>

\* The linear cache is eventually consistent: once nothing is on its way, a delta
\* client holds the current content of every resource it subscribes to.
SettledClientIsCurrent ==
    \A c \in DeltaStreams : changes[c] > 0 /\ Settled(c) => HoldsCurrent(c)

\* The same as a liveness property: when the updates of the cache and the changes
\* of the subscription have come to an end, the client ends up current for good.
ClientBecomesCurrent ==
    \A c \in DeltaStreams : <>[](changes[c] > 0) => <>[]HoldsCurrent(c)
=============================================================================
