------------------------------ MODULE SotwClient ------------------------------
(***************************************************************************)
(* State of the world clients on top of SnapshotCache: the two directions  *)
(* of each stream with the nonces of send and process, and what a client   *)
(* asks for and holds.  The client is not part of the repository; it is    *)
(* the proxy that the comments of the servers describe: each request lists *)
(* all the names it wants, the version it has and the last nonce, every    *)
(* response is accepted or rejected, and after a broken stream it comes    *)
(* back with its version.                                                  *)
(***************************************************************************)
EXTENDS SnapshotCache

CONSTANTS
    Wanted,        \* the sets of tokens a client may ask for, by type
    MaxChanges,    \* bound: changes of its subscriptions a client makes
    MaxRejections, \* bound: responses a client rejects
    Restarts,      \* the server may restart, with an empty cache
    MaxBreaks,     \* bound: broken streams and restarts
    MaxHeartbeats  \* bound: times the timer of the cache goes off

\* The clients of the snapshot cache send no prefixes, which it ignores.  The empty list is
\* the legacy wildcard only for a client that sends no other.
ASSUME SotwClientAssumption ==
    /\ Wanted \in [Types -> SUBSET SUBSET (Names \cup {Star})]
    /\ \A t \in Types : None \notin Wanted[t]
    /\ LegacyWildcard => \A t \in Types : {} \in Wanted[t] => Wanted[t] = {{}}
    /\ Restarts \in BOOLEAN
    /\ {MaxChanges, MaxRejections, MaxBreaks, MaxHeartbeats} \subseteq Nat

VARIABLES
    wants,     \* tokens asked for, by type; None before the first request
    version,   \* version accepted last, by type
    view,      \* version of each resource the client holds, by type
    refused,   \* names whose last contents the client rejected, by type
    nonce,     \* nonce received last, by type; 0 for none
    up,        \* requests on their way to the server
    down,      \* responses on their way to the client
    entryNonce,\* nonce of the server's watch entry, by type; 0 for ""
    lastNonce, \* the nonce counter of the stream
    unheard,   \* history: names the client gave up in a request that was ignored, by type
    count      \* changes, rejections, breaks and heartbeats so far

clientVars == <<wants, version, view, refused, nonce, up, down>>
nonceVars  == <<entryNonce, lastNonce, unheard>>
allVars    == <<vars, clientVars, nonceVars, count>>

NothingHeld == [n \in Names |-> None]

ClientInit ==
    /\ Init
    /\ wants = [c \in Streams |-> [t \in Types |-> None]]
    /\ version = [c \in Streams |-> [t \in Types |-> Blank]]
    /\ view = [c \in Streams |-> [t \in Types |-> NothingHeld]]
    /\ refused = [c \in Streams |-> [t \in Types |-> {}]]
    /\ nonce = [c \in Streams |-> [t \in Types |-> 0]]
    /\ up = [c \in Streams |-> <<>>]
    /\ down = [c \in Streams |-> <<>>]
    /\ entryNonce = [c \in Streams |-> [t \in Types |-> 0]]
    /\ lastNonce = [c \in Streams |-> 0]
    /\ unheard = [c \in Streams |-> [t \in Types |-> {}]]
    /\ count = [changes |-> 0, rejections |-> 0, breaks |-> 0, heartbeats |-> 0]

-----------------------------------------------------------------------------
(* The client.                                                             *)

Message(t, tokens, v, k) ==
    [req |-> [type |-> t, resourceNames |-> tokens, versionInfo |-> v], nonce |-> k]

\* The names a set of tokens asks for: none at all, sent first, is the wildcard.
Asked(tokens) ==
    IF Star \in tokens \/ (LegacyWildcard /\ tokens = {}) THEN Names ELSE tokens \cap Names

Restricted(v, tokens) == [n \in Names |-> IF n \in Asked(tokens) THEN v[n] ELSE None]

ClientSubscribe(c, t, tokens) ==
    /\ count.changes < MaxChanges
    /\ pc[c] # "closed"
    /\ wants[c][t] # tokens
    /\ count' = [count EXCEPT !.changes = @ + 1]
    /\ wants' = [wants EXCEPT ![c][t] = tokens]
    /\ view' = [view EXCEPT ![c][t] = Restricted(@, tokens)]
    /\ up' = [up EXCEPT ![c] = Append(@, Message(t, tokens, version[c][t], nonce[c][t]))]
    /\ UNCHANGED <<vars, nonceVars, version, refused, nonce, down>>

\* A heartbeat names resources and leaves their contents out.
Contents(resp) == IF resp.heartbeat THEN {} ELSE resp.resources

\* What a client holds once it has applied a response.
Applied(v, resp, tokens) ==
    IF resp.heartbeat THEN v
    ELSE Restricted([n \in Names |-> IF n \in resp.resources THEN resp.version
                                     ELSE IF resp.type \in FullStateTypes THEN None
                                     ELSE v[n]], tokens)

\* The client accepts or rejects a response, and says so.
ClientReceive(c, accepts) ==
    /\ down[c] # <<>>
    /\ LET resp == Head(down[c]).resp
           t    == resp.type
       IN  /\ accepts \/ (count.rejections < MaxRejections /\ ~resp.heartbeat)
           /\ version' = [version EXCEPT ![c][t] = IF accepts THEN resp.version ELSE @]
           /\ view' = [view EXCEPT ![c][t] = IF accepts THEN Applied(@, resp, wants[c][t]) ELSE @]
           /\ refused' = [refused EXCEPT ![c][t] =
                 IF accepts THEN @ \ Contents(resp) ELSE @ \cup Contents(resp)]
           /\ nonce' = [nonce EXCEPT ![c][t] = Head(down[c]).nonce]
           /\ up' = [up EXCEPT ![c] =
                 Append(@, Message(t, wants[c][t], version'[c][t], nonce'[c][t]))]
           /\ count' = [count EXCEPT !.rejections = @ + IF accepts THEN 0 ELSE 1]
    /\ down' = [down EXCEPT ![c] = Tail(@)]
    /\ UNCHANGED <<vars, nonceVars, wants>>

\* The stream breaks; what was on its way is lost.
Break(c) ==
    /\ count.breaks < MaxBreaks
    /\ Shutdown(c)
    /\ count' = [count EXCEPT !.breaks = @ + 1]
    /\ up' = [up EXCEPT ![c] = <<>>]
    /\ down' = [down EXCEPT ![c] = <<>>]
    /\ nonce' = [nonce EXCEPT ![c] = [t \in Types |-> 0]]
    /\ entryNonce' = [entryNonce EXCEPT ![c] = [t \in Types |-> 0]]
    /\ lastNonce' = [lastNonce EXCEPT ![c] = 0]
    /\ unheard' = [unheard EXCEPT ![c] = [t \in Types |-> {}]]
    /\ UNCHANGED <<wants, version, view, refused>>

\* The process of the server restarts: its cache is empty and its streams are broken.
ServerRestart ==
    /\ Restarts /\ count.breaks < MaxBreaks
    /\ count' = [count EXCEPT !.breaks = @ + 1]
    /\ snapshots' = [n \in Nodes |-> None]
    /\ watches' = [n \in Nodes |-> {}]
    /\ watchCount' = 0
    /\ failed' = [n \in Nodes |-> FALSE]
    /\ cleared' = [n \in Nodes |-> 0]
    /\ pc' = [c \in Streams |-> "closed"]
    /\ pending' = [c \in Streams |-> None]
    /\ sub' = [c \in Streams |-> [t \in Types |-> None]]
    /\ cancel' = [c \in Streams |-> [t \in Types |-> 0]]
    /\ queue' = [c \in Streams |-> <<>>]
    /\ replied' = [c \in Streams |-> {}]
    /\ told' = [c \in Streams |-> [t \in Types |-> {}]]
    /\ lastSent' = [c \in Streams |-> [round |-> 0, place |-> 0]]
    /\ up' = [c \in Streams |-> <<>>]
    /\ down' = [c \in Streams |-> <<>>]
    /\ nonce' = [c \in Streams |-> [t \in Types |-> 0]]
    /\ entryNonce' = [c \in Streams |-> [t \in Types |-> 0]]
    /\ lastNonce' = [c \in Streams |-> 0]
    /\ unheard' = [c \in Streams |-> [t \in Types |-> {}]]
    /\ UNCHANGED <<round, wants, version, view, refused>>

\* The client connects, and asks again for what it wants, type by type.
ClientConnect(c) ==
    /\ Open(c)
    /\ \E order \in Orders({t \in Types : wants[c][t] # None}) :
          up' = [up EXCEPT ![c] =
              [i \in DOMAIN order |->
                  Message(order[i], wants[c][order[i]], version[c][order[i]], 0)]]
    /\ UNCHANGED <<wants, version, view, refused, nonce, down, nonceVars, count>>

-----------------------------------------------------------------------------
(* The server loop on the requests that arrive.                            *)

ServerFirstRequest(c) ==
    /\ up[c] # <<>>
    /\ FirstRequest(c, Head(up[c]).req)
    /\ up' = [up EXCEPT ![c] = Tail(@)]
    /\ UNCHANGED <<wants, version, view, refused, nonce, down, nonceVars, count>>

Stale_EvenUnset(c, t, k) == k # entryNonce[c][t]

\* The request answers another response than the last one sent for its type.
Stale(c, t, k) == entryNonce[c][t] # 0 /\ k # entryNonce[c][t]

ServerIgnores(c) ==
    /\ up[c] # <<>>
    /\ LET m == Head(up[c])
       IN  /\ pc[c] = "idle" /\ sub[c][m.req.type] # None
           /\ Stale(c, m.req.type, m.nonce)
           /\ unheard' = [unheard EXCEPT ![c][m.req.type] =
                 @ \cup (Known(sub[c][m.req.type]) \ Asked(m.req.resourceNames))]
    /\ up' = [up EXCEPT ![c] = Tail(@)]
    /\ UNCHANGED <<vars, wants, version, view, refused, nonce, down, entryNonce, lastNonce, count>>

ServerCloses(c) ==
    /\ up[c] # <<>>
    /\ LET m == Head(up[c])
       IN  ~Stale(c, m.req.type, m.nonce) /\ CloseWatch(c, m.req)
    /\ up' = [up EXCEPT ![c] = Tail(@)]
    /\ UNCHANGED <<wants, version, view, refused, nonce, down, nonceVars, count>>

\* The new watch entry has no nonce yet.
ServerRewatches(c) ==
    /\ Rewatch(c)
    /\ entryNonce' = [entryNonce EXCEPT ![c][pending[c].type] = 0]
    /\ UNCHANGED <<clientVars, lastNonce, unheard, count>>

\* send gives the response the next nonce of the stream.
Deliver(c, resp) ==
    IF ~responseMatchesCurrentSubscription(resp, sub[c][resp.type])
    THEN UNCHANGED <<down, nonceVars>>
    ELSE /\ lastNonce' = [lastNonce EXCEPT ![c] = @ + 1]
         /\ entryNonce' = [entryNonce EXCEPT ![c][resp.type] = lastNonce[c] + 1]
         /\ down' = [down EXCEPT ![c] = Append(@, [resp |-> resp, nonce |-> lastNonce[c] + 1])]
         /\ unheard' = [unheard EXCEPT ![c][resp.type] = @ \ Contents(resp)]

ServerSends(c) ==
    /\ \E i \in DOMAIN queue[c] : SendResponse(c, i) /\ Deliver(c, queue[c][i])
    /\ UNCHANGED <<wants, version, view, refused, nonce, up, count>>

ServerDrains(c) ==
    /\ processAllExcept(c)
    /\ IF queue[c] = <<>> \/ Head(queue[c]).type = pending[c].type
       THEN UNCHANGED <<down, nonceVars>>
       ELSE Deliver(c, Head(queue[c]))
    /\ UNCHANGED <<wants, version, view, refused, nonce, up, count>>

-----------------------------------------------------------------------------

ServerStep(c) ==
    \/ ServerFirstRequest(c) \/ ServerIgnores(c) \/ ServerCloses(c)
    \/ ServerDrains(c) \/ ServerRewatches(c) \/ ServerSends(c)

ControlPlane(n) ==
    /\ ClearSnapshot(n) \/ \E snap \in Snapshots : SetSnapshot(n, snap)
    /\ UNCHANGED <<clientVars, nonceVars, count>>

Heartbeat(n) ==
    /\ count.heartbeats < MaxHeartbeats
    /\ SendHeartbeats(n)
    /\ count' = [count EXCEPT !.heartbeats = @ + 1]
    /\ UNCHANGED <<clientVars, nonceVars>>

ClientNext ==
    \/ \E n \in Nodes : ControlPlane(n) \/ Heartbeat(n)
    \/ ServerRestart
    \/ \E c \in Streams :
          \/ ServerStep(c)
          \/ Break(c)
          \/ ClientConnect(c)
          \/ \E t \in Types : \E tokens \in Wanted[t] : ClientSubscribe(c, t, tokens)
          \/ \E accepts \in BOOLEAN : ClientReceive(c, accepts)

ClientSpec == ClientInit /\ [][ClientNext]_allVars

\* The goroutine of a stream keeps running, and the client connects, reads its stream
\* and acknowledges; nobody has to set a snapshot or to change a subscription.
ClientFairness ==
    \A c \in Streams : /\ WF_allVars(ServerStep(c))
                       /\ WF_allVars(ClientConnect(c))
                       /\ WF_allVars(ClientReceive(c, TRUE))

FairClientSpec == ClientSpec /\ ClientFairness

-----------------------------------------------------------------------------
(* Properties.                                                             *)

\* In ADS mode a client that does not name the whole snapshot is kept waiting.
HeldBack(c, t) ==
    LET items == snapshots[NodeOf[c]][t].items
    IN  Ads /\ ~(items \subseteq Asked(wants[c][t]))

\* The client has the snapshot of its node, except for the names it rejected when they were
\* sent last and for those the server does not know it gave up.
HoldsSnapshot(c, t) ==
    LET typed == snapshots[NodeOf[c]][t]
    IN  /\ \A n \in (typed.items \cap Asked(wants[c][t])) \ (refused[c][t] \cup unheard[c][t]) :
              view[c][t][n] = typed.version
        /\ t \in FullStateTypes /\ version[c][t] = typed.version =>
              \A n \in Names \ typed.items : view[c][t][n] = None

\* Nothing is on its way between the cache and the client.
Settled(c) ==
    /\ pc[c] = "idle"
    /\ queue[c] = <<>> /\ up[c] = <<>> /\ down[c] = <<>>

Current(c) ==
    \A t \in Types :
        wants[c][t] # None /\ snapshots[NodeOf[c]] # None /\ ~HeldBack(c, t) => HoldsSnapshot(c, t)

\* The snapshot cache consistently replies with the latest snapshot: once nothing is
\* on its way, a client holds all it asked for of the snapshot of its node, whatever
\* it acknowledged, rejected or re-requested and whatever streams broke before.  Two things
\* are not sent again while the version of the snapshot is the one the client has.  What it
\* gave up in a request with a stale nonce, which the server ignores: that "might create a
\* race in edge cases".  And what it rejected, which the server counts as returned from the
\* moment it is sent, when the control plane goes back to the version before.
SettledClientIsCurrent ==
    \A c \in Streams : Settled(c) /\ ~failed[NodeOf[c]] => Current(c)

\* The same as a liveness property: when snapshots and requests come to an end, every
\* client ends up with the latest snapshot for good.
ClientBecomesCurrent == \A c \in Streams : <>[]Current(c)
=============================================================================
