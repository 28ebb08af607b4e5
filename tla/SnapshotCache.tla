----------------------------- MODULE SnapshotCache -----------------------------
(***************************************************************************)
(* The snapshot cache (pkg/cache/v3/simple.go) under state of the world    *)
(* streams that carry several resource types: the loop of                  *)
(* pkg/server/sotw/v3/xds.go with a channel for each type, or, when        *)
(* Ordered, the loop of ads.go with one channel for all of them.           *)
(*                                                                         *)
(* A snapshot gives each type a version and the names it holds; snapshots  *)
(* "should have distinct versions", so the content of a resource is the    *)
(* version of its type.  statusInfo is its set of open watches: a node     *)
(* without one has none.  No delta watch is open here, and SetSnapshot     *)
(* then stops after respondSOTWWatches.                                    *)
(***************************************************************************)
EXTENDS Integers, FiniteSets, Functions, Subscription

CONSTANTS
    Types,          \* resource types
    TypeOrder,      \* GetResponseType: their places in the enumeration
    FullStateTypes, \* ResourceRequiresFullStateInSotw
    VersionInfos,   \* versions; Blank, the empty one, is among them
    WithTTL,        \* names of the resources that have a TTL
    Nodes, Streams,
    NodeOf,         \* the node of each stream
    Ads,            \* the flag of the cache
    Ordered,        \* opts.Ordered of the server
    LegacyWildcard,
    Snapshots,      \* snapshots the control plane sets
    Requests,       \* requests the clients send
    Heartbeating,   \* made by NewSnapshotCacheWithHeartbeating
    CtxMayEnd,      \* the context of a SetSnapshot may end during the call
    Reconnects,     \* a client may bring a version from an earlier stream
    MaxSets,        \* bound: calls of SetSnapshot
    MaxClears,      \* bound: calls of ClearSnapshot, by node
    MaxWatchID      \* bound: watches ever opened

Snapshot == [Types -> [version : VersionInfos, items : SUBSET Names]]

Sub == SubscriptionsOver(VersionInfos)

Request == [type : Types, resourceNames : SUBSET Tokens, versionInfo : VersionInfos]

Watch == [id : Nat, stream : Streams, type : Types, versionInfo : VersionInfos, sub : Sub]

\* round numbers the SetSnapshot call a response comes from, 0 for none.
Response == [type : Types, version : VersionInfos, resources : SUBSET Names,
             returnedResources : [Names -> VersionInfos \cup {None}],
             heartbeat : BOOLEAN, round : Nat]

ASSUME SnapshotAssumption ==
    /\ IsFiniteSet(Types) /\ TypeOrder \in [Types -> Nat]
    /\ \A t, u \in Types : TypeOrder[t] = TypeOrder[u] => t = u
    /\ FullStateTypes \subseteq Types /\ Blank \in VersionInfos /\ None \notin VersionInfos
    /\ IsFiniteSet(Streams) /\ NodeOf \in [Streams -> Nodes]
    /\ {Ads, Ordered, LegacyWildcard, Heartbeating, CtxMayEnd, Reconnects} \subseteq BOOLEAN
    /\ Snapshots \subseteq Snapshot /\ None \notin Snapshot
    /\ \A s1, s2 \in Snapshots : \A t \in Types :
          s1[t].version = s2[t].version => s1[t].items = s2[t].items
    /\ Requests \subseteq Request /\ None \notin Request /\ None \notin Sub
    /\ MaxSets \in Nat /\ MaxClears \in Nat /\ MaxWatchID \in Nat

VARIABLES
    \* snapshotCache
    snapshots,   \* [Nodes -> Snapshot or None]
    watches,     \* status[node].watches, for each node
    watchCount,  \* the source of watch ids
    round,       \* history: calls of SetSnapshot
    failed,      \* history: the last SetSnapshot of the node was cut short
    cleared,     \* history: calls of ClearSnapshot for each node
    \* one stream of the server
    pc,          \* where the stream's loop is
    pending,     \* the request being handled
    sub,         \* subscription of the watch entry of each type, None for no entry
    cancel,      \* id of the watch its cancel function removes, 0 if that does nothing
    queue,       \* responses in its channels
    replied,     \* types sent a response since their last request was handled
    told,        \* versions of each type the client came with or was sent
    lastSent     \* history: round and place of the last response sent of a SetSnapshot

cacheVars  == <<snapshots, watches, watchCount, round, failed, cleared>>
streamVars == <<pc, pending, sub, cancel, queue, replied, told, lastSent>>
vars       == <<cacheVars, streamVars>>

Init ==
    /\ snapshots = [n \in Nodes |-> None]
    /\ watches = [n \in Nodes |-> {}]
    /\ watchCount = 0
    /\ round = 0
    /\ failed = [n \in Nodes |-> FALSE]
    /\ cleared = [n \in Nodes |-> 0]
    /\ pc = [c \in Streams |-> "closed"]
    /\ pending = [c \in Streams |-> None]
    /\ sub = [c \in Streams |-> [t \in Types |-> None]]
    /\ cancel = [c \in Streams |-> [t \in Types |-> 0]]
    /\ queue = [c \in Streams |-> <<>>]
    /\ replied = [c \in Streams |-> {}]
    /\ told = [c \in Streams |-> [t \in Types |-> {}]]
    /\ lastSent = [c \in Streams |-> [round |-> 0, place |-> 0]]

-----------------------------------------------------------------------------
(* createResponse.                                                         *)

\* The names a subscription asks for.  The snapshot cache ignores prefixes.
Watched(s) == IF s.wildcard THEN Names ELSE s.subscribedResourceNames

\* missingRequestResource: in ADS mode the request must name the whole snapshot.
Missing(snap, w) == Ads /\ ~w.sub.wildcard /\ ~(snap[w.type].items \subseteq Watched(w.sub))

Changed(snap, w) == (snap[w.type].items \cap Watched(w.sub)) \ Known(w.sub)

Deleted(snap, w) == Known(w.sub) \ (snap[w.type].items \cap Watched(w.sub))

NothingChanged_VersionOnly(snap, w) == snap[w.type].version = w.versionInfo

\* createResponse returns nil.
NothingChanged(snap, w) ==
    /\ snap[w.type].version = w.versionInfo
    /\ Changed(snap, w) = {}
    /\ w.type \in FullStateTypes => Deleted(snap, w) = {}

createResponse(snap, w, r) ==
    LET version == snap[w.type].version
        all     == version # w.versionInfo \/ w.type \in FullStateTypes
        names   == IF all THEN snap[w.type].items \cap Watched(w.sub) ELSE Changed(snap, w)
    IN  [type              |-> w.type,
         version           |-> version,
         resources         |-> names,
         returnedResources |->
             [n \in Names |-> IF n \in names THEN version
                              ELSE IF all \/ n \in Deleted(snap, w) THEN None
                              ELSE w.sub.returnedResources[n]],
         heartbeat         |-> FALSE,
         round             |-> r]

\* A heartbeat names the resources with a TTL and leaves their contents out.
heartbeatResponse(snap, w) ==
    [type              |-> w.type,
     version           |-> snap[w.type].version,
     resources         |-> snap[w.type].items \cap Watched(w.sub) \cap WithTTL,
     returnedResources |-> w.sub.returnedResources,
     heartbeat         |-> TRUE,
     round             |-> 0]

-----------------------------------------------------------------------------
(* The cache.                                                              *)

\* The sequences that hold each element of S once.
Orders(S) == UNION {Bijection(1 .. m, S) : m \in 0 .. Cardinality(S)}

\* The watches ws, in any order, by the stream they belong to.
Shares(streams, ws) ==
    LET Of(c) == {w \in ws : w.stream = c}
    IN  {q \in [streams -> UNION {Orders(Of(c)) : c \in streams}] :
            \A c \in streams : q[c] \in Orders(Of(c))}

orderResponseWatches_Unsorted(streams, ws) == Shares(streams, ws)

\* Without ADS the watches are answered in the order of a map; with ADS sort.Sort
\* puts them in the order of the types.
orderResponseWatches(streams, ws) ==
    {q \in Shares(streams, ws) :
        Ads => \A c \in streams : \A i, j \in DOMAIN q[c] :
            i < j => TypeOrder[q[c][i].type] <= TypeOrder[q[c][j].type]}

\* The watches of ws that are answered: respond gives up when the context ends, and
\* those that come later in the order are kept.
Answered(ws) ==
    {done \in SUBSET ws :
        /\ done # ws => CtxMayEnd
        /\ Ads => \A w \in done, v \in ws \ done : TypeOrder[w.type] <= TypeOrder[v.type]}

Respond_KeepsWatches(n, ws, q, response) ==
    /\ UNCHANGED watches
    /\ queue' = [c \in Streams |-> queue[c] \o [i \in DOMAIN q[c] |-> response[q[c][i]]]]

\* Send the response to each of the watches ws of the node n, to each stream in the
\* order q has for it, and discard ws.
Respond(n, ws, q, response) ==
    /\ watches' = [watches EXCEPT ![n] = @ \ ws]
    /\ queue' = [c \in Streams |-> queue[c] \o [i \in DOMAIN q[c] |-> response[q[c][i]]]]

\* The open watches that a new snapshot answers.
Due(n, snap) ==
    {w \in watches[n] : snap[w.type].version # w.versionInfo /\ ~Missing(snap, w)}

SetSnapshot(n, snap) ==
    /\ round < MaxSets
    /\ round' = round + 1
    /\ snapshots' = [snapshots EXCEPT ![n] = snap]
    /\ \E done \in Answered(Due(n, snap)) : \E q \in orderResponseWatches(Streams, done) :
          /\ Respond(n, done, q, [w \in done |-> createResponse(snap, w, round + 1)])
          /\ failed' = [failed EXCEPT ![n] = (done # Due(n, snap))]
    /\ UNCHANGED <<watchCount, cleared, pc, pending, sub, cancel, replied, told, lastSent>>

\* The open watches with a resource that has a TTL.
DueHeartbeat(n) ==
    {w \in watches[n] : snapshots[n] # None /\ heartbeatResponse(snapshots[n], w).resources # {}}

\* The timer goes off: one node after the other.
SendHeartbeats(n) ==
    /\ Heartbeating
    /\ DueHeartbeat(n) # {}
    /\ \E q \in Shares(Streams, DueHeartbeat(n)) :
          Respond(n, DueHeartbeat(n), q,
                  [w \in DueHeartbeat(n) |-> heartbeatResponse(snapshots[n], w)])
    /\ UNCHANGED <<snapshots, watchCount, round, failed, cleared,
                   pc, pending, sub, cancel, replied, told, lastSent>>

ClearSnapshot(n) ==
    /\ cleared[n] < MaxClears
    /\ snapshots' = [snapshots EXCEPT ![n] = None]
    /\ watches' = [watches EXCEPT ![n] = {}]
    /\ failed' = [failed EXCEPT ![n] = FALSE]
    /\ cleared' = [cleared EXCEPT ![n] = @ + 1]
    /\ UNCHANGED <<watchCount, round, streamVars>>

Opens_OnlyWithSnapshot(snap, w) == snap # None /\ ~Missing(snap, w) /\ NothingChanged(snap, w)

\* CreateWatch opens a watch when there is no snapshot or nothing new in it.
Opens(snap, w) == snap # None => ~Missing(snap, w) /\ NothingChanged(snap, w)

cancelFunction_Nil(snap, w) == IF Opens(snap, w) THEN w.id ELSE None

cancelFunction(snap, w) == IF Opens(snap, w) THEN w.id ELSE 0

\* CreateWatch answers at once, drops the request, or opens a watch.
CreateWatch(c, req, s, q) ==
    LET n    == NodeOf[c]
        snap == snapshots[n]
        w    == [id |-> watchCount + 1, stream |-> c, type |-> req.type,
                 versionInfo |-> req.versionInfo, sub |-> s]
        answers == snap # None /\ ~Missing(snap, w) /\ ~NothingChanged(snap, w)
    IN  /\ queue' = [queue EXCEPT ![c] =
                        IF answers THEN Append(q, createResponse(snap, w, 0)) ELSE q]
        /\ IF Opens(snap, w)
           THEN /\ watchCount' = watchCount + 1
                /\ watches' = [watches EXCEPT ![n] = @ \cup {w}]
           ELSE UNCHANGED <<watchCount, watches>>
        /\ cancel' = [cancel EXCEPT ![c][req.type] = cancelFunction(snap, w)]
        /\ sub' = [sub EXCEPT ![c][req.type] = s]
        /\ replied' = [replied EXCEPT ![c] = @ \ {req.type}]
        /\ told' = [told EXCEPT ![c][req.type] = @ \cup {req.versionInfo}]
        /\ pending' = [pending EXCEPT ![c] = None]
        /\ pc' = [pc EXCEPT ![c] = "idle"]
        /\ UNCHANGED <<snapshots, round, failed, cleared, lastSent>>

cancelWatches_Nothing(c, ts) == UNCHANGED watches

\* The cancel functions of the watch entries of the types ts.
cancelWatches(c, ts) ==
    watches' = [watches EXCEPT ![NodeOf[c]] = {w \in @ : \A t \in ts : w.id # cancel[c][t]}]

-----------------------------------------------------------------------------
(* Streams.  A request whose nonce is stale changes nothing.               *)

Open(c) ==
    /\ pc[c] = "closed"
    /\ pc' = [pc EXCEPT ![c] = "idle"]
    /\ UNCHANGED <<cacheVars, pending, sub, cancel, queue, replied, told, lastSent>>

\* The stream ends: watches.close cancels every watch and the channels are dropped.
Shutdown(c) ==
    /\ pc[c] \in {"idle", "draining"}
    /\ cancelWatches(c, Types)
    /\ pc' = [pc EXCEPT ![c] = "closed"]
    /\ pending' = [pending EXCEPT ![c] = None]
    /\ sub' = [sub EXCEPT ![c] = [t \in Types |-> None]]
    /\ cancel' = [cancel EXCEPT ![c] = [t \in Types |-> 0]]
    /\ queue' = [queue EXCEPT ![c] = <<>>]
    /\ replied' = [replied EXCEPT ![c] = {}]
    /\ told' = [told EXCEPT ![c] = [t \in Types |-> {}]]
    /\ lastSent' = [lastSent EXCEPT ![c] = [round |-> 0, place |-> 0]]
    /\ UNCHANGED <<snapshots, watchCount, round, failed, cleared>>

\* Bound: no request is taken that could open one watch too many.
MayOpen == watchCount + Cardinality({d \in Streams : pending[d] # None}) < MaxWatchID

FirstRequest(c, req) ==
    /\ MayOpen
    /\ pc[c] = "idle" /\ sub[c][req.type] = None
    /\ req.versionInfo = Blank \/ Reconnects
    /\ CreateWatch(c, req, NewSotwSubscription(req.resourceNames, LegacyWildcard), queue[c])

\* The request is for a type that has a watch entry: its watch is closed first.
CloseWatch(c, req) ==
    /\ MayOpen
    /\ pc[c] = "idle" /\ sub[c][req.type] # None
    /\ req.versionInfo \in told[c][req.type]
    /\ cancelWatches(c, {req.type})
    /\ pc' = [pc EXCEPT ![c] = IF Ordered THEN "draining" ELSE "cancelled"]
    /\ pending' = [pending EXCEPT ![c] = req]
    /\ UNCHANGED <<snapshots, watchCount, round, failed, cleared,
                   sub, cancel, queue, replied, told, lastSent>>

Without(s, i) == SubSeq(s, 1, i - 1) \o SubSeq(s, i + 1, Len(s))

Kept_Everything(c, t) == queue[c]

\* The responder of a type is a new channel: a response left in the old one is lost.
Kept(c, t) ==
    LET old == {i \in DOMAIN queue[c] : queue[c][i].type = t}
    IN  IF Ordered \/ old = {} THEN queue[c] ELSE Without(queue[c], CHOOSE i \in old : TRUE)

Rewatch(c) ==
    /\ pc[c] = "cancelled"
    /\ LET req == pending[c]
       IN  CreateWatch(c, req, SetResourceSubscription(sub[c][req.type], req.resourceNames),
                       Kept(c, req.type))

\* streamWrapper.send.
Send(c, resp) ==
    IF ~responseMatchesCurrentSubscription(resp, sub[c][resp.type])
    THEN UNCHANGED <<sub, replied, told, lastSent>>
    ELSE /\ sub' = [sub EXCEPT ![c][resp.type] = SetReturnedResources(@, resp.returnedResources)]
         /\ replied' = [replied EXCEPT ![c] = @ \cup {resp.type}]
         /\ told' = [told EXCEPT ![c][resp.type] = @ \cup {resp.version}]
         /\ lastSent' = IF resp.round = 0 THEN lastSent
                        ELSE [lastSent EXCEPT ![c] =
                                [round |-> resp.round, place |-> TypeOrder[resp.type]]]

\* The responses the loop may receive: the first of the shared channel, or that of
\* any of the channels.
Receivable(c) == IF Ordered THEN DOMAIN queue[c] \cap {1} ELSE DOMAIN queue[c]

SendResponse(c, i) ==
    /\ pc[c] = "idle" /\ i \in Receivable(c)
    /\ Send(c, queue[c][i])
    /\ queue' = [queue EXCEPT ![c] = Without(@, i)]
    /\ UNCHANGED <<cacheVars, pc, pending, cancel>>

processAllExcept_Nothing(c) ==
    /\ pc[c] = "draining"
    /\ pc' = [pc EXCEPT ![c] = "cancelled"]
    /\ UNCHANGED <<cacheVars, pending, sub, cancel, queue, replied, told, lastSent>>

\* One turn of processAllExcept: a response for the type of the request is dropped,
\* another one is sent; the loop ends when the channel is empty.
processAllExcept(c) ==
    /\ pc[c] = "draining"
    /\ IF queue[c] = <<>>
       THEN /\ pc' = [pc EXCEPT ![c] = "cancelled"]
            /\ UNCHANGED <<sub, replied, told, lastSent, queue>>
       ELSE /\ IF Head(queue[c]).type = pending[c].type
               THEN UNCHANGED <<sub, replied, told, lastSent>>
               ELSE Send(c, Head(queue[c]))
            /\ queue' = [queue EXCEPT ![c] = Tail(@)]
            /\ UNCHANGED pc
    /\ UNCHANGED <<cacheVars, pending, cancel>>

-----------------------------------------------------------------------------

CacheNext ==
    \E n \in Nodes : \/ \E snap \in Snapshots : SetSnapshot(n, snap)
                     \/ SendHeartbeats(n)
                     \/ ClearSnapshot(n)

StreamNext(c) ==
    \/ Open(c)
    \/ Shutdown(c)
    \/ \E req \in Requests : FirstRequest(c, req) \/ CloseWatch(c, req)
    \/ processAllExcept(c)
    \/ Rewatch(c)
    \/ \E i \in DOMAIN queue[c] : SendResponse(c, i)

Next == CacheNext \/ \E c \in Streams : StreamNext(c)

Spec == Init /\ [][Next]_vars

-----------------------------------------------------------------------------
(* Properties.                                                             *)

\* Every variable of the cache and of the stream loops has the type of the
\* field it stands for.
TypeOK ==
    /\ snapshots \in [Nodes -> Snapshot \cup {None}]
    /\ watches \in [Nodes -> SUBSET Watch]
    /\ watchCount \in Nat /\ round \in Nat
    /\ failed \in [Nodes -> BOOLEAN] /\ cleared \in [Nodes -> Nat]
    /\ pc \in [Streams -> {"closed", "idle", "draining", "cancelled"}]
    /\ pending \in [Streams -> Request \cup {None}]
    /\ sub \in [Streams -> [Types -> Sub \cup {None}]]
    /\ cancel \in [Streams -> [Types -> Nat]]
    /\ queue \in [Streams -> Seq(Response)]
    /\ replied \in [Streams -> SUBSET Types]
    /\ told \in [Streams -> [Types -> SUBSET VersionInfos]]
    /\ lastSent \in [Streams -> [round : Nat, place : Nat]]

\* The open watches of a stream for a type.
Waiting(c, t) == {w \in watches[NodeOf[c]] : w.stream = c /\ w.type = t}

Queued(c, t) == {i \in DOMAIN queue[c] : queue[c][i].type = t}

\* The cache sends while it holds its lock and the stream needs that lock to go on,
\* so a full channel is a deadlock.  A responder holds one response and the shared
\* channel one for each type: there is never more than one response or open watch
\* for a type, so neither is ever found full.
SendNeverBlocks ==
    \A c \in Streams : \A t \in Types :
        /\ Queued(c, t) = {} \/ Waiting(c, t) = {}
        /\ \A i, j \in Queued(c, t) : i = j
        /\ \A v, w \in Waiting(c, t) : v = w

\* An open watch belongs to a live stream that can still cancel it: its id is the
\* one the cancel function of its type removes.
WatchesAreCancellable ==
    \A n \in Nodes : \A w \in watches[n] :
        /\ NodeOf[w.stream] = n
        /\ pc[w.stream] # "closed"
        /\ cancel[w.stream][w.type] = w.id

\* An open watch is owed nothing: unless the last SetSnapshot was cut short, the node
\* was cleared, or ADS mode holds the answer back because the request does not name
\* the whole snapshot, the client has the version of the snapshot and every resource
\* it asks for, and in a full-state type no other.
OpenWatchOwedNothing ==
    \A n \in Nodes : \A w \in watches[n] :
        snapshots[n] # None /\ ~failed[n] /\ cleared[n] = 0 =>
            LET items == snapshots[n][w.type].items \cap Watched(w.sub)
            IN  \/ Ads /\ ~w.sub.wildcard /\ items # snapshots[n][w.type].items
                \/ /\ w.versionInfo = snapshots[n][w.type].version
                   /\ items \subseteq Known(w.sub)
                   /\ w.type \in FullStateTypes => Known(w.sub) \subseteq items

\* A stream that has asked for a type is served: its watch is open, a response is
\* queued, or it was sent one to acknowledge.
StreamIsServed ==
    \A c \in Streams : \A t \in Types :
        pc[c] = "idle" /\ sub[c][t] # None =>
            Waiting(c, t) # {} \/ Queued(c, t) # {} \/ t \in replied[c]

\* Ordered ADS sends what one SetSnapshot produces in the order of the types: what
\* is still queued of a round comes in order, and after what was sent of it.
SnapshotSentInOrder ==
    \A c \in Streams : \A i \in DOMAIN queue[c] :
        queue[c][i].round # 0 =>
            /\ queue[c][i].round = lastSent[c].round =>
                  lastSent[c].place <= TypeOrder[queue[c][i].type]
            /\ \A j \in 1 .. i : queue[c][j].round = queue[c][i].round =>
                  TypeOrder[queue[c][j].type] <= TypeOrder[queue[c][i].type]
=============================================================================
