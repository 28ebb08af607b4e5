----------------------------- MODULE SnapshotDelta -----------------------------
(***************************************************************************)
(* Delta streams over the snapshot cache (CreateDeltaWatch and             *)
(* respondDeltaWatches of pkg/cache/v3/simple.go, processDelta of          *)
(* pkg/server/delta/v3/server.go), next to the state of the world streams  *)
(* of SnapshotCache.  A delta stream carries several types on one channel; *)
(* a Mux cache (pkg/cache/v3/mux.go) in front passes on the types it has a *)
(* cache for.                                                              *)
(*                                                                         *)
(* The version of a resource is the hash of its contents, from a map that  *)
(* ConstructVersionMap keeps inside the snapshot.  The control plane holds *)
(* each snapshot of Snapshots as one object that it may set several times. *)
(***************************************************************************)
EXTENDS SnapshotCache

CONSTANTS
    Values,          \* contents of a resource; the hash of a content is the content
    Unmarshalable,   \* contents for which MarshalResource fails
    Contents,        \* the content of each resource of each snapshot
    DeltaStreams,
    DeltaNodeOf,     \* the node of each delta stream
    Classified,      \* types for which ClassifyDelta gives the key of a cache
    DeltaRequests,   \* requests the clients send on delta streams
    MaxDeltaWatchID  \* bound: delta watches ever opened

DeltaVersions == Values \cup {Blank}

DeltaSub == SubscriptionsOver(DeltaVersions)

DeltaRequest == [type : Types, subscribe : SUBSET Tokens, unsubscribe : Seq(Tokens),
                 responseNonce : BOOLEAN]

DeltaWatch == [id : Nat, stream : DeltaStreams, type : Types, sub : DeltaSub]

\* marshals: no resource of it makes GetDeltaDiscoveryResponse fail.
DeltaResponse == [type : Types, resources : [Names -> Values \cup {None}], removed : SUBSET Names,
                  returnedResources : [Names -> DeltaVersions \cup {None}],
                  marshals : BOOLEAN, round : Nat]

VersionMap == [Types -> [Names -> DeltaVersions]]

ASSUME SnapshotDeltaAssumption ==
    /\ Unmarshalable \subseteq Values /\ Blank \notin Values /\ None \notin DeltaVersions
    /\ Contents \in [Snapshots -> [Types -> [Names -> Values]]]
    /\ IsFiniteSet(DeltaStreams) /\ DeltaNodeOf \in [DeltaStreams -> Nodes]
    /\ DeltaStreams \cap Streams = {} /\ Classified \subseteq Types
    /\ \A r \in DeltaRequests : r \in DeltaRequest
    /\ None \notin DeltaRequests /\ None \notin DeltaSub /\ None \notin VersionMap
    /\ MaxDeltaWatchID \in Nat

VARIABLES
    \* snapshotCache
    versionMap,      \* the VersionMap of each snapshot, None for nil
    deltaWatches,    \* status[node].deltaWatches, for each node
    deltaWatchCount, \* the source of delta watch ids
    deltaFailed,     \* history: the last SetSnapshot of the node did not come to all delta watches
    \* one delta stream of the server
    deltaPc,         \* where the stream's loop is
    deltaPending,    \* the request being handled
    deltaSub,        \* subscription of the watch entry of each type, None for no entry
    deltaCancel,     \* id of the watch its cancel function removes, 0 if that does nothing
    muxed,           \* deltaMuxedResponses
    view,            \* contents its client holds, by type; their hashes are its versions
    overtaken        \* history: types with a watch created before a queued response was sent

deltaCacheVars  == <<versionMap, deltaWatches, deltaWatchCount, deltaFailed>>
deltaStreamVars == <<deltaPc, deltaPending, deltaSub, deltaCancel, muxed, view, overtaken>>
deltaVars       == <<vars, deltaCacheVars, deltaStreamVars>>

NoEntries == [t \in Types |-> None]

DeltaInit ==
    /\ Init
    /\ versionMap = [s \in Snapshots |-> None]
    /\ deltaWatches = [n \in Nodes |-> {}]
    /\ deltaWatchCount = 0
    /\ deltaFailed = [n \in Nodes |-> FALSE]
    /\ deltaPc = [d \in DeltaStreams |-> "closed"]
    /\ deltaPending = [d \in DeltaStreams |-> None]
    /\ deltaSub = [d \in DeltaStreams |-> NoEntries]
    /\ deltaCancel = [d \in DeltaStreams |-> [t \in Types |-> 0]]
    /\ muxed = [d \in DeltaStreams |-> <<>>]
    /\ view = [d \in DeltaStreams |-> [t \in Types |-> NothingKnown]]
    /\ overtaken = [d \in DeltaStreams |-> {}]

-----------------------------------------------------------------------------
(* ConstructVersionMap.                                                    *)

Broken(snap, t) == {n \in snap[t].items : Contents[snap][t][n] \in Unmarshalable}

HashesOf_Nil(snap, done) ==
    [t \in Types |-> [n \in Names |-> IF n \in done[t] THEN Contents[snap][t][n] ELSE None]]

\* The map with the hashes of the resources that done has.
HashesOf(snap, done) ==
    [t \in Types |-> [n \in Names |-> IF n \in done[t] THEN Contents[snap][t][n] ELSE Blank]]

WholeMap(snap) == HashesOf(snap, [t \in Types |-> snap[t].items])

\* The first resource that does not marshal ends the loops with an error: the types
\* before its type are done, and of its type the resources the map order put first.
PartialMaps(snap) ==
    LET broken == {t \in Types : Broken(snap, t) # {}}
        first  == CHOOSE t \in broken : \A u \in broken : TypeOrder[t] <= TypeOrder[u]
    IN  {HashesOf(snap, [t \in Types |-> IF t = first THEN some
                                         ELSE IF TypeOrder[t] < TypeOrder[first]
                                         THEN snap[t].items ELSE {}]) :
            some \in SUBSET (snap[first].items \ Broken(snap, first))}

\* The maps a snapshot may have after the call.  A map that exists is kept, whole or not.
ConstructVersionMap(snap) ==
    IF versionMap[snap] # None THEN {versionMap[snap]}
    ELSE IF \A t \in Types : Broken(snap, t) = {} THEN {WholeMap(snap)}
    ELSE PartialMaps(snap)

\* The call returns an error.
VersionMapFails(snap) == versionMap[snap] = None /\ \E t \in Types : Broken(snap, t) # {}

-----------------------------------------------------------------------------
(* createDeltaResponse, for the map of the snapshot.                       *)

DeltaChanged_NewOnly(snap, map, w) ==
    {n \in snap[w.type].items \cap Watched(w.sub) : w.sub.returnedResources[n] = None}

DeltaChanged(snap, map, w) ==
    {n \in snap[w.type].items \cap Watched(w.sub) : w.sub.returnedResources[n] # map[w.type][n]}

DeltaRemoved(snap, w) == Known(w.sub) \ (snap[w.type].items \cap Watched(w.sub))

HasDeltaResponse_ChangesOnly(snap, map, w, replyIfEmpty) ==
    replyIfEmpty \/ DeltaChanged(snap, map, w) # {}

\* createDeltaResponse returns a response, rather than nil.
HasDeltaResponse(snap, map, w, replyIfEmpty) ==
    replyIfEmpty \/ DeltaChanged(snap, map, w) # {} \/ DeltaRemoved(snap, w) # {}

createDeltaResponse(snap, map, w, r) ==
    [type              |-> w.type,
     resources         |-> [n \in Names |-> IF n \in DeltaChanged(snap, map, w)
                                            THEN Contents[snap][w.type][n] ELSE None],
     removed           |-> DeltaRemoved(snap, w),
     returnedResources |->
         [n \in Names |-> IF n \in DeltaRemoved(snap, w) THEN None
                          ELSE IF n \in DeltaChanged(snap, map, w) THEN map[w.type][n]
                          ELSE w.sub.returnedResources[n]],
     marshals          |-> DeltaChanged(snap, map, w) \cap Broken(snap, w.type) = {},
     round             |-> r]

-----------------------------------------------------------------------------
(* The cache.                                                              *)

DeltaDue(n, snap, map) == {w \in deltaWatches[n] : HasDeltaResponse(snap, map, w, FALSE)}

RespondDelta(n, ws, q, response) ==
    /\ deltaWatches' = [deltaWatches EXCEPT ![n] = @ \ ws]
    /\ muxed' = [d \in DeltaStreams |-> muxed[d] \o [i \in DOMAIN q[d] |-> response[q[d][i]]]]

DeltaUnanswered(n, missed) ==
    /\ deltaFailed' = [deltaFailed EXCEPT ![n] = missed]
    /\ UNCHANGED <<deltaWatches, muxed>>

\* Without delta watches no map is built; an error of the map answers nobody.
respondDeltaWatches(n, snap) ==
    IF deltaWatches[n] = {}
    THEN UNCHANGED versionMap /\ DeltaUnanswered(n, FALSE)
    ELSE \E map \in ConstructVersionMap(snap) :
         /\ versionMap' = [versionMap EXCEPT ![snap] = map]
         /\ IF VersionMapFails(snap)
            THEN DeltaUnanswered(n, TRUE)
            ELSE \E done \in Answered(DeltaDue(n, snap, map)) :
                 \E q \in orderResponseWatches(DeltaStreams, done) :
                    /\ RespondDelta(n, done, q, [w \in done |->
                                          createDeltaResponse(snap, map, w, round + 1)])
                    /\ deltaFailed' = [deltaFailed EXCEPT ![n] = (done # DeltaDue(n, snap, map))]

\* An error of respondSOTWWatches comes before the delta watches.
SetSnapshotBoth(n, snap) ==
    /\ SetSnapshot(n, snap)
    /\ IF failed'[n]
       THEN UNCHANGED versionMap /\ DeltaUnanswered(n, TRUE)
       ELSE respondDeltaWatches(n, snap)
    /\ UNCHANGED <<deltaWatchCount, deltaPc, deltaPending, deltaSub, deltaCancel, view,
                   overtaken>>

ClearSnapshotBoth(n) ==
    /\ ClearSnapshot(n)
    /\ deltaWatches' = [deltaWatches EXCEPT ![n] = {}]
    /\ deltaFailed' = [deltaFailed EXCEPT ![n] = FALSE]
    /\ UNCHANGED <<versionMap, deltaWatchCount, deltaStreamVars>>

SendHeartbeatsBoth(n) == SendHeartbeats(n) /\ UNCHANGED <<deltaCacheVars, deltaStreamVars>>

-----------------------------------------------------------------------------
(* One delta stream.  A response may reach the channel at any time.        *)

DeltaOpen(d) ==
    /\ deltaPc[d] = "closed"
    /\ deltaPc' = [deltaPc EXCEPT ![d] = "idle"]
    /\ UNCHANGED <<vars, deltaCacheVars,
                   deltaPending, deltaSub, deltaCancel, muxed, view, overtaken>>

\* What a client holds once it has applied a response.
Applied(v, resp) ==
    [n \in Names |-> IF resp.resources[n] # None THEN resp.resources[n]
                     ELSE IF n \in resp.removed THEN None ELSE v[n]]

\* The tokens a client gives up with a request.  As long as it has subscribed to none,
\* there is none to give up: the legacy wildcard.
Given(d, req) ==
    LET s      == deltaSub[d][req.type]
        legacy == IF s = None THEN LegacyWildcard ELSE s.allowLegacyWildcard
    IN  IF legacy /\ req.subscribe = {} THEN {} ELSE Listed(req.unsubscribe)

\* What it holds once it has given them up.
Dropped(v, tokens) == [n \in Names |-> IF n \in tokens THEN None ELSE v[n]]

\* process: a response that does not marshal ends the stream.
DeltaProcess(d) ==
    /\ deltaPc[d] = "idle" /\ muxed[d] # <<>>
    /\ muxed' = [muxed EXCEPT ![d] = Tail(@)]
    /\ LET resp == Head(muxed[d])
       IN  IF resp.marshals
           THEN /\ deltaSub' = [deltaSub EXCEPT ![d][resp.type] =
                                   SetReturnedResources(@, resp.returnedResources)]
                /\ view' = [view EXCEPT ![d][resp.type] = Applied(@, resp)]
                /\ UNCHANGED deltaPc
           ELSE /\ deltaPc' = [deltaPc EXCEPT ![d] = "closing"]
                /\ UNCHANGED <<deltaSub, view>>
    /\ UNCHANGED <<vars, deltaCacheVars, deltaPending, deltaCancel, overtaken>>

\* Bound: no request is taken that could open one watch too many.
DeltaMayOpen ==
    deltaWatchCount + Cardinality({d \in DeltaStreams : deltaPending[d] # None}) < MaxDeltaWatchID

DeltaDrained_NoProcessAll(d, req) ==
    /\ DeltaMayOpen
    /\ deltaPc[d] = "idle"
    /\ deltaPc' = [deltaPc EXCEPT ![d] = "drained"]
    /\ deltaPending' = [deltaPending EXCEPT ![d] = req]
    /\ view' = [view EXCEPT ![d][req.type] = Dropped(@, Given(d, req))]
    /\ UNCHANGED <<vars, deltaCacheVars, deltaSub, deltaCancel, muxed, overtaken>>

\* A request comes in and processAll has found nothing more to send.
DeltaDrained(d, req) ==
    /\ DeltaMayOpen
    /\ deltaPc[d] = "idle" /\ muxed[d] = <<>>
    /\ deltaPc' = [deltaPc EXCEPT ![d] = "drained"]
    /\ deltaPending' = [deltaPending EXCEPT ![d] = req]
    /\ view' = [view EXCEPT ![d][req.type] = Dropped(@, Given(d, req))]
    /\ UNCHANGED <<vars, deltaCacheVars, deltaSub, deltaCancel, muxed, overtaken>>

\* cancelDeltaWatch, for the watch entry of the type t.
CancelDelta(d, t) ==
    deltaWatches' = [deltaWatches EXCEPT ![DeltaNodeOf[d]] = {w \in @ : w.id # deltaCancel[d][t]}]

DeltaCancelWatch(d) ==
    /\ deltaPc[d] = "drained" /\ deltaSub[d][deltaPending[d].type] # None
    /\ CancelDelta(d, deltaPending[d].type)
    /\ deltaPc' = [deltaPc EXCEPT ![d] = "cancelled"]
    /\ UNCHANGED <<vars, versionMap, deltaWatchCount, deltaFailed,
                   deltaPending, deltaSub, deltaCancel, muxed, view, overtaken>>

\* The loop leaves with an error.  The watch entry keeps the subscription it had.
DeltaFail(d) ==
    /\ deltaPc' = [deltaPc EXCEPT ![d] = "closing"]
    /\ UNCHANGED <<deltaWatches, deltaWatchCount, deltaSub, deltaCancel, muxed>>

\* CreateDeltaWatch for the subscription s, answered from the snapshot with this map.
AnswerOrOpen(d, s, req, snap, map) ==
    LET n == DeltaNodeOf[d]
        w == [id |-> deltaWatchCount + 1, stream |-> d, type |-> req.type, sub |-> s]
    IN  /\ IF snap # None /\ HasDeltaResponse(snap, map, w, s.wildcard /\ ~req.responseNonce)
           THEN /\ muxed' = [muxed EXCEPT ![d] = Append(@, createDeltaResponse(snap, map, w, 0))]
                /\ deltaCancel' = [deltaCancel EXCEPT ![d][req.type] = 0]
                /\ UNCHANGED <<deltaWatches, deltaWatchCount>>
           ELSE /\ deltaWatches' = [deltaWatches EXCEPT ![n] = @ \cup {w}]
                /\ deltaWatchCount' = w.id
                /\ deltaCancel' = [deltaCancel EXCEPT ![d][req.type] = w.id]
                /\ UNCHANGED muxed
        /\ deltaSub' = [deltaSub EXCEPT ![d][req.type] = s]
        /\ deltaPc' = [deltaPc EXCEPT ![d] = "idle"]

CreateDeltaWatch(d, s, req) ==
    LET snap == snapshots[DeltaNodeOf[d]]
    IN  IF snap = None
        THEN AnswerOrOpen(d, s, req, None, None) /\ UNCHANGED versionMap
        ELSE \E map \in ConstructVersionMap(snap) :
             /\ versionMap' = [versionMap EXCEPT ![snap] = map]
             /\ IF VersionMapFails(snap) THEN DeltaFail(d)
                ELSE AnswerOrOpen(d, s, req, snap, map)

\* The same through a MuxCache, which has no cache for some types.
MuxCreateDeltaWatch(d, s, req) ==
    IF req.type \in Classified THEN CreateDeltaWatch(d, s, req)
    ELSE DeltaFail(d) /\ UNCHANGED versionMap

\* The first request for a type may bring the versions of an earlier stream.
DeltaFirstRequest(d) ==
    LET req == deltaPending[d]
    IN  /\ deltaPc[d] = "drained" /\ deltaSub[d][req.type] = None
        /\ \E known \in {NothingKnown, view[d][req.type]} :
              MuxCreateDeltaWatch(d, NewDeltaSubscription(req.subscribe, req.unsubscribe, known,
                                                          LegacyWildcard), req)
        /\ deltaPending' = [deltaPending EXCEPT ![d] = None]
        /\ UNCHANGED <<vars, deltaFailed, view, overtaken>>

DeltaQueued(d, t) == \E i \in DOMAIN muxed[d] : muxed[d][i].type = t

DeltaRewatch(d) ==
    LET req == deltaPending[d]
    IN  /\ deltaPc[d] = "cancelled"
        /\ MuxCreateDeltaWatch(d, UpdateResourceSubscriptions(deltaSub[d][req.type],
                                                  req.subscribe, req.unsubscribe), req)
        /\ deltaPending' = [deltaPending EXCEPT ![d] = None]
        /\ overtaken' = [overtaken EXCEPT ![d] = @ \cup {t \in {req.type} : DeltaQueued(d, t)}]
        /\ UNCHANGED <<vars, deltaFailed, view>>

\* The stream or the server ends.
DeltaEnd(d) ==
    /\ deltaPc[d] = "idle"
    /\ deltaPc' = [deltaPc EXCEPT ![d] = "closing"]
    /\ UNCHANGED <<vars, deltaCacheVars,
                   deltaPending, deltaSub, deltaCancel, muxed, view, overtaken>>

\* watches.Cancel, deferred: one watch entry after the other, in the order of a map.
DeltaCancelEntry(d, t) ==
    /\ deltaPc[d] = "closing" /\ deltaSub[d][t] # None
    /\ CancelDelta(d, t)
    /\ deltaSub' = [deltaSub EXCEPT ![d][t] = None]
    /\ deltaCancel' = [deltaCancel EXCEPT ![d][t] = 0]
    /\ UNCHANGED <<vars, versionMap, deltaWatchCount, deltaFailed, deltaPc, deltaPending,
                   muxed, view, overtaken>>

DeltaClose_First(d) ==
    /\ deltaPc[d] = "closing"
    /\ deltaPc' = [deltaPc EXCEPT ![d] = "closed"]
    /\ muxed' = [muxed EXCEPT ![d] = <<>>]
    /\ overtaken' = [overtaken EXCEPT ![d] = {}]
    /\ UNCHANGED <<vars, deltaCacheVars, deltaPending, deltaSub, deltaCancel, view>>

\* Then the channel is closed.
DeltaClose(d) ==
    /\ deltaPc[d] = "closing" /\ deltaSub[d] = NoEntries
    /\ deltaPc' = [deltaPc EXCEPT ![d] = "closed"]
    /\ muxed' = [muxed EXCEPT ![d] = <<>>]
    /\ overtaken' = [overtaken EXCEPT ![d] = {}]
    /\ UNCHANGED <<vars, deltaCacheVars, deltaPending, deltaSub, deltaCancel, view>>

-----------------------------------------------------------------------------

DeltaStreamNext(d) ==
    \/ DeltaOpen(d)
    \/ DeltaProcess(d)
    \/ \E req \in DeltaRequests : DeltaDrained(d, req)
    \/ DeltaCancelWatch(d)
    \/ DeltaFirstRequest(d)
    \/ DeltaRewatch(d)
    \/ DeltaEnd(d)
    \/ \E t \in Types : DeltaCancelEntry(d, t)
    \/ DeltaClose(d)

DeltaNext ==
    \/ \E n \in Nodes : \/ \E snap \in Snapshots : SetSnapshotBoth(n, snap)
                        \/ SendHeartbeatsBoth(n)
                        \/ ClearSnapshotBoth(n)
    \/ \E c \in Streams : StreamNext(c) /\ UNCHANGED <<deltaCacheVars, deltaStreamVars>>
    \/ \E d \in DeltaStreams : DeltaStreamNext(d)

DeltaSpec == DeltaInit /\ [][DeltaNext]_deltaVars

-----------------------------------------------------------------------------
(* Properties.                                                             *)

\* Every variable of the delta part of the cache and of the delta loops has the type
\* of the field it stands for.
DeltaTypeOK ==
    /\ versionMap \in [Snapshots -> VersionMap \cup {None}]
    /\ deltaWatches \in [Nodes -> SUBSET DeltaWatch]
    /\ deltaWatchCount \in Nat /\ deltaFailed \in [Nodes -> BOOLEAN]
    /\ deltaPc \in [DeltaStreams -> {"closed", "idle", "drained", "cancelled", "closing"}]
    /\ deltaPending \in [DeltaStreams -> DeltaRequests \cup {None}]
    /\ deltaSub \in [DeltaStreams -> [Types -> DeltaSub \cup {None}]]
    /\ deltaCancel \in [DeltaStreams -> [Types -> Nat]]
    /\ muxed \in [DeltaStreams -> Seq(DeltaResponse)]
    /\ view \in [DeltaStreams -> [Types -> [Names -> Values \cup {None}]]]
    /\ overtaken \in [DeltaStreams -> SUBSET Types]

\* A watch that is still open can be cancelled by its stream and the channel it sends
\* on is open: close(deltaMuxedResponses) comes after the last cancel function, though
\* a response may still come between two of them.
NoSendOnClosedChannel ==
    \A n \in Nodes : \A w \in deltaWatches[n] :
        /\ DeltaNodeOf[w.stream] = n
        /\ deltaPc[w.stream] # "closed"
        /\ deltaCancel[w.stream][w.type] = w.id

\* The muxed channel has room for two responses for each type, "to avoid deadlocks":
\* the cache never finds it full while it holds its lock.
MuxedNeverFull == \A d \in DeltaStreams : Len(muxed[d]) <= 2 * Cardinality(Types)

\* A client with an open watch holds the contents of every resource it asks for, whatever
\* the versions of the types are, unless SetSnapshot reported an error or a response was
\* overtaken by a request for its type: queued after processAll, before watch.Cancel.
WatchingClientIsCurrent ==
    \A n \in Nodes : \A w \in deltaWatches[n] :
        /\ snapshots[n] # None /\ ~deltaFailed[n]
        /\ deltaPc[w.stream] = "idle" /\ w.type \notin overtaken[w.stream]
        => \A r \in snapshots[n][w.type].items \cap Watched(w.sub) :
              view[w.stream][w.type][r] = Contents[snapshots[n]][w.type][r]

\* In ADS mode the responses that one SetSnapshot produces for a delta stream are
\* queued, and so sent, in the order of the types.
DeltaSentInOrder ==
    \A d \in DeltaStreams : \A i, j \in DOMAIN muxed[d] :
        Ads /\ i < j /\ muxed[d][i].round # 0 /\ muxed[d][i].round = muxed[d][j].round =>
            TypeOrder[muxed[d][i].type] <= TypeOrder[muxed[d][j].type]

-----------------------------------------------------------------------------
(* A type of a delta stream is a consumer of a watch service.              *)

Consumers == DeltaStreams \X Types

WatchesOf(k) == {w \in deltaWatches[DeltaNodeOf[k[1]]] : w.stream = k[1] /\ w.type = k[2]}

\* The versions that the map of the snapshot gives, whether it is built already or not.
VersionsOf(snap) == IF versionMap[snap] = None THEN WholeMap(snap) ELSE versionMap[snap]

VersionsSeen(k) ==
    LET snap == snapshots[DeltaNodeOf[k[1]]]
    IN  IF snap = None THEN None
        ELSE [n \in Names |-> IF n \in snap[k[2]].items THEN VersionsOf(snap)[k[2]][n] ELSE None]

Asking(w) == [asks |-> Watched(w.sub), holds |-> w.sub.returnedResources]

MapIsPartial(k) ==
    LET snap == snapshots[DeltaNodeOf[k[1]]]
    IN  snap # None /\ VersionsOf(snap) # WholeMap(snap)

AnswersOf(k) ==
    LET mine == SelectSeq(muxed[k[1]], LAMBDA r : r.type = k[2])
    IN  [i \in DOMAIN mine |-> [sent  |-> {n \in Names : mine[i].resources[n] # None},
                               holds |-> mine[i].returnedResources]]

Service == INSTANCE WatchService WITH
    TellsRemovals <- Consumers,
    contents      <- [k \in Consumers |-> VersionsSeen(k)],
    open          <- [k \in Consumers |-> IF WatchesOf(k) = {} THEN None
                                          ELSE Asking(CHOOSE w \in WatchesOf(k) : TRUE)],
    answers       <- [k \in Consumers |-> AnswersOf(k)],
    missed        <- [k \in Consumers |-> deltaFailed[DeltaNodeOf[k[1]]] \/ MapIsPartial(k)]

\* The snapshot cache with the delta server is a watch service, like the linear cache:
\* SetSnapshot answers exactly the delta watches the new contents concern, whatever the
\* version of the snapshot, once, and with all that changed.  A map that could not be
\* completed counts as an error.
ImplementsWatchService == Service!Spec
=============================================================================
