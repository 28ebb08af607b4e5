------------------------------ MODULE LinearCache ------------------------------
(***************************************************************************)
(* The linear cache (pkg/cache/v3/linear.go): one collection of resources  *)
(* of one type, its open watches, and the per-stream loops of the state of *)
(* the world server (pkg/server/sotw/v3/xds.go) and of the delta server    *)
(* (pkg/server/delta/v3/server.go) that create and cancel those watches.   *)
(*                                                                         *)
(* Every exported method of the cache and every cancel function runs under *)
(* cache.mu, so each is one step.  A stream loop is not atomic: between    *)
(* cancelling a watch and creating the next one, and between emptying its  *)
(* channel and cancelling, the cache and the other streams may run.        *)
(***************************************************************************)
EXTENDS Integers, FiniteSets, Subscription

CONSTANTS
    Values,         \* contents of a resource; the hash of a content is the content
    Unmarshalable,  \* contents for which MarshalResource fails
    SotwStreams,    \* state of the world streams
    DeltaStreams,   \* delta streams
    FullState,      \* ResourceRequiresFullStateInSotw(typeURL)
    LegacyWildcard, \* opts.IsLegacyWildcardActive(typeURL)
    SotwRequests,   \* requests the clients send on state of the world streams
    DeltaRequests,  \* requests the clients send on delta streams
    MaxVersion,     \* bound: cache updates
    MaxWatchID      \* bound: watches ever tracked

Streams == SotwStreams \cup DeltaStreams

CachedResource == [resource : Values, cacheVersion : Nat]

\* Versions a client can be known to hold: cache versions in state of the
\* world, resource hashes in delta, and the empty version.
Versions == Nat \cup Values \cup {Blank}

Sub == SubscriptionsOver(Versions)

Watch == [id : Nat, stream : Streams, sub : Sub]

\* A response: contents by name, removed names, the versions known to the client
\* once it has it, and the tracked watch it answers (0 for none).
Response == [resources : [Names -> Values \cup {None}], removed : SUBSET Names,
             returnedResources : [Names -> Versions \cup {None}],
             version : Nat, watch : Nat]

SotwRequest == [resourceNames : SUBSET Tokens,
                versionInfo : {"empty", "prefixed", "foreign"}]

DeltaRequest == [subscribe : SUBSET Tokens, unsubscribe : Seq(Tokens),
                 initialVersions : [Names -> Versions \cup {None}],
                 responseNonce : BOOLEAN]

ASSUME LinearAssumption ==
    /\ SotwStreams \cap DeltaStreams = {} /\ IsFiniteSet(Streams)
    /\ Unmarshalable \subseteq Values
    /\ FullState \in BOOLEAN /\ LegacyWildcard \in BOOLEAN
    /\ SotwRequests \subseteq SotwRequest
    /\ \A r \in DeltaRequests : r \in DeltaRequest
    /\ MaxVersion \in Nat /\ MaxWatchID \in Nat
    /\ None \notin Versions
    /\ None \notin CachedResource
    /\ None \notin Watch

VARIABLES
    \* LinearCache
    resources,       \* [Names -> CachedResource or None]
    version,
    resourceWatches, \* watches by name
    prefixWatches,   \* watches by prefix
    wildcardWatches,
    currentWatchID,
    watchCount,
    failed,          \* history: some update returned the error of notifyAll
    \* one stream of the servers
    pc,              \* where the stream's loop is
    sub,             \* subscription of its watch entry
    cancel,          \* watch its cancel function removes, None if that does nothing
    chan,            \* its response channel
    replied          \* a response was sent since the last request was handled

cacheVars  == <<resources, version, resourceWatches, prefixWatches,
                wildcardWatches, currentWatchID, watchCount, failed>>
streamVars == <<pc, sub, cancel, chan, replied>>
vars       == <<cacheVars, streamVars>>

NoSubscription == newSubscription(FALSE, FALSE, NothingKnown)

Init ==
    /\ resources \in [Names -> [resource : Values, cacheVersion : {0}] \cup {None}]
    /\ version = 0
    /\ resourceWatches = [n \in Names |-> {}]
    /\ prefixWatches = [g \in Globs |-> {}]
    /\ wildcardWatches = {}
    /\ currentWatchID = 0
    /\ watchCount = 0
    /\ failed = FALSE
    /\ pc = [c \in Streams |-> "closed"]
    /\ sub = [c \in Streams |-> NoSubscription]
    /\ cancel = [c \in Streams |-> None]
    /\ chan = [c \in Streams |-> <<>>]
    /\ replied = [c \in Streams |-> FALSE]

-----------------------------------------------------------------------------
(* What a watch is owed, given the contents res of the cache.              *)

isDelta(w) == w.stream \in DeltaStreams

sendFullStateResponses(w) == ~isDelta(w) /\ FullState

getVersion(res, w, n) ==
    IF isDelta(w) THEN res[n].resource ELSE res[n].cacheVersion

\* computeResourceChange returns the changed and the removed names.
Changed(res, w) ==
    {n \in Requested(w.sub) :
        /\ res[n] # None
        /\ w.sub.returnedResources[n] # getVersion(res, w, n)}

Removed(res, w) ==
    {n \in Known(w.sub) : res[n] = None \/ n \notin Requested(w.sub)}

\* Delta versions are hashes of the marshaled resource.  A resource that does not
\* marshal fails the computation whether the client knows it or not.
VersionError(res, w) ==
    /\ isDelta(w)
    /\ \E n \in Requested(w.sub) : res[n] # None /\ res[n].resource \in Unmarshalable

\* computeResponse returns a response, rather than nil.
HasResponse(res, w, replyEvenIfEmpty) ==
    \/ replyEvenIfEmpty
    \/ Changed(res, w) # {}
    \/ /\ Removed(res, w) # {}
       /\ isDelta(w) \/ sendFullStateResponses(w)

ResourcesToReturn(res, w) ==
    IF sendFullStateResponses(w)
    THEN {n \in Requested(w.sub) : res[n] # None}
    ELSE Changed(res, w)

computeResponse(res, ver, w) ==
    LET toReturn == ResourcesToReturn(res, w)
    IN  [resources         |-> [n \in Names |-> IF n \in toReturn THEN res[n].resource ELSE None],
         removed           |-> IF isDelta(w) THEN Removed(res, w) ELSE {},
         returnedResources |->
             [n \in Names |-> IF n \in Removed(res, w) THEN None
                              ELSE IF n \in toReturn THEN getVersion(res, w, n)
                              ELSE w.sub.returnedResources[n]],
         version           |-> ver,
         watch             |-> w.id]

-----------------------------------------------------------------------------
(* The indexes of open watches.                                            *)

nextWatchID_Constant == 1

nextWatchID == currentWatchID + 1

Tracked ==
    wildcardWatches \cup (UNION {resourceWatches[n] : n \in Names})
                    \cup (UNION {prefixWatches[g] : g \in Globs})

HasOpenWatch(c) == \E w \in Tracked : w.stream = c

\* The indexes that hold a watch that is not a wildcard.
byName(w, n) == ~w.sub.wildcard /\ n \in w.sub.subscribedResourceNames

byPrefix_Never(w, g) == FALSE

byPrefix(w, g) == ~w.sub.wildcard /\ g \in w.sub.subscribedPrefixes

trackWatch(w) ==
    /\ currentWatchID < MaxWatchID
    /\ watchCount' = watchCount + 1
    /\ currentWatchID' = w.id
    /\ resourceWatches' =
          [n \in Names |-> resourceWatches[n] \cup (IF byName(w, n) THEN {w} ELSE {})]
    /\ prefixWatches' =
          [g \in Globs |-> prefixWatches[g] \cup (IF byPrefix(w, g) THEN {w} ELSE {})]
    /\ wildcardWatches' = wildcardWatches \cup (IF w.sub.wildcard THEN {w} ELSE {})

\* The ids that the removal of each watch of the set ws takes out of each index:
\* removeWildcardWatch for the wildcard watches, removeWatch for the others.
removedFromName(ws, n) == {r.id : r \in {w \in ws : byName(w, n)}}

removedFromPrefix_Nothing(ws, g) == {}

removedFromPrefix(ws, g) == {r.id : r \in {w \in ws : byPrefix(w, g)}}

removedFromWildcard_Nothing(ws) == {}

removedFromWildcard(ws) == {r.id : r \in {w \in ws : w.sub.wildcard}}

removeWatches(ws) ==
    /\ resourceWatches' = [n \in Names |->
          {w \in resourceWatches[n] : w.id \notin removedFromName(ws, n)}]
    /\ prefixWatches' = [g \in Globs |->
          {w \in prefixWatches[g] : w.id \notin removedFromPrefix(ws, g)}]
    /\ wildcardWatches' = {w \in wildcardWatches : w.id \notin removedFromWildcard(ws)}
    /\ watchCount' = watchCount - Cardinality(ws)

-----------------------------------------------------------------------------
(* Updates of the collection.                                              *)

Triggered_NamesOnly(modified) == UNION {resourceWatches[n] : n \in modified}

Triggered(modified) ==
    (UNION {resourceWatches[n] : n \in modified})
        \cup (UNION {prefixWatches[g] : g \in {h \in Globs : Matches[h] \cap modified # {}}})

Failing(res, ws) == {w \in ws : VersionError(res, w)}

\* The sets of watches notifyAll may have looked at when it returns: all of them,
\* or those that came, in the order of the map, before the first failing one.
Visits(res, triggered) ==
    IF Failing(res, triggered) # {}
    THEN SUBSET (triggered \ Failing(res, triggered))
    ELSE IF Failing(res, wildcardWatches) # {}
    THEN {triggered \cup ws : ws \in SUBSET (wildcardWatches \ Failing(res, wildcardWatches))}
    ELSE {triggered \cup wildcardWatches}

\* A stream has at most one open watch.
WatchOf(c, watches) == CHOOSE w \in watches : w.stream = c

\* Install the contents res and notify the watches interested in modified.
notifyAll(res, modified) ==
    LET triggered == Triggered(modified)
    IN  \E visited \in Visits(res, triggered) :
        LET answered == {w \in visited : HasResponse(res, w, FALSE)}
        IN  /\ removeWatches(answered)
            /\ chan' = [c \in Streams |->
                  IF \E w \in answered : w.stream = c
                  THEN Append(chan[c], computeResponse(res, version + 1, WatchOf(c, answered)))
                  ELSE chan[c]]
            /\ failed' = (failed \/ Failing(res, triggered \cup wildcardWatches) # {})

Update(res, modified) ==
    /\ version < MaxVersion
    /\ version' = version + 1
    /\ resources' = res
    /\ notifyAll(res, modified)
    /\ UNCHANGED <<currentWatchID, pc, sub, cancel, replied>>

newCachedResource(v) == [resource |-> v, cacheVersion |-> version + 1]

UpdateResource(n, v) ==
    Update([resources EXCEPT ![n] = newCachedResource(v)], {n})

DeleteResource_StoresNil(n) ==
    Update([resources EXCEPT ![n] = newCachedResource(None)], {n})

DeleteResource(n) ==
    Update([resources EXCEPT ![n] = None], {n})

\* toUpdate maps the names to update to contents; deletions come second.
WithUpdates(toUpdate, toDelete) ==
    [n \in Names |-> IF n \in toDelete THEN None
                     ELSE IF toUpdate[n] # None THEN newCachedResource(toUpdate[n])
                     ELSE resources[n]]

UpdateResources_DeletesUnnotified(toUpdate, toDelete) ==
    Update(WithUpdates(toUpdate, toDelete), {n \in Names : toUpdate[n] # None})

UpdateResources(toUpdate, toDelete) ==
    Update(WithUpdates(toUpdate, toDelete), toDelete \cup {n \in Names : toUpdate[n] # None})

SetResources_RemovalsUnnotified(contents) ==
    Update([n \in Names |-> IF contents[n] = None THEN None ELSE newCachedResource(contents[n])],
           {n \in Names : contents[n] # None})

SetResources(contents) ==
    Update([n \in Names |-> IF contents[n] = None THEN None ELSE newCachedResource(contents[n])],
           {n \in Names : resources[n] # None \/ contents[n] # None})

-----------------------------------------------------------------------------
(* Watches.  CreateWatch either answers at once, and then the cancel       *)
(* function does nothing, or tracks the watch.  The channel of a state of  *)
(* the world watch is new; a delta stream keeps its channel.               *)

CreateWatch(c, s, replyEvenIfEmpty, queue) ==
    LET w == [id |-> nextWatchID, stream |-> c, sub |-> s]
    IN  /\ IF HasResponse(resources, w, replyEvenIfEmpty)
           THEN /\ chan' = [chan EXCEPT ![c] =
                       Append(queue, computeResponse(resources, version, [w EXCEPT !.id = 0]))]
                /\ cancel' = [cancel EXCEPT ![c] = None]
                /\ UNCHANGED <<resourceWatches, prefixWatches, wildcardWatches,
                               currentWatchID, watchCount>>
           ELSE /\ trackWatch(w)
                /\ chan' = [chan EXCEPT ![c] = queue]
                /\ cancel' = [cancel EXCEPT ![c] = w]
        /\ sub' = [sub EXCEPT ![c] = s]
        /\ replied' = [replied EXCEPT ![c] = FALSE]
        /\ pc' = [pc EXCEPT ![c] = "idle"]
        /\ UNCHANGED <<resources, version, failed>>

Cancel_Nothing(c) ==
    UNCHANGED <<resourceWatches, prefixWatches, wildcardWatches, watchCount>>

\* The cancel function of a tracked watch; it may run after the watch was answered.
Cancel(c) ==
    IF cancel[c] = None
    THEN UNCHANGED <<resourceWatches, prefixWatches, wildcardWatches, watchCount>>
    ELSE removeWatches({cancel[c]})

-----------------------------------------------------------------------------
(* Streams of both servers.                                                *)

Open(c) ==
    /\ pc[c] = "closed"
    /\ pc' = [pc EXCEPT ![c] = "new"]
    /\ UNCHANGED <<cacheVars, sub, cancel, chan, replied>>

\* The stream ends or fails: shutdown (sotw) and watches.Cancel (delta) run the
\* cancel function once more and drop the channel.
Shutdown(c) ==
    /\ pc[c] \in {"new", "idle", "drained", "failing"}
    /\ Cancel(c)
    /\ pc' = [pc EXCEPT ![c] = "closed"]
    /\ sub' = [sub EXCEPT ![c] = NoSubscription]
    /\ cancel' = [cancel EXCEPT ![c] = None]
    /\ chan' = [chan EXCEPT ![c] = <<>>]
    /\ replied' = [replied EXCEPT ![c] = FALSE]
    /\ UNCHANGED <<resources, version, currentWatchID, failed>>

\* The loop leaves with an error; Shutdown is deferred.
Fail(c) ==
    /\ pc' = [pc EXCEPT ![c] = "failing"]
    /\ UNCHANGED <<cacheVars, sub, cancel, replied>>

CancelWatch(c) ==
    /\ Cancel(c)
    /\ pc' = [pc EXCEPT ![c] = "cancelled"]
    /\ UNCHANGED <<resources, version, currentWatchID, failed, sub, cancel, chan, replied>>

-----------------------------------------------------------------------------
(* State of the world.  A request with a stale nonce changes nothing.      *)

SotwReplyEvenIfEmpty(req) == req.versionInfo \in {"empty", "foreign"}

SotwFirstRequest(c, req) ==
    /\ pc[c] = "new"
    /\ CreateWatch(c, NewSotwSubscription(req.resourceNames, LegacyWildcard),
                   SotwReplyEvenIfEmpty(req), <<>>)

SotwCloseWatch(c) == pc[c] = "idle" /\ CancelWatch(c)

\* The responder channel is a new one: a response left in the old one is lost.
SotwRewatch(c, req) ==
    /\ pc[c] = "cancelled"
    /\ CreateWatch(c, SetResourceSubscription(sub[c], req.resourceNames),
                   SotwReplyEvenIfEmpty(req), <<>>)

Marshals(resp) == \A n \in Names : resp.resources[n] \notin Unmarshalable

\* send: drop the response, fail to marshal it, or send it.
SotwSend(c) ==
    /\ pc[c] = "idle" /\ chan[c] # <<>>
    /\ chan' = [chan EXCEPT ![c] = Tail(@)]
    /\ LET resp == Head(chan[c])
       IN  IF ~responseMatchesCurrentSubscription(resp, sub[c])
           THEN UNCHANGED <<cacheVars, pc, sub, cancel, replied>>
           ELSE IF ~Marshals(resp)
           THEN Fail(c)
           ELSE /\ sub' = [sub EXCEPT ![c] = SetReturnedResources(@, resp.returnedResources)]
                /\ replied' = [replied EXCEPT ![c] = TRUE]
                /\ UNCHANGED <<cacheVars, pc, cancel>>

-----------------------------------------------------------------------------
(* Delta.  A request is handled once the channel was seen empty.           *)

DeltaReplyEvenIfEmpty(s, req) == s.wildcard /\ ~req.responseNonce

CreateDeltaWatch(c, s, req) ==
    IF VersionError(resources, [id |-> 0, stream |-> c, sub |-> s])
    THEN Fail(c) /\ UNCHANGED chan
    ELSE CreateWatch(c, s, DeltaReplyEvenIfEmpty(s, req), chan[c])

DeltaFirstRequest(c, req) ==
    /\ pc[c] = "new"
    /\ CreateDeltaWatch(c, NewDeltaSubscription(req.subscribe, req.unsubscribe,
                                                req.initialVersions, LegacyWildcard), req)

DeltaDrained_NoProcessAll(c) ==
    /\ pc[c] = "idle"
    /\ pc' = [pc EXCEPT ![c] = "drained"]
    /\ UNCHANGED <<cacheVars, sub, cancel, chan, replied>>

\* processAll found nothing more to send.
DeltaDrained(c) ==
    /\ pc[c] = "idle" /\ chan[c] = <<>>
    /\ pc' = [pc EXCEPT ![c] = "drained"]
    /\ UNCHANGED <<cacheVars, sub, cancel, chan, replied>>

DeltaCancelWatch(c) == pc[c] = "drained" /\ CancelWatch(c)

DeltaRewatch(c, req) ==
    /\ pc[c] = "cancelled"
    /\ CreateDeltaWatch(c, UpdateResourceSubscriptions(sub[c], req.subscribe, req.unsubscribe), req)

\* process: the response takes over what the client is known to hold.
DeltaProcess(c) ==
    /\ pc[c] = "idle" /\ chan[c] # <<>>
    /\ chan' = [chan EXCEPT ![c] = Tail(@)]
    /\ sub' = [sub EXCEPT ![c] = SetReturnedResources(@, Head(chan[c]).returnedResources)]
    /\ replied' = [replied EXCEPT ![c] = TRUE]
    /\ UNCHANGED <<cacheVars, pc, cancel>>

-----------------------------------------------------------------------------

CacheNext ==
    \/ \E n \in Names, v \in Values : UpdateResource(n, v)
    \/ \E n \in Names : DeleteResource(n)
    \/ \E toUpdate \in [Names -> Values \cup {None}], toDelete \in SUBSET Names :
          UpdateResources(toUpdate, toDelete)
    \/ \E contents \in [Names -> Values \cup {None}] : SetResources(contents)

SotwNext(c) ==
    \/ \E req \in SotwRequests : SotwFirstRequest(c, req) \/ SotwRewatch(c, req)
    \/ SotwCloseWatch(c)
    \/ SotwSend(c)

DeltaNext(c) ==
    \/ \E req \in DeltaRequests : DeltaFirstRequest(c, req) \/ DeltaRewatch(c, req)
    \/ DeltaDrained(c)
    \/ DeltaCancelWatch(c)
    \/ DeltaProcess(c)

Next ==
    \/ CacheNext
    \/ \E c \in Streams : Open(c) \/ Shutdown(c)
    \/ \E c \in SotwStreams : SotwNext(c)
    \/ \E c \in DeltaStreams : DeltaNext(c)

Spec == Init /\ [][Next]_vars

-----------------------------------------------------------------------------
(* Properties.                                                             *)

\* Types of all variables but the counter.
StateTypes ==
    /\ resources \in [Names -> CachedResource \cup {None}]
    /\ version \in Nat
    /\ resourceWatches \in [Names -> SUBSET Watch]
    /\ prefixWatches \in [Globs -> SUBSET Watch]
    /\ wildcardWatches \subseteq Watch
    /\ currentWatchID \in Nat
    /\ failed \in BOOLEAN
    /\ pc \in [Streams -> {"closed", "new", "idle", "drained", "cancelled", "failing"}]
    /\ sub \in [Streams -> Sub]
    /\ cancel \in [Streams -> Watch \cup {None}]
    /\ chan \in [Streams -> Seq(Response)]
    /\ replied \in [Streams -> BOOLEAN]

\* Every variable of the cache and of the stream loops has the type of the
\* field it stands for.
TypeOK == StateTypes /\ watchCount \in Int

\* A watch that trackWatch opened is found under every name and every prefix it
\* subscribes to, or under the wildcard, and nowhere else, until removeWatch
\* takes it out of all of them at once: no index keeps a watch another dropped.
IndexesAgree ==
    \A w \in Tracked :
        /\ w \in wildcardWatches <=> w.sub.wildcard
        /\ \A n \in Names : w \in resourceWatches[n] <=> byName(w, n)
        /\ \A g \in Globs : w \in prefixWatches[g] <=> byPrefix(w, g)

\* The client of w was told the version of every resource it asks for in the
\* contents res and, where removals are told, holds no resource that is gone.
UpToDate(res, w) ==
    \A n \in Names :
        /\ n \in Requested(w.sub) /\ res[n] # None =>
              w.sub.returnedResources[n] = getVersion(res, w, n)
        /\ n \in Known(w.sub) /\ (isDelta(w) \/ sendFullStateResponses(w)) =>
              res[n] # None /\ n \in Requested(w.sub)

\* An open watch is owed nothing: as long as no update reported an error, the
\* client of every open watch is up to date.  An update that notifyAll does not
\* bring to a watch it concerns is lost until the resource changes again.
OpenWatchOwedNothing ==
    ~failed => \A w \in Tracked : UpToDate(resources, w)

\* An open watch belongs to a live stream that can still cancel it: it is the one
\* its stream's cancel function removes, so a stream has at most one.  A watch
\* that outlives its stream sends on a closed channel or leaks.
WatchesAreCancellable ==
    \A w \in Tracked :
        /\ cancel[w.stream] = w
        /\ pc[w.stream] \in {"idle", "drained"}

\* sendResponse is called at most once for a watch: an answered watch is no longer
\* open and no two queued responses answer the same watch.
AnsweredAtMostOnce ==
    \A c \in Streams : \A i \in DOMAIN chan[c] :
        chan[c][i].watch # 0 =>
            /\ \A w \in Tracked : w.id # chan[c][i].watch
            /\ \A j \in DOMAIN chan[c] : chan[c][j].watch = chan[c][i].watch => j = i

\* The cache sends while it holds its lock and the stream needs that lock to
\* cancel, so a full channel is a deadlock.  A responder channel holds one
\* response and the muxed channel two for each type: no send ever finds it full.
SendNeverBlocks ==
    \A c \in Streams : Len(chan[c]) <= IF c \in SotwStreams THEN 1 ELSE 2

\* A stream is never stuck: when its loop waits, its watch is open, or a response
\* is queued, or the client was sent one to acknowledge, or it subscribes to
\* nothing.
StreamNotStuck ==
    \A c \in Streams :
        pc[c] = "idle" =>
            \/ HasOpenWatch(c)
            \/ chan[c] # <<>>
            \/ replied[c]
            \/ ~sub[c].wildcard /\ sub[c].subscribedResourceNames = {}
                                /\ sub[c].subscribedPrefixes = {}

\* On a state of the world stream every queued response is for the current
\* subscription, so send never drops one, and the server takes a client to know
\* only what it subscribes to, so a later subscription is always answered.
SotwKnowsOnlySubscribed ==
    \A c \in SotwStreams :
        /\ ~sub[c].wildcard => Known(sub[c]) \subseteq Requested(sub[c])
        /\ pc[c] = "idle" => \A i \in DOMAIN chan[c] :
               responseMatchesCurrentSubscription(chan[c][i], sub[c])

\* NumCacheWatches "returns the number of active watches on the cache in general":
\* every open watch is counted.  (A watch that subscribes to nothing is counted too,
\* though no index holds it, so the count may exceed the watches of the indexes.)
WatchCountCoversActiveWatches == watchCount >= Cardinality(Tracked)
=============================================================================
