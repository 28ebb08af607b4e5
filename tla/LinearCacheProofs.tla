--------------------------- MODULE LinearCacheProofs ---------------------------
(***************************************************************************)
(* The inductive invariant of LinearCache, for any sets of names, globs,   *)
(* contents, streams and requests; lemmas about the operators of the       *)
(* model; every step preserves the invariant.                              *)
(*                                                                         *)
(* Then, that no stream is stuck and a state of the world stream is known  *)
(* to hold only what it subscribes to.  A response that no longer fits the *)
(* subscription would be dropped by send, and its stream then waits for    *)
(* nothing, so the two are proved together.  At the end, every step of     *)
(* LinearCache is a step of WatchService, or changes nothing there, when   *)
(* the inductive invariant holds before and after it; and the theorems.    *)
(***************************************************************************)
EXTENDS LinearCacheService, TLAPS, FiniteSetTheorems

\* A leaf is for Zenon, or for the SMT solver where it cites it: arithmetic and sequences.
USE Zenon

-----------------------------------------------------------------------------
(* Types of the operators on subscriptions.                                *)

\* Replacing the tokens of a state of the world subscription keeps it well formed:
\* SetResourceSubscription.
LEMMA SetResourceSubscriptionType ==
    ASSUME NEW V, NEW s \in SubscriptionsOver(V), NEW subscribed \in SUBSET Tokens
    PROVE  SetResourceSubscription(s, subscribed) \in SubscriptionsOver(V)
  BY SMTT(30), TokenAssumption DEF SetResourceSubscription, SubscriptionsOver, Tokens

\* Adding and removing tokens keeps a delta subscription well formed when the
\* empty version is a version: UpdateResourceSubscriptions.
LEMMA UpdateResourceSubscriptionsType ==
    ASSUME NEW V, Blank \in V, NEW s \in SubscriptionsOver(V),
           NEW subscribed \in SUBSET Tokens, NEW unsubscribed \in Seq(Tokens)
    PROVE  UpdateResourceSubscriptions(s, subscribed, unsubscribed) \in SubscriptionsOver(V)
  BY TokenAssumption DEF UpdateResourceSubscriptions, SubscriptionsOver, Tokens

\* A new subscription is well formed: newSubscription.
LEMMA NewSubscriptionType ==
    ASSUME NEW V, NEW empty \in BOOLEAN, NEW legacy \in BOOLEAN,
           NEW versions \in [Names -> V \cup {None}]
    PROVE  newSubscription(empty, legacy, versions) \in SubscriptionsOver(V)
  BY DEF newSubscription, SubscriptionsOver

\* The subscriptions the servers build from the requests of LinearCache.
LEMMA RequestedSubscriptionType ==
    /\ NoSubscription \in Sub
    /\ \A req \in SotwRequests :
          /\ NewSotwSubscription(req.resourceNames, LegacyWildcard) \in Sub
          /\ \A s \in Sub : SetResourceSubscription(s, req.resourceNames) \in Sub
    /\ \A req \in DeltaRequests :
          /\ NewDeltaSubscription(req.subscribe, req.unsubscribe,
                                  req.initialVersions, LegacyWildcard) \in Sub
          /\ \A s \in Sub :
                UpdateResourceSubscriptions(s, req.subscribe, req.unsubscribe) \in Sub
<1>1. NothingKnown \in [Names -> Versions \cup {None}] /\ Blank \in Versions
  BY DEF NothingKnown, Versions
<1>2. NoSubscription \in Sub
  BY <1>1, NewSubscriptionType DEF NoSubscription, Sub
<1>3. ASSUME NEW req \in SotwRequests
      PROVE  /\ NewSotwSubscription(req.resourceNames, LegacyWildcard) \in Sub
             /\ \A s \in Sub : SetResourceSubscription(s, req.resourceNames) \in Sub
  <2>1. req.resourceNames \in SUBSET Tokens /\ LegacyWildcard \in BOOLEAN
    BY LinearAssumption DEF LinearAssumption, SotwRequest
  <2> QED  BY <1>1, <2>1, NewSubscriptionType, SetResourceSubscriptionType
           DEF NewSotwSubscription, Sub
<1>4. ASSUME NEW req \in DeltaRequests
      PROVE  /\ NewDeltaSubscription(req.subscribe, req.unsubscribe,
                                     req.initialVersions, LegacyWildcard) \in Sub
             /\ \A s \in Sub :
                   UpdateResourceSubscriptions(s, req.subscribe, req.unsubscribe) \in Sub
  <2>1. /\ req.subscribe \in SUBSET Tokens /\ req.unsubscribe \in Seq(Tokens)
        /\ req.initialVersions \in [Names -> Versions \cup {None}]
        /\ LegacyWildcard \in BOOLEAN
    BY LinearAssumption DEF LinearAssumption, DeltaRequest
  <2> QED  BY <1>1, <2>1, NewSubscriptionType, UpdateResourceSubscriptionsType
           DEF NewDeltaSubscription, Sub
<1> QED  BY <1>2, <1>3, <1>4

-----------------------------------------------------------------------------
(* The inductive invariant.                                                *)

\* The cancel function of a stream is for a watch of that stream, and no two
\* streams have cancel functions for the same watch id (nextWatchID).
CancelIds ==
    \A c \in Streams : cancel[c] # None =>
        /\ cancel[c].stream = c
        /\ cancel[c].id <= currentWatchID
        /\ \A d \in Streams : cancel[d] # None /\ cancel[d].id = cancel[c].id => d = c

\* The queued responses answer watches that were tracked.
QueuedIds ==
    \A c \in Streams : \A i \in DOMAIN chan[c] : chan[c][i].watch <= currentWatchID

\* Room in the response channels.  A delta stream finds its channel empty before
\* it cancels; until it has cancelled, its open watch may add one response, and
\* the watch it creates next may add another.
Room(c, p, queue, open) ==
    /\ c \in SotwStreams => Len(queue) <= IF open THEN 0 ELSE 1
    /\ c \in DeltaStreams => Len(queue) <= IF open THEN 1 ELSE 2
    /\ p \in {"drained", "cancelled"} => Len(queue) <= IF open THEN 0 ELSE 1
    /\ p \in {"closed", "new"} => queue = <<>>

QueueRoom == \A c \in Streams : Room(c, pc[c], chan[c], HasOpenWatch(c))

IInv ==
    /\ StateTypes
    /\ IndexesAgree
    /\ WatchesAreCancellable
    /\ CancelIds
    /\ OpenWatchOwedNothing
    /\ AnsweredAtMostOnce
    /\ QueuedIds
    /\ QueueRoom

-----------------------------------------------------------------------------
(* Open watches.                                                           *)

\* The three indexes have the types that StateTypes gives them.
IndexTypes ==
    /\ resourceWatches \in [Names -> SUBSET Watch]
    /\ prefixWatches \in [Globs -> SUBSET Watch]
    /\ wildcardWatches \subseteq Watch

\* Membership in Tracked, index by index.
LEMMA TrackedMembers ==
    \A w : w \in Tracked <=>
        \/ w \in wildcardWatches
        \/ \E n \in Names : w \in resourceWatches[n]
        \/ \E g \in Globs : w \in prefixWatches[g]
<1> TAKE w
<1>1. w \in UNION {resourceWatches[n] : n \in Names} <=> \E n \in Names : w \in resourceWatches[n]
  OBVIOUS
<1>2. w \in UNION {prefixWatches[g] : g \in Globs} <=> \E g \in Globs : w \in prefixWatches[g]
  OBVIOUS
<1> QED  BY <1>1, <1>2 DEF Tracked

\* Open watches have different ids, and each stream has at most one.
LEMMA TrackedFacts ==
    ASSUME StateTypes, WatchesAreCancellable, CancelIds
    PROVE  /\ Tracked \subseteq Watch
           /\ \A w \in Tracked, c \in Streams :
                 cancel[c] # None /\ cancel[c].id = w.id => cancel[c] = w
           /\ \A v \in Tracked, w \in Tracked : v.id = w.id => v = w
<1>1. Tracked \subseteq Watch
  BY SMTT(30) DEF StateTypes, Tracked
<1>2. \A w \in Tracked : w.stream \in Streams /\ cancel[w.stream] = w /\ w # None
  BY <1>1, LinearAssumption DEF Watch, WatchesAreCancellable, LinearAssumption
<1>3. \A w \in Tracked, c \in Streams :
         cancel[c] # None /\ cancel[c].id = w.id => cancel[c] = w
  BY SMTT(30), <1>2 DEF CancelIds
<1>4. \A v \in Tracked, w \in Tracked : v.id = w.id => v = w
  BY SMTT(30), <1>2, <1>3
<1> QED  BY <1>1, <1>3, <1>4

\* Removing a set of watches takes exactly those out of every index:
\* removeWatch and removeWildcardWatch.
LEMMA RemoveWatches ==
    ASSUME IndexTypes, IndexesAgree, NEW ws,
           \A r \in ws, w \in Tracked : r.id = w.id => r = w,
           removeWatches(ws)
    PROVE  /\ IndexTypes' /\ IndexesAgree'
           /\ Tracked' = Tracked \ ws
<1>1. \A n \in Names : resourceWatches'[n] = resourceWatches[n] \ ws
  BY SMTT(30), TrackedMembers DEF removeWatches, removedFromName, IndexesAgree
<1>2. \A g \in Globs : prefixWatches'[g] = prefixWatches[g] \ ws
  BY SMTT(30), TrackedMembers DEF removeWatches, removedFromPrefix, IndexesAgree, byPrefix
<1>3. wildcardWatches' = wildcardWatches \ ws
  BY TrackedMembers DEF removeWatches, removedFromWildcard, IndexesAgree
<1>4. IndexTypes'
  BY <1>1, <1>2, <1>3 DEF IndexTypes, removeWatches
<1>5. Tracked' = Tracked \ ws
  BY SMTT(30), <1>1, <1>2, <1>3 DEF Tracked
<1>6. IndexesAgree'
  BY SMTT(30), <1>1, <1>2, <1>3, <1>5 DEF IndexesAgree, byName, byPrefix
<1> QED  BY <1>4, <1>5, <1>6

\* Tracking a new watch adds it to the indexes of its subscription: trackWatch.
LEMMA TrackWatch ==
    ASSUME IndexTypes, IndexesAgree, NEW w \in Watch, w \notin Tracked,
           trackWatch(w)
    PROVE  /\ IndexTypes' /\ IndexesAgree'
           /\ Tracked \subseteq Tracked' /\ Tracked' \subseteq Tracked \cup {w}
<1>1. IndexTypes'
  BY DEF IndexTypes, trackWatch
<1>2. \A v :
        /\ v \in wildcardWatches' <=> v \in wildcardWatches \/ (v = w /\ w.sub.wildcard)
        /\ \A n \in Names : v \in resourceWatches'[n] <=>
              v \in resourceWatches[n] \/ (v = w /\ byName(w, n))
        /\ \A g \in Globs : v \in prefixWatches'[g] <=>
              v \in prefixWatches[g] \/ (v = w /\ byPrefix(w, g))
  BY DEF trackWatch
<1>3. /\ Tracked \subseteq Tracked' /\ Tracked' \subseteq Tracked \cup {w}
  BY SMTT(30), <1>2 DEF Tracked
<1>4. IndexesAgree'
  <2> SUFFICES ASSUME NEW v \in Tracked'
               PROVE  /\ v \in wildcardWatches' <=> v.sub.wildcard
                      /\ \A n \in Names : v \in resourceWatches'[n] <=> byName(v, n)
                      /\ \A g \in Globs : v \in prefixWatches'[g] <=> byPrefix(v, g)
    BY DEF IndexesAgree, byName, byPrefix
  <2>1. CASE v = w
    BY <2>1, <1>2, TrackedMembers DEF byName, byPrefix
  <2>2. CASE v # w
    BY <2>2, <1>2, <1>3 DEF IndexesAgree, byName, byPrefix
  <2> QED  BY <2>1, <2>2
<1> QED  BY <1>1, <1>3, <1>4

-----------------------------------------------------------------------------
(* Responses.                                                              *)

Contents == [Names -> CachedResource \cup {None}]

\* A watch that computeResponse has no response for is up to date.
LEMMA NoResponseUpToDate ==
    ASSUME NEW res \in Contents, NEW w \in Watch, NEW r, ~HasResponse(res, w, r)
    PROVE  UpToDate(res, w)
  BY DEF HasResponse, Changed, Removed, UpToDate, Known

\* computeResponse returns a response that names the watch it answers.
LEMMA ComputeResponseType ==
    ASSUME NEW res \in Contents, NEW ver \in Nat, NEW w \in Watch
    PROVE  /\ computeResponse(res, ver, w) \in Response
           /\ computeResponse(res, ver, w).watch = w.id
<1>1. \A n \in ResourcesToReturn(res, w) :
         /\ n \in Names /\ res[n] \in CachedResource
         /\ getVersion(res, w, n) \in Versions
  BY DEF ResourcesToReturn, Changed, Requested, Contents, getVersion, CachedResource, Versions
<1>2. w.id \in Nat /\ w.sub.returnedResources \in [Names -> Versions \cup {None}]
  BY DEF Watch, Sub, SubscriptionsOver
<1>3. Removed(res, w) \subseteq Names
  BY DEF Removed, Known
<1> QED  BY <1>1, <1>2, <1>3 DEF computeResponse, Response, CachedResource

\* WatchOf picks a watch of the stream when there is one.
LEMMA WatchOfStream ==
    ASSUME NEW ws, NEW c, \E w \in ws : w.stream = c
    PROVE  WatchOf(c, ws) \in ws /\ WatchOf(c, ws).stream = c
  BY DEF WatchOf

\* A watch that an update does not trigger asks for none of the modified names,
\* because every index it should be in holds it.
LEMMA UntriggeredAsksForNothingModified ==
    ASSUME IndexesAgree, NEW modified \in SUBSET Names,
           NEW w \in Tracked, w \in Watch,
           w \notin Triggered(modified), w \notin wildcardWatches
    PROVE  Requested(w.sub) \cap modified = {}
<1>1. ~w.sub.wildcard
  BY DEF IndexesAgree
<1>2. \A n \in modified : n \notin w.sub.subscribedResourceNames
  BY SMTT(30), <1>1 DEF IndexesAgree, byName, Triggered
<1>3. \A n \in modified, g \in w.sub.subscribedPrefixes : n \notin Matches[g]
  <2>1. w.sub.subscribedPrefixes \subseteq Globs
    BY DEF Watch, Sub, SubscriptionsOver
  <2> QED  BY SMTT(30), <1>1, <2>1 DEF IndexesAgree, byPrefix, Triggered
<1> QED  BY <1>1, <1>2, <1>3 DEF Requested, isSubscribedTo, matchesAnyPrefix

-----------------------------------------------------------------------------
(* Updates of the collection.                                              *)

\* An update answers and closes some of the open watches that have a response, and,
\* unless it reports an error, all of those it triggers: notifyAll.
LEMMA UpdateAnswers ==
    ASSUME IInv, NEW res \in Contents, NEW modified \in SUBSET Names, Update(res, modified)
    PROVE  \E answered \in SUBSET Tracked :
               /\ IndexTypes' /\ IndexesAgree'
               /\ Tracked' = Tracked \ answered
               /\ \A w \in answered : HasResponse(res, w, FALSE)
               /\ ~failed' => /\ ~failed
                              /\ \A w \in (Triggered(modified) \cup wildcardWatches) \ answered :
                                    ~HasResponse(res, w, FALSE)
               /\ \A c \in Streams :
                     \/ /\ chan'[c] = chan[c]
                        /\ \A w \in answered : w.stream # c
                     \/ \E w \in answered :
                           /\ w.stream = c
                           /\ chan'[c] = Append(chan[c], computeResponse(res, version + 1, w))
<1> DEFINE triggered == Triggered(modified)
<1>1. PICK visited \in Visits(res, triggered) :
         LET answered == {w \in visited : HasResponse(res, w, FALSE)}
         IN  /\ removeWatches(answered)
             /\ chan' = [c \in Streams |->
                   IF \E w \in answered : w.stream = c
                   THEN Append(chan[c], computeResponse(res, version + 1, WatchOf(c, answered)))
                   ELSE chan[c]]
             /\ failed' = (failed \/ Failing(res, triggered \cup wildcardWatches) # {})
  BY DEF Update, notifyAll
<1> DEFINE answered == {w \in visited : HasResponse(res, w, FALSE)}
<1>2. visited \subseteq Tracked /\ answered \in SUBSET Tracked
  <2>1. triggered \subseteq Tracked /\ wildcardWatches \subseteq Tracked
    BY TrackedMembers DEF Triggered
  <2>2. visited \subseteq triggered \cup wildcardWatches
    BY DEF Visits
  <2> QED  BY <2>1, <2>2
<1>3. IndexTypes' /\ IndexesAgree' /\ Tracked' = Tracked \ answered
  <2>1. \A r \in answered, w \in Tracked : r.id = w.id => r = w
    BY <1>2, TrackedFacts DEF IInv
  <2>2. removeWatches(answered)
    BY <1>1
  <2>3. IndexTypes /\ IndexesAgree
    BY DEF IInv, StateTypes, IndexTypes
  <2> HIDE DEF answered
  <2> QED  BY <2>1, <2>2, <2>3, RemoveWatches
<1>4. ASSUME ~failed'
      PROVE  /\ ~failed
             /\ \A w \in (triggered \cup wildcardWatches) \ answered : ~HasResponse(res, w, FALSE)
  <2>1. visited = triggered \cup wildcardWatches
    BY <1>1, <1>4 DEF Visits, Failing
  <2> QED  BY <1>1, <1>4, <2>1
<1>5. ASSUME NEW c \in Streams
      PROVE  \/ chan'[c] = chan[c] /\ \A w \in answered : w.stream # c
             \/ \E w \in answered :
                   /\ w.stream = c
                   /\ chan'[c] = Append(chan[c], computeResponse(res, version + 1, w))
  <2>1. CASE \A w \in answered : w.stream # c
    BY <1>1, <2>1
  <2>2. CASE \E w \in answered : w.stream = c
    <3>1. chan'[c] = Append(chan[c], computeResponse(res, version + 1, WatchOf(c, answered)))
      BY <1>1, <2>2
    <3> HIDE DEF answered
    <3>2. WatchOf(c, answered) \in answered /\ WatchOf(c, answered).stream = c
      BY <2>2, WatchOfStream
    <3> QED  BY <3>1, <3>2
  <2> QED  BY <2>1, <2>2
<1>6. \A w \in answered : HasResponse(res, w, FALSE)
  OBVIOUS
<1> HIDE DEF answered
<1> QED  BY <1>2, <1>3, <1>4, <1>5, <1>6

\* Installing contents that differ from the present ones only in the modified
\* names preserves the invariant: notifyAll.
LEMMA UpdateStep ==
    ASSUME IInv, NEW res \in Contents, NEW modified \in SUBSET Names,
           \A n \in Names \ modified : res[n] = resources[n],
           Update(res, modified)
    PROVE  IInv'
<1> USE DEF IInv
<1>1. PICK answered \in SUBSET Tracked :
         /\ IndexTypes' /\ IndexesAgree'
         /\ Tracked' = Tracked \ answered
         /\ ~failed' => /\ ~failed
                        /\ \A w \in (Triggered(modified) \cup wildcardWatches) \ answered :
                              ~HasResponse(res, w, FALSE)
         /\ \A c \in Streams :
               \/ /\ chan'[c] = chan[c]
                  /\ \A w \in answered : w.stream # c
               \/ \E w \in answered :
                     /\ w.stream = c
                     /\ chan'[c] = Append(chan[c], computeResponse(res, version + 1, w))
  BY UpdateAnswers
<1>2. /\ version \in Nat /\ version' = version + 1 /\ resources' = res
      /\ UNCHANGED <<currentWatchID, pc, sub, cancel, replied>>
  BY DEF Update, StateTypes
<1>3. /\ Tracked \subseteq Watch
      /\ \A w \in Tracked : w.stream \in Streams /\ cancel[w.stream] = w /\ w # None
      /\ \A v \in Tracked, w \in Tracked : v.id = w.id => v = w
  BY TrackedFacts, LinearAssumption DEF LinearAssumption, Watch, WatchesAreCancellable
<1>4. answered \subseteq Tracked
  BY <1>1
<1>5. IndexTypes' /\ IndexesAgree' /\ Tracked' = Tracked \ answered
  BY <1>1
<1>6. \A c \in Streams :
         \/ /\ chan'[c] = chan[c]
            /\ \A w \in answered : w.stream # c
         \/ \E w \in answered, r \in Response :
               w.stream = c /\ r.watch = w.id /\ chan'[c] = Append(chan[c], r)
  <2>1. ASSUME NEW w \in answered
        PROVE  /\ computeResponse(res, version + 1, w) \in Response
               /\ computeResponse(res, version + 1, w).watch = w.id
    <3>1. w \in Watch /\ version + 1 \in Nat
      BY SMTT(30), <1>2, <1>3, <1>4
    <3> QED  BY <3>1, ComputeResponseType
  <2> QED  BY <1>1, <2>1
<1>7. StateTypes'
  <2>1. resources' \in Contents /\ version' \in Nat
    BY SMTT(30), <1>2
  <2>2. chan' \in [Streams -> Seq(Response)]
    <3>1. DOMAIN chan' = Streams /\ chan' = [c \in Streams |-> chan'[c]]
      BY DEF Update, notifyAll
    <3>2. ASSUME NEW c \in Streams PROVE chan'[c] \in Seq(Response)
      <4>1. chan[c] \in Seq(Response)
        BY DEF StateTypes
      <4>2. \A r \in Response : Append(chan[c], r) \in Seq(Response)
        BY SMTT(30), <4>1
      <4> QED  BY <1>6, <4>1, <4>2
    <3> QED  BY <3>1, <3>2
  <2>3. failed' \in BOOLEAN
    BY DEF Update, notifyAll, StateTypes
  <2> QED  BY <1>2, <1>5, <2>1, <2>2, <2>3 DEF StateTypes, Contents, IndexTypes
<1>8. WatchesAreCancellable' /\ CancelIds'
  BY <1>2, <1>5 DEF WatchesAreCancellable, CancelIds
<1>9. OpenWatchOwedNothing'
  <2> SUFFICES ASSUME ~failed', NEW w \in Tracked'
               PROVE  UpToDate(res, w)
    BY <1>2 DEF OpenWatchOwedNothing, UpToDate, getVersion
  <2>1. w \in Tracked /\ w \in Watch /\ w \notin answered /\ UpToDate(resources, w)
    BY <1>1, <1>3, <1>5 DEF OpenWatchOwedNothing
  <2>3. CASE w \in Triggered(modified) \cup wildcardWatches
    <3>1. ~HasResponse(res, w, FALSE)
      BY <1>1, <2>1, <2>3
    <3> QED  BY <2>1, <3>1, NoResponseUpToDate
  <2>4. CASE w \notin Triggered(modified) \cup wildcardWatches
    <3>1. Requested(w.sub) \cap modified = {}
      BY <2>1, <2>4, UntriggeredAsksForNothingModified
    <3>2. \A n \in Requested(w.sub) : res[n] = resources[n]
      BY <3>1 DEF Requested
    <3> QED  BY <2>1, <3>2 DEF UpToDate, getVersion
  <2> QED  BY <2>3, <2>4
<1>10. QueuedIds'
  <2> SUFFICES ASSUME NEW c \in Streams, NEW i \in DOMAIN chan'[c]
               PROVE  chan'[c][i].watch <= currentWatchID
    BY <1>2 DEF QueuedIds
  <2>1. chan[c] \in Seq(Response)
    BY DEF StateTypes
  <2>2. \A w \in answered : w.id <= currentWatchID
    BY <1>3, <1>4 DEF CancelIds
  <2> QED  BY SMTT(30), <1>6, <2>1, <2>2 DEF QueuedIds
<1>11. AnsweredAtMostOnce'
  <2> SUFFICES ASSUME NEW c \in Streams, NEW i \in DOMAIN chan'[c], chan'[c][i].watch # 0
               PROVE  /\ \A w \in Tracked' : w.id # chan'[c][i].watch
                      /\ \A j \in DOMAIN chan'[c] : chan'[c][j].watch = chan'[c][i].watch => j = i
    BY DEF AnsweredAtMostOnce
  <2>1. chan[c] \in Seq(Response)
    BY DEF StateTypes
  <2>2. CASE chan'[c] = chan[c]
    BY SMTT(30), <1>5, <2>2 DEF AnsweredAtMostOnce
  <2>3. ASSUME NEW w \in answered, NEW r \in Response,
               r.watch = w.id, chan'[c] = Append(chan[c], r)
        PROVE  /\ \A v \in Tracked' : v.id # chan'[c][i].watch
               /\ \A j \in DOMAIN chan'[c] : chan'[c][j].watch = chan'[c][i].watch => j = i
    <3>1. /\ DOMAIN chan[c] = 1..Len(chan[c]) /\ Len(chan[c]) \in Nat
          /\ DOMAIN chan'[c] = 1..(Len(chan[c]) + 1)
          /\ \A j \in 1..Len(chan[c]) : chan'[c][j] = chan[c][j]
          /\ chan'[c][Len(chan[c]) + 1] = r
      BY SMTT(30), <2>1, <2>3
    <3>2. \A j \in 1..Len(chan[c]) : chan[c][j].watch # 0 => chan[c][j].watch # w.id
      BY SMTT(30), <1>4, <3>1 DEF AnsweredAtMostOnce
    <3>3. \A v \in Tracked' : v \in Tracked /\ v.id # w.id
      BY <1>3, <1>4, <1>5
    <3>4. CASE i = Len(chan[c]) + 1
      BY SMTT(30), <2>3, <3>1, <3>2, <3>3, <3>4
    <3>5. CASE i \in 1..Len(chan[c])
      BY SMTT(30), <2>3, <3>1, <3>2, <3>3, <3>5 DEF AnsweredAtMostOnce
    <3> QED  BY SMTT(30), <3>1, <3>4, <3>5
  <2> QED  BY <1>6, <2>2, <2>3
<1>12. QueueRoom'
  <2> SUFFICES ASSUME NEW c \in Streams
               PROVE  Room(c, pc[c], chan'[c], HasOpenWatch(c)')
    BY <1>2 DEF QueueRoom, Room
  <2>1. chan[c] \in Seq(Response)
    BY DEF StateTypes
  <2>2. CASE chan'[c] = chan[c] /\ \A w \in answered : w.stream # c
    <3>1. HasOpenWatch(c)' <=> HasOpenWatch(c)
      BY <1>5, <2>2 DEF HasOpenWatch
    <3> QED  BY <2>2, <3>1 DEF QueueRoom, Room
  <2>3. ASSUME NEW w \in answered, NEW r \in Response,
               w.stream = c, chan'[c] = Append(chan[c], r)
        PROVE  Room(c, pc[c], chan'[c], HasOpenWatch(c)')
    <3>1. HasOpenWatch(c) /\ ~HasOpenWatch(c)'
      BY SMTT(30), <1>3, <1>4, <1>5, <2>3 DEF HasOpenWatch
    <3>2. Len(chan'[c]) = Len(chan[c]) + 1 /\ Len(chan[c]) \in Nat
      BY SMTT(30), <2>1, <2>3
    <3>3. pc[c] \in {"idle", "drained"}
      BY <1>4, <2>3 DEF WatchesAreCancellable
    <3> QED  BY SMTT(30), <3>1, <3>2, <3>3 DEF QueueRoom, Room
  <2> QED  BY <1>6, <2>2, <2>3
<1> QED  BY <1>5, <1>7, <1>8, <1>9, <1>10, <1>11, <1>12

\* An update of the collection that changes only the names it reports as modified.
CacheUpdates ==
    \E res \in Contents, modified \in SUBSET Names :
        /\ \A n \in Names \ modified : res[n] = resources[n]
        /\ Update(res, modified)

\* UpdateResource, DeleteResource, UpdateResources and SetResources change only
\* the names they report as modified.
LEMMA CacheNextUpdates ==
    ASSUME IInv, CacheNext
    PROVE  CacheUpdates
<1> USE DEF Contents
<1>1. resources \in Contents /\ \A v \in Values : newCachedResource(v) \in CachedResource
  BY SMTT(30) DEF IInv, StateTypes, newCachedResource, CachedResource
<1>2. ASSUME NEW n \in Names, NEW v \in Values, UpdateResource(n, v) PROVE CacheUpdates
  <2> DEFINE res == [resources EXCEPT ![n] = newCachedResource(v)]
  <2>1. res \in Contents /\ \A m \in Names \ {n} : res[m] = resources[m]
    BY <1>1
  <2> HIDE DEF res
  <2>2. Update(res, {n})
    BY <1>2 DEF UpdateResource, res
  <2> QED  BY <2>1, <2>2 DEF CacheUpdates
<1>3. ASSUME NEW n \in Names, DeleteResource(n) PROVE CacheUpdates
  <2> DEFINE res == [resources EXCEPT ![n] = None]
  <2>1. res \in Contents /\ \A m \in Names \ {n} : res[m] = resources[m]
    BY <1>1
  <2> HIDE DEF res
  <2>2. Update(res, {n})
    BY <1>3 DEF DeleteResource, res
  <2> QED  BY <2>1, <2>2 DEF CacheUpdates
<1>4. ASSUME NEW toUpdate \in [Names -> Values \cup {None}], NEW toDelete \in SUBSET Names,
             UpdateResources(toUpdate, toDelete)
      PROVE  CacheUpdates
  <2> DEFINE modified == toDelete \cup {n \in Names : toUpdate[n] # None}
             res == WithUpdates(toUpdate, toDelete)
  <2>1. /\ res \in Contents /\ modified \in SUBSET Names
        /\ \A m \in Names \ modified : res[m] = resources[m]
    BY <1>1 DEF WithUpdates
  <2> HIDE DEF res, modified
  <2>2. Update(res, modified)
    BY <1>4 DEF UpdateResources, res, modified
  <2> QED  BY <2>1, <2>2 DEF CacheUpdates
<1>5. ASSUME NEW contents \in [Names -> Values \cup {None}], SetResources(contents)
      PROVE  CacheUpdates
  <2> DEFINE modified == {n \in Names : resources[n] # None \/ contents[n] # None}
             res == [n \in Names |-> IF contents[n] = None THEN None
                                     ELSE newCachedResource(contents[n])]
  <2>1. /\ res \in Contents /\ modified \in SUBSET Names
        /\ \A m \in Names \ modified : res[m] = resources[m]
    BY <1>1
  <2> HIDE DEF res, modified
  <2>2. Update(res, modified)
    BY <1>5 DEF SetResources, res, modified
  <2> QED  BY <2>1, <2>2 DEF CacheUpdates
<1> QED  BY <1>2, <1>3, <1>4, <1>5 DEF CacheNext

\* An update of the collection preserves the invariant.
LEMMA CacheStep ==
    ASSUME IInv, CacheNext
    PROVE  IInv'
<1>1. PICK res \in Contents, modified \in SUBSET Names :
         (\A n \in Names \ modified : res[n] = resources[n]) /\ Update(res, modified)
  BY CacheNextUpdates DEF CacheUpdates
<1> QED  BY <1>1, UpdateStep

-----------------------------------------------------------------------------
(* Creating and cancelling a watch.                                        *)

\* The cancel function of a stream closes the stream's open watch, if it has one,
\* and no other; it may run after the watch was answered.
LEMMA CancelClosesWatch ==
    ASSUME IInv, NEW c \in Streams, Cancel(c)
    PROVE  /\ IndexTypes' /\ IndexesAgree'
           /\ Tracked' = {v \in Tracked : v.stream # c}
<1> USE DEF IInv
<1>1. \A v \in Tracked : v.stream = c => v = cancel[c] /\ v # None
  BY TrackedFacts, LinearAssumption DEF WatchesAreCancellable, LinearAssumption
<1>2. IndexTypes
  BY DEF StateTypes, IndexTypes
<1>3. CASE cancel[c] = None
  <2>1. UNCHANGED <<resourceWatches, prefixWatches, wildcardWatches>>
    BY <1>3 DEF Cancel
  <2>2. Tracked' = Tracked
    BY <2>1 DEF Tracked
  <2>3. IndexTypes' /\ IndexesAgree'
    BY <1>2, <2>1, <2>2 DEF IndexTypes, IndexesAgree
  <2> QED  BY <1>1, <1>2, <1>3, <2>1, <2>2, <2>3
<1>4. CASE cancel[c] # None
  <2>1. removeWatches({cancel[c]})
    BY <1>4 DEF Cancel
  <2>2. \A r \in {cancel[c]}, v \in Tracked : r.id = v.id => r = v
    BY <1>4, TrackedFacts
  <2>3. /\ IndexTypes' /\ IndexesAgree'
        /\ Tracked' = Tracked \ {cancel[c]}
    BY <1>2, <2>1, <2>2, RemoveWatches
  <2>4. cancel[c].stream = c
    BY <1>4 DEF CancelIds
  <2> QED  BY <1>1, <2>3, <2>4
<1> QED  BY <1>3, <1>4

\* Cancelling a watch before the next one is created: SotwCloseWatch, DeltaCancelWatch.
LEMMA CancelWatchStep ==
    ASSUME IInv, NEW c \in Streams, (pc[c] = "idle" /\ c \in SotwStreams) \/ pc[c] = "drained",
           CancelWatch(c)
    PROVE  IInv'
<1> USE DEF IInv
<1>1. /\ Cancel(c)
      /\ pc' = [pc EXCEPT ![c] = "cancelled"]
      /\ UNCHANGED <<resources, version, currentWatchID, failed, sub, cancel, chan, replied>>
  BY DEF CancelWatch
<1>2. /\ IndexTypes' /\ IndexesAgree'
      /\ Tracked' = {v \in Tracked : v.stream # c}
  BY <1>1, CancelClosesWatch
<1>3. StateTypes'
  BY <1>1, <1>2 DEF StateTypes, IndexTypes
<1>4. WatchesAreCancellable' /\ CancelIds'
  BY SMTT(30), <1>1, <1>2 DEF WatchesAreCancellable, CancelIds, StateTypes
<1>5. OpenWatchOwedNothing'
  BY <1>1, <1>2 DEF OpenWatchOwedNothing, UpToDate, getVersion
<1>6. AnsweredAtMostOnce' /\ QueuedIds'
  BY <1>1, <1>2 DEF AnsweredAtMostOnce, QueuedIds
<1>7. QueueRoom'
  <2> SUFFICES ASSUME NEW d \in Streams
               PROVE  Room(d, pc'[d], chan[d], HasOpenWatch(d)')
    BY <1>1 DEF QueueRoom, Room
  <2>1. Len(chan[d]) \in Nat
    BY SMTT(30) DEF StateTypes
  <2>2. CASE d = c
    <3>1. ~HasOpenWatch(d)' /\ pc'[d] = "cancelled"
      BY <1>1, <1>2, <2>2 DEF HasOpenWatch, StateTypes
    <3> QED  BY SMTT(30), <2>1, <2>2, <3>1, LinearAssumption DEF QueueRoom, Room, LinearAssumption
  <2>3. CASE d # c
    <3>1. (HasOpenWatch(d)' <=> HasOpenWatch(d)) /\ pc'[d] = pc[d]
      BY <1>1, <1>2, <2>3 DEF HasOpenWatch, StateTypes
    <3> QED  BY <3>1 DEF QueueRoom, Room
  <2> QED  BY <2>2, <2>3
<1> QED  BY <1>2, <1>3, <1>4, <1>5, <1>6, <1>7

\* The end of a stream closes its watch and drops its channel: Shutdown.
LEMMA ShutdownStep ==
    ASSUME IInv, NEW c \in Streams, Shutdown(c)
    PROVE  IInv'
<1> USE DEF IInv
<1>1. /\ Cancel(c)
      /\ pc' = [pc EXCEPT ![c] = "closed"]
      /\ sub' = [sub EXCEPT ![c] = NoSubscription]
      /\ cancel' = [cancel EXCEPT ![c] = None]
      /\ chan' = [chan EXCEPT ![c] = <<>>]
      /\ replied' = [replied EXCEPT ![c] = FALSE]
      /\ UNCHANGED <<resources, version, currentWatchID, failed>>
  BY DEF Shutdown
<1>2. /\ IndexTypes' /\ IndexesAgree'
      /\ Tracked' = {v \in Tracked : v.stream # c}
  BY <1>1, CancelClosesWatch
<1>3. StateTypes'
  BY SMTT(30), <1>1, <1>2, RequestedSubscriptionType DEF StateTypes, IndexTypes
<1>4. WatchesAreCancellable' /\ CancelIds'
  <2>1. cancel'[c] = None /\ \A d \in Streams \ {c} : cancel'[d] = cancel[d] /\ pc'[d] = pc[d]
    BY <1>1 DEF StateTypes
  <2>2. \A v \in Tracked' : v \in Tracked /\ v.stream \in Streams \ {c}
    BY <1>2, TrackedFacts DEF Watch
  <2>3. WatchesAreCancellable'
    BY <2>1, <2>2 DEF WatchesAreCancellable
  <2>4. CancelIds'
    BY SMTT(30), <1>1, <2>1 DEF CancelIds
  <2> QED  BY <2>3, <2>4
<1>5. OpenWatchOwedNothing'
  BY <1>1, <1>2 DEF OpenWatchOwedNothing, UpToDate, getVersion
<1>6. /\ chan'[c] = <<>> /\ pc'[c] = "closed"
      /\ \A d \in Streams \ {c} : chan'[d] = chan[d] /\ pc'[d] = pc[d]
  <2>1. chan'[c] = <<>> /\ \A d \in Streams \ {c} : chan'[d] = chan[d]
    BY <1>1 DEF StateTypes
  <2>2. pc'[c] = "closed" /\ \A d \in Streams \ {c} : pc'[d] = pc[d]
    BY <1>1 DEF StateTypes
  <2> QED  BY <2>1, <2>2
<1>7. AnsweredAtMostOnce' /\ QueuedIds'
  BY SMTT(30), <1>1, <1>2, <1>6 DEF AnsweredAtMostOnce, QueuedIds
<1>8. QueueRoom'
  <2> SUFFICES ASSUME NEW d \in Streams
               PROVE  Room(d, pc'[d], chan'[d], HasOpenWatch(d)')
    BY DEF QueueRoom, Room
  <2>1. CASE d = c
    BY SMTT(30), <1>6, <2>1 DEF Room
  <2>2. CASE d # c
    <3>1. (HasOpenWatch(d)' <=> HasOpenWatch(d)) /\ pc'[d] = pc[d] /\ chan'[d] = chan[d]
      BY <1>2, <1>6, <2>2 DEF HasOpenWatch
    <3> QED  BY <3>1 DEF QueueRoom, Room
  <2> QED  BY <2>1, <2>2
<1> QED  BY <1>2, <1>3, <1>4, <1>5, <1>7, <1>8

\* Creating a watch for a stream that has none preserves the invariant, whether
\* it is answered at once or tracked: CreateWatch.
LEMMA CreateWatchStep ==
    ASSUME IInv, NEW c \in Streams, NEW s \in Sub, NEW reply, NEW queue,
           pc[c] \in {"new", "cancelled"},
           queue = <<>> \/ (c \in DeltaStreams /\ queue = chan[c]),
           CreateWatch(c, s, reply, queue)
    PROVE  IInv'
<1> DEFINE w == [id |-> nextWatchID, stream |-> c, sub |-> s]
           r == computeResponse(resources, version, [w EXCEPT !.id = 0])
<1> USE DEF IInv
<1>1. /\ UNCHANGED <<resources, version, failed>>
      /\ sub' = [sub EXCEPT ![c] = s]
      /\ replied' = [replied EXCEPT ![c] = FALSE]
      /\ pc' = [pc EXCEPT ![c] = "idle"]
  BY DEF CreateWatch
<1>2. /\ \A v \in Tracked : v \in Watch /\ v.stream \in Streams /\ v.stream # c
      /\ \A v \in Tracked : v.id <= currentWatchID
  <2>1. \A v \in Tracked : v \in Watch /\ v.stream \in Streams /\ v.stream # c
    BY TrackedFacts DEF WatchesAreCancellable, Watch
  <2> QED  BY SMTT(30), <2>1, LinearAssumption
           DEF WatchesAreCancellable, CancelIds, LinearAssumption
<1>3. w \in Watch /\ w # None /\ w \notin Tracked
  <2>1. w \in Watch /\ w.stream = c
    BY SMTT(30) DEF Watch, nextWatchID, StateTypes
  <2> QED  BY <2>1, <1>2, LinearAssumption DEF LinearAssumption
<1>4. r \in Response /\ r.watch = 0
  <2>1. [w EXCEPT !.id = 0] \in Watch /\ [w EXCEPT !.id = 0].id = 0
    BY <1>3 DEF Watch
  <2>2. resources \in Contents /\ version \in Nat
    BY DEF StateTypes, Contents
  <2> DEFINE z == [w EXCEPT !.id = 0]
  <2>3. z \in Watch /\ z.id = 0 /\ r = computeResponse(resources, version, z)
    BY <2>1
  <2> HIDE DEF w, r, z
  <2> QED  BY <2>2, <2>3, ComputeResponseType
<1>5. /\ queue \in Seq(Response) /\ Len(queue) \in Nat
      /\ Len(queue) <= IF c \in SotwStreams THEN 0 ELSE 1
      /\ \A i \in DOMAIN queue : queue[i].watch <= currentWatchID
      /\ \A i \in DOMAIN queue : queue[i].watch # 0 =>
            /\ \A v \in Tracked : v.id # queue[i].watch
            /\ \A j \in DOMAIN queue : queue[j].watch = queue[i].watch => j = i
  <2>1. CASE queue = <<>>
    BY SMTT(30), <2>1
  <2>2. CASE c \in DeltaStreams /\ queue = chan[c]
    <3>1. queue \in Seq(Response) /\ Len(queue) \in Nat
      BY SMTT(30), <2>2 DEF StateTypes
    <3>2. c \notin SotwStreams
      BY <2>2, LinearAssumption DEF LinearAssumption
    <3>3. Len(queue) <= 1
      BY SMTT(30), <1>2, <2>2, <3>1 DEF QueueRoom, Room, HasOpenWatch
    <3> QED  BY <2>2, <3>1, <3>2, <3>3 DEF QueuedIds, AnsweredAtMostOnce
  <2> QED  BY <2>1, <2>2
<1>6. IndexTypes /\ currentWatchID \in Nat
  BY DEF StateTypes, IndexTypes
<1>7. CASE HasResponse(resources, w, reply)
  <2>1. /\ chan' = [chan EXCEPT ![c] = Append(queue, r)]
        /\ cancel' = [cancel EXCEPT ![c] = None]
        /\ UNCHANGED <<resourceWatches, prefixWatches, wildcardWatches,
                       currentWatchID, watchCount>>
    BY <1>7 DEF CreateWatch
  <2> HIDE DEF w, r
  <2>2. Tracked' = Tracked
    BY <2>1 DEF Tracked
  <2>3. Append(queue, r) \in Seq(Response)
    BY SMTT(30), <1>4, <1>5
  <2>4. StateTypes'
    BY <1>1, <2>1, <2>3 DEF StateTypes
  <2>5. IndexesAgree'
    BY <2>1, <2>2 DEF IndexesAgree
  <2>6. WatchesAreCancellable' /\ CancelIds'
    BY SMTT(30), <1>1, <1>2, <2>1, <2>2 DEF WatchesAreCancellable, CancelIds, StateTypes
  <2>7. OpenWatchOwedNothing'
    BY <1>1, <2>2 DEF OpenWatchOwedNothing, UpToDate, getVersion
  <2>8. /\ \A i \in DOMAIN Append(queue, r) :
              (i \in DOMAIN queue /\ Append(queue, r)[i] = queue[i]) \/ Append(queue, r)[i] = r
        /\ Len(Append(queue, r)) = Len(queue) + 1
    BY SMTT(30), <1>4, <1>5
  <2>9. /\ chan'[c] = Append(queue, r)
        /\ \A d \in Streams \ {c} : chan'[d] = chan[d]
    BY <2>1 DEF StateTypes
  <2>10. AnsweredAtMostOnce'
    <3> SUFFICES ASSUME NEW d \in Streams, NEW i \in DOMAIN chan'[d], chan'[d][i].watch # 0
                 PROVE  /\ \A v \in Tracked : v.id # chan'[d][i].watch
                        /\ \A j \in DOMAIN chan'[d] : chan'[d][j].watch = chan'[d][i].watch => j = i
      BY <2>2 DEF AnsweredAtMostOnce
    <3>1. CASE d # c
      BY SMTT(30), <2>9, <3>1 DEF AnsweredAtMostOnce
    <3>2. CASE d = c
      <4>1. i \in DOMAIN queue /\ chan'[d][i] = queue[i]
        BY <1>4, <2>8, <2>9, <3>2
      <4>2. ASSUME NEW j \in DOMAIN chan'[d], chan'[d][j].watch = chan'[d][i].watch
            PROVE  j \in DOMAIN queue /\ chan'[d][j] = queue[j]
        BY <1>4, <2>8, <2>9, <3>2, <4>2
      <4> QED  BY <1>5, <4>1, <4>2
    <3> QED  BY <3>1, <3>2
  <2>11. QueuedIds'
    BY SMTT(30), <1>4, <1>5, <1>6, <2>1, <2>8, <2>9 DEF QueuedIds
  <2>12. QueueRoom'
    <3> SUFFICES ASSUME NEW d \in Streams
                 PROVE  Room(d, pc'[d], chan'[d], HasOpenWatch(d)')
      BY DEF QueueRoom, Room
    <3>1. CASE d = c
      <4>1. pc'[d] = "idle" /\ ~HasOpenWatch(d)' /\ Len(chan'[d]) = Len(queue) + 1
        BY <1>1, <1>2, <2>2, <2>8, <2>9, <3>1 DEF HasOpenWatch, StateTypes
      <4> QED  BY SMTT(30), <1>5, <3>1, <4>1, LinearAssumption DEF Room, LinearAssumption
    <3>2. CASE d # c
      <4>1. (HasOpenWatch(d)' <=> HasOpenWatch(d)) /\ pc'[d] = pc[d] /\ chan'[d] = chan[d]
        BY <1>1, <2>2, <2>9, <3>2 DEF HasOpenWatch, StateTypes
      <4> QED  BY <4>1 DEF QueueRoom, Room
    <3> QED  BY <3>1, <3>2
  <2> QED  BY <2>4, <2>5, <2>6, <2>7, <2>10, <2>11, <2>12
<1>8. CASE ~HasResponse(resources, w, reply)
  <2>1. /\ trackWatch(w)
        /\ chan' = [chan EXCEPT ![c] = queue]
        /\ cancel' = [cancel EXCEPT ![c] = w]
    BY <1>8 DEF CreateWatch
  <2>2. w.stream = c /\ w.id = currentWatchID + 1
    BY DEF nextWatchID
  <2>3. UpToDate(resources, w)
    <3>1. resources \in Contents
      BY DEF StateTypes, Contents
    <3> HIDE DEF w
    <3> QED  BY <1>3, <1>8, <3>1, NoResponseUpToDate
  <2> HIDE DEF w, r
  <2>4. /\ IndexTypes' /\ IndexesAgree'
        /\ Tracked \subseteq Tracked' /\ Tracked' \subseteq Tracked \cup {w}
        /\ currentWatchID' = currentWatchID + 1
    <3>1. currentWatchID' = currentWatchID + 1
      BY <2>1, <2>2 DEF trackWatch
    <3> QED  BY <1>3, <1>6, <2>1, <3>1, TrackWatch
  <2>5. StateTypes'
    <3>1. chan' \in [Streams -> Seq(Response)]
      BY <1>5, <2>1 DEF StateTypes
    <3>2. cancel' \in [Streams -> Watch \cup {None}]
      BY <1>3, <2>1 DEF StateTypes
    <3>3. /\ pc' \in [Streams -> {"closed", "new", "idle", "drained", "cancelled", "failing"}]
          /\ sub' \in [Streams -> Sub]
          /\ replied' \in [Streams -> BOOLEAN]
      BY <1>1 DEF StateTypes
    <3>4. /\ resources' \in [Names -> CachedResource \cup {None}] /\ version' \in Nat
          /\ failed' \in BOOLEAN
      BY <1>1 DEF StateTypes
    <3>5. currentWatchID' \in Nat
      BY SMTT(30), <1>6, <2>4
    <3> QED  BY <2>4, <3>1, <3>2, <3>3, <3>4, <3>5 DEF StateTypes, IndexTypes
  <2>6. WatchesAreCancellable'
    BY <1>1, <1>2, <2>1, <2>2, <2>4 DEF WatchesAreCancellable, StateTypes
  <2>7. CancelIds'
    <3>1. \A d \in Streams \ {c} : cancel'[d] = cancel[d]
      BY <2>1 DEF StateTypes
    <3>2. cancel'[c] = w /\ currentWatchID' = currentWatchID + 1
      BY <2>1, <2>4 DEF StateTypes
    <3>3. \A d \in Streams \ {c} : cancel[d] # None =>
             cancel[d].id \in Nat /\ cancel[d].id <= currentWatchID
      BY SMTT(30) DEF CancelIds, StateTypes, Watch
    <3> QED  BY SMTT(30), <1>6, <2>2, <3>1, <3>2, <3>3 DEF CancelIds
  <2>8. OpenWatchOwedNothing'
    BY <1>1, <2>3, <2>4 DEF OpenWatchOwedNothing, UpToDate, getVersion
  <2>9. /\ chan'[c] = queue
        /\ \A d \in Streams \ {c} : chan'[d] = chan[d]
    BY <2>1 DEF StateTypes
  <2>10. ASSUME NEW d \in Streams, NEW i \in DOMAIN chan'[d]
         PROVE  chan'[d][i].watch \in Nat /\ chan'[d][i].watch <= currentWatchID
    <3>1. chan'[d] \in Seq(Response)
      BY <2>5 DEF StateTypes
    <3>2. chan'[d][i].watch \in Nat
      <4>1. chan'[d][i] \in Response
        BY SMTT(30), <3>1
      <4> QED  BY <4>1 DEF Response
    <3>3. chan'[d][i].watch <= currentWatchID
      BY <1>5, <2>9 DEF QueuedIds
    <3> QED  BY <3>2, <3>3
  <2>11. QueuedIds'
    BY SMTT(30), <1>6, <2>4, <2>10 DEF QueuedIds
  <2>12. AnsweredAtMostOnce'
    BY SMTT(30), <1>5, <1>6, <2>2, <2>4, <2>9, <2>10 DEF AnsweredAtMostOnce
  <2>13. QueueRoom'
    <3> SUFFICES ASSUME NEW d \in Streams
                 PROVE  Room(d, pc'[d], chan'[d], HasOpenWatch(d)')
      BY DEF QueueRoom, Room
    <3>1. CASE d = c
      <4>1. pc'[d] = "idle" /\ chan'[d] = queue
        BY <1>1, <2>9, <3>1 DEF StateTypes
      <4> QED  BY SMTT(30), <1>5, <3>1, <4>1 DEF Room
    <3>2. CASE d # c
      <4>1. HasOpenWatch(d)' <=> HasOpenWatch(d)
        BY <2>2, <2>4, <3>2 DEF HasOpenWatch
      <4>2. pc'[d] = pc[d]
        BY <1>1, <3>2 DEF StateTypes
      <4>3. chan'[d] = chan[d]
        BY <2>9, <3>2
      <4> QED  BY <4>1, <4>2, <4>3 DEF QueueRoom, Room
    <3> QED  BY <3>1, <3>2
  <2> QED  BY <2>4, <2>5, <2>6, <2>7, <2>8, <2>11, <2>12, <2>13
<1> QED  BY <1>7, <1>8


-----------------------------------------------------------------------------
(* Steps of a stream that leave the cache alone.                           *)

PCs == {"closed", "new", "idle", "drained", "cancelled", "failing"}

\* A step of a stream that touches neither the cache nor the stream's cancel
\* function, and takes at most one response off its channel.
LEMMA QuietStep ==
    ASSUME IInv, NEW c \in Streams, NEW p \in PCs, NEW queue,
           queue = chan[c] \/ (chan[c] # <<>> /\ queue = Tail(chan[c])),
           HasOpenWatch(c) => p \in {"idle", "drained"},
           p \in {"new", "drained"} => queue = <<>>,
           p \in {"closed", "cancelled"} => FALSE,
           UNCHANGED <<cacheVars, cancel>>,
           pc' = [pc EXCEPT ![c] = p], chan' = [chan EXCEPT ![c] = queue],
           sub' \in [Streams -> Sub], replied' \in [Streams -> BOOLEAN]
    PROVE  IInv'
<1> USE DEF IInv, cacheVars
<1>1. Tracked' = Tracked /\ \A d \in Streams : HasOpenWatch(d)' <=> HasOpenWatch(d)
  BY DEF Tracked, HasOpenWatch
<1>2. chan[c] \in Seq(Response)
  BY DEF StateTypes
<1>3. /\ queue \in Seq(Response) /\ Len(queue) \in Nat /\ Len(queue) <= Len(chan[c])
      /\ \/ \A i \in DOMAIN queue : i \in DOMAIN chan[c] /\ queue[i] = chan[c][i]
         \/ \A i \in DOMAIN queue :
               i \in Nat /\ i + 1 \in DOMAIN chan[c] /\ queue[i] = chan[c][i + 1]
  <2>1. CASE queue = chan[c]
    BY SMTT(30), <1>2, <2>1
  <2>2. CASE chan[c] # <<>> /\ queue = Tail(chan[c])
    BY SMTT(30), <1>2, <2>2
  <2> QED  BY <2>1, <2>2
<1>4. StateTypes'
  <2>1. pc' \in [Streams -> PCs] /\ chan' \in [Streams -> Seq(Response)]
    BY <1>3 DEF StateTypes, PCs
  <2> QED  BY <2>1 DEF StateTypes, PCs
<1>5. /\ pc'[c] = p /\ chan'[c] = queue
      /\ \A d \in Streams \ {c} : pc'[d] = pc[d] /\ chan'[d] = chan[d]
  BY DEF StateTypes
<1>6. IndexesAgree' /\ OpenWatchOwedNothing' /\ CancelIds'
  <2>1. IndexesAgree'
    BY <1>1 DEF IndexesAgree
  <2>2. OpenWatchOwedNothing'
    BY <1>1 DEF OpenWatchOwedNothing, UpToDate, getVersion
  <2>3. CancelIds'
    BY DEF CancelIds
  <2> QED  BY <2>1, <2>2, <2>3
<1>7. WatchesAreCancellable'
  <2>1. \A w \in Tracked : w.stream \in Streams
    BY TrackedFacts DEF Watch
  <2> QED  BY <1>1, <1>5, <2>1 DEF WatchesAreCancellable, HasOpenWatch
<1>8. QueuedIds'
  <2> SUFFICES ASSUME NEW d \in Streams, NEW i \in DOMAIN chan'[d]
               PROVE  chan'[d][i].watch <= currentWatchID
    BY DEF QueuedIds
  <2>1. \E k \in DOMAIN chan[d] : chan'[d][i] = chan[d][k]
    <3>1. CASE d = c
      BY SMTT(30), <1>3, <1>5, <3>1
    <3>2. CASE d # c
      BY <1>5, <3>2
    <3> QED  BY <3>1, <3>2
  <2> QED  BY <2>1 DEF QueuedIds
<1>9. AnsweredAtMostOnce'
  <2> SUFFICES ASSUME NEW d \in Streams, NEW i \in DOMAIN chan'[d], chan'[d][i].watch # 0
               PROVE  /\ \A w \in Tracked : w.id # chan'[d][i].watch
                      /\ \A j \in DOMAIN chan'[d] : chan'[d][j].watch = chan'[d][i].watch => j = i
    BY <1>1 DEF AnsweredAtMostOnce
  <2>1. CASE d # c
    BY SMTT(30), <1>5, <2>1 DEF AnsweredAtMostOnce
  <2>2. CASE d = c /\ \A k \in DOMAIN queue : k \in DOMAIN chan[c] /\ queue[k] = chan[c][k]
    BY SMTT(30), <1>5, <2>2 DEF AnsweredAtMostOnce
  <2>3. CASE d = c /\ \A k \in DOMAIN queue :
                 k \in Nat /\ k + 1 \in DOMAIN chan[c] /\ queue[k] = chan[c][k + 1]
    <3>1. /\ chan'[d] = queue /\ i \in DOMAIN queue /\ i \in Nat
          /\ i + 1 \in DOMAIN chan[c] /\ queue[i] = chan[c][i + 1] /\ chan[c][i + 1].watch # 0
      BY <1>5, <2>3
    <3>2. /\ \A w \in Tracked : w.id # chan[c][i + 1].watch
          /\ \A k \in DOMAIN chan[c] : chan[c][k].watch = chan[c][i + 1].watch => k = i + 1
      BY <3>1 DEF AnsweredAtMostOnce
    <3>3. ASSUME NEW j \in DOMAIN queue, queue[j].watch = queue[i].watch PROVE j = i
      <4>1. j \in Nat /\ j + 1 \in DOMAIN chan[c] /\ queue[j] = chan[c][j + 1]
        BY <2>3
      <4>2. j + 1 = i + 1
        BY <3>1, <3>2, <3>3, <4>1
      <4> QED  BY SMTT(30), <3>1, <4>1, <4>2
    <3> QED  BY <3>1, <3>2, <3>3
  <2> QED  BY <1>3, <2>1, <2>2, <2>3
<1>10. QueueRoom'
  <2> SUFFICES ASSUME NEW d \in Streams
               PROVE  Room(d, pc'[d], chan'[d], HasOpenWatch(d))
    BY <1>1 DEF QueueRoom, Room
  <2>1. CASE d # c
    BY <1>5, <2>1 DEF QueueRoom, Room
  <2>2. CASE d = c
    <3>1. Len(chan[c]) \in Nat
      BY SMTT(30), <1>2
    <3> QED  BY SMTT(30), <1>3, <1>5, <2>2, <3>1 DEF QueueRoom, Room, PCs
  <2> QED  BY <2>1, <2>2
<1> QED  BY <1>4, <1>6, <1>7, <1>8, <1>9, <1>10

\* Only a stream whose loop waits, or that is about to cancel, has an open watch.
LEMMA OpenWatchWaits ==
    ASSUME IInv, NEW c \in Streams, HasOpenWatch(c)
    PROVE  pc[c] \in {"idle", "drained"}
  BY DEF IInv, HasOpenWatch, WatchesAreCancellable

\* The steps that leave the cache alone preserve the invariant: Open, Fail,
\* SotwSend, DeltaDrained and DeltaProcess.
LEMMA OpenStep ==
    ASSUME IInv, NEW c \in Streams, Open(c)
    PROVE  IInv'
<1>1. /\ pc[c] = "closed" /\ pc' = [pc EXCEPT ![c] = "new"] /\ chan[c] = <<>>
      /\ UNCHANGED <<cacheVars, cancel, sub, replied, chan>>
  BY DEF Open, IInv, QueueRoom, Room
<1>2. /\ ~HasOpenWatch(c) /\ chan' = [chan EXCEPT ![c] = chan[c]] /\ "new" \in PCs
      /\ sub' \in [Streams -> Sub] /\ replied' \in [Streams -> BOOLEAN]
  BY <1>1, OpenWatchWaits DEF IInv, StateTypes, PCs
<1> QED  BY <1>1, <1>2, QuietStep

\* A stream that cannot send or build a response fails and leaves the cache alone: Fail.
LEMMA FailStep ==
    ASSUME IInv, NEW c \in Streams, ~HasOpenWatch(c), NEW queue,
           queue = chan[c] \/ (chan[c] # <<>> /\ queue = Tail(chan[c])),
           chan' = [chan EXCEPT ![c] = queue], Fail(c)
    PROVE  IInv'
<1>1. /\ pc' = [pc EXCEPT ![c] = "failing"] /\ "failing" \in PCs
      /\ UNCHANGED <<cacheVars, cancel>>
      /\ sub' \in [Streams -> Sub] /\ replied' \in [Streams -> BOOLEAN]
  BY DEF Fail, IInv, StateTypes, PCs
<1> QED  BY <1>1, QuietStep

\* A response takes over what the client of its stream is known to hold.
LEMMA ResponseTakesOver ==
    ASSUME IInv, NEW c \in Streams, chan[c] # <<>>,
           sub' = [sub EXCEPT ![c] = SetReturnedResources(@, Head(chan[c]).returnedResources)]
    PROVE  sub' \in [Streams -> Sub]
<1>1. sub[c] \in Sub /\ chan[c] \in Seq(Response)
  BY DEF IInv, StateTypes
<1>2. Head(chan[c]).returnedResources \in [Names -> Versions \cup {None}]
  <2>1. Head(chan[c]) \in Response
    BY SMTT(30), <1>1
  <2> QED  BY <2>1 DEF Response
<1>3. SetReturnedResources(sub[c], Head(chan[c]).returnedResources) \in Sub
  BY <1>1, <1>2 DEF SetReturnedResources, Sub, SubscriptionsOver
<1> QED  BY <1>3 DEF IInv, StateTypes

\* Sending a response, or dropping one that does not match, takes it off the channel
\* of a state of the world stream: streamWrapper.send.
LEMMA SotwSendStep ==
    ASSUME IInv, NEW c \in SotwStreams, SotwSend(c)
    PROVE  IInv'
<1> DEFINE resp == Head(chan[c])
<1>1. /\ c \in Streams /\ pc[c] = "idle" /\ chan[c] # <<>>
      /\ chan' = [chan EXCEPT ![c] = Tail(chan[c])]
      /\ pc = [pc EXCEPT ![c] = "idle"] /\ "idle" \in PCs
  BY DEF SotwSend, Streams, IInv, StateTypes, PCs
<1>2. ~HasOpenWatch(c)
  <2>1. chan[c] \in Seq(Response)
    BY <1>1 DEF IInv, StateTypes
  <2> QED  BY SMTT(30), <1>1, <2>1 DEF IInv, QueueRoom, Room
<1>3. CASE ~responseMatchesCurrentSubscription(resp, sub[c])
  <2>1. UNCHANGED <<cacheVars, pc, sub, cancel, replied>>
    BY <1>3 DEF SotwSend
  <2>2. sub' \in [Streams -> Sub] /\ replied' \in [Streams -> BOOLEAN]
    BY <2>1 DEF IInv, StateTypes
  <2> QED  BY <1>1, <2>1, <2>2, QuietStep
<1>4. CASE responseMatchesCurrentSubscription(resp, sub[c]) /\ ~Marshals(resp)
  <2>1. Fail(c)
    BY <1>4 DEF SotwSend
  <2> QED  BY <1>1, <1>2, <2>1, FailStep
<1>5. CASE responseMatchesCurrentSubscription(resp, sub[c]) /\ Marshals(resp)
  <2>1. /\ sub' = [sub EXCEPT ![c] = SetReturnedResources(@, resp.returnedResources)]
        /\ replied' = [replied EXCEPT ![c] = TRUE]
        /\ UNCHANGED <<cacheVars, pc, cancel>>
    BY <1>5 DEF SotwSend
  <2>2. sub' \in [Streams -> Sub]
    BY <1>1, <2>1, ResponseTakesOver
  <2>3. replied' \in [Streams -> BOOLEAN]
    BY <2>1 DEF IInv, StateTypes
  <2> QED  BY <1>1, <2>1, <2>2, <2>3, QuietStep
<1> QED  BY <1>3, <1>4, <1>5

\* A delta stream finds its channel empty before it handles a request: processAll.
LEMMA DeltaDrainedStep ==
    ASSUME IInv, NEW c \in DeltaStreams, DeltaDrained(c)
    PROVE  IInv'
<1>1. /\ c \in Streams /\ chan[c] = <<>>
      /\ pc' = [pc EXCEPT ![c] = "drained"] /\ "drained" \in PCs
      /\ UNCHANGED <<cacheVars, cancel, sub, replied, chan>>
  BY DEF DeltaDrained, Streams, PCs
<1>2. /\ chan' = [chan EXCEPT ![c] = chan[c]]
      /\ sub' \in [Streams -> Sub] /\ replied' \in [Streams -> BOOLEAN]
  BY <1>1 DEF IInv, StateTypes
<1> QED  BY <1>1, <1>2, QuietStep

\* Sending a response takes it off the channel of a delta stream: process.
LEMMA DeltaProcessStep ==
    ASSUME IInv, NEW c \in DeltaStreams, DeltaProcess(c)
    PROVE  IInv'
<1>1. /\ c \in Streams /\ pc[c] = "idle" /\ chan[c] # <<>>
      /\ chan' = [chan EXCEPT ![c] = Tail(chan[c])]
      /\ sub' = [sub EXCEPT ![c] = SetReturnedResources(@, Head(chan[c]).returnedResources)]
      /\ replied' = [replied EXCEPT ![c] = TRUE]
      /\ UNCHANGED <<cacheVars, pc, cancel>>
      /\ pc = [pc EXCEPT ![c] = "idle"] /\ "idle" \in PCs
  BY DEF DeltaProcess, Streams, IInv, StateTypes, PCs
<1>2. sub' \in [Streams -> Sub]
  BY <1>1, ResponseTakesOver
<1>3. replied' \in [Streams -> BOOLEAN]
  BY <1>1 DEF IInv, StateTypes
<1> QED  BY <1>1, <1>2, <1>3, QuietStep

-----------------------------------------------------------------------------
(* Requests.                                                               *)

\* A delta watch is created, or its response cannot be computed: CreateDeltaWatch.
LEMMA CreateDeltaWatchStep ==
    ASSUME IInv, NEW c \in DeltaStreams, NEW s \in Sub, NEW req,
           pc[c] \in {"new", "cancelled"}, CreateDeltaWatch(c, s, req)
    PROVE  IInv'
<1>1. c \in Streams /\ ~HasOpenWatch(c)
  BY OpenWatchWaits DEF Streams
<1>2. CASE VersionError(resources, [id |-> 0, stream |-> c, sub |-> s])
  <2>1. Fail(c) /\ UNCHANGED chan
    BY <1>2 DEF CreateDeltaWatch
  <2>2. chan' = [chan EXCEPT ![c] = chan[c]]
    BY <1>1, <2>1 DEF IInv, StateTypes
  <2> QED  BY <1>1, <2>1, <2>2, FailStep
<1>3. CASE ~VersionError(resources, [id |-> 0, stream |-> c, sub |-> s])
  <2>1. CreateWatch(c, s, DeltaReplyEvenIfEmpty(s, req), chan[c])
    BY <1>3 DEF CreateDeltaWatch
  <2> QED  BY SMTT(30), <1>1, <2>1, CreateWatchStep
<1> QED  BY <1>2, <1>3

\* Each step of a state of the world stream preserves the invariant.
LEMMA SotwStep ==
    ASSUME IInv, NEW c \in SotwStreams, SotwNext(c)
    PROVE  IInv'
<1>1. c \in Streams /\ sub[c] \in Sub
  BY DEF Streams, IInv, StateTypes
<1>2. ASSUME NEW req \in SotwRequests, SotwFirstRequest(c, req) PROVE IInv'
  BY SMTT(30), <1>1, <1>2, RequestedSubscriptionType, CreateWatchStep DEF SotwFirstRequest
<1>3. ASSUME NEW req \in SotwRequests, SotwRewatch(c, req) PROVE IInv'
  BY SMTT(30), <1>1, <1>3, RequestedSubscriptionType, CreateWatchStep DEF SotwRewatch
<1>4. CASE SotwCloseWatch(c)
  BY <1>1, <1>4, CancelWatchStep DEF SotwCloseWatch
<1>5. CASE SotwSend(c)
  BY <1>5, SotwSendStep
<1> QED  BY <1>2, <1>3, <1>4, <1>5 DEF SotwNext

\* Each step of a delta stream preserves the invariant.
LEMMA DeltaStep ==
    ASSUME IInv, NEW c \in DeltaStreams, DeltaNext(c)
    PROVE  IInv'
<1>1. c \in Streams /\ sub[c] \in Sub
  BY DEF Streams, IInv, StateTypes
<1>2. ASSUME NEW req \in DeltaRequests, DeltaFirstRequest(c, req) PROVE IInv'
  BY SMTT(30), <1>1, <1>2, RequestedSubscriptionType, CreateDeltaWatchStep DEF DeltaFirstRequest
<1>3. ASSUME NEW req \in DeltaRequests, DeltaRewatch(c, req) PROVE IInv'
  BY SMTT(30), <1>1, <1>3, RequestedSubscriptionType, CreateDeltaWatchStep DEF DeltaRewatch
<1>4. CASE DeltaDrained(c)
  BY <1>4, DeltaDrainedStep
<1>5. CASE DeltaCancelWatch(c)
  BY <1>1, <1>5, CancelWatchStep DEF DeltaCancelWatch
<1>6. CASE DeltaProcess(c)
  BY <1>6, DeltaProcessStep
<1> QED  BY <1>2, <1>3, <1>4, <1>5, <1>6 DEF DeltaNext

-----------------------------------------------------------------------------
(* The second inductive invariant, stream by stream.                       *)

KnowsOnlyRequested(s) == ~s.wildcard => Known(s) \subseteq Requested(s)

SubscribesToNothing(s) ==
    ~s.wildcard /\ s.subscribedResourceNames = {} /\ s.subscribedPrefixes = {}

\* The open watch of a state of the world stream is for its present subscription, which
\* the queued responses fit; and the stream waits for something.
Sound(c) ==
    /\ c \in SotwStreams =>
          /\ \A w \in Tracked : w.stream = c => w.sub = sub[c]
          /\ KnowsOnlyRequested(sub[c])
          /\ pc[c] = "idle" => \A i \in DOMAIN chan[c] :
                responseMatchesCurrentSubscription(chan[c][i], sub[c])
    /\ pc[c] = "idle" =>
          HasOpenWatch(c) \/ chan[c] # <<>> \/ replied[c] \/ SubscribesToNothing(sub[c])

StreamsAreSound == \A c \in Streams : Sound(c)

-----------------------------------------------------------------------------
(* Subscriptions and responses.                                            *)

\* SetResourceSubscription forgets what is no longer subscribed to.
LEMMA SotwKnowsOnlyRequested ==
    /\ KnowsOnlyRequested(NoSubscription)
    /\ \A subscribed \in SUBSET Tokens :
          /\ KnowsOnlyRequested(NewSotwSubscription(subscribed, LegacyWildcard))
          /\ \A s \in Sub : KnowsOnlyRequested(s) =>
                KnowsOnlyRequested(SetResourceSubscription(s, subscribed))
<1>1. \A empty, legacy : KnowsOnlyRequested(newSubscription(empty, legacy, NothingKnown))
  BY DEF KnowsOnlyRequested, newSubscription, NothingKnown, Known
<1>2. ASSUME NEW subscribed \in SUBSET Tokens, NEW s, KnowsOnlyRequested(s)
      PROVE  KnowsOnlyRequested(SetResourceSubscription(s, subscribed))
  <2> DEFINE r == SetResourceSubscription(s, subscribed)
  <2>1. CASE s.allowLegacyWildcard /\ subscribed = {}
    <3>1. r = s
      BY <2>1 DEF SetResourceSubscription
    <3> QED  BY <1>2, <3>1
  <2>2. CASE ~(s.allowLegacyWildcard /\ subscribed = {})
    <3>1. /\ r.wildcard = (Star \in subscribed)
          /\ r.subscribedResourceNames = subscribed \cap Names
          /\ r.subscribedPrefixes = subscribed \cap Globs
          /\ Star \notin subscribed => \A n \in Names : r.returnedResources[n] # None =>
                n \in subscribed \/ matchesAnyPrefix(subscribed \cap Globs, n)
      BY <2>2 DEF SetResourceSubscription
    <3> HIDE DEF r
    <3>2. r.wildcard <=> Star \in subscribed
      BY <3>1
    <3>3. KnowsOnlyRequested(r)
      BY <3>1, <3>2 DEF KnowsOnlyRequested, Known, Requested, isSubscribedTo
    <3> QED  BY <3>3 DEF r
  <2> QED  BY <2>1, <2>2
<1> QED  BY <1>1, <1>2 DEF NoSubscription, NewSotwSubscription

\* A response fits the subscription of the watch it answers: computeResponse.
LEMMA ResponseFits ==
    ASSUME NEW res, NEW ver, NEW w \in Watch
    PROVE  responseMatchesCurrentSubscription(computeResponse(res, ver, w), w.sub)
<1>1. ResourcesToReturn(res, w) \subseteq Requested(w.sub)
  BY DEF ResourcesToReturn, Changed
<1>2. \A n \in Names :
          computeResponse(res, ver, w).returnedResources[n] # None => n \in Requested(w.sub)
  BY <1>1 DEF computeResponse, Removed, Known
<1> QED  BY <1>2 DEF responseMatchesCurrentSubscription, Requested

\* What a stream that a step leaves alone keeps.
LEMMA SoundKept ==
    ASSUME NEW c \in Streams, Sound(c),
           sub'[c] = sub[c], pc'[c] = pc[c], chan'[c] = chan[c], replied'[c] = replied[c],
           \A w : w.stream = c => (w \in Tracked' <=> w \in Tracked)
    PROVE  Sound(c)'
  BY DEF Sound, HasOpenWatch

-----------------------------------------------------------------------------
(* Steps.                                                                  *)

\* An update queues a response for each stream whose watch it closes.
LEMMA UpdateSound ==
    ASSUME IInv, StreamsAreSound, NEW res \in Contents, NEW modified \in SUBSET Names,
           Update(res, modified)
    PROVE  StreamsAreSound'
<1>1. PICK answered \in SUBSET Tracked :
         /\ Tracked' = Tracked \ answered
         /\ \A c \in Streams :
               \/ /\ chan'[c] = chan[c]
                  /\ \A w \in answered : w.stream # c
               \/ \E w \in answered :
                     /\ w.stream = c
                     /\ chan'[c] = Append(chan[c], computeResponse(res, version + 1, w))
  BY UpdateAnswers
<1>2. UNCHANGED <<pc, sub, replied>>
  BY DEF Update
<1>3. Tracked \subseteq Watch /\ chan \in [Streams -> Seq(Response)] /\ version + 1 \in Nat
  BY SMTT(30), TrackedFacts DEF IInv, StateTypes
<1> SUFFICES ASSUME NEW c \in Streams PROVE Sound(c)'
  BY DEF StreamsAreSound
<1>4. Sound(c)
  BY DEF StreamsAreSound
<1>5. CASE chan'[c] = chan[c] /\ \A w \in answered : w.stream # c
  BY <1>1, <1>2, <1>4, <1>5, SoundKept
<1>6. ASSUME NEW w \in answered, w.stream = c,
             chan'[c] = Append(chan[c], computeResponse(res, version + 1, w))
      PROVE  Sound(c)'
  <2> DEFINE r == computeResponse(res, version + 1, w)
  <2>1. w \in Watch /\ w \in Tracked
    BY <1>1, <1>3
  <2>2. r \in Response /\ responseMatchesCurrentSubscription(r, w.sub)
    BY <1>3, <2>1, ComputeResponseType, ResponseFits
  <2> HIDE DEF r
  <2>3. /\ chan'[c] # <<>>
        /\ \A i \in DOMAIN chan'[c] :
              (i \in DOMAIN chan[c] /\ chan'[c][i] = chan[c][i]) \/ chan'[c][i] = r
    BY SMTT(90), <1>3, <1>6, <2>2 DEF r
  <2> QED  BY <1>1, <1>2, <1>4, <1>6, <2>1, <2>2, <2>3 DEF Sound
<1> QED  BY <1>1, <1>5, <1>6

\* A new watch is answered or, unless it subscribes to nothing, found in an index.
LEMMA CreateSound ==
    ASSUME IInv, StreamsAreSound, NEW c \in Streams, NEW s \in Sub, NEW reply, NEW queue,
           pc[c] \in {"new", "cancelled"}, queue = <<>> \/ queue = chan[c],
           c \in SotwStreams => queue = <<>> /\ KnowsOnlyRequested(s),
           CreateWatch(c, s, reply, queue)
    PROVE  StreamsAreSound'
<1> DEFINE w == [id |-> nextWatchID, stream |-> c, sub |-> s]
           z == [w EXCEPT !.id = 0]
           r == computeResponse(resources, version, z)
<1>1. /\ resources \in Contents /\ version \in Nat /\ currentWatchID \in Nat
      /\ chan \in [Streams -> Seq(Response)] /\ IndexTypes /\ IndexesAgree
      /\ DOMAIN sub = Streams /\ DOMAIN pc = Streams /\ DOMAIN replied = Streams
  BY DEF IInv, StateTypes, Contents, IndexTypes
<1>2. /\ w \in Watch /\ w.stream = c /\ w.sub = s
      /\ z \in Watch /\ z.stream = c /\ z.sub = s
  BY SMTT(30), <1>1 DEF Watch, nextWatchID
<1>3. \A v \in Tracked : v.stream # c
  BY DEF IInv, WatchesAreCancellable
<1>4. /\ sub'[c] = s /\ pc'[c] = "idle"
      /\ \A d \in Streams \ {c} : /\ sub'[d] = sub[d] /\ pc'[d] = pc[d]
                                   /\ replied'[d] = replied[d] /\ chan'[d] = chan[d]
  BY <1>1 DEF CreateWatch
<1>5. ASSUME \A v \in Tracked : v \in Tracked', \A v \in Tracked' : v \in Tracked \/ v.stream = c,
             Sound(c)'
      PROVE  StreamsAreSound'
  <2> SUFFICES ASSUME NEW d \in Streams \ {c} PROVE Sound(d)'
    BY <1>5 DEF StreamsAreSound
  <2>1. Sound(d)
    BY DEF StreamsAreSound
  <2> QED  BY <1>4, <1>5, <2>1, SoundKept
<1>6. CASE HasResponse(resources, w, reply)
  <2>1. /\ chan'[c] = Append(queue, r)
        /\ UNCHANGED <<resourceWatches, prefixWatches, wildcardWatches>>
    BY <1>1, <1>6 DEF CreateWatch
  <2>2. r \in Response /\ responseMatchesCurrentSubscription(r, s)
    <3>1. r \in Response
      BY <1>1, <1>2, ComputeResponseType
    <3> QED  BY <1>2, <3>1, ResponseFits
  <2> HIDE DEF w, z, r
  <2>3. Tracked' = Tracked
    BY <2>1 DEF Tracked
  <2>4. chan'[c] # <<>> /\ (queue = <<>> => \A i \in DOMAIN chan'[c] : chan'[c][i] = r)
    BY SMTT(30), <1>1, <2>1, <2>2
  <2>5. Sound(c)'
    BY <1>3, <1>4, <2>2, <2>3, <2>4 DEF Sound
  <2> QED  BY <1>5, <2>3, <2>5
<1>7. CASE ~HasResponse(resources, w, reply)
  <2>1. trackWatch(w) /\ chan'[c] = queue
    BY <1>1, <1>7 DEF CreateWatch
  <2> HIDE DEF w, z, r
  <2>2. Tracked \subseteq Tracked' /\ Tracked' \subseteq Tracked \cup {w}
    BY <1>1, <1>2, <1>3, <2>1, TrackWatch
  <2>3. SubscribesToNothing(s) \/ w \in Tracked'
    <3>1. s.subscribedResourceNames \subseteq Names /\ s.subscribedPrefixes \subseteq Globs
      BY DEF Sub, SubscriptionsOver
    <3> QED  BY SMTT(30), <1>2, <2>1, <3>1
             DEF trackWatch, SubscribesToNothing, Tracked, byName, byPrefix
  <2>4. Sound(c)'
    BY SMTT(30), <1>2, <1>3, <1>4, <2>1, <2>2, <2>3 DEF Sound, HasOpenWatch
  <2> QED  BY <1>2, <1>5, <2>2, <2>4
<1> QED  BY <1>6, <1>7

\* A stream that stops waiting, or ends, has no open watch left.
LEMMA CancelSound ==
    ASSUME IInv, StreamsAreSound, NEW c \in Streams, Cancel(c), pc'[c] # "idle",
           sub'[c] = sub[c] \/ sub'[c] = NoSubscription,
           \A d \in Streams \ {c} : /\ sub'[d] = sub[d] /\ pc'[d] = pc[d]
                                    /\ replied'[d] = replied[d] /\ chan'[d] = chan[d]
    PROVE  StreamsAreSound'
<1>1. Tracked' = {v \in Tracked : v.stream # c}
  BY CancelClosesWatch
<1>2. KnowsOnlyRequested(NoSubscription)
  BY SotwKnowsOnlyRequested
<1>3. Sound(c)'
  BY <1>1, <1>2 DEF StreamsAreSound, Sound
<1>4. ASSUME NEW d \in Streams \ {c} PROVE Sound(d)'
  <2>1. Sound(d)
    BY DEF StreamsAreSound
  <2> QED  BY <1>1, <2>1, SoundKept
<1> QED  BY <1>3, <1>4 DEF StreamsAreSound

\* A step that leaves the watches alone and the stream not waiting.
LEMMA LeaveSound ==
    ASSUME IInv, StreamsAreSound, NEW c \in Streams, pc'[c] # "idle",
           UNCHANGED <<cacheVars, sub, replied>>,
           \A d \in Streams \ {c} : pc'[d] = pc[d] /\ chan'[d] = chan[d]
    PROVE  StreamsAreSound'
<1>1. Tracked' = Tracked
  BY DEF Tracked, cacheVars
<1>2. Sound(c)'
  BY <1>1 DEF StreamsAreSound, Sound
<1>3. ASSUME NEW d \in Streams \ {c} PROVE Sound(d)'
  <2>1. Sound(d)
    BY DEF StreamsAreSound
  <2> QED  BY <1>1, <2>1, SoundKept
<1> QED  BY <1>2, <1>3 DEF StreamsAreSound

\* A response that is sent leaves the client with something to acknowledge, and knowing
\* only what it subscribes to; none is dropped: send and process.
LEMMA TakeSound ==
    ASSUME IInv, StreamsAreSound, NEW c \in Streams, pc[c] = "idle", chan[c] # <<>>,
           chan' = [chan EXCEPT ![c] = Tail(@)],
           sub' = [sub EXCEPT ![c] = SetReturnedResources(@, Head(chan[c]).returnedResources)],
           replied' = [replied EXCEPT ![c] = TRUE], UNCHANGED <<cacheVars, pc>>
    PROVE  StreamsAreSound'
<1>1. /\ Tracked' = Tracked
      /\ chan \in [Streams -> Seq(Response)] /\ sub \in [Streams -> Sub] /\ DOMAIN replied = Streams
  BY ZenonT(40) DEF IInv, StateTypes, Tracked, cacheVars
<1>2. /\ replied'[c] /\ sub'[c] = SetReturnedResources(sub[c], Head(chan[c]).returnedResources)
      /\ chan'[c] = Tail(chan[c])
      /\ \A d \in Streams \ {c} : /\ sub'[d] = sub[d] /\ pc'[d] = pc[d]
                                   /\ replied'[d] = replied[d] /\ chan'[d] = chan[d]
  BY <1>1
<1>3. Sound(c)'
  <2>1. CASE c \notin SotwStreams
    BY <1>2, <2>1 DEF Sound
  <2>2. CASE c \in SotwStreams
    <3>1. \A w \in Tracked : w.stream # c
      <4>1. Len(chan[c]) \in Nat /\ Len(chan[c]) > 0
        BY SMTT(30), <1>1
      <4> QED  BY SMTT(30), <2>2, <4>1 DEF IInv, QueueRoom, Room, HasOpenWatch
    <3>2. \A i \in DOMAIN chan[c] : responseMatchesCurrentSubscription(chan[c][i], sub[c])
      BY <2>2 DEF StreamsAreSound, Sound
    <3>3. /\ responseMatchesCurrentSubscription(Head(chan[c]), sub[c])
          /\ \A i \in DOMAIN chan'[c] : responseMatchesCurrentSubscription(chan'[c][i], sub[c])
      BY SMTT(30), <1>1, <1>2, <3>2
    <3>4. /\ sub'[c].wildcard = sub[c].wildcard
          /\ sub'[c].subscribedResourceNames = sub[c].subscribedResourceNames
          /\ sub'[c].subscribedPrefixes = sub[c].subscribedPrefixes
          /\ sub'[c].returnedResources = Head(chan[c]).returnedResources
      BY SMTT(30), <1>1, <1>2 DEF SetReturnedResources, Sub, SubscriptionsOver
    <3>5. KnowsOnlyRequested(sub'[c])
      BY <3>3, <3>4 DEF KnowsOnlyRequested, Known, Requested, responseMatchesCurrentSubscription,
         isSubscribedTo
    <3>6. \A i \in DOMAIN chan'[c] : responseMatchesCurrentSubscription(chan'[c][i], sub'[c])
      BY <3>3, <3>4 DEF responseMatchesCurrentSubscription, isSubscribedTo
    <3> QED  BY <1>1, <1>2, <3>1, <3>5, <3>6 DEF Sound
  <2> QED  BY <2>1, <2>2
<1>4. ASSUME NEW d \in Streams \ {c} PROVE Sound(d)'
  <2>1. Sound(d)
    BY DEF StreamsAreSound
  <2>2. /\ sub'[d] = sub[d] /\ pc'[d] = pc[d] /\ replied'[d] = replied[d] /\ chan'[d] = chan[d]
        /\ d \in Streams
    BY <1>2
  <2> QED  BY <1>1, <2>1, <2>2, SoundKept
<1> QED  BY <1>3, <1>4 DEF StreamsAreSound

-----------------------------------------------------------------------------

\* Every step of a state of the world stream keeps the streams sound.
LEMMA SotwSound ==
    ASSUME IInv, StreamsAreSound, NEW c \in SotwStreams, SotwNext(c)
    PROVE  StreamsAreSound'
<1>1. c \in Streams /\ sub[c] \in Sub /\ KnowsOnlyRequested(sub[c])
      /\ DOMAIN pc = Streams /\ DOMAIN chan = Streams
  BY DEF Streams, IInv, StateTypes, StreamsAreSound, Sound
<1>2. ASSUME NEW req \in SotwRequests, SotwFirstRequest(c, req) \/ SotwRewatch(c, req)
      PROVE  StreamsAreSound'
  <2>1. req.resourceNames \in SUBSET Tokens
    BY LinearAssumption DEF LinearAssumption, SotwRequest
  <2>2. PICK s \in Sub : /\ KnowsOnlyRequested(s) /\ pc[c] \in {"new", "cancelled"}
                         /\ CreateWatch(c, s, SotwReplyEvenIfEmpty(req), <<>>)
    BY <1>1, <1>2, <2>1, RequestedSubscriptionType, SotwKnowsOnlyRequested
       DEF SotwFirstRequest, SotwRewatch
  <2> QED  BY SMTT(30), <1>1, <2>2, CreateSound
<1>3. CASE SotwCloseWatch(c)
  <2>1. /\ Cancel(c) /\ pc'[c] # "idle" /\ sub'[c] = sub[c]
        /\ \A d \in Streams \ {c} : /\ sub'[d] = sub[d] /\ pc'[d] = pc[d]
                                     /\ replied'[d] = replied[d] /\ chan'[d] = chan[d]
    BY <1>1, <1>3 DEF SotwCloseWatch, CancelWatch
  <2> QED  BY <1>1, <2>1, CancelSound
<1>4. CASE SotwSend(c)
  <2>1. chan[c] \in Seq(Response) /\ chan[c] # <<>> /\ pc[c] = "idle"
    BY <1>1, <1>4 DEF SotwSend, IInv, StateTypes
  <2>2. responseMatchesCurrentSubscription(Head(chan[c]), sub[c])
    BY SMTT(30), <2>1 DEF StreamsAreSound, Sound, Streams
  <2>3. CASE ~Marshals(Head(chan[c]))
    <3>1. /\ pc'[c] # "idle" /\ UNCHANGED <<cacheVars, sub, replied>>
          /\ \A d \in Streams \ {c} : pc'[d] = pc[d] /\ chan'[d] = chan[d]
      BY <1>1, <1>4, <2>2, <2>3 DEF SotwSend, Fail
    <3> QED  BY <1>1, <3>1, LeaveSound
  <2>4. CASE Marshals(Head(chan[c]))
    <3>1. /\ chan' = [chan EXCEPT ![c] = Tail(@)]
          /\ sub' = [sub EXCEPT ![c] = SetReturnedResources(@, Head(chan[c]).returnedResources)]
          /\ replied' = [replied EXCEPT ![c] = TRUE] /\ UNCHANGED <<cacheVars, pc>>
      BY <1>4, <2>2, <2>4 DEF SotwSend
    <3> QED  BY <1>1, <2>1, <3>1, TakeSound
  <2> QED  BY <2>3, <2>4
<1> QED  BY <1>2, <1>3, <1>4 DEF SotwNext

\* Every step of a delta stream keeps the streams sound.
LEMMA DeltaSound ==
    ASSUME IInv, StreamsAreSound, NEW c \in DeltaStreams, DeltaNext(c)
    PROVE  StreamsAreSound'
<1>1. /\ c \in Streams /\ c \notin SotwStreams /\ sub[c] \in Sub
      /\ DOMAIN pc = Streams /\ DOMAIN chan = Streams
  BY LinearAssumption DEF LinearAssumption, Streams, IInv, StateTypes
<1>2. ASSUME NEW p, p # "idle", pc' = [pc EXCEPT ![c] = p],
             UNCHANGED <<cacheVars, sub, replied, chan>>
      PROVE  StreamsAreSound'
  <2>1. /\ pc'[c] # "idle"
        /\ \A d \in Streams \ {c} : pc'[d] = pc[d] /\ chan'[d] = chan[d]
    BY <1>1, <1>2
  <2> QED  BY <1>1, <1>2, <2>1, LeaveSound
<1>3. ASSUME NEW req \in DeltaRequests, DeltaFirstRequest(c, req) \/ DeltaRewatch(c, req)
      PROVE  StreamsAreSound'
  <2>1. PICK s \in Sub : pc[c] \in {"new", "cancelled"} /\ CreateDeltaWatch(c, s, req)
    BY <1>1, <1>3, RequestedSubscriptionType DEF DeltaFirstRequest, DeltaRewatch
  <2>2. CASE Fail(c) /\ UNCHANGED chan
    <3>1. /\ "failing" # "idle" /\ pc' = [pc EXCEPT ![c] = "failing"]
          /\ UNCHANGED <<cacheVars, sub, replied, chan>>
      BY <2>2 DEF Fail
    <3> QED  BY <1>2, <3>1
  <2>3. CASE CreateWatch(c, s, DeltaReplyEvenIfEmpty(s, req), chan[c])
    BY SMTT(30), <1>1, <2>1, <2>3, CreateSound
  <2> QED  BY <2>1, <2>2, <2>3 DEF CreateDeltaWatch
<1>4. CASE DeltaDrained(c)
  <2>1. /\ "drained" # "idle" /\ pc' = [pc EXCEPT ![c] = "drained"]
        /\ UNCHANGED <<cacheVars, sub, replied, chan>>
    BY <1>4 DEF DeltaDrained
  <2> QED  BY <1>2, <2>1
<1>5. CASE DeltaCancelWatch(c)
  <2>1. /\ Cancel(c) /\ pc'[c] # "idle" /\ sub'[c] = sub[c]
        /\ \A d \in Streams \ {c} : /\ sub'[d] = sub[d] /\ pc'[d] = pc[d]
                                     /\ replied'[d] = replied[d] /\ chan'[d] = chan[d]
    BY <1>1, <1>5 DEF DeltaCancelWatch, CancelWatch
  <2> QED  BY <1>1, <2>1, CancelSound
<1>6. CASE DeltaProcess(c)
  <2>1. /\ pc[c] = "idle" /\ chan[c] # <<>> /\ chan' = [chan EXCEPT ![c] = Tail(@)]
        /\ sub' = [sub EXCEPT ![c] = SetReturnedResources(@, Head(chan[c]).returnedResources)]
        /\ replied' = [replied EXCEPT ![c] = TRUE] /\ UNCHANGED <<cacheVars, pc>>
    BY <1>6 DEF DeltaProcess
  <2> QED  BY <1>1, <2>1, TakeSound
<1> QED  BY <1>3, <1>4, <1>5, <1>6 DEF DeltaNext

\* Every step keeps the streams sound.
LEMMA NextSound ==
    ASSUME IInv, StreamsAreSound, [Next]_vars
    PROVE  StreamsAreSound'
<1>1. CASE CacheNext
  <2>1. PICK res \in Contents, modified \in SUBSET Names : Update(res, modified)
    BY <1>1, CacheNextUpdates DEF CacheUpdates
  <2> QED  BY <2>1, UpdateSound
<1>2. ASSUME NEW c \in Streams, Open(c) PROVE StreamsAreSound'
  <2>1. /\ pc'[c] # "idle" /\ UNCHANGED <<cacheVars, sub, replied>>
        /\ \A d \in Streams \ {c} : pc'[d] = pc[d] /\ chan'[d] = chan[d]
    BY <1>2 DEF Open, IInv, StateTypes
  <2> QED  BY <1>2, <2>1, LeaveSound
<1>3. ASSUME NEW c \in Streams, Shutdown(c) PROVE StreamsAreSound'
  <2>1. /\ Cancel(c) /\ pc'[c] # "idle" /\ sub'[c] = NoSubscription
        /\ \A d \in Streams \ {c} : /\ sub'[d] = sub[d] /\ pc'[d] = pc[d]
                                     /\ replied'[d] = replied[d] /\ chan'[d] = chan[d]
    BY <1>3 DEF Shutdown, IInv, StateTypes
  <2> QED  BY <2>1, CancelSound
<1>4. CASE UNCHANGED vars
  <2>1. Tracked' = Tracked /\ UNCHANGED <<pc, sub, chan, replied>>
    BY <1>4 DEF vars, cacheVars, streamVars, Tracked
  <2> QED  BY <2>1, SoundKept DEF StreamsAreSound
<1> QED  BY <1>1, <1>2, <1>3, <1>4, SotwSound, DeltaSound DEF Next

-----------------------------------------------------------------------------
(* What a watch is owed and what its answer brings.                        *)

\* The contents of the cache are not nil.
LEMMA SeenIsNotNil ==
    ASSUME NEW res \in Contents, NEW c \in Streams
    PROVE  VersionsSeen(res, c) # None
<1>1. VersionsSeen(res, c) \in [Names -> Versions \cup {None}]
  BY DEF VersionsSeen, Contents, CachedResource, Versions
<1> QED  BY <1>1, NilAssumption DEF NilAssumption

\* The linear cache and the service agree on what a watch lacks and on whether it is
\* owed an answer: computeResourceChange and the test in computeResponse.
LEMMA OwedIsDue ==
    ASSUME NEW res \in Contents, NEW c \in Streams, NEW w \in Watch, w.stream = c
    PROVE  /\ Service!Needed(VersionsSeen(res, c), Asking(w)) = Changed(res, w)
           /\ Service!Owed(c, VersionsSeen(res, c), Asking(w)) <=> HasResponse(res, w, FALSE)
<1> DEFINE v == VersionsSeen(res, c)
<1>1. \A n \in Names : /\ res[n] = None <=> v[n] = None
                       /\ res[n] # None => v[n] = getVersion(res, w, n)
  BY LinearAssumption DEF LinearAssumption, VersionsSeen, Contents, CachedResource, Versions,
     getVersion, isDelta
<1>2. v # None
  BY SeenIsNotNil
<1>3. c \in ToldRemovals <=> isDelta(w) \/ sendFullStateResponses(w)
  BY DEF ToldRemovals, isDelta, sendFullStateResponses, Streams
<1>4. /\ w.sub.returnedResources \in [Names -> Versions \cup {None}]
      /\ Requested(w.sub) \subseteq Names
  BY DEF Watch, Sub, SubscriptionsOver, Requested
<1> HIDE DEF v
<1>5. Service!Needed(v, Asking(w)) = Changed(res, w)
  BY <1>1, <1>4 DEF Service!Needed, Asking, Changed
<1>6. Removed(res, w) # {} => Service!Holding(v, Requested(w.sub)) # w.sub.returnedResources
  BY <1>1, <1>4 DEF Service!Holding, Removed, Known
<1>7. Changed(res, w) = {} /\ Removed(res, w) = {} =>
         Service!Holding(v, Requested(w.sub)) = w.sub.returnedResources
  BY <1>1, <1>4 DEF Service!Holding, Removed, Changed, Known
<1> QED  BY <1>2, <1>3, <1>5, <1>6, <1>7 DEF Service!Owed, Asking, HasResponse, v

\* An answer brings its client to the contents of the cache: computeResponse.
LEMMA AnswerBrings ==
    ASSUME NEW res \in Contents, NEW c \in Streams, NEW w \in Watch, w.stream = c, NEW ver
    PROVE  LET r == Sent(computeResponse(res, ver, w))
           IN  /\ r.holds = Service!Holding(VersionsSeen(res, c), Requested(w.sub))
               /\ r.sent \subseteq Requested(w.sub)
               /\ Changed(res, w) \subseteq r.sent
               /\ r = [sent |-> r.sent, holds |-> r.holds]
<1> DEFINE v == VersionsSeen(res, c)
           r == computeResponse(res, ver, w)
           toReturn == ResourcesToReturn(res, w)
<1>1. \A n \in Names : /\ res[n] = None => v[n] = None
                       /\ res[n] # None => v[n] = getVersion(res, w, n)
  BY DEF VersionsSeen, getVersion, isDelta
<1>2. /\ w.sub.returnedResources \in [Names -> Versions \cup {None}]
      /\ Requested(w.sub) \subseteq Names
  BY DEF Watch, Sub, SubscriptionsOver, Requested
<1>3. /\ Changed(res, w) \subseteq toReturn
      /\ toReturn \subseteq {n \in Requested(w.sub) : res[n] # None}
  BY DEF ResourcesToReturn, Changed
<1>4. \A n \in toReturn : res[n].resource # None
  BY <1>2, <1>3, LinearAssumption DEF LinearAssumption, Contents, CachedResource, Versions
<1>5. /\ r.resources = [n \in Names |-> IF n \in toReturn THEN res[n].resource ELSE None]
      /\ r.returnedResources =
            [n \in Names |-> IF n \in Removed(res, w) THEN None
                             ELSE IF n \in toReturn THEN getVersion(res, w, n)
                             ELSE w.sub.returnedResources[n]]
  BY DEF computeResponse
<1> HIDE DEF v, r, toReturn
<1>6. {n \in Names : r.resources[n] # None} = toReturn
  BY SMTT(30), <1>2, <1>3, <1>4, <1>5
<1>7. r.returnedResources = Service!Holding(v, Requested(w.sub))
  BY SMTT(30), <1>1, <1>2, <1>3, <1>5 DEF Service!Holding, Removed, Known, Changed
<1> QED  BY <1>2, <1>3, <1>6, <1>7 DEF Sent, v, r

-----------------------------------------------------------------------------
(* Queues of answers.                                                      *)

\* The answers of a queue go with its responses: adding, taking and dropping.
LEMMA AnswersOfQueue ==
    ASSUME NEW queue \in Seq(Response)
    PROVE  /\ Answers(<<>>) = <<>>
           /\ \A r \in Response : Answers(Append(queue, r)) = Append(Answers(queue), Sent(r))
           /\ queue # <<>> => /\ Answers(queue) # <<>>
                              /\ Answers(Tail(queue)) = Tail(Answers(queue))
<1> DEFINE S == {Sent(r) : r \in Response}
<1>1. Answers(<<>>) = <<>>
  BY SMTT(30) DEF Answers
<1>2. Answers(queue) \in Seq(S) /\ Len(Answers(queue)) = Len(queue)
  BY SMTT(30) DEF Answers
<1>3. ASSUME NEW r \in Response PROVE Answers(Append(queue, r)) = Append(Answers(queue), Sent(r))
  BY SMTT(30), <1>2 DEF Answers
<1>4. ASSUME queue # <<>>
      PROVE  Answers(queue) # <<>> /\ Answers(Tail(queue)) = Tail(Answers(queue))
  BY SMTT(30), <1>2, <1>4 DEF Answers
<1> QED  BY <1>1, <1>3, <1>4

-----------------------------------------------------------------------------
(* The open watch of a stream.                                             *)

\* The open watch of a stream is the one its cancel function removes.
OpenWatchCancels ==
    \A c \in Streams :
        /\ HasOpenWatch(c) =>
              cancel[c] \in Tracked /\ cancel[c] \in Watch /\ cancel[c].stream = c
                              /\ OpenWatch(c) = Asking(cancel[c]) /\ OpenWatch(c) # None
        /\ ~HasOpenWatch(c) => OpenWatch(c) = None

\* The invariant implies it: WatchesAreCancellable.
LEMMA OpenWatchIsCancels == IInv => OpenWatchCancels
<1> SUFFICES ASSUME IInv, NEW c \in Streams
             PROVE  /\ HasOpenWatch(c) =>
                          /\ cancel[c] \in Tracked /\ cancel[c] \in Watch /\ cancel[c].stream = c
                          /\ OpenWatch(c) = Asking(cancel[c]) /\ OpenWatch(c) # None
                    /\ ~HasOpenWatch(c) => OpenWatch(c) = None
  BY DEF OpenWatchCancels
<1>1. CASE HasOpenWatch(c)
  <2>1. WatchOf(c, Tracked) \in Tracked /\ WatchOf(c, Tracked).stream = c
    BY <1>1, WatchOfStream DEF HasOpenWatch
  <2>2. WatchOf(c, Tracked) = cancel[c] /\ cancel[c] \in Watch
    BY SMTT(30), <2>1, TrackedFacts DEF IInv, WatchesAreCancellable
  <2>3. Asking(cancel[c]) # None
    <3>1. Asking(cancel[c]) \in [asks : SUBSET Names, holds : [Names -> Versions \cup {None}]]
      BY <2>2 DEF Asking, Requested, Watch, Sub, SubscriptionsOver
    <3> QED  BY <3>1, NilAssumption DEF NilAssumption
  <2> QED  BY <1>1, <2>1, <2>2, <2>3 DEF OpenWatch
<1>2. CASE ~HasOpenWatch(c)
  BY <1>2 DEF OpenWatch
<1> QED  BY <1>1, <1>2

\* So it holds before and after a step.
LEMMA OpenWatchBothTimes == IInv /\ IInv' => OpenWatchCancels /\ OpenWatchCancels'
  BY OpenWatchIsCancels, PTL

\* A stream keeps its watch and its queue when a step leaves both alone.
LEMMA LeftAlone ==
    ASSUME IInv, IInv', NEW c \in Streams,
           HasOpenWatch(c)' <=> HasOpenWatch(c), cancel'[c] = cancel[c], chan'[c] = chan[c]
    PROVE  Service!Undisturbed(c) /\ OpenWatch(c)' = OpenWatch(c)
<1>1. OpenWatch(c)' = OpenWatch(c)
  BY OpenWatchBothTimes DEF OpenWatchCancels
<1> QED  BY <1>1 DEF Service!Undisturbed

-----------------------------------------------------------------------------
(* Steps of streams.                                                       *)

\* Cancelling a watch, with the channel kept or dropped, is a cancellation of the
\* service: SotwCloseWatch, DeltaCancelWatch and Shutdown.
LEMMA CancelRefines ==
    ASSUME IInv, IInv', NEW c \in Streams, Cancel(c), UNCHANGED <<resources, failed>>,
           chan'[c] = chan[c] \/ chan'[c] = <<>>,
           \A d \in Streams \ {c} : chan'[d] = chan[d] /\ cancel'[d] = cancel[d]
    PROVE  Service!Cancel({c})
<1>1. Tracked' = {v \in Tracked : v.stream # c}
  BY CancelClosesWatch
<1>2. ~HasOpenWatch(c)' /\ \A d \in Streams \ {c} : HasOpenWatch(d)' <=> HasOpenWatch(d)
  BY <1>1 DEF HasOpenWatch
<1>3. \A d \in Streams \ {c} : Service!Undisturbed(d)
  BY <1>2, LeftAlone
<1>4. OpenWatch(c)' = None
  BY <1>2, OpenWatchBothTimes DEF OpenWatchCancels
<1>5. Answers(chan[c])' \in {Answers(chan[c]), <<>>}
  BY SMTT(30) DEF Answers
<1> QED  BY <1>3, <1>4, <1>5 DEF Service!Cancel

\* Taking the first response is taking an answer: SotwSend and DeltaProcess.
LEMMA TakeRefines ==
    ASSUME IInv, IInv', NEW c \in Streams, chan[c] # <<>>, chan' = [chan EXCEPT ![c] = Tail(@)],
           UNCHANGED <<cacheVars, cancel>>
    PROVE  Service!Take(c)
<1>1. chan \in [Streams -> Seq(Response)]
  BY DEF IInv, StateTypes
<1>2. chan'[c] = Tail(chan[c]) /\ \A d \in Streams \ {c} : chan'[d] = chan[d]
  BY <1>1
<1>3. \A d \in Streams : HasOpenWatch(d)' <=> HasOpenWatch(d)
  BY DEF HasOpenWatch, Tracked, cacheVars
<1>4. \A d \in Streams \ {c} : Service!Undisturbed(d)
  BY <1>2, <1>3, LeftAlone
<1>5. OpenWatch(c)' = OpenWatch(c)
  BY <1>3, OpenWatchBothTimes DEF OpenWatchCancels
<1>6. Answers(chan[c]) # <<>> /\ Answers(chan[c])' = Tail(Answers(chan[c]))
  BY SMTT(30), <1>1, <1>2, AnswersOfQueue DEF Answers
<1> QED  BY <1>4, <1>5, <1>6 DEF Service!Take, Service!Others, cacheVars

\* A step that leaves watches, queues and contents alone changes nothing in the service.
LEMMA QuietRefines ==
    ASSUME IInv, IInv', UNCHANGED <<cacheVars, cancel, chan>>
    PROVE  UNCHANGED Service!vars
<1>1. \A d \in Streams : HasOpenWatch(d)' <=> HasOpenWatch(d)
  BY DEF HasOpenWatch, Tracked, cacheVars
<1>2. \A d \in Streams : OpenWatch(d)' = OpenWatch(d)
  BY <1>1, LeftAlone
<1> QED  BY <1>2 DEF Service!vars, cacheVars

\* Creating a watch is watching: it is answered at once or left open with nothing owed.
\* A watch for nothing enters no index and is as good as cancelled: CreateWatch.
LEMMA CreateRefines ==
    ASSUME IInv, IInv', NEW c \in Streams, NEW s \in Sub, NEW reply, NEW queue,
           pc[c] \in {"new", "cancelled"}, queue \in {chan[c], <<>>},
           CreateWatch(c, s, reply, queue)
    PROVE  Service!Watch(c) \/ Service!Cancel({c})
<1> DEFINE w == [id |-> nextWatchID, stream |-> c, sub |-> s]
           z == [w EXCEPT !.id = 0]
           r == computeResponse(resources, version, z)
<1>1. /\ resources \in Contents /\ version \in Nat /\ currentWatchID \in Nat
      /\ chan \in [Streams -> Seq(Response)] /\ cancel \in [Streams -> Watch \cup {None}]
      /\ IndexTypes /\ IndexesAgree
  BY DEF IInv, StateTypes, Contents, IndexTypes
<1>2. /\ w \in Watch /\ w.stream = c /\ w.sub = s
      /\ z \in Watch /\ z.stream = c /\ z.sub = s
  BY SMTT(30), <1>1 DEF Watch, nextWatchID
<1>3. ~HasOpenWatch(c) /\ OpenWatch(c) = None /\ w \notin Tracked
  <2>1. ~HasOpenWatch(c)
    BY DEF IInv, WatchesAreCancellable, HasOpenWatch
  <2> QED  BY <1>2, <2>1, OpenWatchBothTimes DEF OpenWatchCancels, HasOpenWatch
<1>4. /\ queue \in Seq(Response)
      /\ Answers(queue) \in {Answers(chan[c]), <<>>}
  <2>1. chan[c] \in Seq(Response) /\ <<>> \in Seq(Response)
    BY SMTT(30), <1>1
  <2>2. Answers(<<>>) = <<>>
    BY <2>1, AnswersOfQueue
  <2> QED  BY <2>1, <2>2
<1>5. /\ UNCHANGED <<resources, failed>>
      /\ \A d \in Streams \ {c} : chan'[d] = chan[d] /\ cancel'[d] = cancel[d]
  BY <1>1 DEF CreateWatch
<1>6. ASSUME \A d \in Streams \ {c} : HasOpenWatch(d)' <=> HasOpenWatch(d)
      PROVE  Service!Others(c)
  BY <1>5, <1>6, LeftAlone DEF Service!Others
<1>7. CASE HasResponse(resources, w, reply)
  <2>1. /\ chan'[c] = Append(queue, r)
        /\ UNCHANGED <<resourceWatches, prefixWatches, wildcardWatches>>
    BY <1>1, <1>7 DEF CreateWatch
  <2>2. r \in Response
    BY <1>1, <1>2, ComputeResponseType
  <2>3. /\ Sent(r) = [sent |-> Sent(r).sent,
                      holds |-> Service!Holding(VersionsSeen(resources, c), Requested(s))]
        /\ Sent(r).sent \subseteq Requested(s)
    BY SMTT(30), <1>1, <1>2, AnswerBrings
  <2> HIDE DEF w, z, r
  <2>4. \A d \in Streams : HasOpenWatch(d)' <=> HasOpenWatch(d)
    BY <2>1 DEF HasOpenWatch, Tracked
  <2>5. OpenWatch(c)' = None /\ Service!Others(c)
    BY <1>3, <1>6, <2>4, OpenWatchBothTimes DEF OpenWatchCancels
  <2>6. Answers(chan[c])' = Append(Answers(queue), Sent(r))
    BY <1>4, <2>1, <2>2, AnswersOfQueue
  <2>7. VersionsSeen(resources, c) # None
    BY <1>1, SeenIsNotNil
  <2>8. Answers(chan[c])' \in Service!WithAnswer(Answers(queue), VersionsSeen(resources, c),
                                                Requested(s), {})
    <3> DEFINE sent == Sent(r).sent
    <3>1. sent \in {names \in SUBSET Requested(s) : {} \subseteq names}
      BY <2>3
    <3> HIDE DEF sent
    <3> QED  BY <2>3, <2>6, <3>1 DEF Service!WithAnswer, sent
  <2>9. Requested(s) \in SUBSET Names
    BY DEF Requested
  <2> QED  BY <1>3, <1>4, <1>5, <2>5, <2>7, <2>8, <2>9 DEF Service!Watch
<1>8. CASE ~HasResponse(resources, w, reply)
  <2>1. trackWatch(w) /\ chan'[c] = queue /\ cancel'[c] = w
    BY <1>1, <1>8 DEF CreateWatch
  <2>2. ~Service!Owed(c, VersionsSeen(resources, c), Asking(w))
    <3>1. ~HasResponse(resources, w, FALSE)
      BY <1>8 DEF HasResponse
    <3> HIDE DEF w, z
    <3> QED  BY <1>1, <1>2, <3>1, OwedIsDue
  <2> HIDE DEF w
  <2>3. Tracked \subseteq Tracked' /\ Tracked' \subseteq Tracked \cup {w}
    BY <1>1, <1>2, <1>3, <2>1, TrackWatch
  <2>4. \A d \in Streams \ {c} : HasOpenWatch(d)' <=> HasOpenWatch(d)
    BY <1>2, <2>3 DEF HasOpenWatch
  <2>5. Service!Others(c)
    BY <1>6, <2>4
  <2>6. Answers(chan[c])' = Answers(queue)
    BY <2>1
  <2>7. CASE HasOpenWatch(c)'
    <3>1. OpenWatch(c)' = Asking(w) /\ OpenWatch(c)' # None
      BY <2>1, <2>7, OpenWatchBothTimes DEF OpenWatchCancels
    <3> QED  BY <1>3, <1>4, <1>5, <2>2, <2>5, <2>6, <3>1 DEF Service!Watch
  <2>8. CASE ~HasOpenWatch(c)'
    <3>1. OpenWatch(c)' = None
      BY <2>8, OpenWatchBothTimes DEF OpenWatchCancels
    <3> QED  BY <1>4, <1>5, <2>5, <2>6, <3>1 DEF Service!Cancel, Service!Others
  <2> QED  BY <2>7, <2>8
<1> QED  BY <1>7, <1>8

-----------------------------------------------------------------------------
(* Updates of the collection.                                              *)

\* An update reaches every stream, or reports an error to say that it may have missed
\* it; a watch is answered only if it is owed something: notifyAll.
LEMMA UpdateRefines ==
    ASSUME IInv, IInv', NEW res \in Contents, NEW modified \in SUBSET Names, Update(res, modified)
    PROVE  Service!Update
<1>1. PICK answered \in SUBSET Tracked :
         /\ Tracked' = Tracked \ answered
         /\ \A w \in answered : HasResponse(res, w, FALSE)
         /\ ~failed' => ~failed
         /\ \A c \in Streams :
               \/ /\ chan'[c] = chan[c]
                  /\ \A w \in answered : w.stream # c
               \/ \E w \in answered :
                     /\ w.stream = c
                     /\ chan'[c] = Append(chan[c], computeResponse(res, version + 1, w))
  BY UpdateAnswers
<1>2. resources' = res /\ cancel' = cancel /\ version + 1 \in Nat
  BY DEF Update, IInv, StateTypes
<1>3. /\ \A w \in Tracked : w \in Watch /\ w.stream \in Streams /\ w = cancel[w.stream]
      /\ chan \in [Streams -> Seq(Response)]
      /\ failed \in BOOLEAN /\ failed' \in BOOLEAN
  BY ZenonT(40), TrackedFacts DEF IInv, Watch, WatchesAreCancellable, StateTypes
<1> SUFFICES ASSUME NEW c \in Streams
             PROVE  Service!Reaches(c) \/ Service!Misses(c)
  BY DEF Service!Update
<1> DEFINE v == VersionsSeen(res, c)
<1>4. VersionsSeen(resources, c)' = v
  BY <1>2 DEF VersionsSeen
<1>5. CASE chan'[c] = chan[c] /\ \A w \in answered : w.stream # c
  <2>1. HasOpenWatch(c)' <=> HasOpenWatch(c)
    BY <1>1, <1>5 DEF HasOpenWatch
  <2>2. Service!Undisturbed(c)
    BY <1>2, <1>5, <2>1, LeftAlone
  <2>3. ASSUME ~failed', HasOpenWatch(c) PROVE ~Service!Owed(c, v, OpenWatch(c))
    <3> DEFINE w == cancel[c]
    <3>1. w \in Tracked' /\ w \in Watch /\ w.stream = c /\ OpenWatch(c) = Asking(w)
      BY <1>2, <2>1, <2>3, OpenWatchBothTimes DEF OpenWatchCancels
    <3>2. \A u \in Tracked' : UpToDate(res, u)
      BY <1>2, <2>3 DEF IInv, OpenWatchOwedNothing, UpToDate, getVersion
    <3>3. UpToDate(res, w)
      BY <3>1, <3>2
    <3> HIDE DEF w
    <3>4. ~HasResponse(res, w, FALSE)
      BY <3>3 DEF UpToDate, HasResponse, Changed, Removed, Known, Requested
    <3> QED  BY <3>1, <3>4, OwedIsDue
  <2>4. ~HasOpenWatch(c) => OpenWatch(c) = None
    BY DEF OpenWatch
  <2> HIDE DEF v
  <2>5. CASE failed'
    BY <2>2, <2>5 DEF Service!Misses
  <2>6. CASE ~failed'
    BY <1>4, <2>2, <2>3, <2>4, <2>6 DEF Service!Reaches
  <2> QED  BY <2>5, <2>6
<1>6. ASSUME NEW w \in answered, w.stream = c,
             chan'[c] = Append(chan[c], computeResponse(res, version + 1, w))
      PROVE  Service!Reaches(c) \/ Service!Misses(c)
  <2> DEFINE r == computeResponse(res, version + 1, w)
  <2>1. w \in Watch /\ w = cancel[c] /\ HasOpenWatch(c) /\ ~HasOpenWatch(c)'
    BY <1>1, <1>3, <1>6 DEF HasOpenWatch
  <2>2. OpenWatch(c) = Asking(w) /\ OpenWatch(c) # None /\ OpenWatch(c)' = None
    BY <2>1, OpenWatchBothTimes DEF OpenWatchCancels
  <2>3. r \in Response
    BY <1>2, <2>1, ComputeResponseType
  <2>4. /\ Sent(r) = [sent |-> Sent(r).sent, holds |-> Service!Holding(v, Requested(w.sub))]
        /\ Sent(r).sent \subseteq Requested(w.sub)
        /\ Changed(res, w) \subseteq Sent(r).sent
    BY SMTT(30), <1>6, <2>1, AnswerBrings
  <2>5. Service!Owed(c, v, Asking(w)) /\ Service!Needed(v, Asking(w)) = Changed(res, w)
    BY <1>1, <1>6, <2>1, OwedIsDue
  <2> HIDE DEF r, v
  <2>6. Answers(chan[c])' = Append(Answers(chan[c]), Sent(r))
    BY <1>3, <1>6, <2>3, AnswersOfQueue DEF r
  <2>7. Answers(chan[c])' \in Service!WithAnswer(Answers(chan[c]), v, Asking(w).asks,
                                                Service!Needed(v, Asking(w)))
    <3> DEFINE sent == Sent(r).sent
    <3>1. sent \in {names \in SUBSET Requested(w.sub) : Changed(res, w) \subseteq names}
      BY <2>4
    <3>2. Asking(w).asks = Requested(w.sub)
      BY DEF Asking
    <3> HIDE DEF sent
    <3> QED  BY <2>4, <2>5, <2>6, <3>1, <3>2 DEF Service!WithAnswer, sent
  <2>8. Service!Answer(c, v, Asking(w))
    BY <2>2, <2>7 DEF Service!Answer
  <2> QED  BY <1>1, <1>3, <1>4, <2>2, <2>5, <2>8 DEF Service!Reaches, Service!Misses
<1> QED  BY <1>1, <1>5, <1>6

-----------------------------------------------------------------------------

\* Every update of the collection is an update of the service: UpdateResource,
\* DeleteResource, UpdateResources and SetResources.
LEMMA CacheRefines ==
    ASSUME IInv, IInv', CacheNext
    PROVE  Service!Update
<1>1. PICK res \in Contents, modified \in SUBSET Names : Update(res, modified)
  BY CacheNextUpdates DEF CacheUpdates
<1> QED  BY <1>1, UpdateRefines

\* The steps of a consumer are steps of the service.
LEMMA ConsumerSteps ==
    ASSUME NEW c \in Streams, Service!Watch(c) \/ Service!Take(c) \/ Service!Cancel({c})
    PROVE  Service!Next
<1>1. {c} \in SUBSET Streams
  OBVIOUS
<1> QED  BY <1>1 DEF Service!Next

\* Every step of a state of the world stream is a step of its consumer, or none.
LEMMA SotwRefines ==
    ASSUME IInv, IInv', NEW c \in SotwStreams, SotwNext(c)
    PROVE  Service!Next \/ UNCHANGED Service!vars
<1>1. c \in Streams /\ sub[c] \in Sub /\ chan \in [Streams -> Seq(Response)]
  BY DEF Streams, IInv, StateTypes
<1>2. ASSUME NEW req \in SotwRequests, SotwFirstRequest(c, req) \/ SotwRewatch(c, req)
      PROVE  Service!Next
  <2>1. PICK s \in Sub : /\ pc[c] \in {"new", "cancelled"}
                         /\ CreateWatch(c, s, SotwReplyEvenIfEmpty(req), <<>>)
    BY <1>1, <1>2, RequestedSubscriptionType DEF SotwFirstRequest, SotwRewatch
  <2>2. <<>> \in {chan[c], <<>>}
    OBVIOUS
  <2>3. Service!Watch(c) \/ Service!Cancel({c})
    BY SMTT(60), <1>1, <2>1, <2>2, CreateRefines
  <2> QED  BY <1>1, <2>3, ConsumerSteps
<1>3. ASSUME SotwCloseWatch(c) PROVE Service!Next
  <2>1. Service!Cancel({c})
    BY <1>1, <1>3, CancelRefines DEF SotwCloseWatch, CancelWatch
  <2> QED  BY <1>1, <2>1, ConsumerSteps
<1>4. ASSUME SotwSend(c) PROVE Service!Next
  <2>1. /\ chan[c] # <<>> /\ chan' = [chan EXCEPT ![c] = Tail(@)]
        /\ UNCHANGED <<cacheVars, cancel>>
    BY <1>4 DEF SotwSend, Fail
  <2>2. Service!Take(c)
    BY <1>1, <2>1, TakeRefines
  <2> QED  BY <1>1, <2>2, ConsumerSteps
<1> QED  BY <1>2, <1>3, <1>4 DEF SotwNext

\* And of a delta stream.
LEMMA DeltaRefines ==
    ASSUME IInv, IInv', NEW c \in DeltaStreams, DeltaNext(c)
    PROVE  Service!Next \/ UNCHANGED Service!vars
<1>1. c \in Streams /\ sub[c] \in Sub /\ chan \in [Streams -> Seq(Response)]
  BY DEF Streams, IInv, StateTypes
<1>2. ASSUME NEW s \in Sub, NEW req, pc[c] \in {"new", "cancelled"}, CreateDeltaWatch(c, s, req)
      PROVE  Service!Next \/ UNCHANGED Service!vars
  <2>1. CASE VersionError(resources, [id |-> 0, stream |-> c, sub |-> s])
    BY <1>2, <2>1, QuietRefines DEF CreateDeltaWatch, Fail
  <2>2. CASE ~VersionError(resources, [id |-> 0, stream |-> c, sub |-> s])
    <3>1. CreateWatch(c, s, DeltaReplyEvenIfEmpty(s, req), chan[c])
      BY <1>2, <2>2 DEF CreateDeltaWatch
    <3>2. chan[c] \in {chan[c], <<>>}
      OBVIOUS
    <3>3. Service!Watch(c) \/ Service!Cancel({c})
      BY SMTT(60), <1>1, <1>2, <3>1, <3>2, CreateRefines
    <3> QED  BY <1>1, <3>3, ConsumerSteps
  <2> QED  BY <2>1, <2>2
<1>3. ASSUME NEW req \in DeltaRequests, DeltaFirstRequest(c, req) \/ DeltaRewatch(c, req)
      PROVE  Service!Next \/ UNCHANGED Service!vars
  <2>1. PICK s \in Sub : pc[c] \in {"new", "cancelled"} /\ CreateDeltaWatch(c, s, req)
    BY <1>1, <1>3, RequestedSubscriptionType DEF DeltaFirstRequest, DeltaRewatch
  <2> QED  BY SMTT(60), <1>2, <2>1
<1>4. ASSUME DeltaDrained(c) PROVE UNCHANGED Service!vars
  BY <1>4, QuietRefines DEF DeltaDrained
<1>5. ASSUME DeltaCancelWatch(c) PROVE Service!Next
  <2>1. Service!Cancel({c})
    BY <1>1, <1>5, CancelRefines DEF DeltaCancelWatch, CancelWatch
  <2> QED  BY <1>1, <2>1, ConsumerSteps
<1>6. ASSUME DeltaProcess(c) PROVE Service!Next
  <2>1. /\ chan[c] # <<>> /\ chan' = [chan EXCEPT ![c] = Tail(@)]
        /\ UNCHANGED <<cacheVars, cancel>>
    BY <1>6 DEF DeltaProcess
  <2>2. Service!Take(c)
    BY <1>1, <2>1, TakeRefines
  <2> QED  BY <1>1, <2>2, ConsumerSteps
<1> QED  BY <1>3, <1>4, <1>5, <1>6 DEF DeltaNext

-----------------------------------------------------------------------------
(* The theorems.                                                           *)

\* A new cache has no watch and every stream is closed: NewLinearCache.
LEMMA InitHolds ==
    ASSUME Init
    PROVE  IInv
<1> USE DEF Init
<1>1. Tracked = {}
  BY DEF Tracked
<1>2. StateTypes
  <2>1. resources \in Contents
    BY SMTT(30) DEF Contents, CachedResource
  <2>2. sub \in [Streams -> Sub]
    BY RequestedSubscriptionType
  <2>3. /\ resourceWatches \in [Names -> SUBSET Watch]
        /\ prefixWatches \in [Globs -> SUBSET Watch]
        /\ wildcardWatches \subseteq Watch
    OBVIOUS
  <2>4. /\ chan \in [Streams -> Seq(Response)]
        /\ cancel \in [Streams -> Watch \cup {None}]
        /\ pc \in [Streams -> PCs] /\ replied \in [Streams -> BOOLEAN]
    BY SMTT(30) DEF PCs
  <2>5. version \in Nat /\ currentWatchID \in Nat
    OBVIOUS
  <2>6. failed \in BOOLEAN
    OBVIOUS
  <2> HIDE DEF Init
  <2> QED  BY <2>1, <2>2, <2>3, <2>4, <2>5, <2>6 DEF StateTypes, Contents, PCs
<1>3. IndexesAgree /\ WatchesAreCancellable /\ OpenWatchOwedNothing
  BY <1>1 DEF IndexesAgree, WatchesAreCancellable, OpenWatchOwedNothing
<1>4. CancelIds /\ AnsweredAtMostOnce /\ QueuedIds
  BY SMTT(30) DEF CancelIds, AnsweredAtMostOnce, QueuedIds
<1>5. QueueRoom
  BY SMTT(30) DEF QueueRoom, Room
<1> QED  BY <1>2, <1>3, <1>4, <1>5 DEF IInv

\* A step that changes nothing preserves the invariant.
LEMMA StutterStep ==
    ASSUME IInv, UNCHANGED vars
    PROVE  IInv'
<1> USE DEF IInv, vars, cacheVars, streamVars
<1>1. Tracked' = Tracked /\ StateTypes'
  BY DEF Tracked, StateTypes
<1>2. IndexesAgree' /\ WatchesAreCancellable' /\ CancelIds'
  BY <1>1 DEF IndexesAgree, WatchesAreCancellable, CancelIds
<1>3. OpenWatchOwedNothing'
  BY <1>1 DEF OpenWatchOwedNothing, UpToDate, getVersion
<1>4. AnsweredAtMostOnce' /\ QueuedIds'
  BY <1>1 DEF AnsweredAtMostOnce, QueuedIds
<1>5. QueueRoom'
  BY <1>1 DEF QueueRoom, HasOpenWatch
<1> QED  BY <1>1, <1>2, <1>3, <1>4, <1>5

\* The invariant holds in every state of the linear cache and its streams.
THEOREM Invariance == Spec => []IInv
<1>1. Init => IInv
  BY InitHolds
<1>2. IInv /\ [Next]_vars => IInv'
  <2> SUFFICES ASSUME IInv, [Next]_vars PROVE IInv'
    OBVIOUS
  <2>1. CASE CacheNext
    BY <2>1, CacheStep
  <2>2. ASSUME NEW c \in Streams, Open(c) \/ Shutdown(c) PROVE IInv'
    BY <2>2, OpenStep, ShutdownStep
  <2>3. ASSUME NEW c \in SotwStreams, SotwNext(c) PROVE IInv'
    BY <2>3, SotwStep
  <2>4. ASSUME NEW c \in DeltaStreams, DeltaNext(c) PROVE IInv'
    BY <2>4, DeltaStep
  <2>5. CASE UNCHANGED vars
    BY <2>5, StutterStep
  <2> QED  BY <2>1, <2>2, <2>3, <2>4, <2>5 DEF Next
<1> QED  BY <1>1, <1>2, PTL DEF Spec

\* The three indexes of open watches never disagree about a watch: trackWatch and
\* removeWatch.
THEOREM IndexesAlwaysAgree == Spec => []IndexesAgree
<1>1. IInv => IndexesAgree
  BY DEF IInv
<1> QED  BY <1>1, Invariance, PTL

\* No update is lost: as long as no update has reported an error, every open watch
\* is up to date with the contents of the cache: notifyAll.
THEOREM NoUpdateIsLost == Spec => []OpenWatchOwedNothing
<1>1. IInv => OpenWatchOwedNothing
  BY DEF IInv
<1> QED  BY <1>1, Invariance, PTL

\* Every open watch is one its live stream can still cancel, so no stream has two
\* and none outlives its stream.
THEOREM NoWatchLeaks == Spec => []WatchesAreCancellable
<1>1. IInv => WatchesAreCancellable
  BY DEF IInv
<1> QED  BY <1>1, Invariance, PTL

\* A watch is answered at most once: sendResponse.
THEOREM NoSecondAnswer == Spec => []AnsweredAtMostOnce
<1>1. IInv => AnsweredAtMostOnce
  BY DEF IInv
<1> QED  BY <1>1, Invariance, PTL

\* The cache never blocks on a full response channel while it holds its lock: one
\* place is enough for a state of the world watch and two for a delta stream.
THEOREM NoSendBlocks == Spec => []SendNeverBlocks
<1>1. IInv => SendNeverBlocks
  <2> SUFFICES ASSUME IInv, NEW c \in Streams
               PROVE  Len(chan[c]) <= IF c \in SotwStreams THEN 1 ELSE 2
    BY DEF SendNeverBlocks
  <2>1. Len(chan[c]) \in Nat
    BY SMTT(30) DEF IInv, StateTypes
  <2> QED  BY SMTT(30), <2>1 DEF IInv, QueueRoom, Room, Streams
<1> QED  BY <1>1, Invariance, PTL

\* Every stream stays sound.
LEMMA SoundInvariance == Spec => []StreamsAreSound
<1>1. Init => StreamsAreSound
  <2> SUFFICES ASSUME Init, NEW c \in Streams PROVE Sound(c)
    BY DEF StreamsAreSound
  <2>1. Tracked = {} /\ pc[c] = "closed" /\ sub[c] = NoSubscription
    BY DEF Init, Tracked
  <2> QED  BY <2>1, SotwKnowsOnlyRequested DEF Sound
<1>2. IInv /\ StreamsAreSound /\ [Next]_vars => StreamsAreSound'
  BY NextSound
<1> QED  BY <1>1, <1>2, Invariance, PTL DEF Spec

\* No stream waits for nothing: when its loop waits, its watch is open, a response is
\* queued or was sent, or it subscribes to nothing.
THEOREM NoStreamIsStuck == Spec => []StreamNotStuck
<1>1. StreamsAreSound => StreamNotStuck
  BY DEF StreamsAreSound, Sound, StreamNotStuck, SubscribesToNothing
<1> QED  BY <1>1, SoundInvariance, PTL

\* A state of the world client is known to hold only what it subscribes to, and send
\* never drops a response that waits in the channel of the present watch.
THEOREM NoStaleKnowledge == Spec => []SotwKnowsOnlySubscribed
<1>1. StreamsAreSound => SotwKnowsOnlySubscribed
  <2>1. SotwStreams \subseteq Streams
    BY DEF Streams
  <2> QED  BY <2>1 DEF StreamsAreSound, Sound, SotwKnowsOnlySubscribed, KnowsOnlyRequested
<1> QED  BY <1>1, SoundInvariance, PTL

\* The linear cache implements the watch service: the invariant holds before and after
\* every step, and every step is then one of the service, or changes nothing there.
THEOREM Refinement == Spec => ImplementsWatchService
<1>1. Init => Service!Init
  <2> SUFFICES ASSUME Init PROVE Service!Init
    OBVIOUS
  <2>1. \A c \in Streams : ~HasOpenWatch(c)
    BY DEF Init, HasOpenWatch, Tracked
  <2>2. [c \in Streams |-> OpenWatch(c)] = [c \in Streams |-> None]
    BY <2>1 DEF OpenWatch
  <2>3. Answers(<<>>) = <<>>
    BY SMTT(30) DEF Answers
  <2>4. [c \in Streams |-> Answers(chan[c])] = [c \in Streams |-> <<>>]
    BY <2>3 DEF Init
  <2>5. failed = FALSE
    BY DEF Init
  <2> QED  BY <2>2, <2>4, <2>5 DEF Service!Init
<1>2. IInv /\ IInv' /\ [Next]_vars => [Service!Next]_(Service!vars)
  <2> SUFFICES ASSUME IInv, IInv', [Next]_vars PROVE Service!Next \/ UNCHANGED Service!vars
    OBVIOUS
  <2>1. CASE CacheNext
    BY <2>1, CacheRefines DEF Service!Next
  <2>2. ASSUME NEW c \in Streams, Open(c) PROVE UNCHANGED Service!vars
    BY <2>2, QuietRefines DEF Open
  <2>3. ASSUME NEW c \in Streams, Shutdown(c) PROVE Service!Next
    <3>1. /\ Cancel(c) /\ UNCHANGED <<resources, failed>> /\ chan'[c] = <<>>
          /\ \A d \in Streams \ {c} : chan'[d] = chan[d] /\ cancel'[d] = cancel[d]
      BY <2>3 DEF Shutdown, IInv, StateTypes
    <3>2. Service!Cancel({c})
      BY <3>1, CancelRefines
    <3> QED  BY <3>2, ConsumerSteps
  <2>4. ASSUME NEW c \in SotwStreams, SotwNext(c) PROVE Service!Next \/ UNCHANGED Service!vars
    BY <2>4, SotwRefines
  <2>5. ASSUME NEW c \in DeltaStreams, DeltaNext(c) PROVE Service!Next \/ UNCHANGED Service!vars
    BY <2>5, DeltaRefines
  <2>6. CASE UNCHANGED vars
    BY <2>6, QuietRefines DEF vars, streamVars
  <2> QED  BY <2>1, <2>2, <2>3, <2>4, <2>5, <2>6 DEF Next
<1> QED  BY <1>1, <1>2, Invariance, PTL DEF Spec, Service!Spec, ImplementsWatchService

-----------------------------------------------------------------------------
(* The counter of watches.                                                 *)

Counted == watchCount \in Int

\* There are finitely many open watches, since each belongs to a stream.
LEMMA FinitelyManyWatches ==
    ASSUME IInv
    PROVE  IsFiniteSet(Tracked)
<1>1. \A w \in Tracked : w.stream \in Streams /\ cancel[w.stream] = w
  BY TrackedFacts DEF IInv, Watch, WatchesAreCancellable
<1>2. cancel \in Surjection(Streams, {cancel[c] : c \in Streams})
  BY DEF Surjection, IInv, StateTypes
<1>3. IsFiniteSet({cancel[c] : c \in Streams})
  BY <1>2, LinearAssumption, FS_Surjection DEF LinearAssumption
<1> QED  BY SMTT(30), <1>1, <1>3, FS_Subset

\* Removing finitely many watches leaves the counter a number: removeWatch.
LEMMA RemovalCounts ==
    ASSUME Counted, NEW ws, IsFiniteSet(ws), removeWatches(ws)
    PROVE  Counted'
  BY SMTT(30), FS_CardinalityType DEF removeWatches, Counted

\* An update answers, and removes, some of the open watches: notifyAll.
LEMMA UpdateCounts ==
    ASSUME IInv, Counted, NEW res, NEW modified \in SUBSET Names, Update(res, modified)
    PROVE  Counted'
<1>1. PICK visited \in Visits(res, Triggered(modified)) :
          removeWatches({w \in visited : HasResponse(res, w, FALSE)})
  BY DEF Update, notifyAll
<1>2. Triggered(modified) \subseteq Tracked /\ wildcardWatches \subseteq Tracked
  BY TrackedMembers DEF Triggered
<1>3. {w \in visited : HasResponse(res, w, FALSE)} \subseteq Tracked
  BY <1>2 DEF Visits
<1>4. IsFiniteSet({w \in visited : HasResponse(res, w, FALSE)})
  BY <1>3, FinitelyManyWatches, FS_Subset
<1> QED  BY <1>1, <1>4, RemovalCounts

\* Creating a watch counts it or not: CreateWatch.
LEMMA CreateCounts ==
    ASSUME Counted, NEW c, NEW s, NEW reply, NEW queue, CreateWatch(c, s, reply, queue)
    PROVE  Counted'
  BY SMTT(30) DEF CreateWatch, trackWatch, Counted

\* A cancel function takes one away, or nothing.
LEMMA CancelCounts ==
    ASSUME Counted, NEW c, Cancel(c)
    PROVE  Counted'
<1>1. CASE cancel[c] = None
  BY <1>1 DEF Cancel, Counted
<1>2. CASE cancel[c] # None
  BY <1>2, FS_Singleton, RemovalCounts DEF Cancel
<1> QED  BY <1>1, <1>2

\* Every variable of the cache and of the stream loops always has its type.
THEOREM TypeCorrect == Spec => []TypeOK
<1>1. Init => Counted
  BY SMTT(30) DEF Init, Counted
<1>2. IInv /\ Counted /\ [Next]_vars => Counted'
  <2> SUFFICES ASSUME IInv, Counted, [Next]_vars
               PROVE  Counted'
    OBVIOUS
  <2>1. CASE CacheNext
    <3>1. ASSUME NEW n \in Names, NEW v, UpdateResource(n, v) \/ DeleteResource(n) PROVE Counted'
      BY <3>1, UpdateCounts DEF UpdateResource, DeleteResource
    <3>2. ASSUME NEW toUpdate, NEW toDelete \in SUBSET Names, UpdateResources(toUpdate, toDelete)
          PROVE  Counted'
      BY <3>2, UpdateCounts DEF UpdateResources
    <3>3. ASSUME NEW contents, SetResources(contents) PROVE Counted'
      BY <3>3, UpdateCounts DEF SetResources
    <3> QED  BY <2>1, <3>1, <3>2, <3>3 DEF CacheNext
  <2>2. ASSUME NEW c \in Streams, Open(c) \/ Shutdown(c) PROVE Counted'
    BY <2>2, CancelCounts DEF Open, Shutdown, cacheVars, Counted
  <2>3. ASSUME NEW c \in SotwStreams, SotwNext(c) PROVE Counted'
    <3>1. CASE \E req \in SotwRequests : SotwFirstRequest(c, req) \/ SotwRewatch(c, req)
      BY <3>1, CreateCounts DEF SotwFirstRequest, SotwRewatch
    <3>2. CASE SotwCloseWatch(c)
      BY <3>2, CancelCounts DEF SotwCloseWatch, CancelWatch
    <3>3. CASE SotwSend(c)
      BY <3>3 DEF SotwSend, Fail, cacheVars, Counted
    <3> QED  BY <2>3, <3>1, <3>2, <3>3 DEF SotwNext
  <2>4. ASSUME NEW c \in DeltaStreams, DeltaNext(c) PROVE Counted'
    <3>1. ASSUME NEW s, NEW req, CreateDeltaWatch(c, s, req) PROVE Counted'
      BY <3>1, CreateCounts DEF CreateDeltaWatch, Fail, cacheVars, Counted
    <3>2. CASE \E req \in DeltaRequests : DeltaFirstRequest(c, req) \/ DeltaRewatch(c, req)
      BY <3>1, <3>2 DEF DeltaFirstRequest, DeltaRewatch
    <3>3. CASE DeltaCancelWatch(c)
      BY <3>3, CancelCounts DEF DeltaCancelWatch, CancelWatch
    <3>4. CASE DeltaDrained(c) \/ DeltaProcess(c)
      BY <3>4 DEF DeltaDrained, DeltaProcess, cacheVars, Counted
    <3> QED  BY <2>4, <3>2, <3>3, <3>4 DEF DeltaNext
  <2>5. CASE UNCHANGED vars
    BY <2>5 DEF vars, cacheVars, Counted
  <2> QED  BY <2>1, <2>2, <2>3, <2>4, <2>5 DEF Next
<1>3. IInv /\ Counted => TypeOK
  BY DEF IInv, TypeOK, Counted
<1> QED  BY <1>1, <1>2, <1>3, Invariance, PTL DEF Spec
=============================================================================
