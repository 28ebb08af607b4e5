-------------------------- MODULE SotwClientInvariant --------------------------
(***************************************************************************)
(* The inductive invariant of SotwClient, for one type of one stream, and  *)
(* that the steps of a client and the arrival of its requests preserve it, *)
(* for any number of types, nodes, streams and snapshots.                  *)
(***************************************************************************)
EXTENDS SotwClient, SnapshotCacheProofs

\* A leaf is for Zenon, or for the SMT solver where it cites it: arithmetic and sequences.
USE Zenon

-----------------------------------------------------------------------------
(* Types of the messages, and steps as steps of the cache.                 *)

\* Requests and responses on their way, with their nonces.
Messages == [req : Request, nonce : Nat]

Deliveries == [resp : Response, nonce : Nat]

\* The messages, nonces and versions of clients and streams are well formed.
WireTypes ==
    /\ up \in [Streams -> Seq(Messages)]
    /\ down \in [Streams -> Seq(Deliveries)]
    /\ version \in [Streams -> [Types -> VersionInfos]]
    /\ nonce \in [Streams -> [Types -> Nat]]
    /\ lastNonce \in [Streams -> Nat]

\* A request is well formed.
LEMMA MessageType ==
    ASSUME NEW t \in Types, NEW names \in SUBSET Tokens, NEW v \in VersionInfos, NEW k \in Nat
    PROVE  /\ Message(t, names, v, k) \in Messages
           /\ Message(t, names, v, k).req.type = t
           /\ Message(t, names, v, k).req.resourceNames = names
  BY DEF Message, Messages, Request

\* The first element of a sequence and the others.
LEMMA HeadAndTail ==
    ASSUME NEW R, NEW s \in Seq(R), s # <<>>
    PROVE  /\ 1 \in DOMAIN s /\ Head(s) = s[1] /\ Head(s) \in R /\ Tail(s) \in Seq(R)
           /\ \A i \in DOMAIN Tail(s) : i + 1 \in DOMAIN s /\ i + 1 # 1 /\ Tail(s)[i] = s[i + 1]
  BY SMTT(30)

\* Deliver puts the response of the server on its way.
LEMMA DeliverType ==
    ASSUME WireTypes, NEW c \in Streams, NEW resp \in Response, Deliver(c, resp)
    PROVE  /\ down' \in [Streams -> Seq(Deliveries)] /\ lastNonce' \in [Streams -> Nat]
           /\ \/ down' = down
              \/ down' = [down EXCEPT ![c] = Append(@, [resp |-> resp, nonce |-> lastNonce[c] + 1])]
<1>1. CASE UNCHANGED <<down, lastNonce>>
  BY <1>1 DEF WireTypes
<1>2. CASE /\ lastNonce' = [lastNonce EXCEPT ![c] = @ + 1]
           /\ down' = [down EXCEPT ![c] = Append(@, [resp |-> resp, nonce |-> lastNonce[c] + 1])]
  <2> DEFINE d == [resp |-> resp, nonce |-> lastNonce[c] + 1]
  <2>1. lastNonce[c] + 1 \in Nat
    BY SMTT(30) DEF WireTypes
  <2>2. d \in Deliveries
    BY <2>1 DEF Deliveries
  <2> HIDE DEF d
  <2>3. Append(down[c], d) \in Seq(Deliveries)
    BY SMTT(30), <2>2 DEF WireTypes
  <2>4. down' = [down EXCEPT ![c] = Append(@, d)]
    BY <1>2 DEF d
  <2> QED  BY <1>2, <2>1, <2>3, <2>4 DEF WireTypes, d
<1> QED  BY <1>1, <1>2 DEF Deliver, nonceVars

\* What the server takes and sends is well formed.
LEMMA ServerTypes ==
    ASSUME IInv, WireTypes, NEW c \in Streams, ServerStep(c)
    PROVE  WireTypes'
<1>1. UNCHANGED <<version, nonce>>
  BY DEF ServerStep, ServerFirstRequest, ServerIgnores, ServerCloses, ServerDrains,
         ServerRewatches, ServerSends, clientVars
<1>2. CASE ServerFirstRequest(c) \/ ServerIgnores(c) \/ ServerCloses(c)
  <2>1. up[c] # <<>> /\ up' = [up EXCEPT ![c] = Tail(@)] /\ UNCHANGED <<down, lastNonce>>
    BY <1>2 DEF ServerFirstRequest, ServerIgnores, ServerCloses, nonceVars
  <2>2. Tail(up[c]) \in Seq(Messages)
    BY <2>1, HeadAndTail DEF WireTypes
  <2> QED  BY <1>1, <2>1, <2>2 DEF WireTypes
<1>3. CASE ServerRewatches(c)
  BY <1>1, <1>3 DEF ServerRewatches, clientVars, WireTypes
<1>4. CASE ServerSends(c)
  <2>1. PICK i \in DOMAIN queue[c] : Deliver(c, queue[c][i])
    BY <1>4 DEF ServerSends
  <2>2. queue[c][i] \in Response /\ up' = up
    BY SMTT(30), <1>4 DEF IInv, TypeOK, ServerSends
  <2> QED  BY <1>1, <2>1, <2>2, DeliverType DEF WireTypes
<1>5. CASE ServerDrains(c)
  <2>1. CASE UNCHANGED <<down, nonceVars>>
    BY <1>1, <1>5, <2>1 DEF ServerDrains, nonceVars, WireTypes
  <2>2. CASE queue[c] # <<>> /\ Deliver(c, Head(queue[c]))
    <3>1. Head(queue[c]) \in Response /\ up' = up
      BY <1>5, <2>2, HeadAndTail DEF IInv, TypeOK, ServerDrains
    <3> QED  BY <1>1, <2>2, <3>1, DeliverType DEF WireTypes
  <2> QED  BY <1>5, <2>1, <2>2 DEF ServerDrains
<1> QED  BY <1>2, <1>3, <1>4, <1>5 DEF ServerStep

\* The requests on their way to the server.
Arriving == [c \in Streams |-> {up[c][i].req : i \in DOMAIN up[c]}]

\* The server takes the requests on their way.
LEMMA ServerIsStep ==
    ASSUME WireTypes, NEW c \in Streams, ServerStep(c)
    PROVE  CacheStep(Arriving)
<1>1. up[c] # <<>> => Head(up[c]).req \in Arriving[c]
  <2>1. up[c] # <<>> => 1 \in DOMAIN up[c] /\ Head(up[c]) = up[c][1]
    BY HeadAndTail DEF WireTypes
  <2> QED  BY <2>1 DEF Arriving
<1>2. CASE ServerFirstRequest(c) \/ ServerCloses(c)
  BY <1>1, <1>2 DEF ServerFirstRequest, ServerCloses, CacheStep
<1>3. CASE ServerIgnores(c)
  BY <1>3 DEF ServerIgnores, CacheStep
<1>4. CASE ServerDrains(c) \/ ServerRewatches(c) \/ ServerSends(c)
  BY <1>4 DEF ServerDrains, ServerRewatches, ServerSends, CacheStep
<1> QED  BY <1>2, <1>3, <1>4 DEF ServerStep

\* The requests on their way are requests.
LEMMA ArrivingType ==
    ASSUME WireTypes
    PROVE  Arriving \in [Streams -> SUBSET Request]
<1> SUFFICES ASSUME NEW c \in Streams, NEW i \in DOMAIN up[c] PROVE up[c][i].req \in Request
  BY DEF Arriving
<1>1. up[c][i] \in Messages
  BY SMTT(30) DEF WireTypes
<1> QED  BY <1>1 DEF Messages

\* The snapshots are those the control plane set.
LEMMA SnapshotsSetKept ==
    ASSUME IInv, SnapshotsSet, NEW requests, CacheStep(requests)
    PROVE  SnapshotsSet'
<1>1. snapshots \in [Nodes -> Snapshot \cup {None}]
  BY DEF IInv, TypeOK
<1>2. ASSUME NEW n \in Nodes, NEW snap \in Snapshots, SetSnapshot(n, snap) PROVE SnapshotsSet'
  BY <1>1, <1>2 DEF SetSnapshot, SnapshotsSet
<1>3. ASSUME NEW n \in Nodes, ClearSnapshot(n) PROVE SnapshotsSet'
  BY <1>1, <1>3 DEF ClearSnapshot, SnapshotsSet
<1>4. CASE CacheNext
  <2>1. ASSUME NEW n \in Nodes, SendHeartbeats(n) PROVE SnapshotsSet'
    BY <2>1 DEF SendHeartbeats, SnapshotsSet
  <2> QED  BY <1>2, <1>3, <1>4, <2>1 DEF CacheNext
<1>5. CASE UNCHANGED snapshots
  BY <1>5 DEF SnapshotsSet
<1>6. ASSUME NEW c \in Streams, Open(c) \/ Shutdown(c) \/ processAllExcept(c) \/ Rewatch(c)
      PROVE  UNCHANGED snapshots
  BY <1>6 DEF Open, Shutdown, processAllExcept, Rewatch, CreateWatch, cacheVars
<1>7. ASSUME NEW c \in Streams, NEW req, FirstRequest(c, req) \/ CloseWatch(c, req)
      PROVE  UNCHANGED snapshots
  BY <1>7 DEF FirstRequest, CloseWatch, CreateWatch
<1>8. ASSUME NEW c \in Streams, NEW i \in DOMAIN queue[c], SendResponse(c, i)
      PROVE  UNCHANGED snapshots
  BY <1>8 DEF SendResponse, cacheVars
<1>9. CASE UNCHANGED vars
  BY <1>5, <1>9 DEF vars, cacheVars
<1> QED  BY <1>4, <1>5, <1>6, <1>7, <1>8, <1>9 DEF CacheStep

\* A cache that may not be cleared is not.
LEMMA NotCleared ==
    ASSUME MaxClears = 0, IInv, \A n \in Nodes : cleared[n] = 0, NEW requests, CacheStep(requests)
    PROVE  cleared' = cleared /\ \A n \in Nodes : ~ClearSnapshot(n)
<1>1. \A n \in Nodes : ~ClearSnapshot(n)
  <2>1. ~(0 < 0)
    BY SMTT(30)
  <2> QED  BY <2>1 DEF ClearSnapshot
<1>2. CASE CacheNext
  BY <1>1, <1>2 DEF CacheNext, SetSnapshot, SendHeartbeats
<1>3. CASE UNCHANGED vars
  <2>1. UNCHANGED cacheVars
    BY <1>3 DEF vars
  <2> QED  BY <1>1, <2>1 DEF cacheVars
<1>4. ASSUME NEW c \in Streams, NEW req, FirstRequest(c, req) \/ CloseWatch(c, req)
      PROVE  cleared' = cleared
  BY <1>4 DEF FirstRequest, CloseWatch, CreateWatch
<1>5. ASSUME NEW c \in Streams, Open(c) \/ Shutdown(c) \/ processAllExcept(c)
      PROVE  cleared' = cleared
  <2>1. ASSUME UNCHANGED cacheVars PROVE cleared' = cleared
    BY <2>1 DEF cacheVars
  <2>2. CASE Open(c)
    BY <2>1, <2>2 DEF Open
  <2>3. CASE Shutdown(c)
    BY <2>3 DEF Shutdown
  <2>4. CASE processAllExcept(c)
    BY <2>1, <2>4 DEF processAllExcept
  <2> QED  BY <1>5, <2>2, <2>3, <2>4
<1>6. ASSUME NEW c \in Streams, NEW i, SendResponse(c, i)
      PROVE  cleared' = cleared
  BY <1>6 DEF SendResponse, cacheVars
<1>7. ASSUME NEW c \in Streams, Rewatch(c) PROVE cleared' = cleared
  BY <1>7 DEF Rewatch, CreateWatch
<1> QED  BY <1>1, <1>2, <1>3, <1>4, <1>5, <1>6, <1>7 DEF CacheStep

\* One element is put on an empty sequence and taken from it again.
LEMMA OneElement ==
    ASSUME NEW R
    PROVE  /\ \A e \in R : /\ DOMAIN Append(<<>>, e) = {1} /\ Append(<<>>, e) # <<>>
                           /\ Append(<<>>, e)[1] = e
           /\ \A s \in Seq(R) : s # <<>> /\ (\A i \in DOMAIN s : i = 1) =>
                 1 \in DOMAIN s /\ Head(s) = s[1] /\ Tail(s) = <<>>
           /\ DOMAIN <<>> = {}
<1>1. ASSUME NEW s \in Seq(R), s # <<>>, \A i \in DOMAIN s : i = 1
      PROVE  1 \in DOMAIN s /\ Head(s) = s[1] /\ Tail(s) = <<>>
  <2>1. 1 \in DOMAIN s /\ Head(s) = s[1] /\ Tail(s) \in Seq(R)
    BY SMTT(30), <1>1
  <2>2. DOMAIN s = 1 .. Len(s) /\ Len(s) \in Nat /\ Len(s) # 0
    BY SMTT(30), <1>1
  <2>3. Len(s) = 1
    BY SMTT(30), <1>1, <2>2
  <2>4. Len(Tail(s)) = 0
    BY SMTT(30), <1>1, <2>3
  <2>5. \A r \in Seq(R) : Len(r) = 0 => r = <<>>
    BY SMTT(30)
  <2>6. Tail(s) = <<>>
    BY <2>1, <2>4, <2>5
  <2> QED  BY <2>1, <2>6
<1>2. ASSUME NEW e \in R
      PROVE  DOMAIN Append(<<>>, e) = {1} /\ Append(<<>>, e) # <<>> /\ Append(<<>>, e)[1] = e
  BY SMTT(30)
<1>3. DOMAIN <<>> = {}
  BY SMTT(30)
<1> QED  BY <1>1, <1>2, <1>3

-----------------------------------------------------------------------------
(* What a step of the server does to one type of one stream.               *)

\* The entry of a type is as it was, and nothing is waiting or queued that was not.
Same(d, u) ==
    /\ sub'[d][u] = sub[d][u]
    /\ \A n \in Nodes : \A w \in watches'[n] : w.stream = d /\ w.type = u => w \in watches[n]
    /\ \A i \in DOMAIN queue'[d] : queue'[d][i].type = u =>
          \E j \in DOMAIN queue[d] : queue'[d][i] = queue[d][j]

\* The other streams are left alone.
OthersSame(c) ==
    \A d \in Streams : d # c =>
        /\ pc'[d] = pc[d] /\ pending'[d] = pending[d] /\ replied'[d] = replied[d]
        /\ \A u \in Types : Same(d, u)

\* A type that is left alone is not served unless it was.
LEMMA SameServed ==
    ASSUME NEW d \in Streams, NEW u \in Types, Same(d, u)
    PROVE  /\ IsWaiting(d, u)' => IsWaiting(d, u)
           /\ IsQueued(d, u)' => IsQueued(d, u)
<1>1. ASSUME NEW i \in DOMAIN queue'[d], queue'[d][i].type = u PROVE IsQueued(d, u)
  BY <1>1 DEF Same, IsQueued
<1>2. IsQueued(d, u)' => IsQueued(d, u)
  BY <1>1 DEF IsQueued
<1>3. IsWaiting(d, u)' => IsWaiting(d, u)
  BY DEF Same, IsWaiting
<1> QED  BY <1>2, <1>3

\* A stream opens.
LEMMA OpenEffect ==
    ASSUME IInv, NEW c \in Streams, Open(c)
    PROVE  /\ OthersSame(c) /\ \A u \in Types : Same(c, u)
           /\ pc[c] = "closed" /\ pc'[c] = "idle"
<1>1. /\ pc[c] = "closed" /\ pc' = [pc EXCEPT ![c] = "idle"]
      /\ UNCHANGED <<watches, pending, sub, queue, replied>>
  BY DEF Open, cacheVars
<1>2. pc \in [Streams -> {"closed", "idle", "draining", "cancelled"}]
  BY DEF IInv, TypeOK
<1>3. \A d \in Streams : \A u \in Types : Same(d, u)
  BY <1>1 DEF Same
<1> QED  BY <1>1, <1>2, <1>3 DEF OthersSame

\* A stream ends: Shutdown.
LEMMA ShutdownEffect ==
    ASSUME IInv, NEW c \in Streams, Shutdown(c)
    PROVE  /\ OthersSame(c) /\ pc'[c] = "closed" /\ \A u \in Types : sub'[c][u] = None
           /\ replied'[c] = {} /\ snapshots' = snapshots
<1>1. /\ pc' = [pc EXCEPT ![c] = "closed"] /\ pending' = [pending EXCEPT ![c] = None]
      /\ sub' = [sub EXCEPT ![c] = [t \in Types |-> None]]
      /\ queue' = [queue EXCEPT ![c] = <<>>] /\ replied' = [replied EXCEPT ![c] = {}]
      /\ cancelWatches(c, Types) /\ snapshots' = snapshots
  BY DEF Shutdown
<1>2. /\ pc \in [Streams -> {"closed", "idle", "draining", "cancelled"}]
      /\ pending \in [Streams -> Request \cup {None}]
      /\ sub \in [Streams -> [Types -> Sub \cup {None}]]
      /\ queue \in [Streams -> Seq(Response)] /\ replied \in [Streams -> SUBSET Types]
  BY DEF IInv, TypeOK
<1>3. \A n \in Nodes : watches'[n] \subseteq watches[n]
  BY <1>1, CancelledWatches
<1>4. ASSUME NEW d \in Streams, d # c
      PROVE  /\ pc'[d] = pc[d] /\ pending'[d] = pending[d] /\ sub'[d] = sub[d]
             /\ queue'[d] = queue[d] /\ replied'[d] = replied[d]
  BY <1>1, <1>2, <1>4
<1>5. pc'[c] = "closed" /\ replied'[c] = {} /\ \A u \in Types : sub'[c][u] = None
  BY <1>1, <1>2
<1>6. ASSUME NEW d \in Streams, d # c, NEW u \in Types PROVE Same(d, u)
  BY <1>3, <1>4, <1>6 DEF Same
<1> QED  BY <1>1, <1>4, <1>5, <1>6 DEF OthersSame

\* A watch is closed, to be replaced: CloseWatch.
LEMMA CloseWatchEffect ==
    ASSUME IInv, NEW c \in Streams, NEW req \in Request, CloseWatch(c, req)
    PROVE  /\ OthersSame(c) /\ \A u \in Types : Same(c, u)
           /\ pc[c] = "idle" /\ pc'[c] \in {"draining", "cancelled"} /\ pending'[c] = req
           /\ ~IsWaiting(c, req.type)' /\ UNCHANGED <<snapshots, sub, replied, queue>>
<1>1. /\ pc' = [pc EXCEPT ![c] = IF Ordered THEN "draining" ELSE "cancelled"]
      /\ pending' = [pending EXCEPT ![c] = req] /\ pc[c] = "idle"
      /\ cancelWatches(c, {req.type}) /\ UNCHANGED <<snapshots, sub, replied, queue>>
  BY DEF CloseWatch
<1>2. /\ pc \in [Streams -> {"closed", "idle", "draining", "cancelled"}]
      /\ pending \in [Streams -> Request \cup {None}] /\ req.type \in Types
  BY DEF IInv, TypeOK, Request
<1>3. (\A n \in Nodes : watches'[n] \subseteq watches[n]) /\ ~IsWaiting(c, req.type)'
  <2>1. {req.type} \in SUBSET Types /\ req.type \in {req.type}
    BY <1>2
  <2> QED  BY <1>1, <2>1, CancelledWatches
<1>4. \A d \in Streams : \A u \in Types : Same(d, u)
  BY <1>1, <1>3 DEF Same
<1>5. /\ \A d \in Streams : d # c => pc'[d] = pc[d] /\ pending'[d] = pending[d]
      /\ pc'[c] \in {"draining", "cancelled"} /\ pending'[c] = req
  BY <1>1, <1>2
<1> QED  BY <1>1, <1>3, <1>4, <1>5 DEF OthersSame

\* A response is taken from a channel.
LEMMA TookEffect ==
    ASSUME IInv, NEW c \in Streams, NEW i \in DOMAIN queue[c], Took(c, i),
           NEW t, t = queue[c][i].type
    PROVE  /\ t \in Types /\ IsQueued(c, t) /\ ~IsWaiting(c, t)
           /\ ~IsQueued(c, t)' /\ ~IsWaiting(c, t)'
           /\ OthersSame(c) /\ \A u \in Types : u # t => Same(c, u)
           /\ UNCHANGED <<snapshots, watches, pending>> /\ \A d \in Streams : pc'[d] = pc[d]
<1>1. TypeOK
  BY DEF IInv
<1>2. queue[c][i] \in Response
  BY SMTT(30), <1>1 DEF TypeOK
<1>3. t \in Types /\ IsQueued(c, t)
  BY <1>2 DEF Response, IsQueued
<1>4. ~IsWaiting(c, t)
  BY <1>3 DEF IInv, NoAnswerWhileWaiting
<1>5. /\ UNCHANGED <<snapshots, watches, pending>>
      /\ \A d \in Streams : queue'[d] # queue[d] => d = c
      /\ \A d \in Streams : pc'[d] = pc[d]
      /\ \A j \in DOMAIN queue'[c] :
            queue'[c][j].type # t /\ \E k \in DOMAIN queue[c] : queue'[c][j] = queue[c][k]
  BY DEF Took, cacheVars
<1>6. /\ \A u \in Types : u # t => sub'[c][u] = sub[c][u]
      /\ \A d \in Streams : d # c => sub'[d] = sub[d] /\ replied'[d] = replied[d]
  <2>1. CASE UNCHANGED <<sub, replied>>
    BY <2>1
  <2>2. ASSUME NEW s, sub' = [sub EXCEPT ![c][t] = s], replied' = [replied EXCEPT ![c] = @ \cup {t}]
        PROVE  /\ \A u \in Types : u # t => sub'[c][u] = sub[c][u]
               /\ \A d \in Streams : d # c => sub'[d] = sub[d] /\ replied'[d] = replied[d]
    BY <1>1, <1>3, <2>2 DEF TypeOK
  <2>3. \/ UNCHANGED <<sub, replied>>
        \/ /\ sub' = [sub EXCEPT ![c][t] =
                          SetReturnedResources(sub[c][t], queue[c][i].returnedResources)]
           /\ replied' = [replied EXCEPT ![c] = @ \cup {t}]
    BY DEF Took, Send
  <2> QED  BY <2>1, <2>2, <2>3
<1>7. ASSUME NEW d \in Streams, NEW u \in Types, d # c \/ u # t PROVE Same(d, u)
  <2>1. CASE d # c
    BY <1>5, <1>6, <2>1 DEF Same
  <2>2. CASE d = c /\ u # t
    BY <1>5, <1>6, <2>2 DEF Same
  <2> QED  BY <1>7, <2>1, <2>2
<1>8. ~IsQueued(c, t)' /\ ~IsWaiting(c, t)'
  BY <1>4, <1>5 DEF IsQueued, IsWaiting
<1>9. OthersSame(c)
  BY <1>5, <1>6, <1>7 DEF OthersSame
<1> QED  BY <1>3, <1>4, <1>5, <1>7, <1>8, <1>9

\* What CreateWatch does for a request req, with the subscription s.
Created(c, req, s) ==
    /\ OthersSame(c) /\ \A u \in Types : u # req.type => Same(c, u)
    /\ pc'[c] = "idle" /\ sub'[c][req.type] = s /\ snapshots' = snapshots
    /\ replied'[c] = replied[c] \ {req.type}
    /\ \A n \in Nodes : \A v \in watches'[n] : v.stream = c /\ v.type = req.type =>
          v.sub = s /\ v.versionInfo = req.versionInfo
    /\ \A i \in DOMAIN queue'[c] : queue'[c][i].type = req.type =>
          /\ snapshots[NodeOf[c]] \in Snapshot
          /\ \E w \in Watch : /\ w.stream = c /\ w.type = req.type
                              /\ w.sub = s /\ w.versionInfo = req.versionInfo
                              /\ queue'[c][i] = createResponse(snapshots[NodeOf[c]], w, 0)

\* A watch is created, in answer to a request: CreateWatch.
LEMMA CreateWatchEffect ==
    ASSUME IInv, NEW c \in Streams, NEW req \in Request, NEW s \in Sub, NEW q \in Seq(Response),
           CreateWatch(c, req, s, q), ~IsWaiting(c, req.type),
           \A i \in DOMAIN q :
              q[i].type # req.type /\ \E j \in DOMAIN queue[c] : q[i] = queue[c][j]
    PROVE  Created(c, req, s)
<1> DEFINE n    == NodeOf[c]
           t    == req.type
           snap == snapshots[n]
           w    == [id |-> watchCount + 1, stream |-> c, type |-> req.type,
                    versionInfo |-> req.versionInfo, sub |-> s]
           resp == createResponse(snap, w, 0)
<1>1. /\ n \in Nodes /\ t \in Types /\ TypeOK /\ w \in Watch /\ snap \in Snapshot \cup {None}
      /\ w.sub = s /\ w.stream = c /\ w.type = t /\ w.versionInfo = req.versionInfo
  <2>1. TypeOK /\ n \in Nodes /\ t \in Types /\ req.versionInfo \in VersionInfos
    BY SnapshotAssumption DEF IInv, SnapshotAssumption, Request
  <2>2. watchCount \in Nat /\ snap \in Snapshot \cup {None}
    BY <2>1 DEF TypeOK
  <2>3. w \in Watch
    BY SMTT(30), <2>1, <2>2 DEF Watch
  <2> QED  BY <2>1, <2>2, <2>3
<1>2. /\ sub' = [sub EXCEPT ![c][t] = s]
      /\ watches' = [watches EXCEPT ![n] = @ \cup {w}] \/ watches' = watches
      /\ replied' = [replied EXCEPT ![c] = @ \ {t}]
      /\ pending' = [pending EXCEPT ![c] = None]
      /\ pc' = [pc EXCEPT ![c] = "idle"] /\ snapshots' = snapshots
  BY DEF CreateWatch
<1>3. \/ queue' = [queue EXCEPT ![c] = q]
      \/ snap # None /\ queue' = [queue EXCEPT ![c] = Append(q, resp)]
  BY DEF CreateWatch
<1> HIDE DEF w, resp
<1>4. /\ sub'[c][t] = s /\ pc'[c] = "idle" /\ replied'[c] = replied[c] \ {t}
      /\ \A u \in Types : u # t => sub'[c][u] = sub[c][u]
      /\ \A d \in Streams : d # c =>
            sub'[d] = sub[d] /\ pc'[d] = pc[d] /\ pending'[d] = pending[d] /\ replied'[d] = replied[d]
  BY <1>1, <1>2 DEF TypeOK
<1>5. \A m \in Nodes : \A v \in watches'[m] : v = w \/ v \in watches[m]
  <2>1. CASE watches' = watches
    BY <2>1
  <2>2. CASE watches' = [watches EXCEPT ![n] = @ \cup {w}]
    <3>1. \A m \in Nodes : watches'[m] \subseteq watches[m] \cup {w}
      BY <1>1, <2>2 DEF TypeOK
    <3> QED  BY <3>1
  <2> QED  BY <1>2, <2>1, <2>2
<1>6. \A d \in Streams : d # c => queue'[d] = queue[d]
  BY <1>1, <1>3 DEF TypeOK
<1>7. \A i \in DOMAIN queue'[c] :
          \/ \E j \in DOMAIN q : queue'[c][i] = q[j]
          \/ snap # None /\ queue'[c][i] = resp
  <2>1. CASE queue' = [queue EXCEPT ![c] = q]
    BY <1>1, <2>1 DEF TypeOK
  <2>2. CASE snap # None /\ queue' = [queue EXCEPT ![c] = Append(q, resp)]
    <3>1. queue'[c] = Append(q, resp)
      BY <1>1, <2>2 DEF TypeOK
    <3>2. \A i \in DOMAIN Append(q, resp) :
              \/ \E j \in DOMAIN q : Append(q, resp)[i] = q[j]
              \/ Append(q, resp)[i] = resp
      BY SMTT(30)
    <3> QED  BY <2>2, <3>1, <3>2
  <2> QED  BY <1>3, <2>1, <2>2
<1>8. ASSUME snap # None PROVE resp.type = t
  BY <1>1, <1>8, CreateResponseType DEF resp
<1>9. \A i \in DOMAIN queue'[c] :
          \/ queue'[c][i].type # t /\ \E j \in DOMAIN queue[c] : queue'[c][i] = queue[c][j]
          \/ snap # None /\ queue'[c][i] = resp /\ queue'[c][i].type = t
  BY <1>7, <1>8
<1>10. ASSUME NEW d \in Streams, d # c, NEW u \in Types PROVE Same(d, u)
  BY <1>1, <1>4, <1>5, <1>6, <1>10 DEF Same
<1>11. ASSUME NEW u \in Types, u # t PROVE Same(c, u)
  BY <1>1, <1>4, <1>5, <1>9, <1>11 DEF Same
<1>12. ASSUME NEW m \in Nodes, NEW v \in watches'[m], v.stream = c, v.type = t
       PROVE  v.sub = s /\ v.versionInfo = req.versionInfo
  BY <1>1, <1>5, <1>12 DEF IsWaiting
<1>13. ASSUME NEW i \in DOMAIN queue'[c], queue'[c][i].type = t
       PROVE  /\ snap \in Snapshot
              /\ \E v \in Watch : /\ v.stream = c /\ v.type = t
                                  /\ v.sub = s /\ v.versionInfo = req.versionInfo
                                  /\ queue'[c][i] = createResponse(snap, v, 0)
  <2>1. snap # None /\ queue'[c][i] = createResponse(snap, w, 0)
    BY <1>9, <1>13 DEF resp
  <2> QED  BY <1>1, <2>1
<1>14. OthersSame(c)
  BY <1>4, <1>10 DEF OthersSame
<1> QED  BY <1>2, <1>4, <1>11, <1>12, <1>13, <1>14 DEF Created

\* The first request for a type.
LEMMA FirstRequestEffect ==
    ASSUME IInv, NEW c \in Streams, NEW req \in Request, FirstRequest(c, req)
    PROVE  /\ Created(c, req, NewSotwSubscription(req.resourceNames, LegacyWildcard))
           /\ pc[c] = "idle" /\ sub[c][req.type] = None /\ req.type \in Types
<1> DEFINE s == NewSotwSubscription(req.resourceNames, LegacyWildcard)
<1>1. req.type \in Types /\ s \in Sub /\ queue[c] \in Seq(Response)
  BY SubscriptionType DEF Request, IInv, TypeOK
<1> HIDE DEF s
<1>2. CreateWatch(c, req, s, queue[c]) /\ sub[c][req.type] = None /\ pc[c] = "idle"
  BY DEF FirstRequest, s
<1>3. ~IsWaiting(c, req.type) /\ ~IsQueued(c, req.type)
  BY <1>1, <1>2 DEF IInv, NothingWithoutEntry
<1>4. \A i \in DOMAIN queue[c] :
          queue[c][i].type # req.type /\ \E j \in DOMAIN queue[c] : queue[c][i] = queue[c][j]
  BY <1>3 DEF IsQueued
<1>5. Created(c, req, s)
  BY <1>1, <1>2, <1>3, <1>4, CreateWatchEffect
<1> QED  BY <1>1, <1>2, <1>5 DEF s

\* A request that replaces a watch.
LEMMA RewatchEffect ==
    ASSUME IInv, NEW c \in Streams, Rewatch(c)
    PROVE  \E req \in Request :
              /\ req = pending[c] /\ req.type \in Types
              /\ pc[c] = "cancelled" /\ sub[c][req.type] \in Sub
              /\ Created(c, req, SetResourceSubscription(sub[c][req.type], req.resourceNames))
<1> DEFINE req == pending[c]
           s   == SetResourceSubscription(sub[c][req.type], req.resourceNames)
           q   == Kept(c, req.type)
<1>1. pc[c] = "cancelled" /\ CreateWatch(c, req, s, q)
  BY DEF Rewatch
<1>2. /\ req \in Request /\ req.type \in Types /\ sub[c][req.type] \in Sub
      /\ ~IsWaiting(c, req.type) /\ q \in Seq(Response)
      /\ \A i \in DOMAIN q : q[i].type # req.type /\ \E j \in DOMAIN queue[c] : q[i] = queue[c][j]
  BY <1>1, RewatchRequest
<1>3. s \in Sub
  <2>1. req.resourceNames \in SUBSET Tokens
    BY <1>2 DEF Request
  <2> QED  BY <1>2, <2>1, SubscriptionType
<1>4. PICK r \in Request : r = req
  BY <1>2
<1> HIDE DEF req, s, q
<1>5. Created(c, r, s)
  BY <1>1, <1>2, <1>3, <1>4, CreateWatchEffect
<1> QED  BY <1>1, <1>2, <1>4, <1>5 DEF req, s

\* A new snapshot turns watches of its node into responses: SetSnapshot.
LEMMA SetSnapshotEffect ==
    ASSUME IInv, NEW n \in Nodes, NEW snap \in Snapshots, SetSnapshot(n, snap)
    PROVE  /\ UNCHANGED <<pc, pending, sub, replied>>
           /\ snapshots' = [snapshots EXCEPT ![n] = snap]
           /\ \A m \in Nodes : watches'[m] \subseteq watches[m]
           /\ \A c \in Streams : \A i \in DOMAIN queue'[c] :
                 \/ \E j \in DOMAIN queue[c] : queue'[c][i] = queue[c][j]
                 \/ \E w \in watches[n] :
                       /\ w \in Watch /\ w.stream = c /\ w.type = queue'[c][i].type
                       /\ queue'[c][i] = createResponse(snap, w, round + 1)
<1>1. snap \in Snapshot /\ TypeOK
  BY SnapshotAssumption DEF SnapshotAssumption, IInv
<1>2. PICK ws \in Answered(Due(n, snap)) : \E q \in orderResponseWatches(Streams, ws) :
          Respond(n, ws, q, [w \in ws |-> createResponse(snap, w, round + 1)])
  BY DEF SetSnapshot
<1>3. PICK q \in Shares(Streams, ws) :
          Respond(n, ws, q, [w \in ws |-> createResponse(snap, w, round + 1)])
  BY <1>2 DEF orderResponseWatches
<1> DEFINE response == [w \in ws |-> createResponse(snap, w, round + 1)]
<1>4. ws \in SUBSET watches[n] /\ ws \in SUBSET Watch /\ round + 1 \in Nat
  BY SMTT(30), <1>1, <1>2 DEF Answered, Due, TypeOK
<1>5. response \in [ws -> Response] /\ \A w \in ws : response[w].type = w.type
  BY <1>1, <1>4, CreateResponseType
<1>6. /\ Respond(n, ws, q, response)
      /\ \A w \in ws : response[w] = createResponse(snap, w, round + 1)
  BY <1>3
<1> HIDE DEF response
<1>7. \A c \in Streams : \A i \in DOMAIN queue'[c] :
          \/ \E j \in DOMAIN queue[c] : queue'[c][i] = queue[c][j]
          \/ \E w \in ws : w.stream = c /\ queue'[c][i] = response[w]
  BY <1>1, <1>4, <1>5, <1>6, AnswersQueued
<1>8. \A m \in Nodes : watches'[m] \subseteq watches[m]
  BY <1>1, <1>6 DEF Respond, TypeOK
<1>9. ASSUME NEW c \in Streams, NEW i \in DOMAIN queue'[c], NEW w \in ws,
             w.stream = c, queue'[c][i] = response[w]
      PROVE  /\ w \in watches[n] /\ w \in Watch /\ w.type = queue'[c][i].type
             /\ queue'[c][i] = createResponse(snap, w, round + 1)
  BY <1>4, <1>5, <1>6, <1>9
<1>10. UNCHANGED <<pc, pending, sub, replied>> /\ snapshots' = [snapshots EXCEPT ![n] = snap]
  BY DEF SetSnapshot
<1> QED  BY ZenonT(40), <1>7, <1>8, <1>9, <1>10

-----------------------------------------------------------------------------
(* What is on its way, type by type.                                       *)

\* The requests and the responses of a type in a sequence.
RequestsIn(s, t) == {s[i] : i \in {j \in DOMAIN s : s[j].req.type = t}}

ResponsesIn(s, t) == {s[i] : i \in {j \in DOMAIN s : s[j].resp.type = t}}

\* Those that are on their way.
Ups(c, t) == RequestsIn(up[c], t)

Downs(c, t) == ResponsesIn(down[c], t)

\* The last request of the sequence s for a type is m.
LastIs(s, t, m) == \A i \in DOMAIN s : s[i].req.type = t => \E j \in DOMAIN s : i <= j /\ s[j] = m

\* Once a request for a type has the nonce k, all later ones do.
FromThen(s, t, k) ==
    \A i, j \in DOMAIN s :
        i <= j /\ s[i].req.type = t /\ s[j].req.type = t /\ s[i].nonce = k => s[j].nonce = k

OneOf(s, t) == \A i, j \in DOMAIN s : s[i].resp.type = t /\ s[j].resp.type = t => i = j

\* A request is sent.
LEMMA RequestSent ==
    ASSUME NEW s \in Seq(Messages), NEW m \in Messages
    PROVE  /\ \A u : u # m.req.type => RequestsIn(Append(s, m), u) = RequestsIn(s, u)
           /\ RequestsIn(Append(s, m), m.req.type) = RequestsIn(s, m.req.type) \cup {m}
           /\ \A u, x : u # m.req.type /\ LastIs(s, u, x) => LastIs(Append(s, m), u, x)
           /\ LastIs(Append(s, m), m.req.type, m)
           /\ \A u, k : FromThen(s, u, k) /\ (u # m.req.type \/ m.nonce = k) =>
                 FromThen(Append(s, m), u, k)
<1> DEFINE q == Append(s, m)
           l == Len(s) + 1
<1>1. /\ l \in DOMAIN q /\ q[l] = m /\ l \notin DOMAIN s /\ l \in Nat
      /\ \A i \in DOMAIN s : i \in DOMAIN q /\ q[i] = s[i] /\ i < l /\ i \in Nat
      /\ \A i \in DOMAIN q : i \in DOMAIN s \/ i = l
  BY SMTT(30)
<1>2. \A i \in DOMAIN q : i <= l /\ i \in Nat
  BY SMTT(30), <1>1
<1> HIDE DEF q, l
<1>3. \A u : u # m.req.type => RequestsIn(q, u) = RequestsIn(s, u)
  BY <1>1 DEF RequestsIn
<1>4. RequestsIn(q, m.req.type) = RequestsIn(s, m.req.type) \cup {m}
  BY <1>1 DEF RequestsIn
<1>5. ASSUME NEW u, NEW x, u # m.req.type, LastIs(s, u, x) PROVE LastIs(q, u, x)
  <2> SUFFICES ASSUME NEW i \in DOMAIN q, q[i].req.type = u
               PROVE  \E j \in DOMAIN q : i <= j /\ q[j] = x
    BY DEF LastIs
  <2>1. i \in DOMAIN s /\ s[i].req.type = u
    BY <1>1, <1>5
  <2>2. PICK j \in DOMAIN s : i <= j /\ s[j] = x
    BY <1>5, <2>1 DEF LastIs
  <2> QED  BY <1>1, <2>2
<1>6. LastIs(q, m.req.type, m)
  <2> SUFFICES ASSUME NEW i \in DOMAIN q, q[i].req.type = m.req.type
               PROVE  \E j \in DOMAIN q : i <= j /\ q[j] = m
    BY DEF LastIs
  <2> QED  BY <1>1, <1>2
<1>7. ASSUME NEW u, NEW k, FromThen(s, u, k), u # m.req.type \/ m.nonce = k PROVE FromThen(q, u, k)
  <2> SUFFICES ASSUME NEW i \in DOMAIN q, NEW j \in DOMAIN q, i <= j, q[i].req.type = u,
                      q[j].req.type = u, q[i].nonce = k
               PROVE  q[j].nonce = k
    BY DEF FromThen
  <2>1. CASE j = l
    BY <1>1, <1>7, <2>1
  <2>2. CASE j \in DOMAIN s
    <3>1. i \in DOMAIN s
      BY SMTT(30), <1>1, <2>2
    <3> QED  BY <1>1, <1>7, <2>2, <3>1 DEF FromThen
  <2> QED  BY <1>1, <2>1, <2>2
<1> QED  BY <1>3, <1>4, <1>5, <1>6, <1>7 DEF q

\* A request arrives.
LEMMA RequestArrives ==
    ASSUME NEW s \in Seq(Messages), s # <<>>
    PROVE  /\ \A u : u # Head(s).req.type => RequestsIn(Tail(s), u) = RequestsIn(s, u)
           /\ \A u : RequestsIn(Tail(s), u) \subseteq RequestsIn(s, u)
           /\ \A u : RequestsIn(s, u) \subseteq RequestsIn(Tail(s), u) \cup {Head(s)}
           /\ Head(s) \in RequestsIn(s, Head(s).req.type)
           /\ \A u, x : LastIs(s, u, x) => LastIs(Tail(s), u, x)
           /\ \A u, k : FromThen(s, u, k) => FromThen(Tail(s), u, k)
           /\ \A k : FromThen(s, Head(s).req.type, k) /\ Head(s).nonce = k =>
                 \A m \in RequestsIn(Tail(s), Head(s).req.type) : m.nonce = k
           /\ \A x : LastIs(s, Head(s).req.type, x) /\ x.req.type = Head(s).req.type =>
                 x = Head(s) \/ x \in RequestsIn(Tail(s), Head(s).req.type)
<1> DEFINE q == Tail(s)
           h == Head(s)
<1>1. /\ 1 \in DOMAIN s /\ s[1] = h
      /\ \A i \in DOMAIN q : i + 1 \in DOMAIN s /\ i + 1 # 1 /\ q[i] = s[i + 1] /\ i \in Nat
      /\ \A i \in DOMAIN s : i = 1 \/ (i - 1 \in DOMAIN q /\ q[i - 1] = s[i])
      /\ DOMAIN s \subseteq Nat /\ \A i \in DOMAIN s : 1 <= i
  BY SMTT(30)
<1> HIDE DEF q, h
<1>2. /\ \A i \in DOMAIN q : \E j \in DOMAIN s : j # 1 /\ q[i] = s[j]
      /\ \A i \in DOMAIN s : i # 1 => \E j \in DOMAIN q : s[i] = q[j]
  BY <1>1
<1>3. ASSUME NEW u, NEW m \in RequestsIn(q, u) PROVE m \in RequestsIn(s, u)
  <2>1. PICK i \in DOMAIN q : q[i].req.type = u /\ m = q[i]
    BY DEF RequestsIn
  <2>2. PICK j \in DOMAIN s : q[i] = s[j]
    BY <1>2
  <2> QED  BY <2>1, <2>2 DEF RequestsIn
<1>4. ASSUME NEW u, NEW m \in RequestsIn(s, u), m # h PROVE m \in RequestsIn(q, u)
  <2>1. PICK i \in DOMAIN s : s[i].req.type = u /\ m = s[i]
    BY DEF RequestsIn
  <2>2. PICK j \in DOMAIN q : s[i] = q[j]
    BY <1>1, <1>2, <1>4, <2>1
  <2> QED  BY <2>1, <2>2 DEF RequestsIn
<1>5. h \in RequestsIn(s, h.req.type) /\ \A u : u # h.req.type => h \notin RequestsIn(s, u)
  BY <1>1 DEF RequestsIn
<1>6. ASSUME NEW u, u # h.req.type PROVE RequestsIn(q, u) = RequestsIn(s, u)
  <2>1. RequestsIn(q, u) \subseteq RequestsIn(s, u)
    BY <1>3
  <2>2. h \notin RequestsIn(s, u)
    BY <1>5, <1>6
  <2>3. RequestsIn(s, u) \subseteq RequestsIn(q, u)
    BY <1>4, <2>2
  <2> QED  BY <2>1, <2>3
<1>7. ASSUME NEW u, NEW x, LastIs(s, u, x) PROVE LastIs(q, u, x)
  <2> SUFFICES ASSUME NEW i \in DOMAIN q, q[i].req.type = u
               PROVE  \E j \in DOMAIN q : i <= j /\ q[j] = x
    BY DEF LastIs
  <2>1. i \in Nat /\ i + 1 \in DOMAIN s /\ s[i + 1].req.type = u
    BY <1>1
  <2>2. PICK j \in DOMAIN s : i + 1 <= j /\ s[j] = x
    BY <1>7, <2>1 DEF LastIs
  <2>3. j # 1 /\ j \in Nat /\ i <= j - 1
    BY SMTT(90), <1>1, <2>1, <2>2
  <2>4. j - 1 \in DOMAIN q /\ q[j - 1] = x
    BY <1>1, <2>2, <2>3
  <2> QED  BY <2>3, <2>4
<1>8. ASSUME NEW u, NEW k, FromThen(s, u, k) PROVE FromThen(q, u, k)
  <2> SUFFICES ASSUME NEW i \in DOMAIN q, NEW j \in DOMAIN q, i <= j, q[i].req.type = u,
                      q[j].req.type = u, q[i].nonce = k
               PROVE  q[j].nonce = k
    BY DEF FromThen
  <2>1. /\ i \in Nat /\ j \in Nat /\ i + 1 \in DOMAIN s /\ j + 1 \in DOMAIN s
        /\ q[i] = s[i + 1] /\ q[j] = s[j + 1]
    BY <1>1
  <2>2. i + 1 <= j + 1
    BY SMTT(30), <2>1
  <2>3. s[i + 1].req.type = u /\ s[j + 1].req.type = u /\ s[i + 1].nonce = k
    BY <2>1
  <2>4. s[j + 1].nonce = k
    BY <1>8, <2>1, <2>2, <2>3 DEF FromThen
  <2> QED  BY <2>1, <2>4
<1>9. ASSUME NEW k, FromThen(s, h.req.type, k), h.nonce = k, NEW m \in RequestsIn(q, h.req.type)
      PROVE  m.nonce = k
  <2>1. m \in RequestsIn(s, h.req.type)
    BY <1>3
  <2>2. PICK i \in DOMAIN s : s[i].req.type = h.req.type /\ m = s[i]
    BY <2>1 DEF RequestsIn
  <2> QED  BY <1>1, <1>9, <2>2 DEF FromThen
<1>10. ASSUME NEW x, LastIs(s, h.req.type, x), x.req.type = h.req.type
       PROVE  x = h \/ x \in RequestsIn(q, h.req.type)
  <2>1. PICK j \in DOMAIN s : s[j] = x
    BY <1>1, <1>10 DEF LastIs
  <2>2. x \in RequestsIn(s, h.req.type)
    BY <1>10, <2>1 DEF RequestsIn
  <2> QED  BY <1>4, <2>2
<1> QED  BY <1>3, <1>4, <1>5, <1>6, <1>7, <1>8, <1>9, <1>10 DEF q, h

\* A response is sent.
LEMMA ResponseSent ==
    ASSUME NEW s \in Seq(Deliveries), NEW r \in Deliveries
    PROVE  /\ \A u : u # r.resp.type => ResponsesIn(Append(s, r), u) = ResponsesIn(s, u)
           /\ ResponsesIn(Append(s, r), r.resp.type) = ResponsesIn(s, r.resp.type) \cup {r}
           /\ \A u : u # r.resp.type /\ OneOf(s, u) => OneOf(Append(s, r), u)
           /\ ResponsesIn(s, r.resp.type) = {} => OneOf(Append(s, r), r.resp.type)
<1> DEFINE q == Append(s, r)
           l == Len(s) + 1
<1>1. /\ l \in DOMAIN q /\ q[l] = r /\ l \notin DOMAIN s
      /\ \A i \in DOMAIN s : i \in DOMAIN q /\ q[i] = s[i]
      /\ \A i \in DOMAIN q : i \in DOMAIN s \/ i = l
  BY SMTT(30)
<1> HIDE DEF q, l
<1>2. \A u : u # r.resp.type => ResponsesIn(q, u) = ResponsesIn(s, u)
  BY <1>1 DEF ResponsesIn
<1>3. ResponsesIn(q, r.resp.type) = ResponsesIn(s, r.resp.type) \cup {r}
  BY <1>1 DEF ResponsesIn
<1>4. \A u : u # r.resp.type /\ OneOf(s, u) => OneOf(q, u)
  BY <1>1 DEF OneOf
<1>5. ResponsesIn(s, r.resp.type) = {} => OneOf(q, r.resp.type)
  BY ZenonT(40), <1>1 DEF ResponsesIn, OneOf
<1> QED  BY <1>2, <1>3, <1>4, <1>5 DEF q

\* A response is received.
LEMMA ResponseReceived ==
    ASSUME NEW s \in Seq(Deliveries), s # <<>>
    PROVE  /\ \A u : u # Head(s).resp.type => ResponsesIn(Tail(s), u) = ResponsesIn(s, u)
           /\ \A u : OneOf(s, u) => OneOf(Tail(s), u)
           /\ Head(s) \in ResponsesIn(s, Head(s).resp.type)
           /\ OneOf(s, Head(s).resp.type) => ResponsesIn(Tail(s), Head(s).resp.type) = {}
<1> DEFINE q == Tail(s)
           h == Head(s)
<1>1. /\ 1 \in DOMAIN s /\ s[1] = h
      /\ \A i \in DOMAIN q : i + 1 \in DOMAIN s /\ i + 1 # 1 /\ q[i] = s[i + 1] /\ i \in Nat
      /\ \A i \in DOMAIN s : i = 1 \/ (i - 1 \in DOMAIN q /\ q[i - 1] = s[i])
      /\ \A i, j \in DOMAIN q : i + 1 = j + 1 => i = j
  BY SMTT(30)
<1> HIDE DEF q, h
<1>2. /\ \A i \in DOMAIN q : \E j \in DOMAIN s : j # 1 /\ q[i] = s[j]
      /\ \A i \in DOMAIN s : i # 1 => \E j \in DOMAIN q : s[i] = q[j]
  BY <1>1
<1>3. ASSUME NEW u, u # h.resp.type PROVE ResponsesIn(q, u) = ResponsesIn(s, u)
  <2>1. ASSUME NEW m \in ResponsesIn(q, u) PROVE m \in ResponsesIn(s, u)
    <3>1. PICK i \in DOMAIN q : q[i].resp.type = u /\ m = q[i]
      BY DEF ResponsesIn
    <3>2. PICK j \in DOMAIN s : q[i] = s[j]
      BY <1>2
    <3> QED  BY <3>1, <3>2 DEF ResponsesIn
  <2>2. ASSUME NEW m \in ResponsesIn(s, u) PROVE m \in ResponsesIn(q, u)
    <3>1. PICK i \in DOMAIN s : s[i].resp.type = u /\ m = s[i]
      BY DEF ResponsesIn
    <3>2. PICK j \in DOMAIN q : s[i] = q[j]
      BY <1>1, <1>2, <1>3, <3>1
    <3> QED  BY <3>1, <3>2 DEF ResponsesIn
  <2> QED  BY <2>1, <2>2
<1>4. h \in ResponsesIn(s, h.resp.type)
  BY <1>1 DEF ResponsesIn
<1>5. ASSUME OneOf(s, h.resp.type), NEW m \in ResponsesIn(q, h.resp.type) PROVE FALSE
  <2>1. PICK i \in DOMAIN q : q[i].resp.type = h.resp.type /\ m = q[i]
    BY DEF ResponsesIn
  <2>2. PICK j \in DOMAIN s : j # 1 /\ q[i] = s[j]
    BY <1>2
  <2> QED  BY <1>1, <1>5, <2>1, <2>2 DEF OneOf
<1>6. ASSUME NEW u, OneOf(s, u) PROVE OneOf(q, u)
  <2> SUFFICES ASSUME NEW i \in DOMAIN q, NEW j \in DOMAIN q, q[i].resp.type = u, q[j].resp.type = u
               PROVE  i = j
    BY DEF OneOf
  <2>1. /\ i + 1 \in DOMAIN s /\ s[i + 1].resp.type = u
        /\ j + 1 \in DOMAIN s /\ s[j + 1].resp.type = u
    BY <1>1
  <2> QED  BY <1>1, <1>6, <2>1 DEF OneOf
<1> QED  BY <1>3, <1>4, <1>5, <1>6 DEF q, h

-----------------------------------------------------------------------------
(* The inductive invariant, for one type of one stream.                    *)

\* A response on its way has the nonce of the entry, which no request has, and nothing is
\* waiting or queued until it is acknowledged.  While none is on its way, the requests that
\* will not be ignored are those with the nonce received last.
NonceInv(c, t) ==
    /\ nonce[c][t] <= lastNonce[c] /\ entryNonce[c][t] <= lastNonce[c]
    /\ \A m \in Ups(c, t) : m.nonce <= lastNonce[c]
    /\ \A r \in Downs(c, t) :
          /\ r.nonce = entryNonce[c][t] /\ r.nonce # 0 /\ r.nonce # nonce[c][t]
          /\ \A m \in Ups(c, t) : m.nonce # r.nonce
    /\ OneOf(down[c], t) /\ FromThen(up[c], t, nonce[c][t])
    /\ Downs(c, t) = {} =>
          /\ entryNonce[c][t] \in {0, nonce[c][t]}
          /\ entryNonce[c][t] = 0 \/ Replaced(c, t) => \A m \in Ups(c, t) : m.nonce = nonce[c][t]
          /\ entryNonce[c][t] # 0 /\ ~Replaced(c, t) => \E m \in Ups(c, t) : m.nonce = nonce[c][t]
    /\ Replaced(c, t) => Downs(c, t) = {}
    /\ sub[c][t] = None => entryNonce[c][t] = 0
    /\ entryNonce[c][t] # 0 => ~IsWaiting(c, t) /\ ~IsQueued(c, t)
    /\ t \in replied[c] => entryNonce[c][t] # 0
    /\ pc[c] = "closed" => Ups(c, t) = {} /\ Downs(c, t) = {} /\ nonce[c][t] = 0

\* The subscription is that of a request for tokens.
Fits(s, tokens) ==
    /\ s.wildcard <=> Star \in tokens \/ (LegacyWildcard /\ tokens = {})
    /\ s.allowLegacyWildcard <=> LegacyWildcard /\ tokens = {}
    /\ s.subscribedResourceNames = tokens \cap Names
    /\ s.subscribedPrefixes = {}

\* The server learns what the client wants: the last request says it, and once all have
\* arrived the entry is for it, or is being replaced by one that is.
AskInv(c, t) ==
    /\ wants[c][t] \in Wanted[t] \cup {None}
    /\ Ups(c, t) # {} \/ Downs(c, t) # {} \/ sub[c][t] # None => wants[c][t] \in Wanted[t]
    /\ \A m \in Ups(c, t) :
          /\ m.req.resourceNames \in Wanted[t]
          /\ m.nonce = nonce[c][t] => m.req.versionInfo = version[c][t]
    /\ LastIs(up[c], t, Message(t, wants[c][t], version[c][t], nonce[c][t]))
    /\ Replaced(c, t) =>
          pending[c].resourceNames \in Wanted[t] /\ pending[c].versionInfo = version[c][t]
    /\ sub[c][t] # None => \E tokens \in Wanted[t] : Fits(sub[c][t], tokens)
    /\ pc[c] # "closed" /\ wants[c][t] # None /\ Ups(c, t) = {} /\ Downs(c, t) = {} =>
          /\ sub[c][t] # None
          /\ IF Replaced(c, t) THEN pending[c].resourceNames = wants[c][t]
                               ELSE Fits(sub[c][t], wants[c][t])

\* The server will hear that the client gave a name up.
GivesUp(c, t, n) ==
    \/ \E m \in Ups(c, t) : n \notin Asked(m.req.resourceNames)
    \/ Replaced(c, t) /\ n \notin Asked(pending[c].resourceNames)

\* The client has the version it accepted last of a name, or will, or does not want it.
Holds(c, t, n) ==
    \/ n \in unheard[c][t]
    \/ GivesUp(c, t, n)
    \/ /\ n \in Asked(wants[c][t])
       /\ \/ n \in refused[c][t]
          \/ \E r \in Downs(c, t) : n \in r.resp.resources
          \/ view[c][t][n] = version[c][t]

\* What the entry of a type and the version of the client make of a snapshot.
Entry(c, t) == [type |-> t, versionInfo |-> version[c][t], sub |-> sub[c][t]]

\* What the server believes that the client knows, the client has.
ContentInv(c, t) ==
    /\ \A n \in Nodes : \A w \in watches[n] :
          w.stream = c /\ w.type = t => w.versionInfo = version[c][t]
    /\ \A i \in DOMAIN queue[c] : queue[c][i].type = t =>
          \E snap \in Snapshots : queue[c][i] = createResponse(snap, Entry(c, t), queue[c][i].round)
    /\ \A r \in Downs(c, t) :
          /\ ~r.resp.heartbeat
          /\ \E snap \in Snapshots :
                r.resp.version = snap[t].version /\ r.resp.resources \subseteq snap[t].items
          /\ \A n \in Known(sub[c][t]) : n \in r.resp.resources
                \/ (t \notin FullStateTypes /\ r.resp.version = version[c][t])
    /\ sub[c][t] # None => \A n \in Known(sub[c][t]) : Holds(c, t, n)
    /\ t \in FullStateTypes => \A n \in Names : view[c][t][n] # None =>
          \E snap \in Snapshots : snap[t].version = version[c][t] /\ n \in snap[t].items

\* The clients of a node without a snapshot have nothing.
BlankInv(c, t) ==
    snapshots[NodeOf[c]] = None =>
        /\ version[c][t] = Blank /\ ~IsQueued(c, t) /\ Downs(c, t) = {}
        /\ \A m \in Ups(c, t) : m.req.versionInfo = Blank

-----------------------------------------------------------------------------
(* A type of a stream that a step leaves alone.                            *)

\* The server does not touch the type, other than to drop a response or a watch.
ServerStill(d, u) ==
    /\ Same(d, u)
    /\ pc'[d] = "closed" <=> pc[d] = "closed"
    /\ Replaced(d, u)' <=> Replaced(d, u)
    /\ Replaced(d, u) => pending'[d] = pending[d]
    /\ u \in replied'[d] => u \in replied[d]
    /\ snapshots'[NodeOf[d]] = None => snapshots[NodeOf[d]] = None

\* What the client wants and holds is as it was.
ClientStill(d, u) ==
    /\ wants'[d][u] = wants[d][u] /\ version'[d][u] = version[d][u]
    /\ view'[d][u] = view[d][u] /\ refused'[d][u] = refused[d][u]
    /\ nonce'[d][u] = nonce[d][u]

\* Nothing of the type is sent or arrives.
WireStill(d, u) ==
    /\ entryNonce'[d][u] = entryNonce[d][u] /\ unheard'[d][u] = unheard[d][u]
    /\ lastNonce[d] <= lastNonce'[d]
    /\ Ups(d, u)' = Ups(d, u) /\ Downs(d, u)' = Downs(d, u)
    /\ \A m : LastIs(up[d], u, m) => LastIs(up'[d], u, m)
    /\ \A k : FromThen(up[d], u, k) => FromThen(up'[d], u, k)
    /\ OneOf(down[d], u) => OneOf(down'[d], u)

\* The types of what the client has and of what is on its way.
ClientTypes ==
    /\ WireTypes
    /\ wants \in [Streams -> [Types -> (SUBSET Tokens) \cup {None}]]
    /\ view \in [Streams -> [Types -> [Names -> VersionInfos \cup {None}]]]
    /\ refused \in [Streams -> [Types -> SUBSET Names]]
    /\ unheard \in [Streams -> [Types -> SUBSET Names]]
    /\ entryNonce \in [Streams -> [Types -> Nat]]

\* All of it.
StreamInv(c, t) == NonceInv(c, t) /\ AskInv(c, t) /\ ContentInv(c, t) /\ BlankInv(c, t)

\* The requests and the responses on their way are well formed.
LEMMA OnTheirWay ==
    ASSUME WireTypes, NEW c \in Streams, NEW t \in Types
    PROVE  /\ \A m \in Ups(c, t) : m \in Messages /\ m.req \in Request /\ m.req.type = t /\ m.nonce \in Nat
           /\ \A r \in Downs(c, t) : r \in Deliveries /\ r.resp \in Response /\ r.resp.type = t /\ r.nonce \in Nat
<1>1. ASSUME NEW m \in Ups(c, t) PROVE m \in Messages /\ m.req.type = t
  <2>1. PICK i \in DOMAIN up[c] : m = up[c][i] /\ up[c][i].req.type = t
    BY DEF Ups, RequestsIn
  <2>2. up[c][i] \in Messages
    BY SMTT(30) DEF WireTypes
  <2> QED  BY <2>1, <2>2
<1>2. ASSUME NEW r \in Downs(c, t) PROVE r \in Deliveries /\ r.resp.type = t
  <2>1. PICK i \in DOMAIN down[c] : r = down[c][i] /\ down[c][i].resp.type = t
    BY DEF Downs, ResponsesIn
  <2>2. down[c][i] \in Deliveries
    BY SMTT(30) DEF WireTypes
  <2> QED  BY <2>1, <2>2
<1>3. \A m \in Messages : m.req \in Request /\ m.nonce \in Nat
  BY DEF Messages
<1>4. \A r \in Deliveries : r.resp \in Response /\ r.nonce \in Nat
  BY DEF Deliveries
<1> QED  BY <1>1, <1>2, <1>3, <1>4

\* The nonces of a type that is left alone.
LEMMA NonceStill ==
    ASSUME WireTypes, WireTypes', entryNonce \in [Streams -> [Types -> Nat]], NEW d \in Streams,
           NEW u \in Types, NonceInv(d, u), ServerStill(d, u), ClientStill(d, u), WireStill(d, u)
    PROVE  NonceInv(d, u)'
<1>1. \A m \in Ups(d, u) : m.nonce \in Nat
  BY OnTheirWay
<1>2. /\ nonce[d][u] \in Nat /\ entryNonce[d][u] \in Nat
      /\ lastNonce[d] \in Nat /\ lastNonce'[d] \in Nat
  BY DEF WireTypes
<1>3. /\ nonce'[d][u] <= lastNonce'[d] /\ entryNonce'[d][u] <= lastNonce'[d]
      /\ \A m \in Ups(d, u)' : m.nonce <= lastNonce'[d]
  BY SMTT(90), <1>1, <1>2 DEF NonceInv, ClientStill, WireStill
<1>4. \A r \in Downs(d, u)' :
          /\ r.nonce = entryNonce'[d][u] /\ r.nonce # 0 /\ r.nonce # nonce'[d][u]
          /\ \A m \in Ups(d, u)' : m.nonce # r.nonce
  BY DEF NonceInv, ClientStill, WireStill
<1>5. OneOf(down'[d], u) /\ FromThen(up'[d], u, nonce'[d][u])
  BY DEF NonceInv, ClientStill, WireStill
<1>6. Downs(d, u)' = {} =>
          /\ entryNonce'[d][u] \in {0, nonce'[d][u]}
          /\ entryNonce'[d][u] = 0 \/ Replaced(d, u)' => \A m \in Ups(d, u)' : m.nonce = nonce'[d][u]
          /\ entryNonce'[d][u] # 0 /\ ~Replaced(d, u)' => \E m \in Ups(d, u)' : m.nonce = nonce'[d][u]
  BY DEF NonceInv, ServerStill, ClientStill, WireStill
<1>7. /\ Replaced(d, u)' => Downs(d, u)' = {}
      /\ sub'[d][u] = None => entryNonce'[d][u] = 0
      /\ u \in replied'[d] => entryNonce'[d][u] # 0
      /\ pc'[d] = "closed" => Ups(d, u)' = {} /\ Downs(d, u)' = {} /\ nonce'[d][u] = 0
  BY DEF NonceInv, ServerStill, ClientStill, WireStill, Same
<1>8. entryNonce'[d][u] # 0 => ~IsWaiting(d, u)' /\ ~IsQueued(d, u)'
  BY SameServed DEF NonceInv, ServerStill, WireStill
<1> QED  BY <1>3, <1>4, <1>5, <1>6, <1>7, <1>8 DEF NonceInv

\* What the server knows of the wishes for a type that is left alone.
LEMMA AskStill ==
    ASSUME NEW d \in Streams, NEW u \in Types, AskInv(d, u),
           ServerStill(d, u), ClientStill(d, u), WireStill(d, u)
    PROVE  AskInv(d, u)'
<1>1. /\ wants'[d][u] \in Wanted[u] \cup {None}
      /\ Ups(d, u)' # {} \/ Downs(d, u)' # {} \/ sub'[d][u] # None => wants'[d][u] \in Wanted[u]
      /\ sub'[d][u] # None => \E tokens \in Wanted[u] : Fits(sub'[d][u], tokens)
  BY DEF AskInv, ServerStill, ClientStill, WireStill, Same
<1>2. \A m \in Ups(d, u)' : /\ m.req.resourceNames \in Wanted[u]
                            /\ m.nonce = nonce'[d][u] => m.req.versionInfo = version'[d][u]
  BY DEF AskInv, ClientStill, WireStill
<1>3. LastIs(up'[d], u, Message(u, wants'[d][u], version'[d][u], nonce'[d][u]))
  BY DEF AskInv, ClientStill, WireStill
<1>4. Replaced(d, u)' =>
          pending'[d].resourceNames \in Wanted[u] /\ pending'[d].versionInfo = version'[d][u]
  BY DEF AskInv, ServerStill, ClientStill
<1>5. ASSUME pc'[d] # "closed", wants'[d][u] # None, Ups(d, u)' = {}, Downs(d, u)' = {}
      PROVE  /\ sub'[d][u] # None
             /\ IF Replaced(d, u)' THEN pending'[d].resourceNames = wants'[d][u]
                                   ELSE Fits(sub'[d][u], wants'[d][u])
  BY <1>5 DEF AskInv, ServerStill, ClientStill, WireStill, Same
<1> QED  BY <1>1, <1>2, <1>3, <1>4, <1>5 DEF AskInv

\* What the client has of a type that is left alone.
LEMMA ContentStill ==
    ASSUME NEW d \in Streams, NEW u \in Types, ContentInv(d, u),
           ServerStill(d, u), ClientStill(d, u), WireStill(d, u)
    PROVE  ContentInv(d, u)'
<1>1. Entry(d, u)' = Entry(d, u)
  BY DEF Entry, ServerStill, ClientStill, Same
<1>2. \A n \in Nodes : \A w \in watches'[n] :
          w.stream = d /\ w.type = u => w.versionInfo = version'[d][u]
  BY DEF ContentInv, ServerStill, ClientStill, Same
<1>3. ASSUME NEW i \in DOMAIN queue'[d], queue'[d][i].type = u
      PROVE  \E snap \in Snapshots :
                queue'[d][i] = createResponse(snap, Entry(d, u)', queue'[d][i].round)
  <2>1. PICK j \in DOMAIN queue[d] : queue'[d][i] = queue[d][j]
    BY <1>3 DEF ServerStill, Same
  <2>2. PICK snap \in Snapshots : queue[d][j] = createResponse(snap, Entry(d, u), queue[d][j].round)
    BY <1>3, <2>1 DEF ContentInv
  <2> QED  BY <1>1, <2>1, <2>2
<1>4. \A r \in Downs(d, u)' :
          /\ ~r.resp.heartbeat
          /\ \E snap \in Snapshots :
                r.resp.version = snap[u].version /\ r.resp.resources \subseteq snap[u].items
          /\ \A n \in Known(sub'[d][u]) : n \in r.resp.resources
                \/ (u \notin FullStateTypes /\ r.resp.version = version'[d][u])
  BY DEF ContentInv, ServerStill, ClientStill, WireStill, Same
<1>5. ASSUME NEW n, GivesUp(d, u, n) PROVE GivesUp(d, u, n)'
  BY <1>5 DEF GivesUp, ServerStill, WireStill
<1>6. ASSUME NEW n, Holds(d, u, n) PROVE Holds(d, u, n)'
  BY <1>5, <1>6 DEF Holds, ClientStill, WireStill
<1>7. sub'[d][u] # None => \A n \in Known(sub'[d][u]) : Holds(d, u, n)'
  BY <1>6 DEF ContentInv, ServerStill, Same
<1>8. u \in FullStateTypes => \A n \in Names : view'[d][u][n] # None =>
          \E snap \in Snapshots : snap[u].version = version'[d][u] /\ n \in snap[u].items
  BY DEF ContentInv, ClientStill
<1> QED  BY <1>2, <1>3, <1>4, <1>7, <1>8 DEF ContentInv

\* What a type that is left alone has without a snapshot.
LEMMA BlankStill ==
    ASSUME NEW d \in Streams, NEW u \in Types, BlankInv(d, u),
           ServerStill(d, u), ClientStill(d, u), WireStill(d, u)
    PROVE  BlankInv(d, u)'
<1>1. IsQueued(d, u)' => IsQueued(d, u)
  BY SameServed DEF ServerStill
<1> QED  BY <1>1 DEF BlankInv, ServerStill, ClientStill, WireStill

\* A type that is left alone keeps the invariant.
LEMMA StillKept ==
    ASSUME WireTypes, WireTypes', entryNonce \in [Streams -> [Types -> Nat]], NEW d \in Streams,
           NEW u \in Types, StreamInv(d, u), ServerStill(d, u), ClientStill(d, u), WireStill(d, u)
    PROVE  StreamInv(d, u)'
  BY NonceStill, AskStill, ContentStill, BlankStill DEF StreamInv

-----------------------------------------------------------------------------
(* The client asks and answers.                                            *)

\* What a client may ask for.
LEMMA WantedTokens ==
    ASSUME NEW t \in Types, NEW tokens \in Wanted[t]
    PROVE  tokens \in SUBSET Tokens /\ tokens \subseteq Names \cup {Star}
<1>1. Wanted \in [Types -> SUBSET SUBSET (Names \cup {Star})]
  BY SotwClientAssumption DEF SotwClientAssumption
<1>2. tokens \in SUBSET (Names \cup {Star})
  BY <1>1
<1> QED  BY <1>2 DEF Tokens

\* The server does nothing.
LEMMA VarsStill ==
    ASSUME UNCHANGED vars, NEW d \in Streams, NEW u \in Types
    PROVE  ServerStill(d, u)
<1>1. UNCHANGED <<snapshots, watches, pc, pending, sub, queue, replied>>
  BY DEF vars, cacheVars, streamVars
<1>2. Same(d, u)
  BY <1>1 DEF Same
<1> QED  BY <1>1, <1>2 DEF ServerStill, Replaced

\* Nothing is sent or arrives on a stream.
LEMMA WireSame ==
    ASSUME WireTypes, NEW d \in Streams, NEW u \in Types, up'[d] = up[d], down'[d] = down[d],
           entryNonce'[d][u] = entryNonce[d][u], unheard'[d][u] = unheard[d][u],
           lastNonce'[d] = lastNonce[d]
    PROVE  WireStill(d, u)
<1>1. lastNonce[d] <= lastNonce'[d]
  BY SMTT(30) DEF WireTypes
<1>2. Ups(d, u)' = Ups(d, u) /\ Downs(d, u)' = Downs(d, u)
  BY DEF Ups, Downs
<1> QED  BY <1>1, <1>2 DEF WireStill

\* A client sends a request m, for the type of m.
LEMMA UpSent ==
    ASSUME WireTypes, NEW c \in Streams, NEW m \in Messages, NEW t \in Types, m.req.type = t,
           up' = [up EXCEPT ![c] = Append(@, m)]
    PROVE  /\ up' \in [Streams -> Seq(Messages)] /\ \A d \in Streams : d # c => up'[d] = up[d]
           /\ \A u \in Types : u # t =>
                 /\ Ups(c, u)' = Ups(c, u)
                 /\ \A x : LastIs(up[c], u, x) => LastIs(up'[c], u, x)
                 /\ \A k : FromThen(up[c], u, k) => FromThen(up'[c], u, k)
           /\ Ups(c, t)' = Ups(c, t) \cup {m} /\ LastIs(up'[c], t, m)
           /\ FromThen(up[c], t, m.nonce) => FromThen(up'[c], t, m.nonce)
<1>1. up'[c] = Append(up[c], m) /\ \A d \in Streams : d # c => up'[d] = up[d]
  BY DEF WireTypes
<1>2. up[c] \in Seq(Messages)
  BY DEF WireTypes
<1>3. up' \in [Streams -> Seq(Messages)]
  <2>1. Append(up[c], m) \in Seq(Messages)
    BY SMTT(30), <1>2
  <2> QED  BY <2>1 DEF WireTypes
<1>4. /\ \A u : u # m.req.type => RequestsIn(Append(up[c], m), u) = RequestsIn(up[c], u)
      /\ RequestsIn(Append(up[c], m), m.req.type) = RequestsIn(up[c], m.req.type) \cup {m}
      /\ \A u, x : u # m.req.type /\ LastIs(up[c], u, x) => LastIs(Append(up[c], m), u, x)
      /\ LastIs(Append(up[c], m), m.req.type, m)
      /\ \A u, k : FromThen(up[c], u, k) /\ (u # m.req.type \/ m.nonce = k) =>
            FromThen(Append(up[c], m), u, k)
  BY <1>2, RequestSent
<1>5. \A u \in Types : u # t => Ups(c, u)' = Ups(c, u)
  BY <1>1, <1>4 DEF Ups
<1>6. Ups(c, t)' = Ups(c, t) \cup {m} /\ LastIs(up'[c], t, m)
  BY <1>1, <1>4 DEF Ups
<1>7. \A u \in Types : u # t => \A x : LastIs(up[c], u, x) => LastIs(up'[c], u, x)
  BY <1>1, <1>4
<1>8. \A u, k : FromThen(up[c], u, k) /\ (u # t \/ m.nonce = k) => FromThen(up'[c], u, k)
  BY <1>1, <1>4
<1> QED  BY <1>1, <1>3, <1>5, <1>6, <1>7, <1>8

\* A client changes what it wants of a type.
LEMMA SubscribeKept ==
    ASSUME ClientTypes, NEW c \in Streams, NEW t \in Types, NEW tokens \in Wanted[t],
           ClientSubscribe(c, t, tokens), \A d \in Streams : \A u \in Types : StreamInv(d, u)
    PROVE  ClientTypes' /\ \A d \in Streams : \A u \in Types : StreamInv(d, u)'
<1> DEFINE M == Message(t, tokens, version[c][t], nonce[c][t])
<1>1. tokens \in SUBSET Tokens /\ WireTypes
  BY WantedTokens DEF ClientTypes
<1>2. /\ M \in Messages /\ M.req.type = t /\ M.req.resourceNames = tokens
      /\ M.req.versionInfo = version[c][t] /\ M.nonce = nonce[c][t]
  <2>1. version[c][t] \in VersionInfos /\ nonce[c][t] \in Nat
    BY <1>1 DEF WireTypes
  <2> QED  BY <1>1, <2>1, MessageType DEF Message
<1>3. /\ up' = [up EXCEPT ![c] = Append(@, M)] /\ pc[c] # "closed"
      /\ wants' = [wants EXCEPT ![c][t] = tokens]
      /\ view' = [view EXCEPT ![c][t] = Restricted(@, tokens)]
      /\ UNCHANGED <<vars, version, refused, nonce, down, entryNonce, lastNonce, unheard>>
  BY DEF ClientSubscribe, nonceVars
<1>4. PICK m \in Messages : m = M
  BY <1>2
<1> HIDE DEF M
<1>5. /\ up' \in [Streams -> Seq(Messages)] /\ \A d \in Streams : d # c => up'[d] = up[d]
      /\ \A u \in Types : u # t =>
            /\ Ups(c, u)' = Ups(c, u)
            /\ \A x : LastIs(up[c], u, x) => LastIs(up'[c], u, x)
            /\ \A k : FromThen(up[c], u, k) => FromThen(up'[c], u, k)
      /\ Ups(c, t)' = Ups(c, t) \cup {m} /\ LastIs(up'[c], t, m)
      /\ FromThen(up[c], t, m.nonce) => FromThen(up'[c], t, m.nonce)
  BY ZenonT(40), <1>1, <1>2, <1>3, <1>4, UpSent
<1>6. /\ wants'[c][t] = tokens /\ view'[c][t] = Restricted(view[c][t], tokens)
      /\ \A d \in Streams : \A u \in Types : d # c \/ u # t =>
            wants'[d][u] = wants[d][u] /\ view'[d][u] = view[d][u]
  BY <1>3 DEF ClientTypes
<1>7. ClientTypes'
  <2>1. WireTypes'
    BY <1>1, <1>3, <1>5 DEF WireTypes
  <2>2. view[c][t] \in [Names -> VersionInfos \cup {None}]
    BY DEF ClientTypes
  <2>3. Restricted(view[c][t], tokens) \in [Names -> VersionInfos \cup {None}]
    BY <2>2 DEF Restricted
  <2>4. view' \in [Streams -> [Types -> [Names -> VersionInfos \cup {None}]]]
    BY <1>3, <2>3 DEF ClientTypes
  <2>5. wants' \in [Streams -> [Types -> (SUBSET Tokens) \cup {None}]]
    BY <1>1, <1>3 DEF ClientTypes
  <2> QED  BY <1>3, <2>1, <2>4, <2>5 DEF ClientTypes
<1>8. ASSUME NEW d \in Streams, NEW u \in Types, d # c \/ u # t PROVE StreamInv(d, u)'
  <2>1. ServerStill(d, u)
    BY <1>3, VarsStill
  <2>2. ClientStill(d, u)
    BY <1>3, <1>6, <1>8 DEF ClientStill
  <2>3. WireStill(d, u)
    <3>1. CASE d # c
      BY <1>1, <1>3, <1>5, <3>1, WireSame
    <3>2. CASE d = c /\ u # t
      <4>1. lastNonce[d] <= lastNonce'[d]
        BY SMTT(30), <1>1, <1>3 DEF WireTypes
      <4>2. Downs(d, u)' = Downs(d, u)
        BY <1>3 DEF Downs
      <4> QED  BY <1>3, <1>5, <3>2, <4>1, <4>2 DEF WireStill
    <3> QED  BY <1>8, <3>1, <3>2
  <2> QED  BY <1>1, <1>7, <2>1, <2>2, <2>3, StillKept DEF ClientTypes
<1>9. /\ NonceInv(c, t) /\ AskInv(c, t) /\ ContentInv(c, t) /\ BlankInv(c, t)
      /\ Downs(c, t)' = Downs(c, t)
      /\ UNCHANGED <<snapshots, watches, pc, pending, sub, queue, replied>>
  BY <1>3 DEF StreamInv, Downs, vars, cacheVars, streamVars
<1>10. NonceInv(c, t)'
  <2>1. m.nonce <= lastNonce[c]
    BY <1>2, <1>4, <1>9 DEF NonceInv
  <2>2. FromThen(up'[c], t, nonce[c][t])
    BY <1>2, <1>4, <1>5, <1>9 DEF NonceInv
  <2>3. \A x \in Ups(c, t)' : x.nonce <= lastNonce[c]
    BY <1>5, <1>9, <2>1 DEF NonceInv
  <2>4. \A r \in Downs(c, t) : /\ r.nonce = entryNonce[c][t] /\ r.nonce # 0 /\ r.nonce # nonce[c][t]
                               /\ \A x \in Ups(c, t)' : x.nonce # r.nonce
    BY ZenonT(40), <1>2, <1>4, <1>5, <1>9 DEF NonceInv
  <2>5. Downs(c, t) = {} =>
            /\ entryNonce[c][t] \in {0, nonce[c][t]}
            /\ entryNonce[c][t] = 0 \/ Replaced(c, t) => \A x \in Ups(c, t)' : x.nonce = nonce[c][t]
            /\ \E x \in Ups(c, t)' : x.nonce = nonce[c][t]
    BY <1>2, <1>4, <1>5, <1>9 DEF NonceInv
  <2>6. /\ Replaced(c, t)' <=> Replaced(c, t)
        /\ IsWaiting(c, t)' <=> IsWaiting(c, t)
        /\ IsQueued(c, t)' <=> IsQueued(c, t)
    BY <1>9 DEF Replaced, IsWaiting, IsQueued
  <2> QED  BY <1>3, <1>9, <2>2, <2>3, <2>4, <2>5, <2>6 DEF NonceInv
<1>11. AskInv(c, t)'
  <2>1. m = Message(t, wants'[c][t], version'[c][t], nonce'[c][t])
    BY <1>3, <1>4, <1>6 DEF M
  <2>2. LastIs(up'[c], t, Message(t, wants'[c][t], version'[c][t], nonce'[c][t]))
    BY <1>5, <2>1
  <2>3. \A x \in Ups(c, t)' : /\ x.req.resourceNames \in Wanted[t]
                              /\ x.nonce = nonce[c][t] => x.req.versionInfo = version[c][t]
    BY <1>2, <1>4, <1>5, <1>9 DEF AskInv
  <2>4. Ups(c, t)' # {}
    BY <1>5
  <2> QED  BY <1>3, <1>6, <1>9, <2>2, <2>3, <2>4 DEF AskInv, Replaced
<1>12. ContentInv(c, t)'
  <2>1. ASSUME NEW n \in Names, Holds(c, t, n) PROVE Holds(c, t, n)'
    <3>1. CASE n \in unheard[c][t]
      BY <1>3, <3>1 DEF Holds
    <3>2. CASE GivesUp(c, t, n) \/ n \notin Asked(tokens)
      BY <1>2, <1>4, <1>5, <1>9, <3>2 DEF Holds, GivesUp, Replaced
    <3>3. CASE n \in Asked(tokens)
      <4>1. view'[c][t][n] = view[c][t][n]
        BY <1>6, <3>3 DEF Restricted
      <4> QED  BY <1>3, <1>6, <1>9, <2>1, <3>1, <3>2, <3>3, <4>1 DEF Holds
    <3> QED  BY <3>2, <3>3
  <2>2. Entry(c, t)' = Entry(c, t)
    BY <1>3, <1>9 DEF Entry
  <2>3. ASSUME NEW n \in Names, view'[c][t][n] # None PROVE view[c][t][n] # None
    BY <1>6, <2>3 DEF Restricted
  <2>4. Known(sub[c][t]) \subseteq Names
    BY DEF Known
  <2> QED  BY <1>3, <1>9, <2>1, <2>2, <2>3, <2>4 DEF ContentInv
<1>13. BlankInv(c, t)'
  BY <1>2, <1>3, <1>4, <1>5, <1>9 DEF BlankInv, IsQueued
<1>14. StreamInv(c, t)'
  BY <1>10, <1>11, <1>12, <1>13 DEF StreamInv
<1> QED  BY <1>7, <1>8, <1>14

\* A client takes a response.
LEMMA DownReceived ==
    ASSUME WireTypes, NEW c \in Streams, down[c] # <<>>, down' = [down EXCEPT ![c] = Tail(@)]
    PROVE  /\ down' \in [Streams -> Seq(Deliveries)] /\ \A d \in Streams : d # c => down'[d] = down[d]
           /\ \E h \in Deliveries : \E t \in Types :
                 /\ h = Head(down[c]) /\ t = h.resp.type /\ h \in Downs(c, t)
                 /\ \A u \in Types : u # t => Downs(c, u)' = Downs(c, u)
                 /\ \A u \in Types : OneOf(down[c], u) => OneOf(down'[c], u)
                 /\ OneOf(down[c], t) => Downs(c, t)' = {} /\ \A r \in Downs(c, t) : r = h
<1>1. down'[c] = Tail(down[c]) /\ \A d \in Streams : d # c => down'[d] = down[d]
  BY DEF WireTypes
<1>2. down[c] \in Seq(Deliveries)
  BY DEF WireTypes
<1>3. /\ 1 \in DOMAIN down[c] /\ Head(down[c]) = down[c][1] /\ Head(down[c]) \in Deliveries
      /\ Tail(down[c]) \in Seq(Deliveries)
  BY <1>2, HeadAndTail
<1>4. PICK h \in Deliveries : h = Head(down[c])
  BY <1>3
<1>5. PICK t \in Types : t = h.resp.type
  <2>1. h.resp \in Response
    BY DEF Deliveries
  <2> QED  BY <2>1 DEF Response
<1>6. down' \in [Streams -> Seq(Deliveries)]
  BY <1>3 DEF WireTypes
<1>7. /\ \A u : u # t => ResponsesIn(Tail(down[c]), u) = ResponsesIn(down[c], u)
      /\ \A u : OneOf(down[c], u) => OneOf(Tail(down[c]), u)
      /\ h \in ResponsesIn(down[c], t)
      /\ OneOf(down[c], t) => ResponsesIn(Tail(down[c]), t) = {}
  BY <1>2, <1>4, <1>5, ResponseReceived
<1>8. ASSUME OneOf(down[c], t), NEW r \in Downs(c, t) PROVE r = h
  <2>1. PICK i \in DOMAIN down[c] : down[c][i].resp.type = t /\ r = down[c][i]
    BY DEF Downs, ResponsesIn
  <2> QED  BY <1>3, <1>4, <1>5, <1>8, <2>1 DEF OneOf
<1>9. /\ h \in Downs(c, t) /\ \A u \in Types : u # t => Downs(c, u)' = Downs(c, u)
      /\ OneOf(down[c], t) => Downs(c, t)' = {}
  BY <1>1, <1>7 DEF Downs
<1>10. \A u \in Types : OneOf(down[c], u) => OneOf(down'[c], u)
  BY <1>1, <1>7
<1> QED  BY <1>1, <1>4, <1>5, <1>6, <1>8, <1>9, <1>10

\* A client accepts or rejects a response.
LEMMA ReceiveKept ==
    ASSUME ClientTypes, NEW c \in Streams, NEW accepts \in BOOLEAN, ClientReceive(c, accepts),
           \A d \in Streams : \A u \in Types : StreamInv(d, u)
    PROVE  ClientTypes' /\ \A d \in Streams : \A u \in Types : StreamInv(d, u)'
<1>1. WireTypes /\ down[c] # <<>> /\ down' = [down EXCEPT ![c] = Tail(@)]
  BY DEF ClientReceive, ClientTypes
<1>2. /\ down' \in [Streams -> Seq(Deliveries)] /\ \A d \in Streams : d # c => down'[d] = down[d]
      /\ \E h \in Deliveries : \E t \in Types :
            /\ h = Head(down[c]) /\ t = h.resp.type /\ h \in Downs(c, t)
            /\ \A u \in Types : u # t => Downs(c, u)' = Downs(c, u)
            /\ \A u \in Types : OneOf(down[c], u) => OneOf(down'[c], u)
            /\ OneOf(down[c], t) => Downs(c, t)' = {} /\ \A r \in Downs(c, t) : r = h
  BY <1>1, DownReceived
<1>3. PICK h \in Deliveries, t \in Types :
          /\ h = Head(down[c]) /\ t = h.resp.type /\ h \in Downs(c, t)
          /\ \A u \in Types : u # t => Downs(c, u)' = Downs(c, u)
          /\ \A u \in Types : OneOf(down[c], u) => OneOf(down'[c], u)
          /\ OneOf(down[c], t) => Downs(c, t)' = {} /\ \A r \in Downs(c, t) : r = h
  BY <1>2
<1>4. h.resp.type = t /\ h \in Downs(c, t)
  BY <1>3
<1>5. /\ NonceInv(c, t) /\ AskInv(c, t) /\ ContentInv(c, t) /\ BlankInv(c, t)
      /\ OneOf(down[c], t)
  <2>1. StreamInv(c, t)
    OBVIOUS
  <2> QED  BY <2>1 DEF StreamInv, NonceInv
<1>6. /\ version' = [version EXCEPT ![c][t] = IF accepts THEN h.resp.version ELSE @]
      /\ view' = [view EXCEPT ![c][t] = IF accepts THEN Applied(@, h.resp, wants[c][t]) ELSE @]
      /\ refused' = [refused EXCEPT ![c][t] =
            IF accepts THEN @ \ Contents(h.resp) ELSE @ \cup Contents(h.resp)]
      /\ nonce' = [nonce EXCEPT ![c][t] = h.nonce]
      /\ up' = [up EXCEPT ![c] = Append(@, Message(t, wants[c][t], version'[c][t], nonce'[c][t]))]
      /\ UNCHANGED <<vars, wants, entryNonce, lastNonce, unheard>>
  BY <1>3 DEF ClientReceive, nonceVars
<1>7. /\ h.nonce \in Nat /\ h.resp.version \in VersionInfos /\ h.resp.resources \in SUBSET Names
      /\ ~h.resp.heartbeat /\ Contents(h.resp) = h.resp.resources
  <2>1. h.nonce \in Nat /\ h.resp \in Response
    BY DEF Deliveries
  <2>2. ~h.resp.heartbeat
    BY <1>4, <1>5 DEF ContentInv
  <2> QED  BY <2>1, <2>2 DEF Response, Contents
<1>8. /\ version'[c][t] = IF accepts THEN h.resp.version ELSE version[c][t]
      /\ view'[c][t] = IF accepts THEN Applied(view[c][t], h.resp, wants[c][t]) ELSE view[c][t]
      /\ refused'[c][t] = IF accepts THEN refused[c][t] \ h.resp.resources
                                     ELSE refused[c][t] \cup h.resp.resources
      /\ nonce'[c][t] = h.nonce
  BY <1>6, <1>7 DEF ClientTypes, WireTypes
<1>9. \A d \in Streams : \A u \in Types : d # c \/ u # t =>
          /\ version'[d][u] = version[d][u] /\ view'[d][u] = view[d][u]
          /\ refused'[d][u] = refused[d][u] /\ nonce'[d][u] = nonce[d][u]
  BY <1>6 DEF ClientTypes, WireTypes
<1> DEFINE M == Message(t, wants[c][t], version'[c][t], nonce'[c][t])
<1>10. /\ wants[c][t] \in Wanted[t] /\ wants[c][t] \in SUBSET Tokens
  BY ZenonT(40), <1>4, <1>5, WantedTokens DEF AskInv
<1>11. /\ M \in Messages /\ M.req.type = t /\ M.req.resourceNames = wants[c][t]
       /\ M.req.versionInfo = version'[c][t] /\ M.nonce = h.nonce
  <2>1. version'[c][t] \in VersionInfos /\ nonce'[c][t] \in Nat
    BY <1>1, <1>7, <1>8 DEF WireTypes
  <2> QED  BY <1>8, <1>10, <2>1, MessageType DEF Message
<1>12. PICK m \in Messages : m = M
  BY <1>11
<1>13. m.req.type = t /\ up' = [up EXCEPT ![c] = Append(@, m)]
  BY <1>6, <1>11, <1>12
<1> HIDE DEF M
<1>14. /\ up' \in [Streams -> Seq(Messages)] /\ \A d \in Streams : d # c => up'[d] = up[d]
       /\ \A u \in Types : u # t =>
             /\ Ups(c, u)' = Ups(c, u)
             /\ \A x : LastIs(up[c], u, x) => LastIs(up'[c], u, x)
             /\ \A k : FromThen(up[c], u, k) => FromThen(up'[c], u, k)
       /\ Ups(c, t)' = Ups(c, t) \cup {m} /\ LastIs(up'[c], t, m)
       /\ FromThen(up[c], t, m.nonce) => FromThen(up'[c], t, m.nonce)
  BY <1>1, <1>13, UpSent
<1>15. ClientTypes'
  <2>1. version' \in [Streams -> [Types -> VersionInfos]]
    <3>1. (IF accepts THEN h.resp.version ELSE version[c][t]) \in VersionInfos
      BY <1>1, <1>7 DEF WireTypes
    <3> QED  BY <1>1, <1>6, <3>1 DEF WireTypes
  <2>2. nonce' \in [Streams -> [Types -> Nat]]
    BY <1>1, <1>6, <1>7 DEF WireTypes
  <2>3. WireTypes'
    BY <1>1, <1>2, <1>6, <1>14, <2>1, <2>2 DEF WireTypes
  <2>4. view[c][t] \in [Names -> VersionInfos \cup {None}]
    BY DEF ClientTypes
  <2>5. Applied(view[c][t], h.resp, wants[c][t]) \in [Names -> VersionInfos \cup {None}]
    <3>1. ASSUME NEW n \in Names PROVE view[c][t][n] \in VersionInfos \cup {None}
      BY <2>4
    <3> QED  BY <1>7, <3>1 DEF Applied, Restricted
  <2>6. view' \in [Streams -> [Types -> [Names -> VersionInfos \cup {None}]]]
    <3>1. (IF accepts THEN Applied(view[c][t], h.resp, wants[c][t]) ELSE view[c][t])
              \in [Names -> VersionInfos \cup {None}]
      BY <2>4, <2>5
    <3> QED  BY <1>6, <3>1 DEF ClientTypes
  <2>7. refused' \in [Streams -> [Types -> SUBSET Names]]
    <3>1. refused[c][t] \in SUBSET Names
      BY DEF ClientTypes
    <3>2. (IF accepts THEN refused[c][t] \ Contents(h.resp) ELSE refused[c][t] \cup Contents(h.resp))
              \in SUBSET Names
      BY <1>7, <3>1
    <3> QED  BY <1>6, <3>2 DEF ClientTypes
  <2> QED  BY <1>6, <2>3, <2>6, <2>7 DEF ClientTypes
<1>16. ASSUME NEW d \in Streams, NEW u \in Types, d # c \/ u # t PROVE StreamInv(d, u)'
  <2>1. ServerStill(d, u)
    BY <1>6, VarsStill
  <2>2. ClientStill(d, u)
    BY <1>6, <1>9, <1>16 DEF ClientStill
  <2>3. WireStill(d, u)
    <3>1. CASE d # c
      BY <1>1, <1>2, <1>6, <1>14, <3>1, WireSame
    <3>2. CASE d = c /\ u # t
      <4>1. lastNonce[d] <= lastNonce'[d]
        BY SMTT(30), <1>1, <1>6 DEF WireTypes
      <4> QED  BY <1>3, <1>6, <1>14, <3>2, <4>1 DEF WireStill
    <3> QED  BY <1>16, <3>1, <3>2
  <2> QED  BY <1>1, <1>15, <2>1, <2>2, <2>3, StillKept DEF ClientTypes
<1>17. /\ Downs(c, t)' = {} /\ \A r \in Downs(c, t) : r = h
       /\ UNCHANGED <<snapshots, watches, pc, pending, sub, queue, replied>>
       /\ Replaced(c, t)' <=> Replaced(c, t)
       /\ IsWaiting(c, t)' <=> IsWaiting(c, t)
       /\ IsQueued(c, t)' <=> IsQueued(c, t)
  BY <1>3, <1>5, <1>6 DEF vars, cacheVars, streamVars, Replaced, IsWaiting, IsQueued
<1>18. /\ h.nonce = entryNonce[c][t] /\ h.nonce # 0 /\ h.nonce # nonce[c][t]
       /\ \A x \in Ups(c, t) : x.nonce # h.nonce
       /\ ~IsWaiting(c, t) /\ ~IsQueued(c, t) /\ ~Replaced(c, t) /\ pc[c] # "closed"
  BY <1>4, <1>5 DEF NonceInv
<1>19. m.nonce = h.nonce /\ m.req.resourceNames = wants[c][t] /\ m.req.versionInfo = version'[c][t]
  BY <1>11, <1>12
<1>20. NonceInv(c, t)'
  <2>1. FromThen(up'[c], t, h.nonce)
    <3>1. FromThen(up[c], t, h.nonce)
      BY <1>18 DEF FromThen, Ups, RequestsIn
    <3> QED  BY <1>14, <1>19, <3>1
  <2>2. h.nonce <= lastNonce[c] /\ \A x \in Ups(c, t)' : x.nonce <= lastNonce[c]
    BY <1>5, <1>14, <1>18, <1>19 DEF NonceInv
  <2>3. \E x \in Ups(c, t)' : x.nonce = nonce'[c][t]
    BY <1>8, <1>14, <1>19
  <2>4. OneOf(down'[c], t) /\ entryNonce'[c][t] = h.nonce /\ lastNonce' = lastNonce
    BY <1>3, <1>5, <1>6, <1>18
  <2>5. (sub'[c][t] = None => entryNonce'[c][t] = 0) /\ (t \in replied'[c] => entryNonce'[c][t] # 0)
    BY <1>5, <1>6, <1>17 DEF NonceInv
  <2> QED  BY <1>8, <1>17, <1>18, <2>1, <2>2, <2>3, <2>4, <2>5 DEF NonceInv
<1>21. AskInv(c, t)'
  <2>1. LastIs(up'[c], t, Message(t, wants'[c][t], version'[c][t], nonce'[c][t]))
    BY <1>6, <1>12, <1>14 DEF M
  <2>2. \A x \in Ups(c, t)' : /\ x.req.resourceNames \in Wanted[t]
                              /\ x.nonce = nonce'[c][t] => x.req.versionInfo = version'[c][t]
    BY <1>5, <1>8, <1>10, <1>14, <1>18, <1>19 DEF AskInv
  <2>3. Ups(c, t)' # {} /\ wants'[c][t] \in Wanted[t]
    BY <1>6, <1>10, <1>14
  <2>4. sub'[c][t] # None => \E tokens \in Wanted[t] : Fits(sub'[c][t], tokens)
    BY <1>5, <1>17 DEF AskInv
  <2> QED  BY <1>17, <1>18, <2>1, <2>2, <2>3, <2>4 DEF AskInv
<1>22. ContentInv(c, t)'
  <2>1. ASSUME NEW n \in Known(sub[c][t]), Holds(c, t, n) PROVE Holds(c, t, n)'
    <3>1. CASE n \in unheard[c][t] \/ GivesUp(c, t, n)
      BY <1>6, <1>14, <1>18, <3>1 DEF Holds, GivesUp
    <3>2. CASE /\ n \in Asked(wants[c][t])
               /\ n \in refused[c][t] \/ n \in h.resp.resources \/ view[c][t][n] = version[c][t]
      <4>1. n \in Names /\ n \in Asked(wants'[c][t])
        BY <1>6, <3>2 DEF Known
      <4>2. CASE n \in h.resp.resources /\ ~accepts
        BY <1>8, <4>1, <4>2 DEF Holds
      <4>3. CASE n \in h.resp.resources /\ accepts
        <5>1. view'[c][t][n] = h.resp.version
          BY <1>7, <1>8, <3>2, <4>1, <4>3 DEF Applied, Restricted
        <5> QED  BY <1>8, <4>1, <4>3, <5>1 DEF Holds
      <4>4. CASE n \notin h.resp.resources
        <5>1. t \notin FullStateTypes /\ h.resp.version = version[c][t]
          BY <1>4, <1>5, <4>4 DEF ContentInv
        <5>2. version'[c][t] = version[c][t]
          BY <1>8, <5>1
        <5>3. view'[c][t][n] = view[c][t][n]
          BY <1>4, <1>7, <1>8, <3>2, <4>1, <4>4, <5>1 DEF Applied, Restricted
        <5>4. n \in refused[c][t] => n \in refused'[c][t]
          BY <1>8, <4>4
        <5> QED  BY <3>2, <4>1, <4>4, <5>2, <5>3, <5>4 DEF Holds
      <4> QED  BY <4>2, <4>3, <4>4
    <3> QED  BY <1>17, <2>1, <3>1, <3>2 DEF Holds
  <2>2. ASSUME t \in FullStateTypes, NEW n \in Names, view'[c][t][n] # None
        PROVE  \E snap \in Snapshots : snap[t].version = version'[c][t] /\ n \in snap[t].items
    <3>1. CASE accepts
      <4>1. n \in h.resp.resources
        BY <1>4, <1>7, <1>8, <2>2, <3>1 DEF Applied, Restricted
      <4>2. PICK snap \in Snapshots :
                h.resp.version = snap[t].version /\ h.resp.resources \subseteq snap[t].items
        BY <1>4, <1>5 DEF ContentInv
      <4> QED  BY <1>8, <3>1, <4>1, <4>2
    <3>2. CASE ~accepts
      BY <1>5, <1>8, <2>2, <3>2 DEF ContentInv
    <3> QED  BY <3>1, <3>2
  <2>3. sub'[c][t] # None => \A n \in Known(sub'[c][t]) : Holds(c, t, n)'
    BY <1>5, <1>17, <2>1 DEF ContentInv
  <2>4. \A n \in Nodes : \A w \in watches'[n] :
            w.stream = c /\ w.type = t => w.versionInfo = version'[c][t]
    BY <1>17, <1>18 DEF IsWaiting
  <2>5. \A i \in DOMAIN queue'[c] : queue'[c][i].type # t
    BY <1>17, <1>18 DEF IsQueued
  <2> QED  BY <1>17, <2>2, <2>3, <2>4, <2>5 DEF ContentInv
<1>23. BlankInv(c, t)'
  BY <1>4, <1>5, <1>17 DEF BlankInv
<1>24. StreamInv(c, t)'
  BY <1>20, <1>21, <1>22, <1>23 DEF StreamInv
<1> QED  BY <1>15, <1>16, <1>24

-----------------------------------------------------------------------------
(* Subscriptions that fit what a client asks for.                          *)

\* A client that asks for tokens is answered with the names it asks for.
LEMMA FitsWatched ==
    ASSUME NEW s, NEW tokens, Fits(s, tokens)
    PROVE  Watched(s) = Asked(tokens)
  BY DEF Fits, Watched, Asked

\* What the tokens of a client are, and when it may send none at all.
LEMMA WantedLists ==
    ASSUME NEW t \in Types, NEW tokens \in Wanted[t]
    PROVE  /\ tokens \cap Globs = {}
           /\ LegacyWildcard /\ tokens = {} => \A others \in Wanted[t] : others = {}
<1>1. tokens \subseteq Names \cup {Star}
  BY WantedTokens
<1>2. tokens \cap Globs = {}
  BY <1>1, TokenAssumption DEF TokenAssumption
<1>3. LegacyWildcard /\ {} \in Wanted[t] => Wanted[t] = {{}}
  BY SotwClientAssumption DEF SotwClientAssumption
<1> QED  BY <1>2, <1>3

\* The first request for a type: NewSotwSubscription.
LEMMA FitsNew ==
    ASSUME NEW t \in Types, NEW tokens \in Wanted[t]
    PROVE  Fits(NewSotwSubscription(tokens, LegacyWildcard), tokens)
<1>1. tokens \cap Globs = {}
  BY WantedLists
<1> DEFINE new == newSubscription(tokens = {}, LegacyWildcard, NothingKnown)
<1>2. /\ new.wildcard <=> tokens = {} /\ LegacyWildcard
      /\ new.allowLegacyWildcard = LegacyWildcard
      /\ new.subscribedResourceNames = {} /\ new.subscribedPrefixes = {}
  BY DEF newSubscription
<1> HIDE DEF new
<1> DEFINE s == SetResourceSubscription(new, tokens)
<1>3. CASE LegacyWildcard /\ tokens = {}
  <2>1. s = new
    BY <1>2, <1>3 DEF SetResourceSubscription
  <2>2. Fits(new, tokens)
    BY <1>2, <1>3 DEF Fits
  <2> QED  BY <2>1, <2>2 DEF NewSotwSubscription, new
<1>4. CASE ~(LegacyWildcard /\ tokens = {})
  <2>1. /\ s.wildcard = (Star \in tokens) /\ s.allowLegacyWildcard = FALSE
        /\ s.subscribedResourceNames = tokens \cap Names
        /\ s.subscribedPrefixes = tokens \cap Globs
    BY <1>2, <1>4 DEF SetResourceSubscription
  <2> HIDE DEF s
  <2>2. Fits(s, tokens)
    BY <1>1, <1>4, <2>1 DEF Fits
  <2> QED  BY <2>2 DEF NewSotwSubscription, new, s
<1> QED  BY <1>3, <1>4

\* A later request: SetResourceSubscription, which forgets what was given up.
LEMMA FitsSet ==
    ASSUME NEW t \in Types, NEW s, NEW old \in Wanted[t], Fits(s, old), NEW tokens \in Wanted[t]
    PROVE  /\ Fits(SetResourceSubscription(s, tokens), tokens)
           /\ Known(SetResourceSubscription(s, tokens)) \subseteq Known(s) \cap Asked(tokens)
<1>1. /\ tokens \cap Globs = {} /\ tokens \subseteq Names \cup {Star}
      /\ LegacyWildcard /\ tokens = {} => old = {}
  BY WantedLists, WantedTokens
<1> DEFINE new == SetResourceSubscription(s, tokens)
<1>2. CASE s.allowLegacyWildcard /\ tokens = {}
  <2>1. new = s
    BY <1>2 DEF SetResourceSubscription
  <2>2. LegacyWildcard /\ old = {}
    BY <1>2 DEF Fits
  <2>3. Known(s) \subseteq Asked(tokens)
    BY <1>2, <2>2 DEF Known, Asked
  <2> QED  BY <1>2, <2>1, <2>2, <2>3
<1>3. CASE ~(s.allowLegacyWildcard /\ tokens = {})
  <2>1. ~(LegacyWildcard /\ tokens = {})
    BY <1>1, <1>3 DEF Fits
  <2>2. /\ new.wildcard = (Star \in tokens) /\ new.allowLegacyWildcard = FALSE
        /\ new.subscribedResourceNames = tokens \cap Names
        /\ new.subscribedPrefixes = tokens \cap Globs
    BY <1>3 DEF SetResourceSubscription
  <2>3. \A n \in Names : new.returnedResources[n] # None =>
            /\ s.returnedResources[n] # None
            /\ Star \in tokens \/ n \in tokens \/ matchesAnyPrefix(tokens \cap Globs, n)
    BY <1>3 DEF SetResourceSubscription
  <2> HIDE DEF new
  <2>4. Fits(new, tokens)
    BY <1>1, <2>1, <2>2 DEF Fits
  <2>5. Known(new) \subseteq Known(s) \cap Asked(tokens)
    <3>1. \A n \in Names : ~matchesAnyPrefix(tokens \cap Globs, n)
      BY <1>1 DEF matchesAnyPrefix
    <3>2. ASSUME NEW n \in Known(new) PROVE n \in Known(s) /\ n \in Asked(tokens)
      <4>1. n \in Names /\ new.returnedResources[n] # None
        BY DEF Known
      <4> QED  BY <2>3, <3>1, <4>1 DEF Known, Asked
    <3> QED  BY <3>2
  <2> QED  BY <2>4, <2>5 DEF new
<1> QED  BY <1>2, <1>3

\* The response depends on the type, the version and the subscription of a watch.
LEMMA SameResponse ==
    ASSUME NEW snap, NEW w, NEW e, NEW r,
           w.type = e.type, w.versionInfo = e.versionInfo, w.sub = e.sub
    PROVE  createResponse(snap, w, r) = createResponse(snap, e, r)
  BY DEF createResponse, Changed, Deleted

\* A watch that was created, or answered at once, is for the version the client has.
LEMMA CreatedContent ==
    ASSUME IInv, SnapshotsSet, NEW c \in Streams, NEW t \in Types, NEW req \in Request, NEW s,
           req.type = t, Created(c, req, s), version'[c][t] = req.versionInfo
    PROVE  /\ \A n \in Nodes : \A w \in watches'[n] :
                 w.stream = c /\ w.type = t => w.versionInfo = version'[c][t]
           /\ \A i \in DOMAIN queue'[c] : queue'[c][i].type = t =>
                 \E snap \in Snapshots :
                    queue'[c][i] = createResponse(snap, Entry(c, t)', queue'[c][i].round)
           /\ IsQueued(c, t)' => snapshots'[NodeOf[c]] # None
<1>1. \A n \in Nodes : \A w \in watches'[n] :
          w.stream = c /\ w.type = t => w.versionInfo = version'[c][t]
  BY DEF Created
<1>2. PICK e : e = Entry(c, t)'
  OBVIOUS
<1>3. e.type = t /\ e.versionInfo = req.versionInfo /\ e.sub = s
  BY <1>2 DEF Entry, Created
<1>4. NodeOf[c] \in Nodes /\ None \notin Snapshot /\ snapshots' = snapshots
  BY SnapshotAssumption DEF SnapshotAssumption, Created
<1>5. ASSUME NEW i \in DOMAIN queue'[c], queue'[c][i].type = t
      PROVE  /\ \E snap \in Snapshots : queue'[c][i] = createResponse(snap, e, queue'[c][i].round)
             /\ snapshots'[NodeOf[c]] # None
  <2>1. /\ snapshots[NodeOf[c]] \in Snapshot
        /\ \E w \in Watch : /\ w.stream = c /\ w.type = t /\ w.sub = s
                            /\ w.versionInfo = req.versionInfo
                            /\ queue'[c][i] = createResponse(snapshots[NodeOf[c]], w, 0)
    BY <1>5 DEF Created
  <2>2. PICK snap \in Snapshots : snap = snapshots[NodeOf[c]]
    BY <1>4, <2>1 DEF SnapshotsSet
  <2>3. PICK w \in Watch : /\ w.type = t /\ w.sub = s /\ w.versionInfo = req.versionInfo
                           /\ queue'[c][i] = createResponse(snap, w, 0)
    BY <2>1, <2>2
  <2>4. w.type = e.type /\ w.versionInfo = e.versionInfo /\ w.sub = e.sub
    BY <1>3, <2>3
  <2>5. createResponse(snap, w, 0) = createResponse(snap, e, 0)
    BY <2>4, SameResponse
  <2>6. createResponse(snap, e, 0).round = 0
    BY RoundOfResponse
  <2> QED  BY <1>4, <2>1, <2>3, <2>5, <2>6
<1>6. IsQueued(c, t)' => snapshots'[NodeOf[c]] # None
  BY <1>5 DEF IsQueued
<1> QED  BY <1>1, <1>2, <1>5, <1>6

-----------------------------------------------------------------------------
(* A request arrives.                                                      *)

\* The request h of the type t is taken.
Arrived(c, h, t) ==
    /\ h = Head(up[c]) /\ t = h.req.type /\ h \in Ups(c, t)
    /\ up' \in [Streams -> Seq(Messages)] /\ \A d \in Streams : d # c => up'[d] = up[d]
    /\ \A u \in Types : u # t => Ups(c, u)' = Ups(c, u)
    /\ Ups(c, t)' \subseteq Ups(c, t) /\ Ups(c, t) \subseteq Ups(c, t)' \cup {h}
    /\ \A u, x : LastIs(up[c], u, x) => LastIs(up'[c], u, x)
    /\ \A u, k : FromThen(up[c], u, k) => FromThen(up'[c], u, k)
    /\ \A k : FromThen(up[c], t, k) /\ h.nonce = k => \A m \in Ups(c, t)' : m.nonce = k
    /\ \A x : LastIs(up[c], t, x) /\ x.req.type = t => x = h \/ x \in Ups(c, t)'

\* The server takes a request.
LEMMA UpArrives ==
    ASSUME WireTypes, NEW c \in Streams, up[c] # <<>>, up' = [up EXCEPT ![c] = Tail(@)]
    PROVE  \E h \in Messages : \E t \in Types : Arrived(c, h, t)
<1>1. up'[c] = Tail(up[c]) /\ \A d \in Streams : d # c => up'[d] = up[d]
  BY DEF WireTypes
<1>2. up[c] \in Seq(Messages)
  BY DEF WireTypes
<1>3. Head(up[c]) \in Messages /\ Tail(up[c]) \in Seq(Messages)
  BY <1>2, HeadAndTail
<1>4. PICK h \in Messages : h = Head(up[c])
  BY <1>3
<1>5. PICK t \in Types : t = h.req.type
  <2>1. h.req \in Request
    BY DEF Messages
  <2> QED  BY <2>1 DEF Request
<1>6. up' \in [Streams -> Seq(Messages)]
  BY <1>3 DEF WireTypes
<1>7. /\ \A u : u # t => RequestsIn(Tail(up[c]), u) = RequestsIn(up[c], u)
      /\ \A u : RequestsIn(Tail(up[c]), u) \subseteq RequestsIn(up[c], u)
      /\ \A u : RequestsIn(up[c], u) \subseteq RequestsIn(Tail(up[c]), u) \cup {h}
      /\ h \in RequestsIn(up[c], t)
  BY <1>2, <1>4, <1>5, RequestArrives
<1>8. /\ \A u, x : LastIs(up[c], u, x) => LastIs(Tail(up[c]), u, x)
      /\ \A u, k : FromThen(up[c], u, k) => FromThen(Tail(up[c]), u, k)
  BY <1>2, RequestArrives
<1>9. /\ \A k : FromThen(up[c], t, k) /\ h.nonce = k => \A m \in RequestsIn(Tail(up[c]), t) : m.nonce = k
      /\ \A x : LastIs(up[c], t, x) /\ x.req.type = t => x = h \/ x \in RequestsIn(Tail(up[c]), t)
  BY <1>2, <1>4, <1>5, RequestArrives
<1>10. /\ h \in Ups(c, t) /\ \A u \in Types : u # t => Ups(c, u)' = Ups(c, u)
       /\ Ups(c, t)' \subseteq Ups(c, t) /\ Ups(c, t) \subseteq Ups(c, t)' \cup {h}
  BY <1>1, <1>7 DEF Ups
<1>11. /\ \A k : FromThen(up[c], t, k) /\ h.nonce = k => \A m \in Ups(c, t)' : m.nonce = k
       /\ \A x : LastIs(up[c], t, x) /\ x.req.type = t => x = h \/ x \in Ups(c, t)'
  BY <1>1, <1>9 DEF Ups
<1>12. /\ \A u, x : LastIs(up[c], u, x) => LastIs(up'[c], u, x)
       /\ \A u, k : FromThen(up[c], u, k) => FromThen(up'[c], u, k)
  BY <1>1, <1>8
<1>13. Arrived(c, h, t)
  BY <1>1, <1>4, <1>5, <1>6, <1>10, <1>11, <1>12 DEF Arrived
<1> QED  BY <1>13

\* The other streams, when the server takes a step for a stream.
LEMMA OthersStill ==
    ASSUME NEW c \in Streams, OthersSame(c), snapshots' = snapshots, NEW d \in Streams, d # c,
           NEW u \in Types
    PROVE  ServerStill(d, u)
<1>1. Same(d, u) /\ pc'[d] = pc[d] /\ pending'[d] = pending[d] /\ replied'[d] = replied[d]
  BY DEF OthersSame
<1> QED  BY <1>1 DEF ServerStill, Replaced

\* The types other than that of the request that arrives.
LEMMA ArrivalKept ==
    ASSUME ClientTypes, NEW c \in Streams, NEW h, NEW t \in Types, Arrived(c, h, t),
           UNCHANGED <<wants, version, view, refused, nonce, down, entryNonce, lastNonce>>,
           unheard' \in [Streams -> [Types -> SUBSET Names]],
           \A d \in Streams : \A u \in Types : d # c \/ u # t =>
              ServerStill(d, u) /\ unheard'[d][u] = unheard[d][u] /\ StreamInv(d, u)
    PROVE  /\ ClientTypes'
           /\ \A d \in Streams : \A u \in Types : d # c \/ u # t => StreamInv(d, u)'
<1>1. WireTypes /\ WireTypes' /\ ClientTypes'
  BY DEF ClientTypes, WireTypes, Arrived
<1>2. ASSUME NEW d \in Streams, NEW u \in Types, d # c \/ u # t PROVE StreamInv(d, u)'
  <2>1. ServerStill(d, u) /\ unheard'[d][u] = unheard[d][u] /\ StreamInv(d, u)
    BY <1>2
  <2>2. ClientStill(d, u)
    BY DEF ClientStill
  <2>3. WireStill(d, u)
    <3>1. CASE d # c
      <4>1. up'[d] = up[d]
        BY <3>1 DEF Arrived
      <4> QED  BY <1>1, <2>1, <4>1, WireSame
    <3>2. CASE d = c /\ u # t
      <4>1. lastNonce[d] <= lastNonce'[d]
        BY SMTT(30), <1>1 DEF WireTypes
      <4>2. Downs(d, u)' = Downs(d, u)
        BY DEF Downs
      <4>3. Ups(d, u)' = Ups(d, u)
        BY <3>2 DEF Arrived
      <4>4. /\ \A m : LastIs(up[d], u, m) => LastIs(up'[d], u, m)
            /\ \A k : FromThen(up[d], u, k) => FromThen(up'[d], u, k)
        BY <3>2 DEF Arrived
      <4> QED  BY <2>1, <4>1, <4>2, <4>3, <4>4 DEF WireStill
    <3> QED  BY <1>2, <3>1, <3>2
  <2> QED  BY <1>1, <2>1, <2>2, <2>3, StillKept DEF ClientTypes
<1> QED  BY <1>1, <1>2

\* A request after which none is on its way says what the client wants.
LEMMA LastArrives ==
    ASSUME NEW c, NEW t, NEW h, Arrived(c, h, t), AskInv(c, t), Ups(c, t)' = {}
    PROVE  h.req.resourceNames = wants[c][t] /\ h.nonce = nonce[c][t]
<1> DEFINE x == Message(t, wants[c][t], version[c][t], nonce[c][t])
<1>1. LastIs(up[c], t, x)
  BY DEF AskInv
<1>2. x.req.type = t /\ x.req.resourceNames = wants[c][t] /\ x.nonce = nonce[c][t]
  BY DEF Message
<1> HIDE DEF x
<1>3. x = h
  BY <1>1, <1>2 DEF Arrived
<1> QED  BY <1>2, <1>3

\* The first request for a type arrives.
LEMMA FirstRequestClients ==
    ASSUME IInv, SnapshotsSet, ClientTypes, NEW c \in Streams, ServerFirstRequest(c),
           \A d \in Streams : \A u \in Types : StreamInv(d, u)
    PROVE  ClientTypes' /\ \A d \in Streams : \A u \in Types : StreamInv(d, u)'
<1>1. /\ WireTypes /\ up[c] # <<>> /\ up' = [up EXCEPT ![c] = Tail(@)]
      /\ UNCHANGED <<wants, version, view, refused, nonce, down, entryNonce, lastNonce, unheard>>
  BY DEF ServerFirstRequest, ClientTypes, nonceVars
<1>2. PICK h \in Messages, t \in Types : Arrived(c, h, t)
  BY <1>1, UpArrives
<1>3. PICK req \in Request : req = h.req
  BY DEF Messages
<1>4. h.req.type = t /\ h \in Ups(c, t) /\ req.type = t /\ FirstRequest(c, req)
  BY <1>2, <1>3 DEF Arrived, ServerFirstRequest
<1> DEFINE s == NewSotwSubscription(req.resourceNames, LegacyWildcard)
<1>5. Created(c, req, s) /\ pc[c] = "idle" /\ sub[c][t] = None
  BY <1>4, FirstRequestEffect
<1>6. /\ OthersSame(c) /\ snapshots' = snapshots /\ pc'[c] = "idle" /\ sub'[c][t] = s
      /\ replied'[c] = replied[c] \ {t} /\ \A u \in Types : u # t => Same(c, u)
  BY <1>4, <1>5 DEF Created
<1>7. s \in Sub /\ s # None /\ Known(s) = {}
  <2>1. req.resourceNames \in SUBSET Tokens
    BY DEF Request
  <2>2. s \in Sub
    BY <2>1, SubscriptionType
  <2>3. None \notin Sub
    BY SnapshotAssumption DEF SnapshotAssumption
  <2>4. Known(s) = {}
    BY RequestKnows
  <2> QED  BY <2>2, <2>3, <2>4
<1> HIDE DEF s
<1>8. ASSUME NEW d \in Streams, NEW u \in Types, d # c \/ u # t PROVE ServerStill(d, u)
  <2>1. CASE d # c
    BY <1>6, <2>1, OthersStill
  <2>2. CASE d = c /\ u # t
    BY <1>5, <1>6, <2>2 DEF ServerStill, Replaced
  <2> QED  BY <1>8, <2>1, <2>2
<1>9. ClientTypes' /\ \A d \in Streams : \A u \in Types : d # c \/ u # t => StreamInv(d, u)'
  <2>1. unheard' \in [Streams -> [Types -> SUBSET Names]]
    BY <1>1 DEF ClientTypes
  <2> QED  BY <1>1, <1>2, <1>8, <2>1, ArrivalKept
<1>10. NonceInv(c, t) /\ AskInv(c, t) /\ ContentInv(c, t) /\ BlankInv(c, t)
  <2>1. StreamInv(c, t)
    OBVIOUS
  <2> QED  BY <2>1 DEF StreamInv
<1>11. /\ entryNonce[c][t] = 0 /\ Downs(c, t) = {} /\ Downs(c, t)' = {}
       /\ \A m \in Ups(c, t) : m.nonce = nonce[c][t]
  <2>1. entryNonce[c][t] = 0
    BY <1>5, <1>10 DEF NonceInv
  <2>2. Downs(c, t) = {}
    BY <1>10, <2>1 DEF NonceInv
  <2>3. Downs(c, t)' = Downs(c, t)
    BY <1>1 DEF Downs
  <2> QED  BY <1>10, <2>1, <2>2, <2>3 DEF NonceInv
<1>12. Ups(c, t)' \subseteq Ups(c, t) /\ ~Replaced(c, t)'
  BY <1>2, <1>6 DEF Arrived, Replaced
<1>13. NonceInv(c, t)'
  <2>1. FromThen(up'[c], t, nonce[c][t]) /\ OneOf(down'[c], t)
    BY <1>1, <1>2, <1>10 DEF NonceInv, Arrived
  <2>2. \A m \in Ups(c, t)' : m.nonce = nonce[c][t] /\ m.nonce <= lastNonce[c]
    BY <1>10, <1>11, <1>12 DEF NonceInv
  <2>3. nonce[c][t] <= lastNonce[c] /\ entryNonce[c][t] <= lastNonce[c]
    BY <1>10 DEF NonceInv
  <2>4. t \notin replied'[c]
    BY <1>6
  <2> QED  BY <1>1, <1>6, <1>11, <1>12, <2>1, <2>2, <2>3, <2>4 DEF NonceInv
<1>14. /\ req.resourceNames \in Wanted[t] /\ req.versionInfo = version[c][t]
       /\ wants[c][t] \in Wanted[t]
  BY <1>3, <1>4, <1>10, <1>11 DEF AskInv
<1>15. AskInv(c, t)'
  <2>1. Fits(s, req.resourceNames)
    BY <1>14, FitsNew DEF s
  <2>2. \A m \in Ups(c, t)' : /\ m.req.resourceNames \in Wanted[t]
                              /\ m.nonce = nonce[c][t] => m.req.versionInfo = version[c][t]
    BY <1>10, <1>12 DEF AskInv
  <2>3. LastIs(up'[c], t, Message(t, wants[c][t], version[c][t], nonce[c][t]))
    BY <1>2, <1>10 DEF AskInv, Arrived
  <2>4. Ups(c, t)' = {} => Fits(s, wants[c][t])
    BY <1>2, <1>3, <1>10, <2>1, LastArrives
  <2> QED  BY <1>1, <1>6, <1>7, <1>11, <1>12, <1>14, <2>1, <2>2, <2>3, <2>4 DEF AskInv
<1>16. /\ \A n \in Nodes : \A w \in watches'[n] :
             w.stream = c /\ w.type = t => w.versionInfo = version'[c][t]
       /\ \A i \in DOMAIN queue'[c] : queue'[c][i].type = t =>
             \E snap \in Snapshots :
                queue'[c][i] = createResponse(snap, Entry(c, t)', queue'[c][i].round)
       /\ IsQueued(c, t)' => snapshots'[NodeOf[c]] # None
  <2>1. version'[c][t] = req.versionInfo
    BY <1>1, <1>14
  <2> QED  BY <1>4, <1>5, <2>1, CreatedContent
<1>17. ContentInv(c, t)'
  <2>1. Known(sub'[c][t]) = {}
    BY <1>6, <1>7
  <2>2. t \in FullStateTypes => \A n \in Names : view'[c][t][n] # None =>
            \E snap \in Snapshots : snap[t].version = version'[c][t] /\ n \in snap[t].items
    BY <1>1, <1>10 DEF ContentInv
  <2> QED  BY <1>11, <1>16, <2>1, <2>2 DEF ContentInv
<1>18. BlankInv(c, t)'
  BY <1>1, <1>6, <1>10, <1>11, <1>12, <1>16 DEF BlankInv
<1>19. StreamInv(c, t)'
  BY <1>13, <1>15, <1>17, <1>18 DEF StreamInv
<1> QED  BY <1>9, <1>19

\* A request with a stale nonce is ignored.
LEMMA IgnoreClients ==
    ASSUME IInv, ClientTypes, NEW c \in Streams, ServerIgnores(c),
           \A d \in Streams : \A u \in Types : StreamInv(d, u)
    PROVE  ClientTypes' /\ \A d \in Streams : \A u \in Types : StreamInv(d, u)'
<1>1. /\ WireTypes /\ up[c] # <<>> /\ up' = [up EXCEPT ![c] = Tail(@)] /\ UNCHANGED vars
      /\ UNCHANGED <<wants, version, view, refused, nonce, down, entryNonce, lastNonce>>
  BY DEF ServerIgnores, ClientTypes
<1>2. PICK h \in Messages, t \in Types : Arrived(c, h, t)
  BY <1>1, UpArrives
<1>3. h = Head(up[c]) /\ h.req.type = t /\ h \in Ups(c, t)
  BY <1>2 DEF Arrived
<1> DEFINE lost == Known(sub[c][t]) \ Asked(h.req.resourceNames)
<1>4. /\ pc[c] = "idle" /\ sub[c][t] # None /\ entryNonce[c][t] # 0 /\ h.nonce # entryNonce[c][t]
      /\ unheard' = [unheard EXCEPT ![c][t] = @ \cup lost]
  BY <1>3 DEF ServerIgnores, Stale
<1>5. lost \subseteq Names
  BY DEF Known
<1> HIDE DEF lost
<1>6. /\ unheard' \in [Streams -> [Types -> SUBSET Names]]
      /\ unheard'[c][t] = unheard[c][t] \cup lost
      /\ \A d \in Streams : \A u \in Types : d # c \/ u # t => unheard'[d][u] = unheard[d][u]
  <2>1. unheard \in [Streams -> [Types -> SUBSET Names]]
    BY DEF ClientTypes
  <2>2. unheard[c][t] \cup lost \in SUBSET Names
    BY <1>5, <2>1
  <2> QED  BY <1>4, <2>1, <2>2
<1>7. ClientTypes' /\ \A d \in Streams : \A u \in Types : d # c \/ u # t => StreamInv(d, u)'
  <2>1. \A d \in Streams : \A u \in Types : ServerStill(d, u)
    BY <1>1, VarsStill
  <2>2. \A d \in Streams : \A u \in Types : d # c \/ u # t =>
            ServerStill(d, u) /\ unheard'[d][u] = unheard[d][u] /\ StreamInv(d, u)
    BY <1>6, <2>1
  <2> QED  BY <1>1, <1>2, <1>6, <2>2, ArrivalKept
<1>8. NonceInv(c, t) /\ AskInv(c, t) /\ ContentInv(c, t) /\ BlankInv(c, t)
  <2>1. StreamInv(c, t)
    OBVIOUS
  <2> QED  BY <2>1 DEF StreamInv
<1>9. /\ UNCHANGED <<snapshots, watches, pc, pending, sub, queue, replied>>
      /\ Downs(c, t)' = Downs(c, t) /\ Ups(c, t)' \subseteq Ups(c, t)
      /\ \A m \in Ups(c, t) : m # h => m \in Ups(c, t)'
  BY <1>1, <1>2 DEF vars, cacheVars, streamVars, Downs, Arrived
<1>10. /\ Replaced(c, t)' <=> Replaced(c, t)
       /\ IsWaiting(c, t)' <=> IsWaiting(c, t)
       /\ IsQueued(c, t)' <=> IsQueued(c, t)
  BY <1>9 DEF Replaced, IsWaiting, IsQueued
<1>11. ASSUME Downs(c, t) = {}
       PROVE  entryNonce[c][t] = nonce[c][t] /\ \E m \in Ups(c, t)' : m.nonce = nonce[c][t]
  <2>1. ~Replaced(c, t)
    BY <1>4 DEF Replaced
  <2>2. entryNonce[c][t] = nonce[c][t] /\ \E m \in Ups(c, t) : m.nonce = nonce[c][t]
    BY <1>4, <1>8, <1>11, <2>1 DEF NonceInv
  <2> QED  BY <1>4, <1>9, <2>2
<1>12. NonceInv(c, t)'
  <2>1. FromThen(up'[c], t, nonce[c][t]) /\ OneOf(down'[c], t)
    BY <1>1, <1>2, <1>8 DEF NonceInv, Arrived
  <2>2. /\ \A m \in Ups(c, t)' : m.nonce <= lastNonce[c]
        /\ \A r \in Downs(c, t) : /\ r.nonce = entryNonce[c][t] /\ r.nonce # 0 /\ r.nonce # nonce[c][t]
                                  /\ \A m \in Ups(c, t)' : m.nonce # r.nonce
    BY <1>8, <1>9 DEF NonceInv
  <2>3. Downs(c, t) = {} /\ (entryNonce[c][t] = 0 \/ Replaced(c, t)) =>
            \A m \in Ups(c, t)' : m.nonce = nonce[c][t]
    BY <1>8, <1>9 DEF NonceInv
  <2> QED  BY <1>1, <1>4, <1>8, <1>9, <1>10, <1>11, <2>1, <2>2, <2>3 DEF NonceInv
<1>13. AskInv(c, t)'
  <2>1. \A m \in Ups(c, t)' : /\ m.req.resourceNames \in Wanted[t]
                              /\ m.nonce = nonce[c][t] => m.req.versionInfo = version[c][t]
    BY <1>8, <1>9 DEF AskInv
  <2>2. LastIs(up'[c], t, Message(t, wants[c][t], version[c][t], nonce[c][t]))
    BY <1>2, <1>8 DEF AskInv, Arrived
  <2>3. Ups(c, t)' # {} \/ Downs(c, t)' # {}
    BY <1>9, <1>11
  <2>4. wants[c][t] \in Wanted[t]
    BY <1>4, <1>8 DEF AskInv
  <2> QED  BY <1>1, <1>8, <1>9, <1>10, <2>1, <2>2, <2>3, <2>4 DEF AskInv
<1>14. ContentInv(c, t)'
  <2>1. ASSUME NEW n \in Known(sub[c][t]), Holds(c, t, n) PROVE Holds(c, t, n)'
    <3>1. CASE n \in unheard[c][t]
      BY <1>6, <3>1 DEF Holds
    <3>2. CASE GivesUp(c, t, n)
      <4>1. CASE n \notin Asked(h.req.resourceNames)
        BY <1>6, <4>1 DEF Holds, lost
      <4>2. CASE \E m \in Ups(c, t) : m # h /\ n \notin Asked(m.req.resourceNames)
        BY <1>9, <4>2 DEF Holds, GivesUp
      <4> QED  BY <1>4, <3>2, <4>1, <4>2 DEF GivesUp, Replaced
    <3>3. CASE /\ n \in Asked(wants[c][t])
               /\ \/ n \in refused[c][t]
                  \/ \E r \in Downs(c, t) : n \in r.resp.resources
                  \/ view[c][t][n] = version[c][t]
      BY <1>1, <1>9, <3>3 DEF Holds
    <3> QED  BY <2>1, <3>1, <3>2, <3>3 DEF Holds
  <2>2. Entry(c, t)' = Entry(c, t)
    BY <1>1, <1>9 DEF Entry
  <2> QED  BY <1>1, <1>8, <1>9, <2>1, <2>2 DEF ContentInv
<1>15. BlankInv(c, t)'
  BY <1>1, <1>8, <1>9, <1>10 DEF BlankInv
<1>16. StreamInv(c, t)'
  BY <1>12, <1>13, <1>14, <1>15 DEF StreamInv
<1> QED  BY <1>7, <1>16

\* A request that answers the last response closes the watch of its type.
LEMMA CloseClients ==
    ASSUME IInv, ClientTypes, NEW c \in Streams, ServerCloses(c),
           \A d \in Streams : \A u \in Types : StreamInv(d, u)
    PROVE  ClientTypes' /\ \A d \in Streams : \A u \in Types : StreamInv(d, u)'
<1>1. /\ WireTypes /\ up[c] # <<>> /\ up' = [up EXCEPT ![c] = Tail(@)]
      /\ UNCHANGED <<wants, version, view, refused, nonce, down, entryNonce, lastNonce, unheard>>
  BY DEF ServerCloses, ClientTypes, nonceVars
<1>2. PICK h \in Messages, t \in Types : Arrived(c, h, t)
  BY <1>1, UpArrives
<1>3. PICK req \in Request : req = h.req
  BY DEF Messages
<1>4. /\ h.req.type = t /\ h \in Ups(c, t) /\ req.type = t /\ CloseWatch(c, req)
      /\ entryNonce[c][t] = 0 \/ h.nonce = entryNonce[c][t]
  BY <1>2, <1>3 DEF Arrived, ServerCloses, Stale
<1>5. /\ OthersSame(c) /\ \A u \in Types : Same(c, u)
      /\ pc[c] = "idle" /\ pc'[c] \in {"draining", "cancelled"} /\ pending'[c] = req
      /\ ~IsWaiting(c, t)' /\ UNCHANGED <<snapshots, sub, replied, queue>>
  <2>1. /\ OthersSame(c) /\ \A u \in Types : Same(c, u)
        /\ pc[c] = "idle" /\ pc'[c] \in {"draining", "cancelled"} /\ pending'[c] = req
        /\ ~IsWaiting(c, req.type)' /\ UNCHANGED <<snapshots, sub, replied, queue>>
    BY <1>4, CloseWatchEffect
  <2> QED  BY <1>4, <2>1
<1>6. sub[c][t] # None
  BY <1>4 DEF CloseWatch
<1>7. ASSUME NEW d \in Streams, NEW u \in Types, d # c \/ u # t PROVE ServerStill(d, u)
  <2>1. CASE d # c
    BY <1>5, <2>1, OthersStill
  <2>2. CASE d = c /\ u # t
    BY <1>4, <1>5, <2>2 DEF ServerStill, Replaced
  <2> QED  BY <1>7, <2>1, <2>2
<1>8. ClientTypes' /\ \A d \in Streams : \A u \in Types : d # c \/ u # t => StreamInv(d, u)'
  <2>1. unheard' \in [Streams -> [Types -> SUBSET Names]]
    BY <1>1 DEF ClientTypes
  <2> QED  BY <1>1, <1>2, <1>7, <2>1, ArrivalKept
<1>9. NonceInv(c, t) /\ AskInv(c, t) /\ ContentInv(c, t) /\ BlankInv(c, t)
  <2>1. StreamInv(c, t)
    OBVIOUS
  <2> QED  BY <2>1 DEF StreamInv
<1>10. Downs(c, t) = {} /\ Downs(c, t)' = {}
  <2>1. Downs(c, t) = {}
    BY <1>4, <1>9 DEF NonceInv
  <2> QED  BY <1>1, <2>1 DEF Downs
<1>11. h.nonce = nonce[c][t]
  BY <1>4, <1>9, <1>10 DEF NonceInv
<1>12. /\ Ups(c, t)' \subseteq Ups(c, t) /\ \A m \in Ups(c, t) : m # h => m \in Ups(c, t)'
       /\ Replaced(c, t)' /\ ~Replaced(c, t)
       /\ \A m \in Ups(c, t)' : m.nonce = nonce[c][t]
  <2>1. FromThen(up[c], t, nonce[c][t])
    BY <1>9 DEF NonceInv
  <2> QED  BY <1>2, <1>4, <1>5, <1>11, <2>1 DEF Arrived, Replaced
<1>13. NonceInv(c, t)'
  <2>1. FromThen(up'[c], t, nonce[c][t]) /\ OneOf(down'[c], t)
    BY <1>1, <1>2, <1>9 DEF NonceInv, Arrived
  <2>2. \A m \in Ups(c, t)' : m.nonce <= lastNonce[c]
    BY <1>9, <1>12 DEF NonceInv
  <2>3. IsQueued(c, t)' <=> IsQueued(c, t)
    BY <1>5 DEF IsQueued
  <2> QED  BY <1>1, <1>5, <1>9, <1>10, <1>12, <2>1, <2>2, <2>3 DEF NonceInv
<1>14. /\ req.resourceNames \in Wanted[t] /\ req.versionInfo = version[c][t]
       /\ wants[c][t] \in Wanted[t]
  BY <1>3, <1>4, <1>9, <1>11 DEF AskInv
<1>15. AskInv(c, t)'
  <2>1. \A m \in Ups(c, t)' : /\ m.req.resourceNames \in Wanted[t]
                              /\ m.nonce = nonce[c][t] => m.req.versionInfo = version[c][t]
    BY <1>9, <1>12 DEF AskInv
  <2>2. LastIs(up'[c], t, Message(t, wants[c][t], version[c][t], nonce[c][t]))
    BY <1>2, <1>9 DEF AskInv, Arrived
  <2>3. Ups(c, t)' = {} => req.resourceNames = wants[c][t]
    BY <1>2, <1>3, <1>9, LastArrives
  <2>4. \E tokens \in Wanted[t] : Fits(sub[c][t], tokens)
    BY <1>6, <1>9 DEF AskInv
  <2> QED  BY <1>1, <1>5, <1>6, <1>10, <1>12, <1>14, <2>1, <2>2, <2>3, <2>4 DEF AskInv
<1>16. ContentInv(c, t)'
  <2>1. ASSUME NEW n, Holds(c, t, n) PROVE Holds(c, t, n)'
    <3>1. ASSUME GivesUp(c, t, n) PROVE GivesUp(c, t, n)'
      <4>1. CASE n \notin Asked(h.req.resourceNames)
        BY <1>3, <1>5, <1>12, <4>1 DEF GivesUp
      <4>2. CASE \E m \in Ups(c, t) : m # h /\ n \notin Asked(m.req.resourceNames)
        BY <1>12, <4>2 DEF GivesUp
      <4> QED  BY <1>12, <3>1, <4>1, <4>2 DEF GivesUp
    <3> QED  BY <1>1, <1>10, <2>1, <3>1 DEF Holds
  <2>2. Entry(c, t)' = Entry(c, t)
    BY <1>1, <1>5 DEF Entry
  <2>3. \A n \in Nodes : \A w \in watches'[n] : ~(w.stream = c /\ w.type = t)
    BY <1>5 DEF IsWaiting
  <2> QED  BY <1>1, <1>5, <1>9, <1>10, <2>1, <2>2, <2>3 DEF ContentInv
<1>17. BlankInv(c, t)'
  BY <1>1, <1>5, <1>9, <1>10, <1>12 DEF BlankInv, IsQueued
<1>18. StreamInv(c, t)'
  BY <1>13, <1>15, <1>16, <1>17 DEF StreamInv
<1> QED  BY <1>8, <1>18

\* The watch that was closed is replaced.
LEMMA RewatchClients ==
    ASSUME IInv, SnapshotsSet, ClientTypes, NEW c \in Streams, ServerRewatches(c),
           \A d \in Streams : \A u \in Types : StreamInv(d, u)
    PROVE  ClientTypes' /\ \A d \in Streams : \A u \in Types : StreamInv(d, u)'
<1>1. /\ WireTypes /\ Rewatch(c) /\ entryNonce' = [entryNonce EXCEPT ![c][pending[c].type] = 0]
      /\ UNCHANGED <<wants, version, view, refused, nonce, up, down, lastNonce, unheard>>
  BY DEF ServerRewatches, ClientTypes, clientVars
<1>2. PICK req \in Request :
          /\ req = pending[c] /\ req.type \in Types
          /\ pc[c] = "cancelled" /\ sub[c][req.type] \in Sub
          /\ Created(c, req, SetResourceSubscription(sub[c][req.type], req.resourceNames))
  BY <1>1, RewatchEffect
<1>3. PICK t \in Types : t = req.type
  BY <1>2
<1> DEFINE s == SetResourceSubscription(sub[c][t], req.resourceNames)
<1>4. /\ Created(c, req, s) /\ sub[c][t] \in Sub /\ Replaced(c, t)
      /\ \A u \in Types : u # t => ~Replaced(c, u)
  BY <1>2, <1>3 DEF Replaced
<1>5. s \in Sub /\ s # None
  <2>1. req.resourceNames \in SUBSET Tokens
    BY DEF Request
  <2>2. s \in Sub
    BY <1>4, <2>1, SubscriptionType
  <2> QED  BY <2>2, SnapshotAssumption DEF SnapshotAssumption
<1>6. PICK s1 \in Sub : s1 = s
  BY <1>5
<1>7. sub[c][t] # None /\ s1 # None /\ Created(c, req, s1)
  <2>1. None \notin Sub
    BY SnapshotAssumption DEF SnapshotAssumption
  <2> QED  BY <1>4, <1>6, <2>1
<1> HIDE DEF s
<1>8. /\ OthersSame(c) /\ snapshots' = snapshots /\ pc'[c] = "idle" /\ sub'[c][t] = s1
      /\ replied'[c] = replied[c] \ {t} /\ \A u \in Types : u # t => Same(c, u)
  BY <1>3, <1>7 DEF Created
<1>9. ~Replaced(c, t)' /\ \A u \in Types : ~Replaced(c, u)'
  BY <1>8 DEF Replaced
<1>10. /\ entryNonce' \in [Streams -> [Types -> Nat]] /\ entryNonce'[c][t] = 0
       /\ \A d \in Streams : \A u \in Types : d # c \/ u # t => entryNonce'[d][u] = entryNonce[d][u]
  <2>1. entryNonce' = [entryNonce EXCEPT ![c][t] = 0] /\ 0 \in Nat
    BY SMTT(30), <1>1, <1>2, <1>3
  <2> QED  BY <2>1 DEF ClientTypes
<1>11. WireTypes' /\ ClientTypes'
  BY <1>1, <1>10 DEF ClientTypes, WireTypes
<1>12. ASSUME NEW d \in Streams, NEW u \in Types, d # c \/ u # t PROVE StreamInv(d, u)'
  <2>1. ServerStill(d, u)
    <3>1. CASE d # c
      BY <1>8, <3>1, OthersStill
    <3>2. CASE d = c /\ u # t
      BY <1>2, <1>4, <1>8, <1>9, <3>2 DEF ServerStill
    <3> QED  BY <1>12, <3>1, <3>2
  <2>2. ClientStill(d, u)
    BY <1>1 DEF ClientStill
  <2>3. WireStill(d, u)
    BY <1>1, <1>10, <1>12, WireSame
  <2> QED  BY <1>1, <1>11, <2>1, <2>2, <2>3, StillKept DEF ClientTypes
<1>13. NonceInv(c, t) /\ AskInv(c, t) /\ ContentInv(c, t) /\ BlankInv(c, t)
  <2>1. StreamInv(c, t)
    OBVIOUS
  <2> QED  BY <2>1 DEF StreamInv
<1>14. /\ Downs(c, t) = {} /\ Downs(c, t)' = {} /\ Ups(c, t)' = Ups(c, t)
       /\ \A m \in Ups(c, t) : m.nonce = nonce[c][t]
  <2>1. Downs(c, t) = {}
    BY <1>4, <1>13 DEF NonceInv
  <2>2. Downs(c, t)' = Downs(c, t) /\ Ups(c, t)' = Ups(c, t)
    BY <1>1 DEF Downs, Ups
  <2> QED  BY <1>4, <1>13, <2>1, <2>2 DEF NonceInv
<1>15. NonceInv(c, t)'
  <2>1. 0 <= lastNonce[c]
    BY SMTT(30), <1>1 DEF WireTypes
  <2>2. /\ nonce[c][t] <= lastNonce[c] /\ OneOf(down[c], t) /\ FromThen(up[c], t, nonce[c][t])
        /\ \A m \in Ups(c, t) : m.nonce <= lastNonce[c]
    BY <1>13 DEF NonceInv
  <2>3. t \notin replied'[c]
    BY <1>8
  <2> QED  BY <1>1, <1>8, <1>9, <1>10, <1>14, <2>1, <2>2, <2>3 DEF NonceInv
<1>16. /\ req.resourceNames \in Wanted[t] /\ req.versionInfo = version[c][t]
       /\ wants[c][t] \in Wanted[t] /\ \E old \in Wanted[t] : Fits(sub[c][t], old)
       /\ Ups(c, t) = {} => req.resourceNames = wants[c][t]
  <2>1. wants[c][t] \in Wanted[t] /\ \E old \in Wanted[t] : Fits(sub[c][t], old)
    BY <1>7, <1>13 DEF AskInv
  <2>2. req.resourceNames \in Wanted[t] /\ req.versionInfo = version[c][t]
    BY <1>2, <1>4, <1>13 DEF AskInv
  <2>3. pc[c] # "closed"
    BY <1>2
  <2>4. wants[c][t] # None
    BY <2>1, SotwClientAssumption DEF SotwClientAssumption
  <2>5. Ups(c, t) = {} => req.resourceNames = wants[c][t]
    BY <1>2, <1>4, <1>13, <1>14, <2>3, <2>4 DEF AskInv
  <2> QED  BY <2>1, <2>2, <2>5
<1>17. /\ Fits(s1, req.resourceNames)
       /\ Known(s1) \subseteq Known(sub[c][t]) \cap Asked(req.resourceNames)
  <2>1. PICK old \in Wanted[t] : Fits(sub[c][t], old)
    BY <1>16
  <2> QED  BY <1>6, <1>16, <2>1, FitsSet DEF s
<1>18. AskInv(c, t)'
  <2>1. /\ LastIs(up[c], t, Message(t, wants[c][t], version[c][t], nonce[c][t]))
        /\ \A m \in Ups(c, t) : /\ m.req.resourceNames \in Wanted[t]
                                /\ m.nonce = nonce[c][t] => m.req.versionInfo = version[c][t]
    BY <1>13 DEF AskInv
  <2>2. Ups(c, t) = {} => Fits(s1, wants[c][t])
    BY <1>16, <1>17
  <2>3. \E tokens \in Wanted[t] : Fits(s1, tokens)
    BY <1>16, <1>17
  <2>4. wants[c][t] \in Wanted[t] /\ sub'[c][t] # None /\ sub'[c][t] = s1
    BY <1>7, <1>8, <1>16
  <2> QED  BY <1>1, <1>9, <1>14, <2>1, <2>2, <2>3, <2>4 DEF AskInv
<1>19. /\ \A n \in Nodes : \A w \in watches'[n] :
             w.stream = c /\ w.type = t => w.versionInfo = version'[c][t]
       /\ \A i \in DOMAIN queue'[c] : queue'[c][i].type = t =>
             \E snap \in Snapshots :
                queue'[c][i] = createResponse(snap, Entry(c, t)', queue'[c][i].round)
       /\ IsQueued(c, t)' => snapshots'[NodeOf[c]] # None
  <2>1. version'[c][t] = req.versionInfo /\ req.type = t
    BY <1>1, <1>3, <1>16
  <2> QED  BY <1>7, <2>1, CreatedContent
<1>20. ContentInv(c, t)'
  <2>1. ASSUME NEW n \in Known(s1) PROVE Holds(c, t, n)'
    <3>1. n \in Known(sub[c][t]) /\ n \in Asked(req.resourceNames)
      BY <1>17
    <3>2. Holds(c, t, n)
      BY <1>7, <1>13, <3>1 DEF ContentInv
    <3>3. GivesUp(c, t, n) => GivesUp(c, t, n)'
      BY <1>2, <1>14, <3>1 DEF GivesUp
    <3> QED  BY <1>1, <1>14, <3>2, <3>3 DEF Holds
  <2>2. t \in FullStateTypes => \A n \in Names : view'[c][t][n] # None =>
            \E snap \in Snapshots : snap[t].version = version'[c][t] /\ n \in snap[t].items
    BY <1>1, <1>13 DEF ContentInv
  <2> QED  BY <1>8, <1>14, <1>19, <2>1, <2>2 DEF ContentInv
<1>21. BlankInv(c, t)'
  BY <1>1, <1>8, <1>13, <1>14, <1>19 DEF BlankInv
<1>22. StreamInv(c, t)'
  BY <1>15, <1>18, <1>20, <1>21 DEF StreamInv
<1> QED  BY <1>11, <1>12, <1>22
=============================================================================
