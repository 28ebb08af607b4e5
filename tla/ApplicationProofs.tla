--------------------------- MODULE ApplicationProofs ---------------------------
(***************************************************************************)
(* An application of the client library that waits for its server holds    *)
(* the snapshot of its node, for any number of applications.               *)
(***************************************************************************)
EXTENDS ClientsProofs

\* A leaf is for Zenon, or for the SMT solver where it cites it: arithmetic and sequences.
USE Zenon

-----------------------------------------------------------------------------
(* The server, for the stream of an application.                           *)

\* The server takes a request, which it never ignores.
LEMMA RequestApp ==
    ASSUME LegacyWildcard, IInv, WireTypes, AppTypes, SnapshotsSet, NEW c \in Streams,
           NEW t \in FullStateTypes, t = TypeURL[c], TurnOf(c), AppOf(c, t), UNCHANGED adsVars,
           ServerFirstRequest(c) \/ ServerIgnores(c) \/ ServerCloses(c)
    PROVE  AppOf(c, t)' /\ snapshots' = snapshots /\ entryNonce' = entryNonce
<1> DEFINE m == Head(up[c])
<1>1. /\ up[c] # <<>> /\ up' = [up EXCEPT ![c] = Tail(@)] /\ entryNonce' = entryNonce
      /\ UNCHANGED <<version, view, nonce, down, handed, received, rejected>>
  BY DEF ServerFirstRequest, ServerIgnores, ServerCloses, adsVars, nonceVars
<1>2. t \in Types /\ 1 \in DOMAIN up[c] /\ m = up[c][1] /\ Tail(up[c]) = <<>> /\ m \in Messages
  <2>1. t \in Types /\ up[c] \in Seq(Messages) /\ \A i \in DOMAIN up[c] : i = 1
    BY AdsClientAssumption DEF AdsClientAssumption, WireTypes, TurnOf
  <2>2. 1 \in DOMAIN up[c] /\ m = up[c][1] /\ Tail(up[c]) = <<>>
    BY <1>1, <2>1, OneElement
  <2>3. m \in Messages
    BY <1>1, <2>1, HeadAndTail
  <2> QED  BY <2>1, <2>2, <2>3
<1>3. /\ m.req.type = t /\ m.req \in Request /\ m.req.resourceNames = {}
      /\ m.req.versionInfo = version[c][t] /\ m.nonce = nonce[c][t]
  <2>1. m.req.type = t /\ m.req \in Request
    BY <1>2 DEF TurnOf, Messages
  <2>2. m.req.resourceNames = {} /\ m.req.versionInfo = version[c][t] /\ m.nonce = nonce[c][t]
    BY <1>2 DEF AppOf, AskTurn, NonceTurn
  <2> QED  BY <2>1, <2>2
<1>4. up'[c] = <<>> /\ down[c] = <<>> /\ down'[c] = <<>> /\ DOMAIN <<>> = {} /\ ~Handling(c)
  <2>1. up'[c] = <<>>
    BY <1>1, <1>2 DEF WireTypes
  <2>2. down[c] = <<>> /\ pc[c] = "idle"
    BY <1>1 DEF TurnOf
  <2> QED  BY <1>1, <2>1, <2>2, OneElement DEF Handling
<1> HIDE DEF m
<1>5. entryNonce[c][t] # 0 => m.nonce = entryNonce[c][t]
  BY <1>3, <1>4 DEF AppOf, NonceTurn
<1>6. CASE ServerFirstRequest(c)
  <2> DEFINE s == NewSotwSubscription({}, LegacyWildcard)
  <2>1. FirstRequest(c, m.req)
    BY <1>6 DEF ServerFirstRequest, m
  <2>2. Created(c, m.req, s) /\ sub[c][t] = None
    BY <1>3, <2>1, FirstRequestEffect
  <2>3. s.wildcard /\ s.allowLegacyWildcard
    BY AsksForAll
  <2>4. s # None
    <3>1. m.req.resourceNames \in SUBSET Tokens
      BY <1>3 DEF Request
    <3> QED  BY <1>3, <3>1, SubscriptionType, SnapshotAssumption DEF SnapshotAssumption
  <2>5. entryNonce'[c][t] = 0
    BY <1>1, <2>2 DEF AppOf, NonceTurn
  <2>6. snapshots' = snapshots
    BY <2>2 DEF Created
  <2>7. PICK r, req : r = s /\ req = m.req
    OBVIOUS
  <2> HIDE DEF s
  <2>8. /\ req.type = t /\ req.versionInfo = version[c][t] /\ r # None /\ r.wildcard
        /\ r.allowLegacyWildcard /\ Created(c, req, r)
    BY <1>3, <2>2, <2>3, <2>4, <2>7
  <2>9. AppOf(c, t)'
    BY <1>1, <1>4, <2>5, <2>8, CreatedApp
  <2> QED  BY <1>1, <2>6, <2>9
<1>7. CASE ServerIgnores(c)
  <2>1. Stale(c, m.req.type, m.nonce)
    BY <1>7 DEF ServerIgnores, m
  <2> QED  BY <1>3, <1>5, <2>1 DEF Stale
<1>8. CASE ServerCloses(c)
  <2>1. CloseWatch(c, m.req)
    BY <1>8 DEF ServerCloses, m
  <2>2. /\ pc'[c] \in {"draining", "cancelled"} /\ pending'[c] = m.req /\ Same(c, t)
        /\ UNCHANGED <<snapshots, sub, replied, queue>> /\ sub[c][t] # None
    BY <1>2, <1>3, <2>1, CloseWatchEffect DEF CloseWatch
  <2>3. Handling(c)' /\ pc'[c] # "closed"
    BY <2>2 DEF Handling
  <2>4. NonceTurn(c, t)'
    <3>1. entryNonce'[c][t] = entryNonce[c][t] /\ nonce'[c][t] = nonce[c][t] /\ sub'[c][t] # None
      BY <1>1, <2>2
    <3>2. entryNonce[c][t] # 0 => nonce[c][t] = entryNonce[c][t]
      BY <1>3, <1>5
    <3> QED  BY <1>4, <3>1, <3>2 DEF NonceTurn
  <2>5. TokenTurn(c, t)'
    BY <2>2, <2>3 DEF TokenTurn
  <2>6. AskTurn(c, t)'
    <3>1. ASSUME NEW n \in Nodes, NEW w \in watches'[n], w.stream = c, w.type = t
          PROVE  w.versionInfo = version'[c][t]
      <4>1. w \in watches[n]
        BY <2>2, <3>1 DEF Same
      <4> QED  BY <1>1, <3>1, <4>1 DEF AppOf, AskTurn
    <3>2. sub'[c][t] # None => sub'[c][t].wildcard /\ sub'[c][t].allowLegacyWildcard
      BY <2>2 DEF AppOf, AskTurn
    <3> QED  BY <1>1, <1>3, <1>4, <2>2, <3>1, <3>2 DEF AskTurn
  <2>7. ContentTurn(c, t)'
    <3>1. \A v : Shows(c, t, v) => Shows(c, t, v)'
      BY <1>1 DEF Shows
    <3>2. queue'[c] = queue[c] /\ down'[c] = down[c] /\ handed'[c] = handed[c]
      BY <1>1, <2>2
    <3>3. /\ \A i \in DOMAIN queue[c] : queue[c][i].type = t => Complete(queue[c][i], t)
          /\ \A i \in DOMAIN handed[c] : Complete(handed[c][i], t)
          /\ Shows(c, t, version[c][t]) /\ (handed[c] = <<>> => Shows(c, t, received[c]))
      BY DEF AppOf, ContentTurn
    <3>4. Shows(c, t, version[c][t])' /\ (handed'[c] = <<>> => Shows(c, t, received[c])')
      BY <1>1, <3>1, <3>2, <3>3
    <3>5. /\ \A i \in DOMAIN queue'[c] : queue'[c][i].type = t => Complete(queue'[c][i], t)
          /\ \A i \in DOMAIN handed'[c] : Complete(handed'[c][i], t)
      BY <3>2, <3>3
    <3> QED  BY <1>4, <3>4, <3>5 DEF ContentTurn, Complete
  <2>8. BlankTurn(c, t)'
    <3>1. /\ snapshots'[NodeOf[c]] = snapshots[NodeOf[c]] /\ version'[c][t] = version[c][t]
          /\ received'[c] = received[c] /\ handed'[c] = handed[c]
      BY <1>1, <2>2
    <3>2. BlankTurn(c, t)
      BY DEF AppOf
    <3> QED  BY <1>4, <3>1, <3>2 DEF BlankTurn
  <2> QED  BY <1>1, <2>2, <2>4, <2>5, <2>6, <2>7, <2>8 DEF AppOf
<1> QED  BY <1>6, <1>7, <1>8

\* The server sends the response to a watch.
LEMMA AnswerApp ==
    ASSUME IInv, WireTypes, AppTypes, NEW c \in Streams, NEW t \in FullStateTypes, t = TypeURL[c],
           TurnOf(c), AppOf(c, t), UNCHANGED adsVars, UNCHANGED <<version, view, nonce, up>>,
           NEW i \in DOMAIN queue[c], Took(c, i), Deliver(c, queue[c][i]),
           snapshots[NodeOf[c]] # None
    PROVE  /\ AppOf(c, t)' /\ snapshots' = snapshots /\ pc[c] = "idle"
           /\ entryNonce' \in [Streams -> [Types -> Nat]]
           /\ \A d \in Streams : \A u \in Types : d # c => entryNonce'[d][u] = entryNonce[d][u]
<1>1. PICK resp \in Response : resp = queue[c][i]
  BY SMTT(30) DEF IInv, TypeOK
<1>2. PICK u : u = queue[c][i].type
  OBVIOUS
<1>3. /\ u \in Types /\ IsQueued(c, u) /\ ~IsQueued(c, u)' /\ ~IsWaiting(c, u)'
      /\ UNCHANGED <<snapshots, watches, pending>> /\ pc'[c] = pc[c]
  BY <1>2, TookEffect
<1>4. u = t /\ sub[c][t] # None /\ t \in Types /\ resp.type = t
  BY <1>1, <1>2, <1>3 DEF TurnOf, IInv, NothingWithoutEntry
<1>5. Serving(c)
  BY <1>3, <1>4 DEF Serving
<1>6. /\ down[c] = <<>> /\ handed[c] = <<>> /\ up[c] = <<>> /\ ~Handling(c)
      /\ UNCHANGED <<handed, received, rejected>>
  BY <1>5 DEF TurnOf, adsVars
<1>7. /\ pc[c] = "idle" /\ Send(c, resp) /\ Deliver(c, resp) /\ ~Handling(c)' /\ pc'[c] = "idle"
  <2>1. pc[c] \in {"idle", "draining"} /\ Deliver(c, resp)
        /\ (Send(c, resp) \/ pc[c] = "draining")
    BY <1>1 DEF Took
  <2>2. pc[c] = "idle"
    BY <1>6, <2>1 DEF Handling
  <2> QED  BY <1>3, <2>1, <2>2 DEF Handling
<1>8. sub[c][t] \in Sub /\ sub[c][t].wildcard /\ sub[c][t].allowLegacyWildcard
  <2>1. sub \in [Streams -> [Types -> Sub \cup {None}]]
    BY DEF IInv, TypeOK
  <2>2. sub[c][t].wildcard /\ sub[c][t].allowLegacyWildcard
    BY <1>4 DEF AppOf, AskTurn
  <2> QED  BY <1>4, <2>1, <2>2
<1>9. responseMatchesCurrentSubscription(resp, sub[c][t])
  BY <1>8 DEF responseMatchesCurrentSubscription
<1>10. PICK s1 \in Sub : /\ s1 = SetReturnedResources(sub[c][t], resp.returnedResources)
                         /\ s1 # None
  <2>1. resp.returnedResources \in [Names -> VersionInfos \cup {None}]
    BY DEF Response
  <2> QED  BY <1>8, <2>1, ReturnedType
<1>11. s1.wildcard /\ s1.allowLegacyWildcard
  <2>1. PICK s \in Sub : s = sub[c][t]
    BY <1>8
  <2>2. s1 = [s EXCEPT !.returnedResources = resp.returnedResources]
    BY <1>10, <2>1 DEF SetReturnedResources
  <2>3. s1.wildcard = s.wildcard /\ s1.allowLegacyWildcard = s.allowLegacyWildcard
    BY <2>2 DEF Sub, SubscriptionsOver
  <2> QED  BY <1>8, <2>1, <2>3
<1>12. sub' = [sub EXCEPT ![c][t] = s1]
  BY <1>4, <1>7, <1>9, <1>10 DEF Send
<1>13. sub'[c][t] = s1
  BY <1>4, <1>12 DEF IInv, TypeOK
<1>14. PICK k \in Nat : k = lastNonce[c] + 1
  <2>1. lastNonce[c] + 1 \in Nat
    BY SMTT(30) DEF WireTypes
  <2> QED  BY <2>1
<1>15. PICK r \in Deliveries : r = [resp |-> resp, nonce |-> k]
  BY DEF Deliveries
<1>16. r.resp = resp /\ r.nonce = k
  BY <1>15
<1>17. /\ entryNonce' = [entryNonce EXCEPT ![c][t] = k]
       /\ down' = [down EXCEPT ![c] = Append(@, r)]
  BY <1>4, <1>7, <1>9, <1>14, <1>15 DEF Deliver
<1>18. /\ entryNonce' \in [Streams -> [Types -> Nat]] /\ entryNonce'[c][t] = k
       /\ \A d \in Streams : \A x \in Types : d # c => entryNonce'[d][x] = entryNonce[d][x]
  BY <1>4, <1>17 DEF AppTypes
<1>19. down'[c] = Append(<<>>, r)
  BY <1>6, <1>17 DEF WireTypes
<1>20. DOMAIN down'[c] = {1} /\ down'[c][1] = r /\ down'[c] # <<>> /\ DOMAIN <<>> = {}
  <2>1. DOMAIN Append(<<>>, r) = {1} /\ Append(<<>>, r) # <<>> /\ Append(<<>>, r)[1] = r
        /\ DOMAIN <<>> = {}
    BY OneElement
  <2> QED  BY <1>19, <2>1
<1>21. Complete(resp, t)
  BY <1>1, <1>4 DEF AppOf, ContentTurn
<1>22. NonceTurn(c, t)'
  BY <1>6, <1>10, <1>13, <1>16, <1>18, <1>20 DEF NonceTurn
<1>23. TokenTurn(c, t)'
  BY <1>7, <1>10, <1>13, <1>20 DEF TokenTurn
<1>24. AskTurn(c, t)'
  <2>1. ASSUME NEW n \in Nodes, NEW w \in watches'[n], w.stream = c, w.type = t PROVE FALSE
    BY <1>3, <1>4, <2>1 DEF IsWaiting
  <2> QED  BY <1>6, <1>7, <1>11, <1>13, <1>20, <2>1 DEF AskTurn
<1>25. ContentTurn(c, t)'
  <2>1. \A v : Shows(c, t, v) => Shows(c, t, v)'
    BY <1>6 DEF Shows
  <2>2. Shows(c, t, version[c][t])' /\ Shows(c, t, received[c])'
    <3>1. Shows(c, t, version[c][t]) /\ Shows(c, t, received[c])
      BY <1>6 DEF AppOf, ContentTurn
    <3> QED  BY <1>6, <2>1, <3>1
  <2>3. \A j \in DOMAIN queue'[c] : queue'[c][j].type # t
    BY <1>3, <1>4 DEF IsQueued
  <2>4. \A j \in DOMAIN handed'[c] : Complete(handed'[c][j], t)
    BY <1>6, <1>20
  <2>5. \A j \in DOMAIN down'[c] : Complete(down'[c][j].resp, t)
    BY <1>16, <1>20, <1>21
  <2> QED  BY <2>2, <2>3, <2>4, <2>5 DEF ContentTurn, Complete
<1>26. BlankTurn(c, t)'
  BY <1>3 DEF BlankTurn
<1> QED  BY <1>3, <1>7, <1>18, <1>22, <1>23, <1>24, <1>25, <1>26 DEF AppOf

\* The request that replaces a watch asks for everything again.
LEMMA RewatchApp ==
    ASSUME LegacyWildcard, IInv, WireTypes, AppTypes, SnapshotsSet, NEW c \in Streams,
           NEW t \in FullStateTypes, t = TypeURL[c], TurnOf(c), AppOf(c, t), UNCHANGED adsVars,
           ServerRewatches(c)
    PROVE  /\ AppOf(c, t)' /\ snapshots' = snapshots /\ OthersSame(c)
           /\ UNCHANGED <<version, view, nonce, up, down>>
           /\ entryNonce' \in [Streams -> [Types -> Nat]]
           /\ \A d \in Streams : \A u \in Types : d # c => entryNonce'[d][u] = entryNonce[d][u]
<1>1. /\ Rewatch(c) /\ UNCHANGED <<version, view, nonce, up, down>>
      /\ entryNonce' = [entryNonce EXCEPT ![c][pending[c].type] = 0]
      /\ UNCHANGED <<handed, received, rejected>>
  BY DEF ServerRewatches, clientVars, adsVars
<1>2. PICK req \in Request :
          /\ req = pending[c] /\ req.type \in Types /\ pc[c] = "cancelled" /\ sub[c][req.type] \in Sub
          /\ Created(c, req, SetResourceSubscription(sub[c][req.type], req.resourceNames))
  BY <1>1, RewatchEffect
<1>3. Handling(c)
  BY <1>2 DEF Handling
<1>4. /\ req.type = t /\ req.resourceNames = {} /\ req.versionInfo = version[c][t]
      /\ up[c] = <<>> /\ down[c] = <<>> /\ sub[c][t] # None
  <2>1. req.type = t /\ req.resourceNames = {} /\ req.versionInfo = version[c][t]
    BY <1>2, <1>3 DEF AppOf, AskTurn
  <2>2. sub[c][t] # None
    BY <1>2, <2>1, SnapshotAssumption DEF SnapshotAssumption
  <2>3. up[c] = <<>> /\ down[c] = <<>>
    BY <1>2, <1>3 DEF TurnOf
  <2> QED  BY <2>1, <2>2, <2>3
<1>5. PICK s \in Sub : s = sub[c][t] /\ s # None /\ s.wildcard /\ s.allowLegacyWildcard
  BY <1>2, <1>4 DEF AppOf, AskTurn
<1>6. SetResourceSubscription(sub[c][req.type], req.resourceNames) = s
  <2>1. SetResourceSubscription(s, {}) = s
    BY <1>5, AsksForAll
  <2> QED  BY <1>4, <1>5, <2>1
<1>7. Created(c, req, s)
  BY <1>2, <1>6
<1>8. snapshots' = snapshots /\ OthersSame(c)
  BY <1>7 DEF Created
<1>9. PICK zero \in Nat : zero = 0
  BY SMTT(30)
<1>10. entryNonce' = [entryNonce EXCEPT ![c][t] = zero] /\ t \in Types
  BY <1>1, <1>2, <1>4, <1>9
<1>11. /\ entryNonce' \in [Streams -> [Types -> Nat]] /\ entryNonce'[c][t] = 0
       /\ \A d \in Streams : \A u \in Types : d # c => entryNonce'[d][u] = entryNonce[d][u]
  BY <1>9, <1>10 DEF AppTypes
<1>12. AppOf(c, t)'
  BY <1>1, <1>4, <1>5, <1>7, <1>11, CreatedApp
<1> QED  BY <1>1, <1>8, <1>11, <1>12

\* There is nothing to drain.
LEMMA DrainApp ==
    ASSUME IInv, NEW c \in Streams, NEW t \in FullStateTypes, t = TypeURL[c], TurnOf(c), AppOf(c, t),
           UNCHANGED adsVars, ServerDrains(c)
    PROVE  /\ AppOf(c, t)' /\ snapshots' = snapshots /\ OthersSame(c)
           /\ UNCHANGED <<version, view, nonce, up, down, entryNonce>>
<1>1. processAllExcept(c) /\ pc[c] = "draining" /\ Handling(c)
  BY DEF ServerDrains, processAllExcept, Handling
<1>2. queue[c] = <<>>
  <2> SUFFICES ASSUME queue[c] # <<>> PROVE FALSE
    OBVIOUS
  <2>1. 1 \in DOMAIN queue[c] /\ Took(c, 1)
    BY <1>1, ProcessAllExceptTook
  <2>2. PICK u : u = queue[c][1].type
    OBVIOUS
  <2>3. u \in Types /\ IsQueued(c, u)
    BY <2>1, <2>2, TookEffect
  <2>4. u = t
    BY <2>3 DEF TurnOf, IInv, NothingWithoutEntry
  <2> QED  BY <1>1, <2>3, <2>4 DEF TurnOf, Serving
<1>3. /\ pc' = [pc EXCEPT ![c] = "cancelled"] /\ UNCHANGED <<sub, replied, queue, pending>>
      /\ UNCHANGED cacheVars
      /\ UNCHANGED <<down, nonceVars>> /\ UNCHANGED <<version, view, nonce, up>>
  BY <1>1, <1>2 DEF ServerDrains, processAllExcept
<1>4. UNCHANGED <<snapshots, watches, entryNonce>> /\ UNCHANGED <<handed, received, rejected>>
  BY <1>3 DEF cacheVars, nonceVars, adsVars
<1>5. pc'[c] = "cancelled" /\ \A d \in Streams : d # c => pc'[d] = pc[d]
  <2>1. pc \in [Streams -> {"closed", "idle", "draining", "cancelled"}]
    BY DEF IInv, TypeOK
  <2> QED  BY <1>3, <2>1
<1>6. OthersSame(c)
  BY <1>3, <1>4, <1>5 DEF OthersSame, Same
<1>7. Handling(c)' /\ pc[c] # "closed" /\ pc'[c] # "closed"
  BY <1>1, <1>5 DEF Handling
<1>8. ServerCalm(c, t)
  <2>1. /\ sub'[c][t] = sub[c][t] /\ replied'[c] = replied[c] /\ entryNonce'[c][t] = entryNonce[c][t]
        /\ pending'[c] = pending[c] /\ queue'[c] = queue[c] /\ watches' = watches
        /\ snapshots' = snapshots
    BY <1>3, <1>4
  <2> QED  BY <1>1, <1>7, <2>1 DEF ServerCalm
<1>9. ClientCalm(c, t)
  BY <1>3, <1>4 DEF ClientCalm
<1>10. AppOf(c, t)' /\ t \in Types
  BY <1>8, <1>9, CalmKept, SnapshotAssumption DEF SnapshotAssumption
<1> QED  BY <1>3, <1>4, <1>6, <1>10

\* Every application, with what is on its way to it.
AppInv == AppTypes /\ \A c \in Streams : AppOf(c, TypeURL[c])

\* The other clients take no part in the step.
OthersIdle(c) ==
    \A d \in Streams : d # c =>
        ClientCalm(d, TypeURL[d]) /\ entryNonce'[d][TypeURL[d]] = entryNonce[d][TypeURL[d]]

\* A step on one stream that keeps what its application holds.
LEMMA StreamApp ==
    ASSUME AppInv, NEW c \in Streams, OthersSame(c), OthersIdle(c), snapshots' = snapshots,
           AppTypes', AppOf(c, TypeURL[c])'
    PROVE  AppInv'
<1> SUFFICES ASSUME NEW d \in Streams, d # c PROVE AppOf(d, TypeURL[d])'
  BY DEF AppInv
<1>1. PICK t \in Types : t = TypeURL[d]
  BY AdsClientAssumption DEF AdsClientAssumption
<1>2. AppOf(d, t) /\ ClientCalm(d, t) /\ entryNonce'[d][t] = entryNonce[d][t]
  BY <1>1 DEF AppInv, OthersIdle
<1>3. AppOf(d, t)'
  BY <1>2, OthersCalm
<1> QED  BY <1>1, <1>3

\* No response is queued before the first snapshot.
LEMMA QueuedHasSnapshot ==
    ASSUME OwedInv, \A n \in Nodes : cleared[n] = 0, NEW c \in Streams, NEW i \in DOMAIN queue[c]
    PROVE  snapshots[NodeOf[c]] # None
<1>1. NodeOf[c] \in Nodes
  BY SnapshotAssumption DEF SnapshotAssumption
<1> QED  BY <1>1 DEF OwedInv, Untold

\* The server keeps what the applications hold.
LEMMA ServerApp ==
    ASSUME LegacyWildcard, \A d \in Streams : TypeURL[d] \in FullStateTypes,
           IInv, WireTypes, SnapshotsSet, OwedInv, \A n \in Nodes : cleared[n] = 0, TurnInv, AppInv,
           NEW c \in Streams, ServerStep(c), UNCHANGED adsVars
    PROVE  AppInv'
<1>1. PICK t \in FullStateTypes : t = TypeURL[c]
  OBVIOUS
<1>2. TurnOf(c) /\ AppOf(c, t) /\ AppTypes /\ UNCHANGED <<handed, received, rejected>>
  BY <1>1 DEF TurnInv, AppInv, adsVars
<1>3. ASSUME AppOf(c, t)', snapshots' = snapshots, OthersSame(c),
             entryNonce' \in [Streams -> [Types -> Nat]],
             \A d \in Streams : \A u \in Types : d # c => entryNonce'[d][u] = entryNonce[d][u],
             \A d \in Streams : d # c => up'[d] = up[d] /\ down'[d] = down[d],
             UNCHANGED <<version, view, nonce>>
      PROVE  AppInv'
  <2>1. AppTypes'
    BY <1>2, <1>3 DEF AppTypes
  <2>2. OthersIdle(c)
    <3> SUFFICES ASSUME NEW d \in Streams, d # c
                 PROVE  ClientCalm(d, TypeURL[d])
                        /\ entryNonce'[d][TypeURL[d]] = entryNonce[d][TypeURL[d]]
      BY DEF OthersIdle
    <3>1. TypeURL[d] \in Types
      BY AdsClientAssumption DEF AdsClientAssumption
    <3>2. ClientCalm(d, TypeURL[d])
      BY <1>2, <1>3 DEF ClientCalm
    <3> QED  BY <1>3, <3>1, <3>2
  <2>3. AppOf(c, TypeURL[c])'
    BY <1>1, <1>3
  <2> QED  BY <1>3, <2>1, <2>2, <2>3, StreamApp
<1>4. CASE ServerFirstRequest(c) \/ ServerIgnores(c) \/ ServerCloses(c)
  <2>1. AppOf(c, t)' /\ snapshots' = snapshots /\ entryNonce' = entryNonce
    BY <1>1, <1>2, <1>4, RequestApp
  <2>2. OthersSame(c) /\ UNCHANGED down /\ \A d \in Streams : d # c => up'[d] = up[d]
    BY <1>2, <1>4, ServerTakesTurn
  <2>3. UNCHANGED <<version, view, nonce>>
    BY <1>4 DEF ServerFirstRequest, ServerIgnores, ServerCloses
  <2>4. entryNonce' \in [Streams -> [Types -> Nat]]
    BY <1>2, <2>1 DEF AppTypes
  <2> QED  BY <1>3, <2>1, <2>2, <2>3, <2>4
<1>5. CASE ServerSends(c)
  <2>1. PICK i \in DOMAIN queue[c] : SendResponse(c, i) /\ Deliver(c, queue[c][i])
    BY <1>5 DEF ServerSends
  <2>2. Took(c, i) /\ UNCHANGED <<version, view, nonce, up>>
    BY <1>5, <2>1, SendResponseTook DEF ServerSends
  <2>3. snapshots[NodeOf[c]] # None
    BY QueuedHasSnapshot
  <2>4. /\ AppOf(c, t)' /\ snapshots' = snapshots
        /\ entryNonce' \in [Streams -> [Types -> Nat]]
        /\ \A d \in Streams : \A u \in Types : d # c => entryNonce'[d][u] = entryNonce[d][u]
    BY <1>1, <1>2, <2>1, <2>2, <2>3, AnswerApp
  <2>5. OthersSame(c) /\ \A d \in Streams : d # c => down'[d] = down[d]
    BY <1>2, <2>1, <2>2, ServerAnswersTurn
  <2> QED  BY <1>3, <2>2, <2>4, <2>5
<1>6. CASE ServerDrains(c)
  <2>1. /\ AppOf(c, t)' /\ snapshots' = snapshots /\ OthersSame(c)
        /\ UNCHANGED <<version, view, nonce, up, down, entryNonce>>
    BY <1>1, <1>2, <1>6, DrainApp
  <2>2. entryNonce' \in [Streams -> [Types -> Nat]]
    BY <1>2, <2>1 DEF AppTypes
  <2> QED  BY <1>3, <2>1, <2>2
<1>7. CASE ServerRewatches(c)
  <2>1. /\ AppOf(c, t)' /\ snapshots' = snapshots /\ OthersSame(c)
        /\ UNCHANGED <<version, view, nonce, up, down>>
        /\ entryNonce' \in [Streams -> [Types -> Nat]]
        /\ \A d \in Streams : \A u \in Types : d # c => entryNonce'[d][u] = entryNonce[d][u]
    BY <1>1, <1>2, <1>7, RewatchApp
  <2> QED  BY <1>3, <2>1
<1> QED  BY <1>4, <1>5, <1>6, <1>7 DEF ServerStep

-----------------------------------------------------------------------------
(* The client library.                                                     *)

\* The message asks for everything, with a version and a nonce.
AsksAll(m, v, k) == m.req.resourceNames = {} /\ m.req.versionInfo = v /\ m.nonce = k

\* So does every request of the client: sendRequest.
LEMMA SendRequestApp ==
    ASSUME WireTypes, NEW c \in Streams, NEW v \in VersionInfos, NEW k \in Nat, up[c] = <<>>,
           up' = [up EXCEPT ![c] = Append(@, Message(TypeURL[c], {}, v, k))]
    PROVE  up'[c] # <<>> /\ \A i \in DOMAIN up'[c] : AsksAll(up'[c][i], v, k)
<1> DEFINE m == Message(TypeURL[c], {}, v, k)
<1>1. TypeURL[c] \in Types /\ {} \in SUBSET Tokens
  BY AdsClientAssumption DEF AdsClientAssumption
<1>2. m \in Messages
  BY <1>1, MessageType
<1>3. AsksAll(m, v, k)
  BY DEF AsksAll, Message
<1> HIDE DEF m
<1>4. up'[c] = Append(<<>>, m)
  BY DEF WireTypes, m
<1>5. DOMAIN Append(<<>>, m) = {1} /\ Append(<<>>, m) # <<>> /\ Append(<<>>, m)[1] = m
  BY <1>2, OneElement
<1> QED  BY <1>3, <1>4, <1>5

\* InitConnect acknowledges what was received last, which the application holds or rejected.
LEMMA ConnectApp ==
    ASSUME IInv, AdsTypes, NEW c \in Streams, NEW t \in FullStateTypes, t = TypeURL[c],
           TurnOf(c), AppOf(c, t), InitConnect(c)
    PROVE  AppOf(c, t)' /\ snapshots' = snapshots
<1>1. /\ Open(c) /\ sendRequest(c, TRUE, received[c], nonce[c][t]) /\ handed[c] = <<>>
      /\ version' = [version EXCEPT ![c][t] = received[c]]
      /\ UNCHANGED <<view, nonce, down, nonceVars>> /\ UNCHANGED <<received, handed, rejected>>
  BY DEF InitConnect
<1>2. /\ t \in Types /\ WireTypes /\ received[c] \in VersionInfos /\ nonce[c][t] \in Nat
      /\ DOMAIN <<>> = {}
  <2>1. t \in Types /\ WireTypes
    BY AdsClientAssumption DEF AdsClientAssumption, AdsTypes
  <2>2. received[c] \in VersionInfos /\ nonce[c][t] \in Nat
    BY <2>1 DEF AdsTypes, WireTypes
  <2> QED  BY <2>1, <2>2, OneElement
<1>3. /\ pc[c] = "closed" /\ pc'[c] = "idle" /\ Same(c, t)
  BY <1>1, <1>2, OpenEffect
<1>4. UNCHANGED <<replied, sub>> /\ snapshots' = snapshots
  BY <1>1 DEF Open, cacheVars
<1>5. up[c] = <<>> /\ down[c] = <<>> /\ sub[c][t] = None /\ replied[c] = {} /\ entryNonce[c][t] = 0
  BY <1>3 DEF TurnOf, AppOf, TokenTurn, NonceTurn
<1>6. up'[c] # <<>> /\ \A i \in DOMAIN up'[c] : AsksAll(up'[c][i], received[c], nonce[c][t])
  <2>1. up' = [up EXCEPT ![c] = Append(@, Message(TypeURL[c], {}, received[c], nonce[c][t]))]
    BY <1>1 DEF sendRequest
  <2> QED  BY <1>2, <1>5, <2>1, SendRequestApp
<1>7. version'[c][t] = received[c] /\ entryNonce' = entryNonce
  BY <1>1, <1>2 DEF WireTypes, nonceVars
<1>8. ~IsWaiting(c, t)' /\ ~IsQueued(c, t)' /\ ~Handling(c)'
  <2>1. ~IsWaiting(c, t) /\ ~IsQueued(c, t)
    BY <1>2, <1>5 DEF IInv, NothingWithoutEntry
  <2> QED  BY <1>2, <1>3, <2>1, SameServed DEF Handling
<1>9. NonceTurn(c, t)'
  BY <1>1, <1>2, <1>5, <1>6, <1>7 DEF NonceTurn, AsksAll
<1>10. TokenTurn(c, t)'
  BY <1>3, <1>6 DEF TokenTurn
<1>11. AskTurn(c, t)'
  <2>1. ASSUME NEW n \in Nodes, NEW w \in watches'[n], w.stream = c, w.type = t PROVE FALSE
    BY <1>8, <2>1 DEF IsWaiting
  <2> QED  BY <1>4, <1>5, <1>6, <1>7, <1>8, <2>1 DEF AskTurn, AsksAll
<1>12. ContentTurn(c, t)'
  <2>1. \A v : Shows(c, t, v) => Shows(c, t, v)'
    BY <1>1 DEF Shows
  <2>2. Shows(c, t, received[c])
    BY <1>1 DEF AppOf, ContentTurn
  <2>3. Shows(c, t, version[c][t])' /\ Shows(c, t, received[c])'
    BY <1>1, <1>7, <2>1, <2>2
  <2>4. \A i \in DOMAIN queue'[c] : queue'[c][i].type # t
    BY <1>8 DEF IsQueued
  <2> QED  BY <1>1, <1>2, <1>5, <2>3, <2>4 DEF ContentTurn
<1>13. BlankTurn(c, t)'
  BY <1>1, <1>4, <1>5, <1>7 DEF AppOf, BlankTurn
<1> QED  BY <1>4, <1>9, <1>10, <1>11, <1>12, <1>13 DEF AppOf

\* Recv returns a response, with the nonce of the entry.
LEMMA FetchApp ==
    ASSUME IInv, AdsTypes, NEW c \in Streams, NEW t \in FullStateTypes, t = TypeURL[c],
           TurnOf(c), AppOf(c, t), FetchReturns(c)
    PROVE  AppOf(c, t)'
<1>1. /\ down[c] # <<>> /\ UNCHANGED vars /\ UNCHANGED <<version, view, up, nonceVars, rejected>>
      /\ down' = [down EXCEPT ![c] = Tail(@)]
      /\ nonce' = [nonce EXCEPT ![c][t] = Head(down[c]).nonce]
      /\ handed' = [handed EXCEPT ![c] = Append(@, Head(down[c]).resp)]
  BY DEF FetchReturns
<1>2. UNCHANGED <<pc, sub, watches, queue, pending, replied, snapshots>> /\ entryNonce' = entryNonce
  BY <1>1 DEF vars, cacheVars, streamVars, nonceVars
<1>3. t \in Types /\ WireTypes /\ down[c] \in Seq(Deliveries) /\ \A i \in DOMAIN down[c] : i = 1
  BY AdsClientAssumption DEF AdsClientAssumption, AdsTypes, WireTypes, TurnOf
<1>4. PICK r \in Deliveries : r = Head(down[c])
  BY <1>1, <1>3, HeadAndTail
<1>5. 1 \in DOMAIN down[c] /\ r = down[c][1] /\ Tail(down[c]) = <<>> /\ DOMAIN <<>> = {}
  BY <1>1, <1>3, <1>4, OneElement
<1>6. PICK resp \in Response : resp = r.resp
  BY DEF Deliveries
<1>7. PICK k \in Nat : k = r.nonce
  BY DEF Deliveries
<1>8. k = entryNonce[c][t] /\ Complete(resp, t) /\ snapshots[NodeOf[c]] # None
  <2>1. k = entryNonce[c][t]
    BY <1>5, <1>7 DEF AppOf, NonceTurn
  <2>2. Complete(resp, t)
    BY <1>5, <1>6 DEF AppOf, ContentTurn
  <2>3. snapshots[NodeOf[c]] # None
    BY <1>1 DEF AppOf, BlankTurn
  <2> QED  BY <2>1, <2>2, <2>3
<1>9. handed[c] = <<>> /\ up[c] = <<>> /\ pc[c] # "closed" /\ sub[c][t] # None
  <2>1. handed[c] = <<>> /\ up[c] = <<>> /\ pc[c] # "closed"
    BY <1>1 DEF TurnOf
  <2> QED  BY <2>1 DEF AppOf, TokenTurn
<1>10. down'[c] = <<>> /\ nonce'[c][t] = k /\ handed'[c] = Append(<<>>, resp)
  <2>1. down'[c] = <<>>
    BY <1>1, <1>3, <1>5 DEF WireTypes
  <2>2. nonce' = [nonce EXCEPT ![c][t] = k] /\ nonce \in [Streams -> [Types -> Nat]]
    BY <1>1, <1>3, <1>4, <1>7 DEF WireTypes
  <2>3. nonce'[c][t] = k
    BY <1>3, <2>2
  <2>4. handed' = [handed EXCEPT ![c] = Append(@, resp)] /\ handed \in [Streams -> Seq(Response)]
    BY <1>1, <1>4, <1>6 DEF AdsTypes
  <2>5. handed'[c] = Append(<<>>, resp)
    BY <1>9, <2>4
  <2> QED  BY <2>1, <2>3, <2>5
<1>11. DOMAIN handed'[c] = {1} /\ handed'[c][1] = resp /\ handed'[c] # <<>>
  <2>1. /\ DOMAIN Append(<<>>, resp) = {1} /\ Append(<<>>, resp) # <<>>
        /\ Append(<<>>, resp)[1] = resp
    BY OneElement
  <2> QED  BY <1>10, <2>1
<1>12. NonceTurn(c, t)'
  BY <1>1, <1>2, <1>5, <1>8, <1>9, <1>10 DEF NonceTurn
<1>13. TokenTurn(c, t)'
  BY <1>2, <1>9, <1>11 DEF TokenTurn
<1>14. AskTurn(c, t)'
  <2>1. Handling(c)' <=> Handling(c)
    BY <1>2 DEF Handling
  <2>2. Handling(c) => /\ pending[c].type = t /\ pending[c].resourceNames = {}
                       /\ pending[c].versionInfo = version[c][t]
    BY DEF AppOf, AskTurn
  <2>3. \A n \in Nodes : \A w \in watches[n] :
            w.stream = c /\ w.type = t => w.versionInfo = version[c][t]
    BY DEF AppOf, AskTurn
  <2>4. sub[c][t].wildcard /\ sub[c][t].allowLegacyWildcard
    BY <1>9 DEF AppOf, AskTurn
  <2> QED  BY <1>1, <1>2, <1>5, <1>9, <2>1, <2>2, <2>3, <2>4 DEF AskTurn
<1>15. ContentTurn(c, t)'
  <2>1. \A v : Shows(c, t, v) => Shows(c, t, v)'
    BY <1>1 DEF Shows
  <2>2. Shows(c, t, version[c][t])'
    <3>1. Shows(c, t, version[c][t])
      BY DEF AppOf, ContentTurn
    <3> QED  BY <1>1, <2>1, <3>1
  <2>3. \A i \in DOMAIN queue'[c] : queue'[c][i].type = t => Complete(queue'[c][i], t)
    BY <1>2 DEF AppOf, ContentTurn
  <2>4. \A i \in DOMAIN handed'[c] : Complete(handed'[c][i], t)
    BY <1>8, <1>11
  <2> QED  BY <1>5, <1>10, <1>11, <2>2, <2>3, <2>4 DEF ContentTurn, Complete
<1>16. BlankTurn(c, t)'
  BY <1>2, <1>8 DEF BlankTurn
<1> QED  BY <1>12, <1>13, <1>14, <1>15, <1>16 DEF AppOf

\* The stream breaks.
LEMMA LoseApp ==
    ASSUME IInv, IInv', AdsTypes, AppTypes, NEW c \in Streams, NEW t \in FullStateTypes,
           t = TypeURL[c], AppOf(c, t), LoseStream(c)
    PROVE  /\ AppOf(c, t)' /\ snapshots' = snapshots
           /\ entryNonce' \in [Streams -> [Types -> Nat]]
           /\ \A d \in Streams : d # c => entryNonce'[d] = entryNonce[d]
<1>1. /\ Shutdown(c) /\ up' = [up EXCEPT ![c] = <<>>] /\ down' = [down EXCEPT ![c] = <<>>]
      /\ entryNonce' = [entryNonce EXCEPT ![c] = [u \in Types |-> 0]]
      /\ UNCHANGED <<version, view, nonce, adsVars>>
  BY DEF LoseStream
<1>2. UNCHANGED <<handed, received, rejected>>
  BY <1>1 DEF adsVars
<1>3. t \in Types /\ DOMAIN <<>> = {}
  BY AdsClientAssumption, OneElement DEF AdsClientAssumption
<1>4. pc'[c] = "closed" /\ sub'[c][t] = None /\ replied'[c] = {} /\ snapshots' = snapshots
  BY <1>1, <1>3, ShutdownEffect
<1>5. up'[c] = <<>> /\ down'[c] = <<>>
  BY <1>1 DEF AdsTypes, WireTypes
<1>6. PICK zeros \in [Types -> Nat] : zeros = [u \in Types |-> 0] /\ zeros[t] = 0
  <2>1. [u \in Types |-> 0] \in [Types -> Nat] /\ [u \in Types |-> 0][t] = 0
    BY SMTT(30), <1>3
  <2> QED  BY <2>1
<1>7. /\ entryNonce' \in [Streams -> [Types -> Nat]] /\ entryNonce'[c][t] = 0
      /\ \A d \in Streams : d # c => entryNonce'[d] = entryNonce[d]
  <2>1. entryNonce' = [entryNonce EXCEPT ![c] = zeros]
    BY <1>1, <1>6
  <2> QED  BY <1>6, <2>1 DEF AppTypes
<1>8. ~IsWaiting(c, t)' /\ ~IsQueued(c, t)' /\ ~Handling(c)'
  <2>1. ~IsWaiting(c, t)' /\ ~IsQueued(c, t)'
    BY <1>3, <1>4 DEF IInv, NothingWithoutEntry
  <2> QED  BY <1>4, <2>1 DEF Handling
<1>9. NonceTurn(c, t)'
  BY <1>3, <1>5, <1>7 DEF NonceTurn
<1>10. TokenTurn(c, t)'
  BY <1>4 DEF TokenTurn
<1>11. AskTurn(c, t)'
  <2>1. ASSUME NEW n \in Nodes, NEW w \in watches'[n], w.stream = c, w.type = t PROVE FALSE
    BY <1>8, <2>1 DEF IsWaiting
  <2> QED  BY <1>3, <1>4, <1>5, <1>8, <2>1 DEF AskTurn
<1>12. ContentTurn(c, t)'
  <2>1. \A v : Shows(c, t, v) => Shows(c, t, v)'
    BY <1>1, <1>2 DEF Shows
  <2>2. Shows(c, t, version[c][t])' /\ (handed'[c] = <<>> => Shows(c, t, received[c])')
    <3>1. Shows(c, t, version[c][t]) /\ (handed[c] = <<>> => Shows(c, t, received[c]))
      BY DEF AppOf, ContentTurn
    <3> QED  BY <1>1, <1>2, <2>1, <3>1
  <2>3. \A i \in DOMAIN queue'[c] : queue'[c][i].type # t
    BY <1>8 DEF IsQueued
  <2>4. \A i \in DOMAIN handed'[c] : Complete(handed'[c][i], t)
    BY <1>2 DEF AppOf, ContentTurn
  <2> QED  BY <1>3, <1>5, <2>2, <2>3, <2>4 DEF ContentTurn, Complete
<1>13. BlankTurn(c, t)'
  <2>1. snapshots[NodeOf[c]] = None => version[c][t] = Blank /\ received[c] = Blank /\ handed[c] = <<>>
    BY DEF AppOf, BlankTurn
  <2> QED  BY <1>1, <1>2, <1>4, <1>5, <2>1 DEF BlankTurn
<1> QED  BY <1>4, <1>7, <1>9, <1>10, <1>11, <1>12, <1>13 DEF AppOf

\* The application accepts or rejects the response that was received last.
LEMMA JudgeApp ==
    ASSUME LegacyWildcard, IInv, AdsTypes, AppTypes, NEW c \in Streams, NEW t \in FullStateTypes,
           t = TypeURL[c], TurnOf(c), AppOf(c, t), Ack(c) \/ Nack(c)
    PROVE  /\ AppOf(c, t)' /\ view' \in [Streams -> [Types -> [Names -> VersionInfos \cup {None}]]]
           /\ \A d \in Streams : d # c =>
                 /\ view'[d] = view[d] /\ version'[d] = version[d] /\ rejected'[d] = rejected[d]
<1>1. /\ handed[c] # <<>> /\ UNCHANGED vars /\ UNCHANGED <<nonce, down, nonceVars, received>>
      /\ handed' = [handed EXCEPT ![c] = Tail(@)]
  BY DEF Ack, Nack
<1>2. UNCHANGED <<pc, sub, watches, queue, pending, replied, snapshots>> /\ entryNonce' = entryNonce
  BY <1>1 DEF vars, cacheVars, streamVars, nonceVars
<1>3. /\ t \in Types /\ WireTypes /\ received[c] \in VersionInfos /\ nonce[c][t] \in Nat
      /\ version[c][t] \in VersionInfos /\ handed[c] \in Seq(Response) /\ DOMAIN <<>> = {}
      /\ version \in [Streams -> [Types -> VersionInfos]]
  <2>1. t \in Types /\ WireTypes /\ DOMAIN <<>> = {}
    BY AdsClientAssumption, OneElement DEF AdsClientAssumption, AdsTypes
  <2>2. /\ received[c] \in VersionInfos /\ nonce[c][t] \in Nat
        /\ version[c][t] \in VersionInfos /\ handed[c] \in Seq(Response)
        /\ version \in [Streams -> [Types -> VersionInfos]]
    BY <2>1 DEF AdsTypes, WireTypes
  <2> QED  BY <2>1, <2>2
<1>4. PICK resp \in Response : resp = Head(handed[c])
  BY <1>1, <1>3, HeadAndTail
<1>5. /\ 1 \in DOMAIN handed[c] /\ resp = handed[c][1] /\ Tail(handed[c]) = <<>>
      /\ resp.version = received[c]
  <2>1. \A i \in DOMAIN handed[c] : i = 1 /\ handed[c][i].version = received[c]
    BY DEF TurnOf
  <2>2. 1 \in DOMAIN handed[c] /\ resp = handed[c][1] /\ Tail(handed[c]) = <<>>
    BY <1>1, <1>3, <1>4, <2>1, OneElement
  <2> QED  BY <2>1, <2>2
<1>6. handed'[c] = <<>>
  BY <1>1, <1>5 DEF AdsTypes
<1>7. /\ up[c] = <<>> /\ down[c] = <<>> /\ down'[c] = <<>> /\ ~Serving(c) /\ ~Handling(c)
      /\ ~Handling(c)'
  <2>1. up[c] = <<>> /\ down[c] = <<>> /\ ~Serving(c) /\ ~Handling(c)
    BY <1>1 DEF TurnOf
  <2> QED  BY <1>1, <1>2, <2>1 DEF Handling
<1>8. snapshots[NodeOf[c]] # None /\ Complete(resp, t)
  BY <1>1, <1>5 DEF AppOf, BlankTurn, ContentTurn
<1>9. ASSUME NEW v \in VersionInfos, sendRequest(c, pc[c] # "closed", v, nonce[c][t])
      PROVE  /\ pc[c] # "closed" => up'[c] # <<>>
             /\ \A i \in DOMAIN up'[c] : AsksAll(up'[c][i], v, nonce[c][t])
  <2>1. CASE pc[c] # "closed"
    <3>1. up' = [up EXCEPT ![c] = Append(@, Message(TypeURL[c], {}, v, nonce[c][t]))]
      BY <1>9, <2>1 DEF sendRequest
    <3> QED  BY <1>3, <1>7, <3>1, SendRequestApp
  <2>2. CASE pc[c] = "closed"
    <3>1. up' = up
      BY <1>9, <2>2 DEF sendRequest
    <3> QED  BY <1>3, <1>7, <2>2, <3>1
  <2> QED  BY <2>1, <2>2
<1>10. ASSUME pc[c] # "closed" => up'[c] # <<>>, version'[c][t] \in VersionInfos,
              \A i \in DOMAIN up'[c] : AsksAll(up'[c][i], version'[c][t], nonce[c][t]),
              Shows(c, t, version[c][t])', Shows(c, t, received[c])'
       PROVE  AppOf(c, t)'
  <2>1. NonceTurn(c, t)'
    <3>1. (sub[c][t] = None => entryNonce[c][t] = 0)
          /\ (entryNonce[c][t] # 0 => nonce[c][t] = entryNonce[c][t])
      BY <1>7 DEF AppOf, NonceTurn
    <3> QED  BY <1>1, <1>2, <1>3, <1>7, <1>10, <3>1 DEF NonceTurn, AsksAll
  <2>2. TokenTurn(c, t)'
    <3>1. pc[c] = "closed" => replied[c] = {}
      BY DEF AppOf, TokenTurn
    <3> QED  BY <1>2, <1>10, <3>1 DEF TokenTurn
  <2>3. AskTurn(c, t)'
    <3>1. ASSUME NEW n \in Nodes, NEW w \in watches'[n], w.stream = c, w.type = t PROVE FALSE
      BY <1>2, <1>7, <3>1 DEF Serving, IsWaiting
    <3>2. sub'[c][t] # None => sub'[c][t].wildcard /\ sub'[c][t].allowLegacyWildcard
      BY <1>2 DEF AppOf, AskTurn
    <3> QED  BY <1>7, <1>10, <3>1, <3>2 DEF AskTurn, AsksAll
  <2>4. ContentTurn(c, t)'
    <3>1. \A i \in DOMAIN queue'[c] : queue'[c][i].type = t => Complete(queue'[c][i], t)
      BY <1>2 DEF AppOf, ContentTurn
    <3> QED  BY <1>3, <1>6, <1>7, <1>10, <3>1 DEF ContentTurn, Complete
  <2>5. BlankTurn(c, t)'
    BY <1>2, <1>8 DEF BlankTurn
  <2> QED  BY <2>1, <2>2, <2>3, <2>4, <2>5 DEF AppOf
<1>11. CASE Ack(c)
  <2>1. /\ view' = [view EXCEPT ![c][t] = Applied(@, resp, {})]
        /\ version' = [version EXCEPT ![c][t] = received[c]] /\ rejected' = rejected
        /\ sendRequest(c, pc[c] # "closed", received[c], nonce[c][t])
    BY <1>4, <1>11 DEF Ack
  <2>2. version'[c][t] = received[c] /\ \A d \in Streams : d # c => version'[d] = version[d]
    BY <1>3, <2>1
  <2>3. PICK snap \in Snapshots : resp.version = snap[t].version /\ resp.resources = snap[t].items
    BY <1>8 DEF Complete
  <2>4. Applied(view[c][t], resp, {}) = AllOf(snap[t])
    <3>1. ~resp.heartbeat /\ resp.type = t
      BY <1>8 DEF Complete
    <3>2. Asked({}) = Names
      BY DEF Asked
    <3>3. PICK f : f = [n \in Names |-> IF n \in resp.resources THEN resp.version
                                        ELSE IF resp.type \in FullStateTypes THEN None
                                        ELSE view[c][t][n]]
      OBVIOUS
    <3>4. Applied(view[c][t], resp, {}) = [n \in Names |-> IF n \in Names THEN f[n] ELSE None]
      BY <3>1, <3>2, <3>3 DEF Applied, Restricted
    <3>5. ASSUME NEW n \in Names
          PROVE  f[n] = IF n \in snap[t].items THEN snap[t].version ELSE None
      BY <2>3, <3>1, <3>3
    <3>6. [n \in Names |-> IF n \in Names THEN f[n] ELSE None]
            = [n \in Names |-> IF n \in snap[t].items THEN snap[t].version ELSE None]
      BY SMTT(30), <3>5
    <3> QED  BY <3>4, <3>6 DEF AllOf
  <2>5. AllOf(snap[t]) \in [Names -> VersionInfos \cup {None}]
    <3>1. snap[t].version \in VersionInfos
      BY ZenonT(40), <1>3, SnapshotAssumption DEF SnapshotAssumption, Snapshot
    <3> QED  BY <3>1 DEF AllOf
  <2>6. PICK a \in [Names -> VersionInfos \cup {None}] : a = AllOf(snap[t])
    BY <2>5
  <2>7. view' = [view EXCEPT ![c][t] = a]
    BY <2>1, <2>4, <2>6
  <2>8. /\ view'[c][t] = a /\ \A d \in Streams : d # c => view'[d] = view[d]
        /\ view' \in [Streams -> [Types -> [Names -> VersionInfos \cup {None}]]]
    BY <1>3, <2>7 DEF AppTypes
  <2>9. Shows(c, t, version[c][t])' /\ Shows(c, t, received[c])'
    <3>1. received[c] = snap[t].version /\ view'[c][t] = AllOf(snap[t])
      BY <1>5, <2>3, <2>6, <2>8
    <3>2. received'[c] = received[c]
      BY <1>1
    <3> QED  BY <2>2, <3>1, <3>2 DEF Shows, AllOf
  <2>10. AppOf(c, t)'
    BY <1>3, <1>9, <1>10, <2>1, <2>2, <2>9
  <2> QED  BY <2>1, <2>2, <2>8, <2>10
<1>12. CASE Nack(c)
  <2>1. /\ UNCHANGED <<version, view>> /\ rejected' = [rejected EXCEPT ![c] = @ \cup {resp.version}]
        /\ sendRequest(c, pc[c] # "closed", version[c][t], nonce[c][t])
    BY <1>4, <1>12 DEF Nack
  <2>2. /\ rejected'[c] = rejected[c] \cup {received[c]}
        /\ \A d \in Streams : d # c => rejected'[d] = rejected[d]
    BY <1>5, <2>1 DEF AdsTypes
  <2>3. Shows(c, t, version[c][t])'
    <3>1. Shows(c, t, version[c][t])
      BY DEF AppOf, ContentTurn
    <3> QED  BY <2>1, <2>2, <3>1 DEF Shows
  <2>4. Shows(c, t, received[c])'
    BY <1>1, <2>2 DEF Shows
  <2>5. AppOf(c, t)'
    BY <1>3, <1>9, <1>10, <2>1, <2>3, <2>4
  <2> QED  BY <2>1, <2>2, <2>5 DEF AppTypes
<1> QED  BY <1>11, <1>12

\* The client library keeps what the applications hold.
LEMMA ApplicationApp ==
    ASSUME LegacyWildcard, \A d \in Streams : TypeURL[d] \in FullStateTypes,
           IInv, IInv', AdsTypes, TurnInv, AppInv, NEW c \in Streams,
           Application(c) \/ Nack(c) \/ LoseStream(c)
    PROVE  AppInv'
<1>1. PICK t \in FullStateTypes : t = TypeURL[c]
  OBVIOUS
<1>2. /\ TurnOf(c) /\ AppOf(c, t) /\ AppTypes /\ WireTypes /\ t \in Types
      /\ (pc[c] # "closed") \in BOOLEAN /\ TRUE \in BOOLEAN
      /\ received[c] \in VersionInfos /\ nonce[c][t] \in Nat /\ version[c][t] \in VersionInfos
  <2>1. TurnOf(c) /\ AppOf(c, t) /\ AppTypes /\ WireTypes /\ t \in Types
    BY <1>1, AdsClientAssumption DEF TurnInv, AppInv, AdsTypes, AdsClientAssumption
  <2>2. received[c] \in VersionInfos /\ nonce[c][t] \in Nat /\ version[c][t] \in VersionInfos
    BY <2>1 DEF AdsTypes, WireTypes
  <2> QED  BY <2>1, <2>2
<1>3. ASSUME AppOf(c, t)', snapshots' = snapshots, OthersSame(c), AppTypes',
             \A d \in Streams : d # c =>
                /\ up'[d] = up[d] /\ down'[d] = down[d] /\ handed'[d] = handed[d]
                /\ received'[d] = received[d] /\ rejected'[d] = rejected[d],
             \A d \in Streams : d # c =>
                /\ version'[d] = version[d] /\ view'[d] = view[d] /\ nonce'[d] = nonce[d]
                /\ entryNonce'[d] = entryNonce[d]
      PROVE  AppInv'
  <2>1. OthersIdle(c)
    BY <1>3 DEF OthersIdle, ClientCalm
  <2>2. AppOf(c, TypeURL[c])'
    BY <1>1, <1>3
  <2> QED  BY <1>3, <2>1, <2>2, StreamApp
<1>4. ASSUME UNCHANGED vars PROVE OthersSame(c) /\ snapshots' = snapshots
  <2>1. UNCHANGED <<pc, sub, watches, queue, pending, replied, snapshots>>
    BY <1>4 DEF vars, cacheVars, streamVars
  <2> QED  BY <2>1 DEF OthersSame, Same
<1>5. ASSUME UNCHANGED nonceVars, UNCHANGED view PROVE AppTypes' /\ UNCHANGED entryNonce
  BY <1>2, <1>5 DEF nonceVars, AppTypes
<1>6. CASE InitConnect(c)
  <2>1. /\ Open(c) /\ sendRequest(c, TRUE, received[c], nonce[c][t])
        /\ version' = [version EXCEPT ![c][t] = received[c]]
        /\ UNCHANGED <<view, nonce, down, nonceVars>> /\ UNCHANGED <<received, handed, rejected>>
    BY <1>1, <1>6 DEF InitConnect
  <2>2. AppOf(c, t)' /\ snapshots' = snapshots
    BY <1>1, <1>2, <1>6, ConnectApp
  <2>3. OthersSame(c) /\ pc[c] = "closed"
    BY <2>1, OpenEffect
  <2>4. up[c] = <<>>
    BY <1>2, <2>3 DEF TurnOf
  <2>5. \A d \in Streams : d # c => up'[d] = up[d]
    BY <1>2, <2>1, <2>4, SendRequestTurn
  <2>6. \A d \in Streams : d # c => version'[d] = version[d]
    BY <1>2, <2>1 DEF WireTypes
  <2>7. AppTypes' /\ UNCHANGED entryNonce
    BY <1>5, <2>1
  <2> QED  BY <1>3, <2>1, <2>2, <2>3, <2>5, <2>6, <2>7
<1>7. CASE Fetch(c) \/ FetchFails(c)
  <2>1. /\ UNCHANGED vars /\ UNCHANGED <<version, view, nonce, up, down>> /\ UNCHANGED nonceVars
        /\ UNCHANGED <<received, handed, rejected>>
    BY <1>7 DEF Fetch, FetchFails, clientVars
  <2>2. OthersSame(c) /\ snapshots' = snapshots /\ AppTypes' /\ UNCHANGED entryNonce
    BY <1>4, <1>5, <2>1
  <2>3. UNCHANGED <<pc, sub, watches, queue, pending, replied, snapshots>>
    BY <2>1 DEF vars, cacheVars, streamVars
  <2>4. Handling(c)' <=> Handling(c)
    BY <2>3 DEF Handling
  <2>5. ServerCalm(c, t)
    BY <2>2, <2>3, <2>4 DEF ServerCalm
  <2>6. ClientCalm(c, t)
    BY <2>1 DEF ClientCalm
  <2>7. AppOf(c, t)'
    BY <1>2, <2>5, <2>6, CalmKept
  <2> QED  BY <1>3, <2>1, <2>2, <2>7
<1>8. CASE FetchReturns(c)
  <2>1. /\ UNCHANGED vars /\ UNCHANGED <<version, view, up>> /\ UNCHANGED nonceVars
        /\ down' = [down EXCEPT ![c] = Tail(@)] /\ rejected' = rejected
        /\ received' = [received EXCEPT ![c] = Head(down[c]).resp.version]
        /\ nonce' = [nonce EXCEPT ![c][t] = Head(down[c]).nonce]
        /\ handed' = [handed EXCEPT ![c] = Append(@, Head(down[c]).resp)]
    BY <1>1, <1>8 DEF FetchReturns
  <2>2. OthersSame(c) /\ snapshots' = snapshots /\ AppTypes' /\ UNCHANGED entryNonce
    BY <1>4, <1>5, <2>1
  <2>3. \A d \in Streams : d # c =>
            down'[d] = down[d] /\ received'[d] = received[d] /\ handed'[d] = handed[d]
    BY <1>2, <2>1 DEF WireTypes, AdsTypes
  <2>4. \A d \in Streams : d # c => nonce'[d] = nonce[d]
    BY <1>2, <2>1 DEF WireTypes
  <2>5. AppOf(c, t)'
    BY <1>1, <1>2, <1>8, FetchApp
  <2> QED  BY <1>3, <2>1, <2>2, <2>3, <2>4, <2>5
<1>9. CASE Ack(c) \/ Nack(c)
  <2>1. /\ handed[c] # <<>> /\ UNCHANGED vars /\ UNCHANGED <<nonce, down, nonceVars, received>>
        /\ handed' = [handed EXCEPT ![c] = Tail(@)]
        /\ \/ sendRequest(c, pc[c] # "closed", received[c], nonce[c][t])
           \/ sendRequest(c, pc[c] # "closed", version[c][t], nonce[c][t])
    BY <1>1, <1>9 DEF Ack, Nack
  <2>2. /\ AppOf(c, t)' /\ view' \in [Streams -> [Types -> [Names -> VersionInfos \cup {None}]]]
        /\ \A d \in Streams : d # c =>
              /\ view'[d] = view[d] /\ version'[d] = version[d] /\ rejected'[d] = rejected[d]
    BY <1>1, <1>2, <1>9, JudgeApp
  <2>3. OthersSame(c) /\ snapshots' = snapshots
    BY <1>4, <2>1
  <2>4. UNCHANGED entryNonce
    BY <2>1 DEF nonceVars
  <2>5. AppTypes'
    BY <1>2, <2>2, <2>4 DEF AppTypes
  <2>6. up[c] = <<>>
    BY <1>2, <2>1 DEF TurnOf
  <2>7. \A d \in Streams : d # c => up'[d] = up[d]
    BY <1>2, <2>1, <2>6, SendRequestTurn
  <2>8. \A d \in Streams : d # c => handed'[d] = handed[d]
    BY <2>1 DEF AdsTypes
  <2> QED  BY <1>3, <2>1, <2>2, <2>3, <2>4, <2>5, <2>7, <2>8
<1>10. CASE LoseStream(c)
  <2>1. /\ Shutdown(c) /\ up' = [up EXCEPT ![c] = <<>>] /\ down' = [down EXCEPT ![c] = <<>>]
        /\ UNCHANGED <<version, view, nonce>> /\ UNCHANGED adsVars
    BY <1>10 DEF LoseStream
  <2>2. UNCHANGED <<handed, received, rejected>>
    BY <2>1 DEF adsVars
  <2>3. OthersSame(c)
    BY <2>1, ShutdownEffect
  <2>4. /\ AppOf(c, t)' /\ snapshots' = snapshots
        /\ entryNonce' \in [Streams -> [Types -> Nat]]
        /\ \A d \in Streams : d # c => entryNonce'[d] = entryNonce[d]
    BY <1>1, <1>2, <1>10, LoseApp
  <2>5. \A d \in Streams : d # c => up'[d] = up[d] /\ down'[d] = down[d]
    BY <1>2, <2>1 DEF WireTypes
  <2>6. AppTypes'
    BY <1>2, <2>1, <2>4 DEF AppTypes
  <2> QED  BY <1>3, <2>1, <2>2, <2>3, <2>4, <2>5, <2>6
<1> QED  BY <1>6, <1>7, <1>8, <1>9, <1>10 DEF Application

-----------------------------------------------------------------------------
(* What follows.                                                           *)

\* The client library sends no names, for any type.
Unlisted == [t \in Types |-> {{}}]

\* What the cache promises its streams, while no snapshot is cleared, and what the
\* applications make of it.
HeldInv ==
    /\ ServedInv /\ CoverInv(Unlisted) /\ OwedInv
    /\ \A n \in Nodes : cleared[n] = 0
    /\ AppInv

\* At first the applications have nothing.
LEMMA HeldStart == ClientsInit => HeldInv
<1> SUFFICES ASSUME ClientsInit PROVE HeldInv
  OBVIOUS
<1>1. Init /\ ClientInit /\ \A n \in Nodes : cleared[n] = 0
  BY DEF ClientsInit, AdsInit, ClientInit, Init
<1>2. ServedInv /\ CoverInv(Unlisted) /\ OwedInv
  BY <1>1, InitServed, InitOwes
<1>3. AppTypes
  <2>1. 0 \in Nat
    BY SMTT(30)
  <2>2. entryNonce \in [Streams -> [Types -> Nat]]
    BY <1>1, <2>1 DEF ClientInit
  <2>3. view \in [Streams -> [Types -> [Names -> VersionInfos \cup {None}]]]
    BY <1>1 DEF ClientInit, NothingHeld
  <2> QED  BY <2>2, <2>3 DEF AppTypes
<1>4. ASSUME NEW c \in Streams, NEW t \in Types PROVE AppOf(c, t)
  <2>1. /\ up[c] = <<>> /\ down[c] = <<>> /\ queue[c] = <<>> /\ pc[c] = "closed" /\ replied[c] = {}
        /\ sub[c][t] = None /\ \A n \in Nodes : watches[n] = {}
    <3>1. up[c] = <<>> /\ down[c] = <<>>
      BY <1>1 DEF ClientInit
    <3>2. queue[c] = <<>> /\ pc[c] = "closed" /\ replied[c] = {}
      BY <1>1 DEF Init
    <3>3. sub[c][t] = None /\ \A n \in Nodes : watches[n] = {}
      BY <1>1 DEF Init
    <3> QED  BY <3>1, <3>2, <3>3
  <2>2. /\ entryNonce[c][t] = 0 /\ version[c][t] = Blank /\ view[c][t] = NothingHeld
    BY <1>1 DEF ClientInit
  <2>3. handed[c] = <<>> /\ received[c] = Blank
    BY DEF ClientsInit, AdsInit
  <2>4. DOMAIN <<>> = {} /\ ~Handling(c)
    BY <2>1, OneElement DEF Handling
  <2>5. NonceTurn(c, t)
    BY <2>1, <2>2, <2>4 DEF NonceTurn
  <2>6. TokenTurn(c, t)
    BY <2>1 DEF TokenTurn
  <2>7. AskTurn(c, t)
    BY <2>1, <2>4 DEF AskTurn
  <2>8. ContentTurn(c, t)
    BY <2>1, <2>2, <2>3, <2>4 DEF ContentTurn, Shows
  <2>9. BlankTurn(c, t)
    BY <2>1, <2>2, <2>3 DEF BlankTurn
  <2> QED  BY <2>5, <2>6, <2>7, <2>8, <2>9 DEF AppOf
<1>5. AppInv
  BY <1>3, <1>4, AdsClientAssumption DEF AppInv, AdsClientAssumption
<1> QED  BY <1>1, <1>2, <1>5 DEF HeldInv

\* The cache keeps its promises, whatever the client library sends.
LEMMA PromisesKept ==
    ASSUME LegacyWildcard, MaxClears = 0, BlankIsEmpty, ClientsInv, TurnInv, HeldInv,
           CacheStep(Arriving)
    PROVE  /\ IInv' /\ ServedInv' /\ CoverInv(Unlisted)' /\ OwedInv'
           /\ \A n \in Nodes : cleared'[n] = 0
<1>1. /\ IInv /\ ServedInv /\ CoverInv(Unlisted) /\ OwedInv /\ WireTypes
      /\ \A n \in Nodes : cleared[n] = 0
  BY DEF HeldInv, ClientsInv, AdsTypes
<1>2. Arriving \in [Streams -> SUBSET Request]
  BY <1>1, ArrivingType
<1>3. ASSUME NEW c \in Streams, NEW req \in Arriving[c]
      PROVE  /\ req.resourceNames \in Unlisted[req.type]
             /\ snapshots[NodeOf[c]] = None => req.versionInfo = Blank
  <2>1. PICK i \in DOMAIN up[c] : req = up[c][i].req
    BY DEF Arriving
  <2>2. PICK t \in Types : t = TypeURL[c]
    BY AdsClientAssumption DEF AdsClientAssumption
  <2>3. AskTurn(c, t) /\ BlankTurn(c, t)
    BY <2>2 DEF HeldInv, AppInv, AppOf
  <2>4. req.type = t
    BY <2>1, <2>2 DEF TurnInv, TurnOf
  <2>5. req.resourceNames = {} /\ req.versionInfo = version[c][t]
    BY <2>1, <2>3 DEF AskTurn
  <2>6. req.resourceNames \in Unlisted[req.type]
    BY <2>4, <2>5 DEF Unlisted
  <2> QED  BY <2>3, <2>5, <2>6 DEF BlankTurn
<1>4. PICK requests \in [Streams -> SUBSET Request] : requests = Arriving
  BY <1>2
<1>5. CacheStep(requests)
  BY <1>4
<1>6. IInv'
  BY <1>1, <1>5, StepKept
<1>7. ServedInv' /\ CoverInv(Unlisted)'
  <2>1. \A c \in Streams : \A req \in requests[c] : req.resourceNames \in Unlisted[req.type]
    BY <1>3, <1>4
  <2>2. NothingHeldBack(Unlisted)
    BY DEF NothingHeldBack, Unlisted
  <2> QED  BY <1>1, <1>5, <1>6, <2>1, <2>2, StepServed
<1>8. OwedInv'
  <2>1. \A c \in Streams : \A req \in requests[c] :
            FirstRequest(c, req) /\ cleared[NodeOf[c]] = 0 /\ snapshots[NodeOf[c]] = None =>
                req.versionInfo = Blank
    BY <1>3, <1>4
  <2> QED  BY <1>1, <1>5, <2>1, StepOwes
<1>9. \A n \in Nodes : cleared'[n] = 0
  BY <1>1, <1>5, NotCleared
<1> QED  BY <1>6, <1>7, <1>8, <1>9

\* Every step keeps that.
LEMMA HeldKept ==
    ASSUME ~Heartbeating, MaxClears = 0, LegacyWildcard, BlankIsEmpty,
           \A c \in Streams : TypeURL[c] \in FullStateTypes,
           ClientsInv, TurnInv, HeldInv, [ClientsNext]_everything
    PROVE  HeldInv'
<1>1. /\ IInv /\ AdsTypes /\ WireTypes /\ SnapshotsSet /\ FitInv /\ OwedInv /\ AppInv
      /\ \A n \in Nodes : cleared[n] = 0
  BY DEF HeldInv, ServedInv, ClientsInv, AdsTypes
<1>2. AdsNext \/ UNCHANGED <<allVars, adsVars>>
  BY DEF ClientsNext, PollerStep, everything
<1>3. CacheStep(Arriving)
  <2>1. CASE AdsNext
    BY <1>1, <2>1, AdsIsStep
  <2>2. CASE UNCHANGED <<allVars, adsVars>>
    BY <2>2 DEF CacheStep, allVars
  <2> QED  BY <1>2, <2>1, <2>2
<1>4. /\ IInv' /\ ServedInv' /\ CoverInv(Unlisted)' /\ OwedInv'
      /\ \A n \in Nodes : cleared'[n] = 0
  BY <1>3, PromisesKept
<1>5. ASSUME NEW n \in Nodes, ControlPlane(n) \/ Heartbeat(n), UNCHANGED adsVars PROVE AppInv'
  <2>1. ~Heartbeat(n)
    BY DEF Heartbeat, SendHeartbeats
  <2>2. ~ClearSnapshot(n)
    <3>1. ~(0 < 0)
      BY SMTT(30)
    <3> QED  BY <1>1, <3>1 DEF ClearSnapshot
  <2>3. PICK snap \in Snapshots : SetSnapshot(n, snap)
    BY <1>5, <2>1, <2>2 DEF ControlPlane
  <2>4. UNCHANGED <<clientVars, nonceVars>>
    BY <1>5, <2>1 DEF ControlPlane
  <2>5. UNCHANGED <<clientVars, nonceVars, adsVars>>
    BY <1>5, <2>4
  <2>6. ASSUME NEW d \in Streams PROVE AppOf(d, TypeURL[d])'
    <3>1. PICK t \in FullStateTypes : t = TypeURL[d]
      OBVIOUS
    <3>2. AppOf(d, t)
      BY <1>1, <3>1 DEF AppInv
    <3>3. AppOf(d, t)'
      BY <1>1, <2>3, <2>5, <3>2, SetSnapshotApp
    <3> QED  BY <3>1, <3>3
  <2>7. UNCHANGED <<entryNonce, view>>
    BY <2>4 DEF clientVars, nonceVars
  <2>8. AppTypes'
    BY <1>1, <2>7 DEF AppInv, AppTypes
  <2> QED  BY <2>6, <2>8 DEF AppInv
<1>6. CASE AdsNext
  <2>1. ASSUME NEW c \in Streams, ServerStep(c), UNCHANGED adsVars PROVE AppInv'
    BY <1>1, <2>1, ServerApp
  <2>2. ASSUME NEW c \in Streams, Application(c) \/ Nack(c) \/ LoseStream(c) PROVE AppInv'
    BY <1>1, <1>4, <2>2, ApplicationApp
  <2>3. AppInv'
    BY <1>5, <1>6, <2>1, <2>2 DEF AdsNext
  <2> QED  BY <1>4, <2>3 DEF HeldInv
<1>7. CASE UNCHANGED <<allVars, adsVars>>
  <2>1. UNCHANGED <<vars, clientVars, nonceVars, adsVars>>
    BY <1>7 DEF allVars
  <2>2. UNCHANGED <<pc, sub, watches, queue, pending, replied, snapshots>>
    BY <2>1 DEF vars, cacheVars, streamVars
  <2>3. /\ UNCHANGED <<version, view, nonce, up, down>> /\ UNCHANGED entryNonce
        /\ UNCHANGED <<handed, received, rejected>>
    BY <2>1 DEF clientVars, nonceVars, adsVars
  <2>4. ASSUME NEW d \in Streams PROVE AppOf(d, TypeURL[d])'
    <3>1. PICK t \in Types : t = TypeURL[d]
      BY AdsClientAssumption DEF AdsClientAssumption
    <3>2. AppOf(d, t)
      BY <1>1, <3>1 DEF AppInv
    <3>3. Handling(d)' <=> Handling(d)
      BY <2>2 DEF Handling
    <3>4. ServerCalm(d, t)
      BY <2>2, <2>3, <3>3 DEF ServerCalm
    <3>5. ClientCalm(d, t)
      BY <2>3 DEF ClientCalm
    <3>6. AppOf(d, t)'
      BY <3>2, <3>4, <3>5, CalmKept
    <3> QED  BY <3>1, <3>6
  <2>5. AppTypes'
    BY <1>1, <2>3 DEF AppInv, AppTypes
  <2> QED  BY <1>4, <2>4, <2>5 DEF HeldInv, AppInv
<1> QED  BY <1>2, <1>6, <1>7

\* With nothing on its way the watch of the client is owed nothing, so what it acknowledged
\* last is the snapshot.
LEMMA HeldIsCurrent ==
    ASSUME BlankIsEmpty, ClientsInv, HeldInv
    PROVE  ApplicationIsCurrent
<1> SUFFICES ASSUME NEW c \in Streams, Settled(c), handed[c] = <<>>,
                    snapshots[NodeOf[c]] # None, ~failed[NodeOf[c]]
             PROVE  HasSnapshot(c)
  BY DEF ApplicationIsCurrent
<1>1. /\ IInv /\ FitInv /\ EntriesServed /\ SnapshotsSet /\ OwedInv
      /\ \A n \in Nodes : cleared[n] = 0
  BY DEF HeldInv, ServedInv, ClientsInv
<1>2. PICK t \in Types : t = TypeURL[c]
  BY AdsClientAssumption DEF AdsClientAssumption
<1>3. TokenTurn(c, t) /\ AskTurn(c, t) /\ ContentTurn(c, t)
  BY <1>2 DEF HeldInv, AppInv, AppOf
<1>4. /\ pc[c] = "idle" /\ up[c] = <<>> /\ down[c] = <<>> /\ ~IsQueued(c, t)
      /\ ~Handling(c) /\ ~Replaced(c, t)
  <2>1. pc[c] = "idle" /\ queue[c] = <<>> /\ up[c] = <<>> /\ down[c] = <<>>
    BY DEF Settled
  <2>2. DOMAIN <<>> = {}
    BY OneElement
  <2> QED  BY <2>1, <2>2 DEF IsQueued, Handling, Replaced
<1>5. sub[c][t] # None /\ t \notin replied[c]
  BY <1>3, <1>4 DEF TokenTurn
<1>6. IsWaiting(c, t)
  BY <1>1, <1>4, <1>5 DEF EntriesServed
<1>7. PICK n \in Nodes : \E w \in watches[n] : w.stream = c /\ w.type = t
  BY <1>6 DEF IsWaiting
<1>8. PICK w \in watches[n] : w.stream = c /\ w.type = t
  BY <1>7
<1>9. NodeOf[c] = n
  <2>1. \A m \in Nodes : \A v \in watches[m] : NodeOf[v.stream] = m
    BY <1>1 DEF IInv, WatchesAreCancellable
  <2> QED  BY <1>8, <2>1
<1>10. w.sub.wildcard /\ w.versionInfo = version[c][t]
  <2>1. w.sub = sub[c][t]
    BY <1>1, <1>8 DEF FitInv, WatchesFit
  <2> QED  BY <1>3, <1>5, <1>8, <2>1 DEF AskTurn
<1>11. PICK snap \in Snapshots : snap = snapshots[n]
  BY <1>1, <1>9 DEF SnapshotsSet
<1>12. OwedNothing(snap, w)
  BY <1>1, <1>8, <1>9, <1>11 DEF OwedInv
<1>13. snap[t].version = version[c][t]
  <2>1. NothingChanged(snap, w)
    BY <1>10, <1>12 DEF OwedNothing, Missing
  <2> QED  BY <1>8, <1>10, <2>1 DEF NothingChanged
<1>14. snap[t].version \in rejected[c] \/ view[c][t] = AllOf(snap[t])
  <2>1. Shows(c, t, snap[t].version)
    BY <1>3, <1>13 DEF ContentTurn
  <2>2. CASE snap[t].version = Blank /\ view[c][t] = NothingHeld
    <3>1. snap[t].items = {}
      BY <2>2 DEF BlankIsEmpty
    <3>2. AllOf(snap[t]) = NothingHeld
      BY <3>1 DEF AllOf, NothingHeld
    <3> QED  BY <2>2, <3>2
  <2>3. CASE \E s \in Snapshots : snap[t].version = s[t].version /\ view[c][t] = AllOf(s[t])
    <3>1. PICK s \in Snapshots : snap[t].version = s[t].version /\ view[c][t] = AllOf(s[t])
      BY <2>3
    <3>2. s[t].items = snap[t].items
      BY <3>1, SnapshotAssumption DEF SnapshotAssumption
    <3>3. AllOf(s[t]) = AllOf(snap[t])
      BY <3>1, <3>2 DEF AllOf
    <3> QED  BY <3>1, <3>3
  <2> QED  BY <2>1, <2>2, <2>3 DEF Shows
<1> QED  BY <1>2, <1>9, <1>11, <1>14 DEF HasSnapshot, AllOf

\* An application of the client library that has judged everything, with nothing on its way,
\* has the snapshot of its node or rejected it: the nonce of an earlier stream makes the server
\* ignore nothing, and the Ack that InitConnect begins with acknowledges only what the
\* application judged.  The cache sends no heartbeats and is not cleared, an empty list of
\* names is the wildcard, the type of every client is one whose responses are complete, and a
\* type without a version has no resources.
THEOREM ApplicationsAreCurrent ==
    ASSUME ~Heartbeating, MaxClears = 0, LegacyWildcard, BlankIsEmpty,
           \A c \in Streams : TypeURL[c] \in FullStateTypes
    PROVE  ClientsSpec => []ApplicationIsCurrent
<1>1. ClientsInit => TurnInv /\ HeldInv
  BY TurnStart, HeldStart
<1>2. ASSUME ClientsInv, TurnInv, HeldInv, [ClientsNext]_everything PROVE TurnInv' /\ HeldInv'
  BY <1>2, TurnKept, HeldKept
<1>3. ClientsInv /\ HeldInv => ApplicationIsCurrent
  BY HeldIsCurrent
<1> QED  BY <1>1, <1>2, <1>3, ClientsInvariance, PTL DEF ClientsSpec
=============================================================================
