---------------------------- MODULE SotwClientProofs ---------------------------
(***************************************************************************)
(* A state of the world client of the snapshot cache, once nothing is on   *)
(* its way, has the snapshot of its node, for any number of types, nodes,  *)
(* streams and snapshots.                                                  *)
(***************************************************************************)
EXTENDS SotwClientInvariant

\* A leaf is for Zenon, or for the SMT solver where it cites it: arithmetic and sequences.
USE Zenon

-----------------------------------------------------------------------------
(* A response is sent, or dropped.                                         *)

\* The response r of the type t is put on its way.
Sent(c, r, t) ==
    /\ down' \in [Streams -> Seq(Deliveries)] /\ \A d \in Streams : d # c => down'[d] = down[d]
    /\ \A u \in Types : u # t =>
          /\ Downs(c, u)' = Downs(c, u)
          /\ OneOf(down[c], u) => OneOf(down'[c], u)
    /\ Downs(c, t)' = Downs(c, t) \cup {r}
    /\ Downs(c, t) = {} => OneOf(down'[c], t)

\* The server sends a response.
LEMMA DownSent ==
    ASSUME WireTypes, NEW c \in Streams, NEW r \in Deliveries, NEW t \in Types, r.resp.type = t,
           down' = [down EXCEPT ![c] = Append(@, r)]
    PROVE  Sent(c, r, t)
<1>1. down'[c] = Append(down[c], r) /\ \A d \in Streams : d # c => down'[d] = down[d]
  BY DEF WireTypes
<1>2. down[c] \in Seq(Deliveries)
  BY DEF WireTypes
<1>3. down' \in [Streams -> Seq(Deliveries)]
  <2>1. Append(down[c], r) \in Seq(Deliveries)
    BY SMTT(30), <1>2
  <2> QED  BY <2>1 DEF WireTypes
<1>4. /\ \A u : u # r.resp.type => ResponsesIn(Append(down[c], r), u) = ResponsesIn(down[c], u)
      /\ ResponsesIn(Append(down[c], r), r.resp.type) = ResponsesIn(down[c], r.resp.type) \cup {r}
      /\ \A u : u # r.resp.type /\ OneOf(down[c], u) => OneOf(Append(down[c], r), u)
      /\ ResponsesIn(down[c], r.resp.type) = {} => OneOf(Append(down[c], r), r.resp.type)
  BY <1>2, ResponseSent
<1>5. \A u \in Types : u # t => Downs(c, u)' = Downs(c, u)
  BY <1>1, <1>4 DEF Downs
<1>6. Downs(c, t)' = Downs(c, t) \cup {r}
  BY <1>1, <1>4 DEF Downs
<1>7. \A u \in Types : u # t => (OneOf(down[c], u) => OneOf(down'[c], u))
  BY <1>1, <1>4
<1>8. Downs(c, t) = {} => OneOf(down'[c], t)
  BY <1>1, <1>4 DEF Downs
<1> QED  BY <1>1, <1>3, <1>5, <1>6, <1>7, <1>8 DEF Sent

\* The response tells the client of a snapshot, and the server what the client will know.
Tells(resp, snap, e) ==
    /\ resp.version = snap[e.type].version /\ ~resp.heartbeat
    /\ resp.resources \subseteq snap[e.type].items /\ resp.resources \subseteq Watched(e.sub)
    /\ \A n \in Names : resp.returnedResources[n] # None =>
          \/ n \in resp.resources
          \/ /\ n \notin resp.resources /\ e.sub.returnedResources[n] # None
             /\ e.type \notin FullStateTypes /\ resp.version = e.versionInfo

\* What createResponse makes.
LEMMA ResponseTells ==
    ASSUME NEW snap, NEW e, NEW resp, resp = createResponse(snap, e, resp.round)
    PROVE  Tells(resp, snap, e)
<1>1. PICK k : k = resp.round
  OBVIOUS
<1>2. resp = createResponse(snap, e, k)
  BY <1>1
<1> QED  BY <1>2 DEF createResponse, Changed, Tells

\* What is known to be returned does not change what is asked for: SetReturnedResources.
LEMMA ReturnedKeeps ==
    ASSUME NEW s \in Sub, NEW versions, NEW s1, s1 = SetReturnedResources(s, versions)
    PROVE  /\ s1.returnedResources = versions
           /\ \A tokens : Fits(s, tokens) => Fits(s1, tokens)
<1>1. /\ s1.wildcard = s.wildcard /\ s1.allowLegacyWildcard = s.allowLegacyWildcard
      /\ s1.subscribedResourceNames = s.subscribedResourceNames
      /\ s1.subscribedPrefixes = s.subscribedPrefixes /\ s1.returnedResources = versions
  BY DEF SetReturnedResources, Sub, SubscriptionsOver
<1> QED  BY <1>1 DEF Fits

\* A response that is sent is one the client asked for with the version it has.
LEMMA SentClients ==
    ASSUME IInv, FitInv, ClientTypes, NEW c \in Streams, NEW i \in DOMAIN queue[c], Took(c, i),
           ~Replaced(c, queue[c][i].type), Deliver(c, queue[c][i]),
           UNCHANGED <<wants, version, view, refused, nonce, up>>,
           \A d \in Streams : \A u \in Types : StreamInv(d, u)
    PROVE  ClientTypes' /\ \A d \in Streams : \A u \in Types : StreamInv(d, u)'
<1>1. PICK resp \in Response : resp = queue[c][i]
  BY SMTT(30) DEF IInv, TypeOK
<1>2. PICK t \in Types : t = resp.type
  BY DEF Response
<1>3. /\ IsQueued(c, t) /\ ~IsQueued(c, t)' /\ ~IsWaiting(c, t)'
      /\ OthersSame(c) /\ \A u \in Types : u # t => Same(c, u)
      /\ UNCHANGED <<snapshots, watches, pending>> /\ \A d \in Streams : pc'[d] = pc[d]
  <2>1. t = queue[c][i].type
    BY <1>1, <1>2
  <2> QED  BY <2>1, TookEffect
<1>4. NonceInv(c, t) /\ AskInv(c, t) /\ ContentInv(c, t) /\ BlankInv(c, t) /\ WireTypes
  <2>1. StreamInv(c, t)
    OBVIOUS
  <2> QED  BY <2>1 DEF StreamInv, ClientTypes
<1>5. sub[c][t] # None /\ sub[c][t] \in Sub
  <2>1. sub[c][t] # None
    BY <1>3 DEF IInv, NothingWithoutEntry
  <2>2. sub \in [Streams -> [Types -> Sub \cup {None}]]
    BY DEF IInv, TypeOK
  <2> QED  BY <2>1, <2>2
<1>6. entryNonce[c][t] = 0 /\ Downs(c, t) = {} /\ t \notin replied[c]
  <2>1. entryNonce[c][t] = 0
    BY <1>3, <1>4 DEF NonceInv
  <2> QED  BY <1>4, <2>1 DEF NonceInv
<1>7. /\ pc[c] \in {"idle", "draining"} /\ ~Replaced(c, t) /\ ~Replaced(c, t)'
      /\ Send(c, resp) /\ Deliver(c, resp)
  <2>1. /\ pc[c] \in {"idle", "draining"} /\ ~Replaced(c, t) /\ Deliver(c, resp)
        /\ Send(c, resp) \/ (pc[c] = "draining" /\ t = pending[c].type)
    BY <1>1, <1>2 DEF Took
  <2> QED  BY <1>3, <2>1 DEF Replaced
<1>8. responseMatchesCurrentSubscription(resp, sub[c][t])
  BY <1>1, <1>2 DEF FitInv, ResponsesFit
<1>9. PICK s1 \in Sub : /\ s1 = SetReturnedResources(sub[c][t], resp.returnedResources)
                        /\ s1 # None
  <2>1. resp.returnedResources \in [Names -> VersionInfos \cup {None}]
    BY DEF Response
  <2> QED  BY <1>5, <2>1, ReturnedType
<1>10. /\ sub' = [sub EXCEPT ![c][t] = s1]
       /\ replied' = [replied EXCEPT ![c] = @ \cup {t}]
  BY <1>2, <1>7, <1>8, <1>9 DEF Send
<1>11. /\ sub'[c][t] = s1 /\ \A u \in Types : u # t => (u \in replied'[c] => u \in replied[c])
  BY <1>10 DEF IInv, TypeOK
<1>12. PICK k \in Nat : /\ k = lastNonce[c] + 1 /\ k # 0 /\ lastNonce[c] <= k /\ k <= k
                        /\ \A j \in Nat : j <= lastNonce[c] => j # k /\ j <= k
  <2>1. lastNonce[c] \in Nat
    BY <1>4 DEF WireTypes
  <2>2. /\ lastNonce[c] + 1 \in Nat /\ lastNonce[c] + 1 # 0 /\ lastNonce[c] <= lastNonce[c] + 1
        /\ \A j \in Nat : j <= lastNonce[c] => j # lastNonce[c] + 1 /\ j <= lastNonce[c] + 1
        /\ lastNonce[c] + 1 <= lastNonce[c] + 1
    BY SMTT(30), <2>1
  <2> QED  BY <2>2
<1>13. PICK r \in Deliveries : r = [resp |-> resp, nonce |-> k]
  BY DEF Deliveries
<1>14. r.resp = resp /\ r.nonce = k
  BY <1>13
<1>15. /\ lastNonce' = [lastNonce EXCEPT ![c] = k]
       /\ entryNonce' = [entryNonce EXCEPT ![c][t] = k]
       /\ down' = [down EXCEPT ![c] = Append(@, r)]
       /\ unheard' = [unheard EXCEPT ![c][t] = @ \ Contents(resp)]
  BY <1>2, <1>7, <1>8, <1>12, <1>13 DEF Deliver
<1>16. /\ lastNonce' \in [Streams -> Nat] /\ lastNonce'[c] = k
       /\ \A d \in Streams : d # c => lastNonce'[d] = lastNonce[d]
  BY <1>4, <1>15 DEF WireTypes
<1>17. /\ entryNonce' \in [Streams -> [Types -> Nat]] /\ entryNonce'[c][t] = k
       /\ \A d \in Streams : \A u \in Types : d # c \/ u # t => entryNonce'[d][u] = entryNonce[d][u]
  BY <1>15 DEF ClientTypes
<1>18. /\ unheard' \in [Streams -> [Types -> SUBSET Names]]
       /\ unheard'[c][t] = unheard[c][t] \ Contents(resp)
       /\ \A d \in Streams : \A u \in Types : d # c \/ u # t => unheard'[d][u] = unheard[d][u]
  <2>1. unheard \in [Streams -> [Types -> SUBSET Names]]
    BY DEF ClientTypes
  <2>2. unheard[c][t] \ Contents(resp) \in SUBSET Names
    BY <2>1
  <2> QED  BY <1>15, <2>1, <2>2
<1>19. /\ down' \in [Streams -> Seq(Deliveries)] /\ \A d \in Streams : d # c => down'[d] = down[d]
       /\ \A u \in Types : u # t =>
             /\ Downs(c, u)' = Downs(c, u)
             /\ OneOf(down[c], u) => OneOf(down'[c], u)
       /\ Downs(c, t)' = {r} /\ OneOf(down'[c], t)
  <2>1. r.resp.type = t /\ WireTypes /\ down' = [down EXCEPT ![c] = Append(@, r)]
    BY <1>2, <1>4, <1>14, <1>15
  <2>2. Sent(c, r, t)
    BY <2>1, DownSent
  <2> QED  BY <1>6, <2>2 DEF Sent
<1>20. WireTypes' /\ ClientTypes'
  BY <1>16, <1>17, <1>18, <1>19 DEF ClientTypes, WireTypes
<1>21. ASSUME NEW d \in Streams, NEW u \in Types, d # c \/ u # t PROVE StreamInv(d, u)'
  <2>1. ServerStill(d, u)
    <3>1. CASE d # c
      BY <1>3, <3>1, OthersStill
    <3>2. CASE d = c /\ u # t
      BY <1>3, <1>11, <3>2 DEF ServerStill, Replaced
    <3> QED  BY <1>21, <3>1, <3>2
  <2>2. ClientStill(d, u)
    BY DEF ClientStill
  <2>3. WireStill(d, u)
    <3>1. entryNonce'[d][u] = entryNonce[d][u] /\ unheard'[d][u] = unheard[d][u]
      BY <1>17, <1>18, <1>21
    <3>2. CASE d # c
      BY <1>4, <1>16, <1>19, <3>1, <3>2, WireSame
    <3>3. CASE d = c /\ u # t
      <4>1. Ups(d, u)' = Ups(d, u)
        BY DEF Ups
      <4>2. lastNonce[d] <= lastNonce'[d]
        BY <1>12, <1>16, <3>3
      <4> QED  BY <1>19, <3>1, <3>3, <4>1, <4>2 DEF WireStill
    <3> QED  BY <1>21, <3>2, <3>3
  <2> QED  BY <1>4, <1>20, <2>1, <2>2, <2>3, StillKept DEF ClientTypes
<1>22. Ups(c, t)' = Ups(c, t)
  BY DEF Ups
<1>23. NonceInv(c, t)'
  <2>1. /\ nonce[c][t] \in Nat /\ \A m \in Ups(c, t) : m.nonce \in Nat
    <3>1. \A m \in Ups(c, t) : m.nonce \in Nat
      BY <1>4, OnTheirWay
    <3> QED  BY <1>4, <3>1 DEF WireTypes
  <2>2. /\ nonce[c][t] <= k /\ nonce[c][t] # k
        /\ \A m \in Ups(c, t) : m.nonce <= k /\ m.nonce # k
    BY <1>4, <1>12, <2>1 DEF NonceInv
  <2>3. FromThen(up[c], t, nonce[c][t])
    BY <1>4 DEF NonceInv
  <2> QED  BY <1>3, <1>7, <1>9, <1>11, <1>12, <1>14, <1>16, <1>17, <1>19, <1>22, <2>2, <2>3
        DEF NonceInv
<1>24. /\ wants[c][t] \in Wanted[t] /\ wants[c][t] # None
       /\ \E tokens \in Wanted[t] : Fits(sub[c][t], tokens)
  <2>1. wants[c][t] \in Wanted[t] /\ \E tokens \in Wanted[t] : Fits(sub[c][t], tokens)
    BY <1>4, <1>5 DEF AskInv
  <2> QED  BY <2>1, SotwClientAssumption DEF SotwClientAssumption
<1>25. s1.returnedResources = resp.returnedResources /\ \A tokens : Fits(sub[c][t], tokens) => Fits(s1, tokens)
  <2>1. PICK s \in Sub : s = sub[c][t]
    BY <1>5
  <2>2. PICK versions : versions = resp.returnedResources
    OBVIOUS
  <2>3. s1 = SetReturnedResources(s, versions)
    BY <1>9, <2>1, <2>2
  <2> QED  BY <2>1, <2>2, <2>3, ReturnedKeeps
<1>26. AskInv(c, t)'
  BY <1>4, <1>7, <1>9, <1>11, <1>19, <1>22, <1>24, <1>25 DEF AskInv
<1>27. PICK snap \in Snapshots : resp = createResponse(snap, Entry(c, t), resp.round)
  BY <1>1, <1>2, <1>4 DEF ContentInv
<1>28. /\ resp.version = snap[t].version /\ ~resp.heartbeat /\ Contents(resp) = resp.resources
       /\ resp.resources \subseteq snap[t].items /\ resp.resources \subseteq Watched(sub[c][t])
       /\ \A n \in Known(s1) :
             \/ n \in resp.resources
             \/ /\ n \notin resp.resources /\ n \in Known(sub[c][t])
                /\ t \notin FullStateTypes /\ resp.version = version[c][t]
  <2>0. PICK e : e = Entry(c, t)
    OBVIOUS
  <2>1. e.type = t /\ e.versionInfo = version[c][t] /\ e.sub = sub[c][t]
    BY <2>0 DEF Entry
  <2>2. resp = createResponse(snap, e, resp.round)
    BY <1>27, <2>0
  <2>3. Tells(resp, snap, e)
    BY <2>2, ResponseTells
  <2> QED  BY <1>25, <2>1, <2>3 DEF Tells, Known, Contents
<1>29. ASSUME NEW n \in Known(s1) PROVE Holds(c, t, n)'
  <2>1. CASE n \in resp.resources /\ n \in Asked(wants[c][t])
    BY <1>14, <1>19, <2>1 DEF Holds
  <2>2. CASE n \in resp.resources /\ n \notin Asked(wants[c][t])
    <3> DEFINE last == Message(t, wants[c][t], version[c][t], nonce[c][t])
    <3>1. ~Fits(sub[c][t], wants[c][t])
      BY <1>28, <2>2, FitsWatched
    <3>2. Ups(c, t) # {}
      BY <1>4, <1>6, <1>7, <1>24, <3>1 DEF AskInv
    <3>3. LastIs(up[c], t, last)
      BY <1>4 DEF AskInv
    <3>4. last.req.type = t /\ last.req.resourceNames = wants[c][t]
      BY DEF Message
    <3> HIDE DEF last
    <3>5. last \in Ups(c, t)
      BY <3>2, <3>3, <3>4 DEF Ups, RequestsIn, LastIs
    <3>6. GivesUp(c, t, n)'
      BY <1>22, <2>2, <3>4, <3>5 DEF GivesUp
    <3> QED  BY <3>6 DEF Holds
  <2>3. CASE n \notin resp.resources
    <3>1. n \in Known(sub[c][t]) /\ resp.version = version[c][t]
      BY <1>28, <2>3
    <3>2. Holds(c, t, n)
      BY <1>4, <1>5, <3>1 DEF ContentInv
    <3>3. GivesUp(c, t, n) => GivesUp(c, t, n)'
      BY <1>7, <1>22 DEF GivesUp
    <3>4. n \in unheard[c][t] => n \in unheard'[c][t]
      BY <1>18, <1>28, <2>3
    <3> QED  BY <1>6, <3>2, <3>3, <3>4 DEF Holds
  <2> QED  BY <2>1, <2>2, <2>3
<1>30. ContentInv(c, t)'
  <2>1. \A n \in Nodes : \A w \in watches'[n] : ~(w.stream = c /\ w.type = t)
    BY <1>3 DEF IsWaiting
  <2>2. \A j \in DOMAIN queue'[c] : queue'[c][j].type # t
    BY <1>3 DEF IsQueued
  <2>3. t \in FullStateTypes => \A n \in Names : view'[c][t][n] # None =>
            \E other \in Snapshots : other[t].version = version'[c][t] /\ n \in other[t].items
    BY <1>4 DEF ContentInv
  <2>4. /\ ~r.resp.heartbeat
        /\ \E other \in Snapshots :
              r.resp.version = other[t].version /\ r.resp.resources \subseteq other[t].items
        /\ \A n \in Known(s1) : n \in r.resp.resources
              \/ (t \notin FullStateTypes /\ r.resp.version = version[c][t])
    BY <1>14, <1>28
  <2> QED  BY <1>11, <1>19, <1>29, <2>1, <2>2, <2>3, <2>4 DEF ContentInv
<1>31. BlankInv(c, t)'
  BY <1>3, <1>4 DEF BlankInv
<1>32. StreamInv(c, t)'
  BY <1>23, <1>26, <1>30, <1>31 DEF StreamInv
<1> QED  BY <1>20, <1>21, <1>32

\* The loop sends a response.
LEMMA SendsClients ==
    ASSUME IInv, FitInv, ClientTypes, NEW c \in Streams, ServerSends(c),
           \A d \in Streams : \A u \in Types : StreamInv(d, u)
    PROVE  ClientTypes' /\ \A d \in Streams : \A u \in Types : StreamInv(d, u)'
<1>1. PICK i \in DOMAIN queue[c] : SendResponse(c, i) /\ Deliver(c, queue[c][i])
  BY DEF ServerSends
<1>2. UNCHANGED <<wants, version, view, refused, nonce, up>>
  BY DEF ServerSends
<1>3. Took(c, i)
  BY <1>1, SendResponseTook
<1>4. ~Replaced(c, queue[c][i].type)
  BY <1>1 DEF SendResponse, Replaced
<1> QED  BY <1>1, <1>2, <1>3, <1>4, SentClients

\* A step in which the clients take no part, other than to find responses or watches gone.
LEMMA StillClients ==
    ASSUME ClientTypes, UNCHANGED <<clientVars, nonceVars>>,
           \A d \in Streams : \A u \in Types : ServerStill(d, u) /\ StreamInv(d, u)
    PROVE  ClientTypes' /\ \A d \in Streams : \A u \in Types : StreamInv(d, u)'
<1>1. /\ UNCHANGED <<wants, version, view, refused, nonce, up, down>>
      /\ UNCHANGED <<entryNonce, lastNonce, unheard>>
  BY DEF clientVars, nonceVars
<1>2. WireTypes /\ WireTypes' /\ ClientTypes'
  BY <1>1 DEF ClientTypes, WireTypes
<1>3. ASSUME NEW d \in Streams, NEW u \in Types PROVE StreamInv(d, u)'
  <2>1. ServerStill(d, u) /\ StreamInv(d, u)
    OBVIOUS
  <2>2. ClientStill(d, u)
    BY <1>1 DEF ClientStill
  <2>3. WireStill(d, u)
    BY <1>1, <1>2, WireSame
  <2> QED  BY <1>2, <2>1, <2>2, <2>3, StillKept DEF ClientTypes
<1> QED  BY <1>2, <1>3

\* Before a watch is created again the channel is drained: processAllExcept.
LEMMA DrainsClients ==
    ASSUME IInv, FitInv, ClientTypes, NEW c \in Streams, ServerDrains(c),
           \A d \in Streams : \A u \in Types : StreamInv(d, u)
    PROVE  ClientTypes' /\ \A d \in Streams : \A u \in Types : StreamInv(d, u)'
<1>1. /\ processAllExcept(c) /\ UNCHANGED <<wants, version, view, refused, nonce, up>>
      /\ pc[c] = "draining"
  BY DEF ServerDrains, processAllExcept
<1>2. CASE queue[c] = <<>>
  <2>1. /\ pc' = [pc EXCEPT ![c] = "cancelled"] /\ UNCHANGED <<sub, replied, queue>>
        /\ UNCHANGED <<snapshots, watches, pending>> /\ UNCHANGED <<clientVars, nonceVars>>
    BY <1>1, <1>2 DEF processAllExcept, cacheVars, ServerDrains, clientVars
  <2>2. /\ pc'[c] = "cancelled" /\ \A d \in Streams : d # c => pc'[d] = pc[d]
    BY <2>1 DEF IInv, TypeOK
  <2>3. ASSUME NEW d \in Streams, NEW u \in Types PROVE ServerStill(d, u)
    <3>1. Same(d, u)
      BY <2>1 DEF Same
    <3>2. (pc'[d] = "closed" <=> pc[d] = "closed") /\ (Replaced(d, u)' <=> Replaced(d, u))
      <4>1. CASE d = c
        BY <1>1, <2>1, <2>2, <4>1 DEF Replaced
      <4>2. CASE d # c
        BY <2>1, <2>2, <4>2 DEF Replaced
      <4> QED  BY <4>1, <4>2
    <3> QED  BY <2>1, <3>1, <3>2 DEF ServerStill
  <2> QED  BY <2>1, <2>3, StillClients
<1>3. CASE queue[c] # <<>> /\ Head(queue[c]).type # pending[c].type
  <2>1. 1 \in DOMAIN queue[c] /\ queue[c][1] = Head(queue[c]) /\ Took(c, 1)
    BY <1>1, <1>3, ProcessAllExceptTook
  <2>2. ~Replaced(c, queue[c][1].type) /\ Deliver(c, queue[c][1])
    BY <1>3, <2>1 DEF Replaced, ServerDrains
  <2> QED  BY <1>1, <2>1, <2>2, SentClients
<1>4. CASE queue[c] # <<>> /\ Head(queue[c]).type = pending[c].type
  <2>1. 1 \in DOMAIN queue[c] /\ queue[c][1] = Head(queue[c]) /\ Took(c, 1)
    BY <1>1, <1>4, ProcessAllExceptTook
  <2>2. UNCHANGED <<clientVars, nonceVars>> /\ UNCHANGED <<sub, replied>>
    BY <1>1, <1>4 DEF ServerDrains, processAllExcept, clientVars
  <2>3. PICK t : t = queue[c][1].type
    OBVIOUS
  <2>4. /\ t \in Types /\ ~IsQueued(c, t)' /\ ~IsWaiting(c, t)'
        /\ OthersSame(c) /\ \A u \in Types : u # t => Same(c, u)
        /\ UNCHANGED <<snapshots, watches, pending>> /\ \A d \in Streams : pc'[d] = pc[d]
    BY <2>1, <2>3, TookEffect
  <2>5. Same(c, t)
    BY <2>2, <2>4 DEF Same, IsQueued
  <2>6. ASSUME NEW d \in Streams, NEW u \in Types PROVE ServerStill(d, u)
    <3>1. Same(d, u)
      BY <2>4, <2>5 DEF OthersSame
    <3> QED  BY <2>2, <2>4, <3>1 DEF ServerStill, Replaced
  <2> QED  BY <2>2, <2>6, StillClients
<1> QED  BY <1>2, <1>3, <1>4

-----------------------------------------------------------------------------
(* Streams end and begin.                                                  *)

\* Nothing is on its way on a stream that is broken.
LEMMA NothingOnItsWay ==
    ASSUME NEW s, s = <<>>
    PROVE  /\ \A t : RequestsIn(s, t) = {} /\ ResponsesIn(s, t) = {} /\ OneOf(s, t)
           /\ \A t, m : LastIs(s, t, m)
           /\ \A t, k : FromThen(s, t, k)
<1>1. DOMAIN s = {}
  BY OneElement
<1> QED  BY <1>1 DEF RequestsIn, ResponsesIn, OneOf, LastIs, FromThen

\* A stream breaks.
LEMMA BreakClients ==
    ASSUME IInv, IInv', ClientTypes, NEW c \in Streams, Break(c),
           \A d \in Streams : \A u \in Types : StreamInv(d, u)
    PROVE  ClientTypes' /\ \A d \in Streams : \A u \in Types : StreamInv(d, u)'
<1>1. /\ WireTypes /\ Shutdown(c) /\ UNCHANGED <<wants, version, view, refused>>
      /\ up' = [up EXCEPT ![c] = <<>>] /\ down' = [down EXCEPT ![c] = <<>>]
      /\ nonce' = [nonce EXCEPT ![c] = [t \in Types |-> 0]]
      /\ entryNonce' = [entryNonce EXCEPT ![c] = [t \in Types |-> 0]]
      /\ lastNonce' = [lastNonce EXCEPT ![c] = 0]
      /\ unheard' = [unheard EXCEPT ![c] = [t \in Types |-> {}]]
  BY DEF Break, ClientTypes
<1>2. /\ OthersSame(c) /\ pc'[c] = "closed" /\ \A u \in Types : sub'[c][u] = None
      /\ replied'[c] = {} /\ snapshots' = snapshots
  BY <1>1, ShutdownEffect
<1>3. /\ up' \in [Streams -> Seq(Messages)] /\ down' \in [Streams -> Seq(Deliveries)]
      /\ up'[c] = <<>> /\ down'[c] = <<>>
      /\ \A d \in Streams : d # c => up'[d] = up[d] /\ down'[d] = down[d]
  <2>1. <<>> \in Seq(Messages) /\ <<>> \in Seq(Deliveries)
    BY SMTT(30)
  <2> QED  BY <1>1, <2>1 DEF WireTypes
<1>4. PICK zero \in Nat : zero = 0 /\ zero <= zero
  BY SMTT(30)
<1>5. /\ nonce' \in [Streams -> [Types -> Nat]] /\ entryNonce' \in [Streams -> [Types -> Nat]]
      /\ lastNonce' \in [Streams -> Nat] /\ lastNonce'[c] = 0
      /\ \A u \in Types : nonce'[c][u] = 0 /\ entryNonce'[c][u] = 0
      /\ \A d \in Streams : d # c =>
            nonce'[d] = nonce[d] /\ entryNonce'[d] = entryNonce[d] /\ lastNonce'[d] = lastNonce[d]
  <2>1. [t \in Types |-> 0] \in [Types -> Nat]
    BY <1>4
  <2> QED  BY <1>1, <1>4, <2>1 DEF WireTypes, ClientTypes
<1>6. /\ unheard' \in [Streams -> [Types -> SUBSET Names]]
      /\ \A d \in Streams : d # c => unheard'[d] = unheard[d]
  BY <1>1 DEF ClientTypes
<1>7. WireTypes' /\ ClientTypes'
  BY <1>1, <1>3, <1>5, <1>6 DEF ClientTypes, WireTypes
<1>8. ASSUME NEW d \in Streams, d # c, NEW u \in Types PROVE StreamInv(d, u)'
  <2>1. ServerStill(d, u)
    BY <1>2, <1>8, OthersStill
  <2>2. ClientStill(d, u)
    BY <1>1, <1>5, <1>8 DEF ClientStill
  <2>3. WireStill(d, u)
    <3>1. /\ up'[d] = up[d] /\ down'[d] = down[d] /\ lastNonce'[d] = lastNonce[d]
          /\ entryNonce'[d][u] = entryNonce[d][u] /\ unheard'[d][u] = unheard[d][u]
      BY <1>3, <1>5, <1>6, <1>8
    <3> QED  BY <1>1, <3>1, WireSame
  <2> QED  BY <1>1, <1>7, <2>1, <2>2, <2>3, StillKept DEF ClientTypes
<1>9. ASSUME NEW t \in Types PROVE StreamInv(c, t)'
  <2>1. NonceInv(c, t) /\ AskInv(c, t) /\ ContentInv(c, t) /\ BlankInv(c, t)
    <3>1. StreamInv(c, t)
      OBVIOUS
    <3> QED  BY <3>1 DEF StreamInv
  <2>2. /\ Ups(c, t)' = {} /\ Downs(c, t)' = {} /\ OneOf(down'[c], t)
        /\ \A m : LastIs(up'[c], t, m)
        /\ \A k : FromThen(up'[c], t, k)
    BY <1>3, NothingOnItsWay DEF Ups, Downs
  <2>3. ~IsWaiting(c, t)' /\ ~IsQueued(c, t)' /\ ~Replaced(c, t)' /\ sub'[c][t] = None
    BY <1>2 DEF IInv, NothingWithoutEntry, Replaced
  <2>4. NonceInv(c, t)'
    <3>1. /\ nonce'[c][t] = 0 /\ entryNonce'[c][t] = 0 /\ lastNonce'[c] = 0 /\ 0 <= 0
      BY <1>4, <1>5
    <3>2. /\ nonce'[c][t] <= lastNonce'[c] /\ entryNonce'[c][t] <= lastNonce'[c]
      BY <3>1
    <3> QED  BY <1>2, <2>2, <2>3, <3>1, <3>2 DEF NonceInv
  <2>5. AskInv(c, t)'
    <3>1. wants'[c][t] \in Wanted[t] \cup {None}
      BY <1>1, <2>1 DEF AskInv
    <3> QED  BY <1>2, <2>2, <2>3, <3>1 DEF AskInv
  <2>6. ContentInv(c, t)'
    <3>1. t \in FullStateTypes => \A n \in Names : view'[c][t][n] # None =>
              \E snap \in Snapshots : snap[t].version = version'[c][t] /\ n \in snap[t].items
      BY <1>1, <2>1 DEF ContentInv
    <3> QED  BY <2>2, <2>3, <3>1 DEF ContentInv, IsWaiting, IsQueued
  <2>7. BlankInv(c, t)'
    BY <1>1, <1>2, <2>1, <2>2, <2>3 DEF BlankInv
  <2> QED  BY <2>4, <2>5, <2>6, <2>7 DEF StreamInv
<1> QED  BY <1>7, <1>8, <1>9

\* The sequence s is one request f[t] for each type t of the set S.
OneEach(s, S, f) ==
    /\ s \in Seq(Messages)
    /\ \A t \in S : RequestsIn(s, t) = {f[t]} /\ LastIs(s, t, f[t]) /\ FromThen(s, t, f[t].nonce)
    /\ \A t : t \notin S => RequestsIn(s, t) = {} /\ \A x : LastIs(s, t, x) /\ FromThen(s, t, x)

\* A sequence of requests in some order of their types.
LEMMA OneForEach ==
    ASSUME NEW S, NEW order \in Orders(S), NEW f \in [S -> Messages],
           \A t \in S : f[t].req.type = t, NEW s, s = [i \in DOMAIN order |-> f[order[i]]]
    PROVE  OneEach(s, S, f)
<1>1. PICK m \in 0 .. Cardinality(S) : order \in Bijection(1 .. m, S)
  BY DEF Orders
<1>2. m \in Nat /\ order \in [1 .. m -> S]
  BY SMTT(30), <1>1 DEF Bijection, Injection
<1>3. /\ DOMAIN s = DOMAIN order
      /\ \A i \in DOMAIN s : s[i] = f[order[i]] /\ order[i] \in S /\ s[i] \in Messages
      /\ \A i \in DOMAIN s : s[i].req.type = order[i]
  BY <1>2
<1>4. s \in Seq(Messages)
  <2>1. DOMAIN s = 1 .. m
    BY <1>2, <1>3
  <2>2. s \in [1 .. m -> Messages]
    BY <1>3, <2>1
  <2> QED  BY SMTT(30), <1>2, <2>2
<1>5. \A t \in S : \E i \in DOMAIN s : order[i] = t
  BY <1>1, <1>2, <1>3 DEF Bijection, Surjection
<1>6. \A t : \A i \in DOMAIN s : s[i].req.type = t => t \in S /\ s[i] = f[t]
  BY <1>3
<1>7. \A i \in DOMAIN s : i <= i
  BY SMTT(30), <1>2, <1>3
<1>8. ASSUME NEW t \in S
      PROVE  RequestsIn(s, t) = {f[t]} /\ LastIs(s, t, f[t]) /\ FromThen(s, t, f[t].nonce)
  <2>1. f[t] \in RequestsIn(s, t)
    <3>1. PICK i \in DOMAIN s : order[i] = t
      BY <1>5
    <3>2. s[i].req.type = t /\ s[i] = f[t]
      BY <1>3, <3>1
    <3> QED  BY <3>2 DEF RequestsIn
  <2>2. \A x \in RequestsIn(s, t) : x = f[t]
    BY <1>6 DEF RequestsIn
  <2>3. LastIs(s, t, f[t])
    BY <1>6, <1>7 DEF LastIs
  <2>4. FromThen(s, t, f[t].nonce)
    <3>1. \A i \in DOMAIN s : s[i].req.type = t => s[i].nonce = f[t].nonce
      BY <1>6
    <3> QED  BY <3>1 DEF FromThen
  <2> QED  BY <2>1, <2>2, <2>3, <2>4
<1>9. ASSUME NEW t, t \notin S
      PROVE  RequestsIn(s, t) = {} /\ \A x : LastIs(s, t, x) /\ FromThen(s, t, x)
  <2>1. \A i \in DOMAIN s : s[i].req.type # t
    BY <1>6, <1>9
  <2> QED  BY <2>1 DEF RequestsIn, LastIs, FromThen
<1> QED  BY <1>4, <1>8, <1>9 DEF OneEach

\* A client connects, and asks again for what it wants.
LEMMA ConnectClients ==
    ASSUME IInv, ClientTypes, NEW c \in Streams, ClientConnect(c),
           \A d \in Streams : \A u \in Types : StreamInv(d, u)
    PROVE  ClientTypes' /\ \A d \in Streams : \A u \in Types : StreamInv(d, u)'
<1>1. /\ WireTypes /\ Open(c) /\ UNCHANGED <<wants, version, view, refused, nonce, down>>
      /\ UNCHANGED <<entryNonce, lastNonce, unheard>>
  BY DEF ClientConnect, ClientTypes, nonceVars
<1>2. PICK S \in SUBSET Types : S = {t \in Types : wants[c][t] # None}
  OBVIOUS
<1>3. PICK order \in Orders(S) :
          up' = [up EXCEPT ![c] =
              [i \in DOMAIN order |->
                  Message(order[i], wants[c][order[i]], version[c][order[i]], 0)]]
  BY <1>2 DEF ClientConnect
<1>4. PICK zero \in Nat : zero = 0 /\ \A k \in Nat : zero <= k
  BY SMTT(30)
<1>5. PICK f \in [S -> Messages] :
          \A t \in S : f[t] = Message(t, wants[c][t], version[c][t], 0)
  <2>1. ASSUME NEW t \in S PROVE Message(t, wants[c][t], version[c][t], 0) \in Messages
    <3>1. t \in Types /\ wants[c][t] # None
      BY <1>2
    <3>2. wants \in [Streams -> [Types -> (SUBSET Tokens) \cup {None}]]
      BY DEF ClientTypes
    <3>3. wants[c][t] \in (SUBSET Tokens) \cup {None}
      BY <3>1, <3>2
    <3>4. wants[c][t] \in SUBSET Tokens
      BY <3>1, <3>3
    <3>5. version[c][t] \in VersionInfos
      BY <1>1, <3>1 DEF WireTypes
    <3> QED  BY <1>4, <3>1, <3>4, <3>5, MessageType
  <2>2. [t \in S |-> Message(t, wants[c][t], version[c][t], 0)] \in [S -> Messages]
    BY <2>1
  <2> QED  BY <2>2
<1>6. \A t \in S : /\ f[t].req.type = t /\ f[t].req.resourceNames = wants[c][t]
                   /\ f[t].req.versionInfo = version[c][t] /\ f[t].nonce = 0
  <2> TAKE t \in S
  <2>1. PICK m : m = f[t]
    OBVIOUS
  <2>2. m = Message(t, wants[c][t], version[c][t], 0)
    BY <1>5, <2>1
  <2>3. /\ m.req.type = t /\ m.req.resourceNames = wants[c][t]
        /\ m.req.versionInfo = version[c][t] /\ m.nonce = 0
    BY <2>2 DEF Message
  <2> QED  BY <2>1, <2>3
<1>7. PICK s : s = [i \in DOMAIN order |-> f[order[i]]]
  OBVIOUS
<1>8. /\ s \in Seq(Messages)
      /\ \A t \in S : RequestsIn(s, t) = {f[t]} /\ LastIs(s, t, f[t]) /\ FromThen(s, t, f[t].nonce)
      /\ \A t : t \notin S => RequestsIn(s, t) = {} /\ \A x : LastIs(s, t, x) /\ FromThen(s, t, x)
  <2>1. \A t \in S : f[t].req.type = t
    BY <1>6
  <2>2. OneEach(s, S, f)
    BY <1>7, <2>1, OneForEach
  <2> QED  BY <2>2 DEF OneEach
<1>9. up' = [up EXCEPT ![c] = s]
  <2>1. \A i \in DOMAIN order : order[i] \in S
    BY DEF Orders, Bijection, Injection
  <2>2. s = [i \in DOMAIN order |-> Message(order[i], wants[c][order[i]], version[c][order[i]], 0)]
    BY <1>5, <1>7, <2>1
  <2> QED  BY <1>3, <2>2
<1>10. /\ up' \in [Streams -> Seq(Messages)] /\ up'[c] = s
       /\ \A d \in Streams : d # c => up'[d] = up[d]
  BY <1>1, <1>8, <1>9 DEF WireTypes
<1>11. WireTypes' /\ ClientTypes'
  BY <1>1, <1>10 DEF ClientTypes, WireTypes
<1>12. /\ OthersSame(c) /\ \A u \in Types : Same(c, u)
       /\ pc[c] = "closed" /\ pc'[c] = "idle" /\ snapshots' = snapshots /\ replied' = replied
  <2>1. OthersSame(c) /\ (\A u \in Types : Same(c, u)) /\ pc[c] = "closed" /\ pc'[c] = "idle"
    BY <1>1, OpenEffect
  <2> QED  BY <1>1, <2>1 DEF Open, cacheVars
<1>13. ASSUME NEW d \in Streams, d # c, NEW u \in Types PROVE StreamInv(d, u)'
  <2>1. ServerStill(d, u)
    BY <1>12, <1>13, OthersStill
  <2>2. ClientStill(d, u)
    BY <1>1 DEF ClientStill
  <2>3. WireStill(d, u)
    <3>1. /\ up'[d] = up[d] /\ down'[d] = down[d] /\ lastNonce'[d] = lastNonce[d]
          /\ entryNonce'[d][u] = entryNonce[d][u] /\ unheard'[d][u] = unheard[d][u]
      BY <1>1, <1>10, <1>13
    <3> QED  BY <1>1, <3>1, WireSame
  <2> QED  BY <1>1, <1>11, <2>1, <2>2, <2>3, StillKept DEF ClientTypes
<1>14. ASSUME NEW t \in Types PROVE StreamInv(c, t)'
  <2>1. NonceInv(c, t) /\ AskInv(c, t) /\ ContentInv(c, t) /\ BlankInv(c, t)
    <3>1. StreamInv(c, t)
      OBVIOUS
    <3> QED  BY <3>1 DEF StreamInv
  <2>2. /\ Ups(c, t) = {} /\ Downs(c, t) = {} /\ nonce[c][t] = 0 /\ entryNonce[c][t] = 0
        /\ OneOf(down[c], t)
    BY <1>12, <2>1 DEF NonceInv
  <2>3. /\ Ups(c, t)' = RequestsIn(s, t) /\ Downs(c, t)' = {} /\ sub'[c][t] = sub[c][t]
        /\ ~Replaced(c, t) /\ ~Replaced(c, t)'
    BY <1>1, <1>10, <1>12, <2>2 DEF Ups, Downs, Replaced, Same
  <2>4. /\ \A m \in Ups(c, t)' : /\ t \in S /\ m.req.resourceNames = wants[c][t]
                                 /\ m.req.versionInfo = version[c][t] /\ m.nonce = 0
        /\ wants[c][t] # None => Ups(c, t)' # {}
        /\ FromThen(up'[c], t, 0)
        /\ LastIs(up'[c], t, Message(t, wants[c][t], version[c][t], 0))
    <3>1. CASE t \in S
      <4>1. RequestsIn(s, t) = {f[t]} /\ LastIs(s, t, f[t]) /\ FromThen(s, t, f[t].nonce)
        BY <1>8, <3>1
      <4>2. f[t] = Message(t, wants[c][t], version[c][t], 0)
        BY <1>5, <3>1
      <4>3. LastIs(up'[c], t, Message(t, wants[c][t], version[c][t], 0))
        BY <1>10, <4>1, <4>2
      <4>4. FromThen(up'[c], t, 0)
        BY <1>6, <1>10, <3>1, <4>1
      <4>5. Ups(c, t)' = {f[t]}
        BY <2>3, <4>1
      <4>6. \A m \in Ups(c, t)' : /\ m.req.resourceNames = wants[c][t]
                                  /\ m.req.versionInfo = version[c][t] /\ m.nonce = 0
        BY <1>6, <3>1, <4>5
      <4> QED  BY <3>1, <4>3, <4>4, <4>5, <4>6
    <3>2. CASE t \notin S
      <4>1. RequestsIn(s, t) = {} /\ \A x : LastIs(s, t, x) /\ FromThen(s, t, x)
        BY <1>8, <3>2
      <4> QED  BY <1>2, <1>10, <2>3, <3>2, <4>1
    <3> QED  BY <3>1, <3>2
  <2>5. NonceInv(c, t)'
    <3>1. /\ nonce[c][t] <= lastNonce[c] /\ entryNonce[c][t] <= lastNonce[c]
          /\ t \in replied[c] => entryNonce[c][t] # 0
      BY <2>1 DEF NonceInv
    <3>2. \A m \in Ups(c, t)' : m.nonce <= lastNonce[c]
      BY <2>2, <2>4, <3>1
    <3> QED  BY <1>1, <1>12, <2>2, <2>3, <2>4, <3>1, <3>2 DEF NonceInv
  <2>6. AskInv(c, t)'
    <3>1. wants[c][t] \in Wanted[t] \cup {None} /\ (t \in S => wants[c][t] \in Wanted[t])
      BY <1>2, <2>1 DEF AskInv
    <3>2. /\ sub[c][t] # None => wants[c][t] \in Wanted[t]
          /\ sub[c][t] # None => \E tokens \in Wanted[t] : Fits(sub[c][t], tokens)
      BY <2>1 DEF AskInv
    <3>3. \A m \in Ups(c, t)' : /\ m.req.resourceNames \in Wanted[t]
                                /\ m.nonce = nonce[c][t] => m.req.versionInfo = version[c][t]
      BY <2>4, <3>1
    <3>4. Ups(c, t)' # {} => wants[c][t] \in Wanted[t]
      BY <2>4, <3>1
    <3>5. LastIs(up'[c], t, Message(t, wants[c][t], version[c][t], nonce[c][t]))
      BY <2>2, <2>4
    <3> QED  BY <1>1, <2>3, <2>4, <3>1, <3>2, <3>3, <3>4, <3>5 DEF AskInv
  <2>7. ContentInv(c, t)'
    <3>1. \A n : Holds(c, t, n) => Holds(c, t, n)'
      BY <1>1, <2>2, <2>3 DEF Holds, GivesUp
    <3>2. Entry(c, t)' = Entry(c, t)
      BY <1>1, <2>3 DEF Entry
    <3>3. \A n \in Nodes : \A w \in watches'[n] :
              w.stream = c /\ w.type = t => w.versionInfo = version'[c][t]
      BY <1>1, <1>12, <2>1 DEF Same, ContentInv
    <3>4. \A i \in DOMAIN queue'[c] : queue'[c][i].type = t =>
              \E snap \in Snapshots :
                 queue'[c][i] = createResponse(snap, Entry(c, t)', queue'[c][i].round)
      BY ZenonT(40), <1>12, <2>1, <3>2 DEF Same, ContentInv
    <3>5. t \in FullStateTypes => \A n \in Names : view'[c][t][n] # None =>
              \E snap \in Snapshots : snap[t].version = version'[c][t] /\ n \in snap[t].items
      BY <1>1, <2>1 DEF ContentInv
    <3>6. sub'[c][t] # None => \A n \in Known(sub'[c][t]) : Holds(c, t, n)'
      BY <2>1, <2>3, <3>1 DEF ContentInv
    <3> QED  BY <2>3, <3>3, <3>4, <3>5, <3>6 DEF ContentInv
  <2>8. BlankInv(c, t)'
    <3>1. IsQueued(c, t)' => IsQueued(c, t)
      BY <1>12, SameServed
    <3> QED  BY <1>1, <1>12, <2>1, <2>3, <2>4, <3>1 DEF BlankInv
  <2> QED  BY <2>5, <2>6, <2>7, <2>8 DEF StreamInv
<1> QED  BY <1>11, <1>13, <1>14

-----------------------------------------------------------------------------
(* The control plane sets a snapshot.                                      *)

\* The watches that a new snapshot answers are for the version the client has.
LEMMA SetSnapshotClients ==
    ASSUME IInv, FitInv, ClientTypes, NEW n \in Nodes, NEW snap \in Snapshots,
           SetSnapshot(n, snap), UNCHANGED <<clientVars, nonceVars>>,
           \A d \in Streams : \A u \in Types : StreamInv(d, u)
    PROVE  ClientTypes' /\ \A d \in Streams : \A u \in Types : StreamInv(d, u)'
<1>1. /\ UNCHANGED <<wants, version, view, refused, nonce, up, down>>
      /\ UNCHANGED <<entryNonce, lastNonce, unheard>>
  BY DEF clientVars, nonceVars
<1>2. ClientTypes'
  BY <1>1 DEF ClientTypes, WireTypes
<1>3. /\ UNCHANGED <<pc, pending, sub, replied>> /\ snapshots' = [snapshots EXCEPT ![n] = snap]
      /\ \A m \in Nodes : watches'[m] \subseteq watches[m]
      /\ \A c \in Streams : \A i \in DOMAIN queue'[c] :
            \/ \E j \in DOMAIN queue[c] : queue'[c][i] = queue[c][j]
            \/ \E w \in watches[n] :
                  /\ w \in Watch /\ w.stream = c /\ w.type = queue'[c][i].type
                  /\ queue'[c][i] = createResponse(snap, w, round + 1)
  BY SetSnapshotEffect
<1>4. ASSUME NEW d \in Streams, NEW u \in Types PROVE StreamInv(d, u)'
  <2>1. NonceInv(d, u) /\ AskInv(d, u) /\ ContentInv(d, u) /\ BlankInv(d, u)
    <3>1. StreamInv(d, u)
      OBVIOUS
    <3> QED  BY <3>1 DEF StreamInv
  <2>2. Ups(d, u)' = Ups(d, u) /\ Downs(d, u)' = Downs(d, u) /\ (Replaced(d, u)' <=> Replaced(d, u))
    BY <1>1, <1>3 DEF Ups, Downs, Replaced
  <2>3. IsWaiting(d, u)' => IsWaiting(d, u)
    BY <1>3 DEF IsWaiting
  <2>4. IsQueued(d, u)' => IsQueued(d, u) \/ \E w \in watches[n] : w.stream = d /\ w.type = u
    <3> SUFFICES ASSUME IsQueued(d, u)'
                 PROVE  IsQueued(d, u) \/ \E w \in watches[n] : w.stream = d /\ w.type = u
      OBVIOUS
    <3>1. PICK i \in DOMAIN queue'[d] : queue'[d][i].type = u
      BY DEF IsQueued
    <3>2. CASE \E j \in DOMAIN queue[d] : queue'[d][i] = queue[d][j]
      BY <3>1, <3>2 DEF IsQueued
    <3>3. CASE \E w \in watches[n] : w.stream = d /\ w.type = queue'[d][i].type
      BY <3>1, <3>3
    <3>4. \/ \E j \in DOMAIN queue[d] : queue'[d][i] = queue[d][j]
          \/ \E w \in watches[n] : w.stream = d /\ w.type = queue'[d][i].type
      BY ZenonT(40), <1>3
    <3> QED  BY <3>2, <3>3, <3>4
  <2>5. IsQueued(d, u)' => IsQueued(d, u) \/ IsWaiting(d, u)
    BY <2>4 DEF IsWaiting
  <2>6. NonceInv(d, u)'
    <3>1. entryNonce[d][u] # 0 => ~IsWaiting(d, u)' /\ ~IsQueued(d, u)'
      BY <2>1, <2>3, <2>5 DEF NonceInv
    <3>2. /\ nonce[d][u] <= lastNonce[d] /\ entryNonce[d][u] <= lastNonce[d]
          /\ \A m \in Ups(d, u) : m.nonce <= lastNonce[d]
          /\ OneOf(down[d], u) /\ FromThen(up[d], u, nonce[d][u])
          /\ Replaced(d, u) => Downs(d, u) = {}
          /\ sub[d][u] = None => entryNonce[d][u] = 0
          /\ u \in replied[d] => entryNonce[d][u] # 0
          /\ pc[d] = "closed" => Ups(d, u) = {} /\ Downs(d, u) = {} /\ nonce[d][u] = 0
      BY <2>1 DEF NonceInv
    <3>3. \A r \in Downs(d, u) :
              /\ r.nonce = entryNonce[d][u] /\ r.nonce # 0 /\ r.nonce # nonce[d][u]
              /\ \A m \in Ups(d, u) : m.nonce # r.nonce
      BY <2>1 DEF NonceInv
    <3>4. Downs(d, u) = {} =>
              /\ entryNonce[d][u] \in {0, nonce[d][u]}
              /\ entryNonce[d][u] = 0 \/ Replaced(d, u) =>
                    \A m \in Ups(d, u) : m.nonce = nonce[d][u]
              /\ entryNonce[d][u] # 0 /\ ~Replaced(d, u) =>
                    \E m \in Ups(d, u) : m.nonce = nonce[d][u]
      BY <2>1 DEF NonceInv
    <3>5. /\ nonce' = nonce /\ entryNonce' = entryNonce /\ lastNonce' = lastNonce
          /\ up' = up /\ down' = down /\ sub' = sub /\ pc' = pc /\ replied' = replied
      BY <1>1, <1>3
    <3>6. Downs(d, u)' = {} =>
              /\ entryNonce'[d][u] \in {0, nonce'[d][u]}
              /\ entryNonce'[d][u] = 0 \/ Replaced(d, u)' =>
                    \A m \in Ups(d, u)' : m.nonce = nonce'[d][u]
              /\ entryNonce'[d][u] # 0 /\ ~Replaced(d, u)' =>
                    \E m \in Ups(d, u)' : m.nonce = nonce'[d][u]
      BY <2>2, <3>4, <3>5
    <3>7. \A r \in Downs(d, u)' :
              /\ r.nonce = entryNonce'[d][u] /\ r.nonce # 0 /\ r.nonce # nonce'[d][u]
              /\ \A m \in Ups(d, u)' : m.nonce # r.nonce
      BY <2>2, <3>3, <3>5
    <3>8. /\ OneOf(down[d], u)' /\ FromThen(up[d], u, nonce[d][u])'
          /\ \A m \in Ups(d, u)' : m.nonce <= lastNonce'[d]
      BY <2>2, <3>2, <3>5
    <3> QED  BY <2>2, <3>1, <3>2, <3>5, <3>6, <3>7, <3>8 DEF NonceInv
  <2>7. AskInv(d, u)'
    BY <1>1, <1>3, <2>1, <2>2 DEF AskInv
  <2>8. ContentInv(d, u)'
    <3>1. \A m \in Nodes : \A w \in watches'[m] :
              w.stream = d /\ w.type = u => w.versionInfo = version'[d][u]
      BY <1>1, <1>3, <2>1 DEF ContentInv
    <3>2. Entry(d, u)' = Entry(d, u)
      BY <1>1, <1>3 DEF Entry
    <3>3. ASSUME NEW i \in DOMAIN queue'[d], queue'[d][i].type = u
          PROVE  \E s \in Snapshots :
                     queue'[d][i] = createResponse(s, Entry(d, u)', queue'[d][i].round)
      <4>1. CASE \E j \in DOMAIN queue[d] : queue'[d][i] = queue[d][j]
        BY <2>1, <3>2, <3>3, <4>1 DEF ContentInv
      <4>2. CASE \E w \in watches[n] :
                     /\ w \in Watch /\ w.stream = d /\ w.type = queue'[d][i].type
                     /\ queue'[d][i] = createResponse(snap, w, round + 1)
        <5>1. PICK w \in watches[n] :
                  /\ w \in Watch /\ w.stream = d /\ w.type = u
                  /\ queue'[d][i] = createResponse(snap, w, round + 1)
          BY <3>3, <4>2
        <5>2. PICK e, r : e = Entry(d, u) /\ r = round + 1
          OBVIOUS
        <5>3. e.type = u /\ e.versionInfo = version[d][u] /\ e.sub = sub[d][u]
          BY <5>2 DEF Entry
        <5>4. w.versionInfo = version[d][u]
          BY <2>1, <5>1 DEF ContentInv
        <5>5. w.sub = sub[d][u]
          BY <5>1 DEF FitInv, WatchesFit
        <5>6. w.type = e.type /\ w.versionInfo = e.versionInfo /\ w.sub = e.sub
          BY <5>1, <5>3, <5>4, <5>5
        <5>7. createResponse(snap, w, r) = createResponse(snap, e, r)
          BY <5>6, SameResponse
        <5>8. queue'[d][i] = createResponse(snap, w, r)
          BY <5>1, <5>2
        <5>9. createResponse(snap, w, r).round = r
          BY RoundOfResponse
        <5>10. queue'[d][i] = createResponse(snap, e, queue'[d][i].round)
          BY <5>7, <5>8, <5>9
        <5> QED  BY <3>2, <5>2, <5>10
      <4> QED  BY <1>3, <4>1, <4>2
    <3>4. \A x : Holds(d, u, x) => Holds(d, u, x)'
      BY <1>1, <1>3, <2>2 DEF Holds, GivesUp
    <3>5. sub'[d][u] # None => \A x \in Known(sub'[d][u]) : Holds(d, u, x)'
      BY <1>3, <2>1, <3>4 DEF ContentInv
    <3>6. \A r \in Downs(d, u)' :
              /\ ~r.resp.heartbeat
              /\ \E s \in Snapshots :
                    r.resp.version = s[u].version /\ r.resp.resources \subseteq s[u].items
              /\ \A x \in Known(sub'[d][u]) : x \in r.resp.resources
                    \/ (u \notin FullStateTypes /\ r.resp.version = version'[d][u])
      BY <1>1, <1>3, <2>1, <2>2 DEF ContentInv
    <3>7. u \in FullStateTypes => \A x \in Names : view'[d][u][x] # None =>
              \E s \in Snapshots : s[u].version = version'[d][u] /\ x \in s[u].items
      BY <1>1, <2>1 DEF ContentInv
    <3> QED  BY <3>1, <3>3, <3>5, <3>6, <3>7 DEF ContentInv
  <2>9. BlankInv(d, u)'
    <3> SUFFICES ASSUME snapshots'[NodeOf[d]] = None
                 PROVE  /\ version'[d][u] = Blank /\ ~IsQueued(d, u)' /\ Downs(d, u)' = {}
                        /\ \A m \in Ups(d, u)' : m.req.versionInfo = Blank
      BY DEF BlankInv
    <3>1. NodeOf[d] \in Nodes /\ snapshots \in [Nodes -> Snapshot \cup {None}]
      BY SnapshotAssumption DEF IInv, TypeOK
    <3>2. snap # None
      BY SnapshotAssumption
    <3>3. NodeOf[d] # n /\ snapshots[NodeOf[d]] = None
      BY <1>3, <3>1, <3>2
    <3>4. \A w \in watches[n] : w.stream # d
      <4>1. \A m \in Nodes : \A w \in watches[m] : NodeOf[w.stream] = m
        BY DEF IInv, WatchesAreCancellable
      <4> QED  BY <3>3, <4>1
    <3>5. version[d][u] = Blank /\ ~IsQueued(d, u) /\ Downs(d, u) = {}
      BY <2>1, <3>3 DEF BlankInv
    <3>6. \A m \in Ups(d, u) : m.req.versionInfo = Blank
      BY <2>1, <3>3 DEF BlankInv
    <3> QED  BY <1>1, <2>2, <2>4, <3>4, <3>5, <3>6
  <2> QED  BY <2>6, <2>7, <2>8, <2>9 DEF StreamInv
<1> QED  BY <1>2, <1>4

-----------------------------------------------------------------------------
(* The inductive invariant of the clients and the cache.                   *)

\* What the cache promises its streams, and what the clients make of it, while no snapshot is
\* cleared.
HoldInv ==
    /\ IInv /\ ServedInv /\ CoverInv(Wanted) /\ OwedInv
    /\ \A n \in Nodes : cleared[n] = 0
    /\ ClientTypes
    /\ \A c \in Streams : \A t \in Types : StreamInv(c, t)

\* Every step is one of the cache or of a stream, which takes a request that is on its way.
LEMMA ClientIsStep ==
    ASSUME ~Restarts, WireTypes, [ClientNext]_allVars
    PROVE  CacheStep(Arriving)
<1>1. CASE \E n \in Nodes : ControlPlane(n) \/ Heartbeat(n)
  BY <1>1 DEF ControlPlane, Heartbeat, CacheStep, CacheNext
<1>2. CASE ServerRestart
  BY <1>2 DEF ServerRestart
<1>3. CASE \E c \in Streams : ServerStep(c)
  BY <1>3, ServerIsStep
<1>4. CASE \E c \in Streams : Break(c) \/ ClientConnect(c)
  BY <1>4 DEF Break, ClientConnect, CacheStep
<1>5. CASE \E c \in Streams : \/ \E t \in Types : \E tokens \in Wanted[t] : ClientSubscribe(c, t, tokens)
                              \/ \E accepts \in BOOLEAN : ClientReceive(c, accepts)
  BY <1>5 DEF ClientSubscribe, ClientReceive, CacheStep
<1>6. CASE UNCHANGED allVars
  BY <1>6 DEF allVars, CacheStep
<1> QED  BY <1>1, <1>2, <1>3, <1>4, <1>5, <1>6 DEF ClientNext

\* The cache keeps its promises, whatever the clients send.
LEMMA PromisesKept ==
    ASSUME MaxClears = 0, NothingHeldBack(Wanted), BlankIsEmpty, HoldInv, CacheStep(Arriving)
    PROVE  /\ IInv' /\ ServedInv' /\ CoverInv(Wanted)' /\ OwedInv'
           /\ \A n \in Nodes : cleared'[n] = 0
<1>1. /\ IInv /\ ServedInv /\ CoverInv(Wanted) /\ OwedInv /\ WireTypes
      /\ \A n \in Nodes : cleared[n] = 0
  BY DEF HoldInv, ClientTypes
<1>2. Arriving \in [Streams -> SUBSET Request]
  BY <1>1, ArrivingType
<1>3. ASSUME NEW c \in Streams, NEW req \in Arriving[c]
      PROVE  /\ req.resourceNames \in Wanted[req.type]
             /\ snapshots[NodeOf[c]] = None => req.versionInfo = Blank
  <2>1. PICK i \in DOMAIN up[c] : req = up[c][i].req
    BY DEF Arriving
  <2>2. req.type \in Types
    BY ZenonT(40), <1>2 DEF Request
  <2>3. PICK t \in Types : t = req.type
    BY <2>2
  <2>4. up[c][i] \in Ups(c, t)
    BY <2>1, <2>3 DEF Ups, RequestsIn
  <2>5. AskInv(c, t) /\ BlankInv(c, t)
    <3>1. StreamInv(c, t)
      BY DEF HoldInv
    <3> QED  BY <3>1 DEF StreamInv
  <2>6. req.resourceNames \in Wanted[t]
    BY <2>1, <2>4, <2>5 DEF AskInv
  <2>7. snapshots[NodeOf[c]] = None => req.versionInfo = Blank
    BY <2>1, <2>4, <2>5 DEF BlankInv
  <2> QED  BY <2>3, <2>6, <2>7
<1>4. PICK requests \in [Streams -> SUBSET Request] : requests = Arriving
  BY <1>2
<1>5. CacheStep(requests)
  BY <1>4
<1>6. IInv'
  BY <1>1, <1>5, StepKept
<1>7. ServedInv' /\ CoverInv(Wanted)'
  <2>1. \A c \in Streams : \A req \in requests[c] : req.resourceNames \in Wanted[req.type]
    BY <1>3, <1>4
  <2> QED  BY <1>1, <1>5, <1>6, <2>1, StepServed
<1>8. OwedInv'
  <2>1. \A c \in Streams : \A req \in requests[c] :
            FirstRequest(c, req) /\ cleared[NodeOf[c]] = 0 /\ snapshots[NodeOf[c]] = None =>
                req.versionInfo = Blank
    BY <1>3, <1>4
  <2> QED  BY <1>1, <1>5, <2>1, StepOwes
<1>9. \A n \in Nodes : cleared'[n] = 0
  BY <1>1, <1>5, NotCleared
<1> QED  BY <1>6, <1>7, <1>8, <1>9

\* Every step keeps what the clients hold and what is on its way in step with the server.
LEMMA ClientsKept ==
    ASSUME ~Heartbeating, ~Restarts, MaxClears = 0, HoldInv, IInv', [ClientNext]_allVars
    PROVE  ClientTypes' /\ \A c \in Streams : \A t \in Types : StreamInv(c, t)'
<1>1. /\ IInv /\ FitInv /\ SnapshotsSet /\ ClientTypes
      /\ \A n \in Nodes : cleared[n] = 0
      /\ \A d \in Streams : \A u \in Types : StreamInv(d, u)
  BY DEF HoldInv, ServedInv, CoverInv
<1>2. CASE \E n \in Nodes : ControlPlane(n) \/ Heartbeat(n)
  <2>1. PICK n \in Nodes : ControlPlane(n) \/ Heartbeat(n)
    BY <1>2
  <2>2. ~Heartbeat(n)
    BY DEF Heartbeat, SendHeartbeats
  <2>3. ~ClearSnapshot(n)
    <3>1. ~(0 < 0)
      BY SMTT(30)
    <3> QED  BY <1>1, <3>1 DEF ClearSnapshot
  <2>4. PICK snap \in Snapshots : SetSnapshot(n, snap)
    BY <2>1, <2>2, <2>3 DEF ControlPlane
  <2>5. UNCHANGED <<clientVars, nonceVars>>
    BY <2>1, <2>2 DEF ControlPlane
  <2> QED  BY <1>1, <2>4, <2>5, SetSnapshotClients
<1>3. CASE ServerRestart
  BY <1>3 DEF ServerRestart
<1>4. ASSUME NEW c \in Streams, ServerStep(c)
      PROVE  ClientTypes' /\ \A d \in Streams : \A u \in Types : StreamInv(d, u)'
  <2>1. CASE ServerFirstRequest(c)
    BY <1>1, <2>1, FirstRequestClients
  <2>2. CASE ServerIgnores(c)
    BY <1>1, <2>2, IgnoreClients
  <2>3. CASE ServerCloses(c)
    BY <1>1, <2>3, CloseClients
  <2>4. CASE ServerDrains(c)
    BY <1>1, <2>4, DrainsClients
  <2>5. CASE ServerRewatches(c)
    BY <1>1, <2>5, RewatchClients
  <2>6. CASE ServerSends(c)
    BY <1>1, <2>6, SendsClients
  <2> QED  BY <1>4, <2>1, <2>2, <2>3, <2>4, <2>5, <2>6 DEF ServerStep
<1>5. ASSUME NEW c \in Streams, Break(c)
      PROVE  ClientTypes' /\ \A d \in Streams : \A u \in Types : StreamInv(d, u)'
  BY <1>1, <1>5, BreakClients
<1>6. ASSUME NEW c \in Streams, ClientConnect(c)
      PROVE  ClientTypes' /\ \A d \in Streams : \A u \in Types : StreamInv(d, u)'
  BY <1>1, <1>6, ConnectClients
<1>7. ASSUME NEW c \in Streams, NEW t \in Types, NEW tokens \in Wanted[t],
             ClientSubscribe(c, t, tokens)
      PROVE  ClientTypes' /\ \A d \in Streams : \A u \in Types : StreamInv(d, u)'
  BY <1>1, <1>7, SubscribeKept
<1>8. ASSUME NEW c \in Streams, NEW accepts \in BOOLEAN, ClientReceive(c, accepts)
      PROVE  ClientTypes' /\ \A d \in Streams : \A u \in Types : StreamInv(d, u)'
  BY <1>1, <1>8, ReceiveKept
<1>9. CASE UNCHANGED allVars
  <2>1. UNCHANGED vars /\ UNCHANGED <<clientVars, nonceVars>>
    BY <1>9 DEF allVars
  <2>2. \A d \in Streams : \A u \in Types : ServerStill(d, u) /\ StreamInv(d, u)
    BY <1>1, <2>1, VarsStill
  <2> QED  BY <1>1, <2>1, <2>2, StillClients
<1> QED  BY <1>2, <1>3, <1>4, <1>5, <1>6, <1>7, <1>8, <1>9 DEF ClientNext

\* At first the clients want and have nothing.
LEMMA ClientsInit ==
    ASSUME ClientInit
    PROVE  HoldInv
<1>1. Init /\ (\A n \in Nodes : cleared[n] = 0)
  BY DEF ClientInit, Init
<1>2. IInv
  BY <1>1, InitInvariant
<1>3. ServedInv /\ CoverInv(Wanted) /\ OwedInv
  BY <1>1, InitServed, InitOwes
<1>4. PICK zero \in Nat : zero = 0 /\ zero <= zero
  BY SMTT(30)
<1>5. ClientTypes
  <2>1. <<>> \in Seq(Messages) /\ <<>> \in Seq(Deliveries)
    BY SMTT(30)
  <2>2. up \in [Streams -> Seq(Messages)] /\ down \in [Streams -> Seq(Deliveries)]
    BY <2>1 DEF ClientInit
  <2>3. /\ nonce \in [Streams -> [Types -> Nat]] /\ entryNonce \in [Streams -> [Types -> Nat]]
        /\ lastNonce \in [Streams -> Nat]
    BY <1>4 DEF ClientInit
  <2>4. /\ version \in [Streams -> [Types -> VersionInfos]]
        /\ wants \in [Streams -> [Types -> (SUBSET Tokens) \cup {None}]]
    BY SnapshotAssumption DEF ClientInit
  <2>5. view \in [Streams -> [Types -> [Names -> VersionInfos \cup {None}]]]
    BY DEF ClientInit, NothingHeld
  <2>6. /\ refused \in [Streams -> [Types -> SUBSET Names]]
        /\ unheard \in [Streams -> [Types -> SUBSET Names]]
    BY DEF ClientInit
  <2> QED  BY <2>2, <2>3, <2>4, <2>5, <2>6 DEF ClientTypes, WireTypes
<1>6. ASSUME NEW c \in Streams, NEW t \in Types PROVE StreamInv(c, t)
  <2>1. up[c] = <<>> /\ down[c] = <<>> /\ queue[c] = <<>>
    BY DEF ClientInit, Init
  <2>2. /\ RequestsIn(up[c], t) = {} /\ ResponsesIn(down[c], t) = {} /\ OneOf(down[c], t)
        /\ (\A m : LastIs(up[c], t, m)) /\ \A k : FromThen(up[c], t, k)
    <3>1. PICK s : s = <<>>
      OBVIOUS
    <3>2. /\ \A u : RequestsIn(s, u) = {} /\ ResponsesIn(s, u) = {} /\ OneOf(s, u)
          /\ \A u, m : LastIs(s, u, m)
          /\ \A u, k : FromThen(s, u, k)
      BY <3>1, NothingOnItsWay
    <3> QED  BY <2>1, <3>1, <3>2
  <2>3. Ups(c, t) = {} /\ Downs(c, t) = {}
    BY <2>2 DEF Ups, Downs
  <2>4. DOMAIN queue[c] = {}
    <3>1. DOMAIN <<>> = {}
      BY SMTT(30)
    <3> QED  BY <2>1, <3>1
  <2>5. /\ nonce[c][t] = 0 /\ entryNonce[c][t] = 0 /\ lastNonce[c] = 0 /\ wants[c][t] = None
        /\ version[c][t] = Blank /\ pc[c] = "closed" /\ sub[c][t] = None /\ replied[c] = {}
        /\ \A n \in Nodes : watches[n] = {}
    BY DEF ClientInit, Init
  <2>6. \A n \in Names : view[c][t][n] = None
    BY DEF ClientInit, NothingHeld
  <2>7. ~Replaced(c, t) /\ ~IsWaiting(c, t) /\ ~IsQueued(c, t)
    BY <2>4, <2>5 DEF Replaced, IsWaiting, IsQueued
  <2>8. NonceInv(c, t)
    BY <1>4, <2>2, <2>3, <2>5, <2>7 DEF NonceInv
  <2>9. AskInv(c, t)
    BY <2>2, <2>3, <2>5, <2>7 DEF AskInv
  <2>10. ContentInv(c, t)
    BY <2>3, <2>4, <2>5, <2>6 DEF ContentInv
  <2>11. BlankInv(c, t)
    BY <2>3, <2>5, <2>7 DEF BlankInv
  <2> QED  BY <2>8, <2>9, <2>10, <2>11 DEF StreamInv
<1> QED  BY <1>1, <1>2, <1>3, <1>5, <1>6 DEF HoldInv

\* What the server believes and what is on its way make a settled client current.
LEMMA HoldIsCurrent ==
    ASSUME HoldInv
    PROVE  SettledClientIsCurrent
<1> SUFFICES ASSUME NEW c \in Streams, Settled(c), ~failed[NodeOf[c]], NEW t \in Types,
                    wants[c][t] # None, snapshots[NodeOf[c]] # None, ~HeldBack(c, t)
             PROVE  HoldsSnapshot(c, t)
  BY DEF SettledClientIsCurrent, Current
<1>1. /\ IInv /\ FitInv /\ EntriesServed /\ SnapshotsSet /\ OwedInv
      /\ \A n \in Nodes : cleared[n] = 0
  BY DEF HoldInv, ServedInv, CoverInv
<1>2. NonceInv(c, t) /\ AskInv(c, t) /\ ContentInv(c, t)
  <2>1. StreamInv(c, t)
    BY DEF HoldInv
  <2> QED  BY <2>1 DEF StreamInv
<1>3. Ups(c, t) = {} /\ Downs(c, t) = {} /\ ~IsQueued(c, t) /\ ~Replaced(c, t) /\ pc[c] # "closed"
  <2>1. pc[c] = "idle" /\ queue[c] = <<>> /\ up[c] = <<>> /\ down[c] = <<>>
    BY DEF Settled
  <2>2. PICK s : s = <<>>
    OBVIOUS
  <2>3. \A u : RequestsIn(s, u) = {} /\ ResponsesIn(s, u) = {}
    BY <2>2, NothingOnItsWay
  <2>4. Ups(c, t) = {} /\ Downs(c, t) = {}
    BY <2>1, <2>2, <2>3 DEF Ups, Downs
  <2>5. DOMAIN <<>> = {}
    BY SMTT(30)
  <2>6. ~IsQueued(c, t)
    BY <2>1, <2>5 DEF IsQueued
  <2> QED  BY <2>1, <2>4, <2>6 DEF Replaced
<1>4. sub[c][t] # None /\ Fits(sub[c][t], wants[c][t])
  BY <1>2, <1>3 DEF AskInv
<1>5. t \notin replied[c]
  BY <1>2, <1>3 DEF NonceInv
<1>6. IsWaiting(c, t)
  BY <1>1, <1>3, <1>4, <1>5 DEF EntriesServed
<1>7. PICK n \in Nodes : \E w \in watches[n] : w.stream = c /\ w.type = t
  BY <1>6 DEF IsWaiting
<1>8. PICK w \in watches[n] : w.stream = c /\ w.type = t
  BY <1>7
<1>9. NodeOf[c] = n
  <2>1. \A m \in Nodes : \A v \in watches[m] : NodeOf[v.stream] = m
    BY <1>1 DEF IInv, WatchesAreCancellable
  <2> QED  BY <1>8, <2>1
<1>10. w.sub = sub[c][t] /\ w.versionInfo = version[c][t]
  <2>1. w.sub = sub[c][t]
    BY <1>1, <1>8 DEF FitInv, WatchesFit
  <2>2. w.versionInfo = version[c][t]
    BY <1>2, <1>8 DEF ContentInv
  <2> QED  BY <2>1, <2>2
<1>11. PICK snap \in Snapshots : snap = snapshots[n]
  BY <1>1, <1>9 DEF SnapshotsSet
<1>12. OwedNothing(snap, w)
  BY <1>1, <1>8, <1>9, <1>11 DEF OwedInv
<1>13. Watched(sub[c][t]) = Asked(wants[c][t])
  BY <1>4, FitsWatched
<1>14. NothingChanged(snap, w)
  <2>1. Ads => snap[t].items \subseteq Asked(wants[c][t])
    BY <1>9, <1>11 DEF HeldBack
  <2>2. ~Missing(snap, w)
    BY <1>8, <1>10, <1>13, <2>1 DEF Missing
  <2> QED  BY <1>12, <2>2 DEF OwedNothing
<1>15. /\ snap[t].version = version[c][t]
       /\ snap[t].items \cap Asked(wants[c][t]) \subseteq Known(sub[c][t])
  BY <1>8, <1>10, <1>13, <1>14 DEF NothingChanged, Changed
<1>16. ASSUME NEW x \in (snap[t].items \cap Asked(wants[c][t])) \ (refused[c][t] \cup unheard[c][t])
       PROVE  view[c][t][x] = snap[t].version
  <2>1. Holds(c, t, x)
    BY <1>2, <1>4, <1>15 DEF ContentInv
  <2>2. ~GivesUp(c, t, x)
    BY <1>3 DEF GivesUp
  <2> QED  BY <1>3, <1>15, <2>1, <2>2 DEF Holds
<1>17. ASSUME t \in FullStateTypes, NEW x \in Names \ snap[t].items PROVE view[c][t][x] = None
  <2> SUFFICES ASSUME view[c][t][x] # None PROVE FALSE
    OBVIOUS
  <2>1. PICK s \in Snapshots : s[t].version = version[c][t] /\ x \in s[t].items
    BY <1>2, <1>17 DEF ContentInv
  <2>2. s[t].items = snap[t].items
    BY ZenonT(40), <1>15, <2>1, SnapshotAssumption
  <2> QED  BY <2>1, <2>2
<1> QED  BY <1>9, <1>11, <1>16, <1>17 DEF HoldsSnapshot

\* Once nothing is on its way a client holds all it asked for of the snapshot of its node,
\* whatever it acknowledged, rejected or asked for again and whatever streams broke before:
\* createResponse sends what the server does not believe the client to have, and what it
\* believes is so.  The cache sends no heartbeats, is not cleared and does not restart, ADS
\* mode holds back none of the lists of the clients, and a type without a version has no
\* resources.
THEOREM SettledClients ==
    ASSUME ~Heartbeating, ~Restarts, MaxClears = 0, NothingHeldBack(Wanted), BlankIsEmpty
    PROVE  ClientSpec => []SettledClientIsCurrent
<1>1. ClientInit => HoldInv
  BY ClientsInit
<1>2. HoldInv /\ [ClientNext]_allVars => HoldInv'
  <2> SUFFICES ASSUME HoldInv, [ClientNext]_allVars PROVE HoldInv'
    OBVIOUS
  <2>1. CacheStep(Arriving)
    BY ClientIsStep DEF HoldInv, ClientTypes
  <2>2. /\ IInv' /\ ServedInv' /\ CoverInv(Wanted)' /\ OwedInv'
        /\ \A n \in Nodes : cleared'[n] = 0
    BY <2>1, PromisesKept
  <2>3. ClientTypes' /\ \A c \in Streams : \A t \in Types : StreamInv(c, t)'
    BY <2>2, ClientsKept
  <2> QED  BY <2>2, <2>3 DEF HoldInv
<1>3. HoldInv => SettledClientIsCurrent
  BY HoldIsCurrent
<1> QED  BY <1>1, <1>2, <1>3, PTL DEF ClientSpec
=============================================================================
