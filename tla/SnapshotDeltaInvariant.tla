------------------------- MODULE SnapshotDeltaInvariant ------------------------
(***************************************************************************)
(* The inductive invariant of SnapshotDelta, and that every action         *)
(* preserves it: the delta watches, their ids and cancel functions, and the*)
(* responses that a muxed channel may hold of each type.  Then what the    *)
(* steps preserve besides: the order of the responses in a channel, and,   *)
(* when every resource can be marshalled, that the server is right about   *)
(* what a client holds.                                                    *)
(***************************************************************************)
EXTENDS SnapshotDelta, TLAPS

\* A leaf is for Zenon, or for the SMT solver where it cites it: arithmetic and sequences.
USE Zenon

-----------------------------------------------------------------------------
(* The inductive invariant.                                                *)

\* The control plane's snapshots are the only ones.
KnownSnapshots == \A n \in Nodes : snapshots[n] \in Snapshots \cup {None}

\* Delta watch ids are handed out once.
DeltaWatchIds ==
    \A m, n \in Nodes : \A v \in deltaWatches[m], w \in deltaWatches[n] :
        w.id <= deltaWatchCount /\ (v.id = w.id => v = w)

\* The stream has an open watch for the type.
DeltaWaiting(d, t) == \E n \in Nodes : \E w \in deltaWatches[n] : w.stream = d /\ w.type = t

\* The responses of a type in a channel: some, at most one, at most two.
Has(q, t) == \E i \in DOMAIN q : q[i].type = t

One(q, t) == \A i, j \in DOMAIN q : q[i].type = t /\ q[j].type = t => i = j

Two(q, t) ==
    \A i, j, k \in DOMAIN q :
        q[i].type = t /\ q[j].type = t /\ q[k].type = t => i = j \/ j = k \/ i = k

\* The stream is handling a request.
Busy(d) == deltaPc[d] \in {"drained", "cancelled"}

\* A type has no more than two responses, counting the one its open watch may still
\* get, and no more than one unless a response was overtaken.
Room(q, t, waiting, strict) ==
    /\ Two(q, t)
    /\ waiting => One(q, t)
    /\ strict => One(q, t) /\ ~(waiting /\ Has(q, t))

\* The muxed channel of every stream.
DeltaRoom ==
    \A d \in DeltaStreams : \A t \in Types :
        Room(muxed[d], t, DeltaWaiting(d, t), Busy(d) \/ t \notin overtaken[d])

\* While a request replaces a watch entry, the old watch is gone.
DeltaReplacing ==
    \A d \in DeltaStreams :
        /\ Busy(d) => deltaPending[d] # None
        /\ deltaPc[d] = "cancelled" => /\ deltaSub[d][deltaPending[d].type] # None
                                       /\ ~DeltaWaiting(d, deltaPending[d].type)

\* A type without a watch entry has no watch and, until the end of the stream, no response.
DeltaEntries ==
    \A d \in DeltaStreams : \A t \in Types :
        deltaSub[d][t] = None =>
            ~DeltaWaiting(d, t) /\ (deltaPc[d] # "closing" => ~Has(muxed[d], t))

\* A stream that has ended has no watch entries.
DeltaClosed == \A d \in DeltaStreams : deltaPc[d] = "closed" => deltaSub[d] = NoEntries

\* The inductive invariant.
DeltaIInv ==
    /\ DeltaTypeOK
    /\ KnownSnapshots
    /\ NoSendOnClosedChannel
    /\ DeltaWatchIds
    /\ DeltaRoom
    /\ DeltaReplacing
    /\ DeltaEntries
    /\ DeltaClosed

-----------------------------------------------------------------------------
(* Types of the operators.                                                 *)

\* The delta subscriptions the server builds from a request are well formed:
\* NewDeltaSubscription and UpdateResourceSubscriptions.
LEMMA DeltaSubscriptionType ==
    ASSUME NEW subscribed \in SUBSET Tokens, NEW unsubscribed \in Seq(Tokens)
    PROVE  /\ \A s \in DeltaSub : UpdateResourceSubscriptions(s, subscribed, unsubscribed) \in DeltaSub
           /\ \A known \in [Names -> Values \cup {None}] :
                 NewDeltaSubscription(subscribed, unsubscribed, known, LegacyWildcard) \in DeltaSub
<1>1. ASSUME NEW s \in DeltaSub
      PROVE  UpdateResourceSubscriptions(s, subscribed, unsubscribed) \in DeltaSub
  BY SMTT(30), TokenAssumption
     DEF UpdateResourceSubscriptions, SubscriptionsOver, Tokens, DeltaSub, DeltaVersions
<1>2. ASSUME NEW known \in [Names -> Values \cup {None}]
      PROVE  newSubscription(subscribed = {}, LegacyWildcard, known) \in DeltaSub
  <2>1. LegacyWildcard \in BOOLEAN
    BY SnapshotAssumption DEF SnapshotAssumption
  <2>2. known \in [Names -> DeltaVersions \cup {None}]
    BY DEF DeltaVersions
  <2> QED  BY <2>1, <2>2 DEF newSubscription, SubscriptionsOver, DeltaSub
<1> QED  BY <1>1, <1>2 DEF NewDeltaSubscription

\* So is one that records a response: SetReturnedResources.
LEMMA DeltaReturnedType ==
    ASSUME NEW s \in DeltaSub, NEW r \in [Names -> DeltaVersions \cup {None}]
    PROVE  SetReturnedResources(s, r) \in DeltaSub
  BY DEF SetReturnedResources, SubscriptionsOver, DeltaSub

\* ConstructVersionMap gives every name the hash of its resource, or the empty version,
\* and keeps a map that exists.
LEMMA MapFacts ==
    ASSUME DeltaTypeOK, NEW snap \in Snapshots, NEW map \in ConstructVersionMap(snap)
    PROVE  /\ map \in VersionMap
           /\ versionMap[snap] # None => map = versionMap[snap]
           /\ versionMap[snap] = None =>
                 \A t \in Types : \A n \in Names : map[t][n] \in {Contents[snap][t][n], Blank}
<1>1. Contents[snap] \in [Types -> [Names -> Values]]
  BY SnapshotDeltaAssumption DEF SnapshotDeltaAssumption
<1>2. ASSUME NEW done
      PROVE  /\ HashesOf(snap, done) \in VersionMap
             /\ \A t \in Types : \A n \in Names :
                   HashesOf(snap, done)[t][n] \in {Contents[snap][t][n], Blank}
  BY <1>1 DEF HashesOf, VersionMap, DeltaVersions
<1>3. CASE versionMap[snap] # None
  <2>1. map = versionMap[snap]
    BY <1>3 DEF ConstructVersionMap
  <2> QED  BY <1>3, <2>1 DEF DeltaTypeOK
<1>4. CASE versionMap[snap] = None
  <2>1. \E done : map = HashesOf(snap, done)
    BY <1>4 DEF ConstructVersionMap, WholeMap, PartialMaps
  <2> QED  BY <1>2, <1>4, <2>1
<1> QED  BY <1>3, <1>4

\* createDeltaResponse makes a response of the type of the watch.
LEMMA DeltaResponseType ==
    ASSUME NEW snap \in Snapshots, NEW map \in VersionMap, NEW w \in DeltaWatch, NEW r \in Nat
    PROVE  /\ createDeltaResponse(snap, map, w, r) \in DeltaResponse
           /\ createDeltaResponse(snap, map, w, r).type = w.type
           /\ createDeltaResponse(snap, map, w, r).round = r
<1>1. /\ w.type \in Types /\ Contents[snap][w.type] \in [Names -> Values]
      /\ map[w.type] \in [Names -> DeltaVersions]
      /\ w.sub.returnedResources \in [Names -> DeltaVersions \cup {None}]
  <2>1. w.type \in Types /\ w.sub \in DeltaSub
    BY DEF DeltaWatch
  <2>2. w.sub.returnedResources \in [Names -> DeltaVersions \cup {None}]
    BY <2>1 DEF DeltaSub, SubscriptionsOver
  <2>3. Contents[snap] \in [Types -> [Names -> Values]]
    BY SnapshotDeltaAssumption DEF SnapshotDeltaAssumption
  <2> QED  BY <2>1, <2>2, <2>3 DEF VersionMap
<1>2. DeltaRemoved(snap, w) \in SUBSET Names
  BY DEF DeltaRemoved, Known
<1> HIDE DEF DeltaRemoved, DeltaChanged
<1> QED  BY <1>1, <1>2 DEF createDeltaResponse, DeltaResponse

\* What a client holds is well formed: it applies a response, or drops what it gives up.
LEMMA ViewType ==
    ASSUME NEW v \in [Names -> Values \cup {None}]
    PROVE  /\ \A resp \in DeltaResponse : Applied(v, resp) \in [Names -> Values \cup {None}]
           /\ \A tokens : Dropped(v, tokens) \in [Names -> Values \cup {None}]
<1>1. ASSUME NEW resp \in DeltaResponse PROVE Applied(v, resp) \in [Names -> Values \cup {None}]
  <2>1. resp.resources \in [Names -> Values \cup {None}]
    BY DEF DeltaResponse
  <2> QED  BY <2>1 DEF Applied
<1>2. ASSUME NEW tokens PROVE Dropped(v, tokens) \in [Names -> Values \cup {None}]
  BY DEF Dropped
<1> QED  BY <1>1, <1>2

\* The share of a delta stream is a sequence of its watches without repetition.
LEMMA DeltaShareFacts ==
    ASSUME NEW ws, NEW q \in Shares(DeltaStreams, ws), NEW d \in DeltaStreams
    PROVE  /\ q[d] \in Seq(ws)
           /\ \A i \in DOMAIN q[d] : q[d][i] \in ws /\ q[d][i].stream = d
           /\ \A i, j \in DOMAIN q[d] : q[d][i] = q[d][j] => i = j
<1> DEFINE S == {w \in ws : w.stream = d}
<1>1. PICK m \in 0 .. Cardinality(S) : q[d] \in Bijection(1 .. m, S)
  BY DEF Shares, Orders
<1>2. m \in Nat /\ q[d] \in [1 .. m -> ws]
  BY SMTT(30), <1>1 DEF Bijection, Injection
<1>3. \A i \in DOMAIN q[d] : q[d][i] \in S
  BY <1>1 DEF Bijection, Injection
<1>4. \A i, j \in DOMAIN q[d] : q[d][i] = q[d][j] => i = j
  BY <1>1 DEF Bijection, Injection, IsInjective
<1> QED  BY SMTT(30), <1>2, <1>3, <1>4

-----------------------------------------------------------------------------
(* The responses of a type in a channel.                                   *)

\* Responses are added, at most one of the type.
LEMMA RoomConcat ==
    ASSUME NEW R, NEW q \in Seq(R), NEW new \in Seq(R), NEW t, One(new, t)
    PROVE  /\ Has(q \o new, t) => Has(q, t) \/ Has(new, t)
           /\ ~Has(new, t) => /\ One(q, t) => One(q \o new, t)
                              /\ Two(q, t) => Two(q \o new, t)
           /\ One(q, t) => Two(q \o new, t)
           /\ ~Has(q, t) => One(q \o new, t)
<1> DEFINE s == q \o new
           Old(i) == i \in DOMAIN q /\ s[i] = q[i]
           New(i) == i - Len(q) \in DOMAIN new /\ s[i] = new[i - Len(q)]
<1>1. \A i \in DOMAIN s : Old(i) \/ New(i)
  BY SMTT(30)
<1>2. \A i, j \in DOMAIN s : i - Len(q) = j - Len(q) => i = j
  BY SMTT(30)
<1> HIDE DEF s
<1>3. \A i, j \in DOMAIN s : s[i].type = t /\ s[j].type = t /\ New(i) /\ New(j) => i = j
  BY <1>2 DEF One
<1>4. \A i \in DOMAIN s : s[i].type = t => (Old(i) /\ Has(q, t)) \/ (New(i) /\ Has(new, t))
  BY <1>1 DEF Has
<1>5. Has(s, t) => Has(q, t) \/ Has(new, t)
  BY <1>4 DEF Has
<1>6. ASSUME ~Has(new, t) PROVE (One(q, t) => One(s, t)) /\ (Two(q, t) => Two(s, t))
  <2>1. \A i \in DOMAIN s : s[i].type = t => Old(i)
    BY <1>4, <1>6
  <2> QED  BY SMTT(30), <2>1 DEF One, Two
<1>7. ASSUME One(q, t) PROVE Two(s, t)
  <2>1. \A i, j \in DOMAIN s : s[i].type = t /\ s[j].type = t /\ Old(i) /\ Old(j) => i = j
    BY <1>7 DEF One
  <2> HIDE DEF Old, New
  <2> QED  BY SMTT(30), <1>1, <1>3, <2>1 DEF Two
<1>8. ASSUME ~Has(q, t) PROVE One(s, t)
  BY <1>3, <1>4, <1>8 DEF One
<1> QED  BY <1>5, <1>6, <1>7, <1>8 DEF s

\* The first response is taken.
LEMMA RoomTail ==
    ASSUME NEW R, NEW q \in Seq(R), q # <<>>, NEW t
    PROVE  /\ Tail(q) \in Seq(R)
           /\ \A j \in DOMAIN Tail(q) : j \in Nat /\ j + 1 \in DOMAIN q /\ Tail(q)[j] = q[j + 1]
           /\ Has(Tail(q), t) => Has(q, t)
           /\ One(q, t) => One(Tail(q), t)
           /\ Two(q, t) => Two(Tail(q), t)
           /\ q[1].type = t /\ One(q, t) => ~Has(Tail(q), t)
<1>1. /\ Tail(q) \in Seq(R) /\ 1 \in DOMAIN q
      /\ \A j \in DOMAIN Tail(q) : j \in Nat /\ j + 1 \in DOMAIN q /\ Tail(q)[j] = q[j + 1]
      /\ \A j \in DOMAIN Tail(q) : j + 1 # 1
  BY SMTT(30)
<1>2. \A i, j \in DOMAIN Tail(q) : i + 1 = j + 1 => i = j
  BY SMTT(30), <1>1
<1>3. Has(Tail(q), t) => Has(q, t)
  BY <1>1 DEF Has
<1>4. One(q, t) => One(Tail(q), t)
  BY <1>1, <1>2 DEF One
<1>5. Two(q, t) => Two(Tail(q), t)
  BY SMTT(30), <1>1, <1>2 DEF Two
<1>6. q[1].type = t /\ One(q, t) => ~Has(Tail(q), t)
  BY <1>1 DEF One, Has
<1> QED  BY <1>1, <1>3, <1>4, <1>5, <1>6

\* Watches of the type that are open are answered, or fewer are open.
LEMMA RoomAnswered ==
    ASSUME NEW R, NEW q \in Seq(R), NEW new \in Seq(R), NEW t, NEW waiting, NEW after, NEW strict,
           Room(q, t, waiting, strict), One(new, t),
           Has(new, t) => waiting /\ ~after, after => waiting
    PROVE  Room(q \o new, t, after, strict)
<1>1. /\ Has(q \o new, t) => Has(q, t) \/ Has(new, t)
      /\ ~Has(new, t) => /\ One(q, t) => One(q \o new, t)
                         /\ Two(q, t) => Two(q \o new, t)
      /\ One(q, t) => Two(q \o new, t)
      /\ ~Has(q, t) => One(q \o new, t)
  BY RoomConcat
<1> QED  BY <1>1 DEF Room

\* Responses of other types change nothing.
LEMMA RoomOther ==
    ASSUME NEW R, NEW q \in Seq(R), NEW resp \in R, NEW t, resp.type # t
    PROVE  Has(Append(q, resp), t) = Has(q, t) /\ One(Append(q, resp), t) = One(q, t)
           /\ Two(Append(q, resp), t) = Two(q, t)
<1> DEFINE s == Append(q, resp)
<1>1. /\ \A i \in DOMAIN q : i \in DOMAIN s /\ s[i] = q[i]
      /\ \A i \in DOMAIN s : i \notin DOMAIN q => s[i] = resp
  BY SMTT(30)
<1> HIDE DEF s
<1>2. \A i \in DOMAIN s : s[i].type = t => i \in DOMAIN q /\ s[i] = q[i]
  BY <1>1
<1>3. Has(s, t) = Has(q, t)
  BY <1>1, <1>2 DEF Has
<1>4. One(s, t) = One(q, t)
  BY SMTT(30), <1>1, <1>2 DEF One
<1>5. Two(s, t) = Two(q, t)
  BY SMTT(30), <1>1, <1>2 DEF Two
<1> QED  BY <1>3, <1>4, <1>5 DEF s

-----------------------------------------------------------------------------
(* What steps have in common.                                              *)

\* Delta watches that stay keep their ids.
LEMMA FewerDeltaWatches ==
    ASSUME DeltaIInv, \A n \in Nodes : deltaWatches'[n] \subseteq deltaWatches[n],
           deltaWatchCount' = deltaWatchCount
    PROVE  /\ DeltaWatchIds'
           /\ \A d \in DeltaStreams : \A t \in Types : DeltaWaiting(d, t)' => DeltaWaiting(d, t)
<1>1. DeltaWatchIds'
  BY DEF DeltaIInv, DeltaWatchIds
<1>2. \A d \in DeltaStreams : \A t \in Types : DeltaWaiting(d, t)' => DeltaWaiting(d, t)
  BY DEF DeltaWaiting
<1> QED  BY <1>1, <1>2

\* At most one delta watch is open for a stream and a type.
LEMMA OneDeltaWatch ==
    ASSUME DeltaIInv, NEW m \in Nodes, NEW n \in Nodes,
           NEW v \in deltaWatches[m], NEW w \in deltaWatches[n],
           v.stream = w.stream, v.type = w.type
    PROVE  m = n /\ v = w
  BY SMTT(30) DEF DeltaIInv, NoSendOnClosedChannel, DeltaWatchIds

\* A step that opens no watch and queues no response, and neither takes a watch entry
\* away nor begins to replace one nor forgets an overtaken response.
LEMMA FewerDeltaKept ==
    ASSUME DeltaIInv,
           \A d \in DeltaStreams : \A t \in Types :
              /\ DeltaWaiting(d, t)' => DeltaWaiting(d, t)
              /\ Has(muxed'[d], t) => Has(muxed[d], t)
              /\ One(muxed[d], t) => One(muxed'[d], t)
              /\ Two(muxed[d], t) => Two(muxed'[d], t)
              /\ deltaSub'[d][t] = None => deltaSub[d][t] = None,
           \A d \in DeltaStreams :
              /\ Busy(d)' => Busy(d)
              /\ deltaPc[d] = "closing" => deltaPc'[d] = "closing"
              /\ overtaken'[d] = overtaken[d]
    PROVE  DeltaRoom' /\ DeltaEntries'
<1>1. DeltaRoom'
  BY DEF DeltaIInv, DeltaRoom, Room
<1>2. DeltaEntries'
  BY DEF DeltaIInv, DeltaEntries
<1> QED  BY <1>1, <1>2

\* The request being handled is one a client sends.
LEMMA PendingIsRequest ==
    ASSUME DeltaTypeOK, NEW d \in DeltaStreams, deltaPending[d] # None
    PROVE  /\ deltaPending[d] \in DeltaRequest /\ deltaPending[d].type \in Types
           /\ deltaPending[d].subscribe \in SUBSET Tokens
           /\ deltaPending[d].unsubscribe \in Seq(Tokens)
<1>1. deltaPending[d] \in DeltaRequest
  BY SnapshotDeltaAssumption DEF DeltaTypeOK, SnapshotDeltaAssumption
<1> QED  BY <1>1 DEF DeltaRequest

\* RespondDelta answers open watches, each once, and discards them.
LEMMA RespondDeltaKept ==
    ASSUME DeltaIInv, NEW n \in Nodes, NEW ws \in SUBSET deltaWatches[n],
           NEW q \in Shares(DeltaStreams, ws), NEW response \in [ws -> DeltaResponse],
           \A w \in ws : response[w].type = w.type, RespondDelta(n, ws, q, response),
           UNCHANGED <<deltaWatchCount, deltaPc, deltaPending, deltaSub, deltaCancel, overtaken>>
    PROVE  /\ deltaWatches' \in [Nodes -> SUBSET DeltaWatch]
           /\ muxed' \in [DeltaStreams -> Seq(DeltaResponse)]
           /\ NoSendOnClosedChannel' /\ DeltaWatchIds' /\ DeltaRoom' /\ DeltaReplacing'
           /\ DeltaEntries' /\ DeltaClosed'
<1> USE DEF DeltaIInv
<1>1. /\ deltaWatches \in [Nodes -> SUBSET DeltaWatch] /\ ws \in SUBSET DeltaWatch
      /\ muxed \in [DeltaStreams -> Seq(DeltaResponse)]
  BY DEF DeltaTypeOK
<1>2. /\ deltaWatches' \in [Nodes -> SUBSET DeltaWatch]
      /\ \A m \in Nodes : deltaWatches'[m] \subseteq deltaWatches[m]
      /\ deltaWatches'[n] = deltaWatches[n] \ ws
  BY <1>1 DEF RespondDelta
<1>3. /\ DeltaWatchIds'
      /\ \A d \in DeltaStreams : \A t \in Types : DeltaWaiting(d, t)' => DeltaWaiting(d, t)
  BY <1>2, FewerDeltaWatches
<1>4. NoSendOnClosedChannel'
  BY <1>2 DEF NoSendOnClosedChannel
<1> DEFINE new(d)   == [i \in DOMAIN q[d] |-> response[q[d][i]]]
           Share(d) == /\ q[d] \in Seq(ws)
                       /\ \A i \in DOMAIN q[d] : q[d][i] \in ws /\ q[d][i].stream = d
                       /\ \A i, j \in DOMAIN q[d] : q[d][i] = q[d][j] => i = j
<1>5. ASSUME NEW d \in DeltaStreams PROVE Share(d)
  BY DeltaShareFacts
<1>6. ASSUME NEW d \in DeltaStreams
      PROVE  /\ new(d) \in Seq(DeltaResponse) /\ muxed'[d] = muxed[d] \o new(d)
             /\ muxed'[d] \in Seq(DeltaResponse)
             /\ \A i \in DOMAIN new(d) : i \in DOMAIN q[d] /\ new(d)[i].type = q[d][i].type
  <2>1. new(d) \in Seq(DeltaResponse)
    BY SMTT(30), <1>5
  <2>2. muxed'[d] = muxed[d] \o new(d)
    BY DEF RespondDelta
  <2>3. \A i \in DOMAIN new(d) : i \in DOMAIN q[d] /\ new(d)[i].type = q[d][i].type
    BY <1>5
  <2> HIDE DEF new
  <2>4. muxed'[d] \in Seq(DeltaResponse)
    BY SMTT(30), <1>1, <2>1, <2>2
  <2> QED  BY <2>1, <2>2, <2>3, <2>4
<1> HIDE DEF new
<1>7. muxed' \in [DeltaStreams -> Seq(DeltaResponse)]
  BY <1>6 DEF RespondDelta
<1>8. ASSUME NEW d \in DeltaStreams, NEW t \in Types
      PROVE  One(new(d), t) /\ (Has(new(d), t) => DeltaWaiting(d, t) /\ ~DeltaWaiting(d, t)')
  <2>1. ASSUME NEW i \in DOMAIN new(d), new(d)[i].type = t
        PROVE  /\ q[d][i] \in deltaWatches[n] /\ q[d][i] \in ws
               /\ q[d][i].stream = d /\ q[d][i].type = t
    BY <1>5, <1>6, <2>1
  <2>2. One(new(d), t)
    <3> SUFFICES ASSUME NEW i \in DOMAIN new(d), NEW j \in DOMAIN new(d),
                        new(d)[i].type = t, new(d)[j].type = t
                 PROVE  i = j
      BY DEF One
    <3>1. q[d][i] = q[d][j]
      BY SMTT(30), <2>1, OneDeltaWatch
    <3>2. i \in DOMAIN q[d] /\ j \in DOMAIN q[d]
      BY <1>6
    <3>3. \A k, l \in DOMAIN q[d] : q[d][k] = q[d][l] => k = l
      BY <1>5
    <3> QED  BY <3>1, <3>2, <3>3
  <2>3. ASSUME Has(new(d), t) PROVE DeltaWaiting(d, t) /\ ~DeltaWaiting(d, t)'
    <3>1. PICK i \in DOMAIN new(d) : new(d)[i].type = t
      BY <2>3 DEF Has
    <3>2. DeltaWaiting(d, t)
      BY <2>1, <3>1 DEF DeltaWaiting
    <3>3. ASSUME NEW m \in Nodes, NEW w \in deltaWatches'[m], w.stream = d, w.type = t PROVE FALSE
      <4>1. m = n /\ w = q[d][i]
        <5>1. w \in deltaWatches[m]
          BY <1>2
        <5> QED  BY SMTT(30), <2>1, <3>1, <3>3, <5>1, OneDeltaWatch
      <4> QED  BY <1>2, <2>1, <3>1, <4>1
    <3> QED  BY <3>2, <3>3 DEF DeltaWaiting
  <2> QED  BY <2>2, <2>3
<1>9. DeltaRoom'
  <2> SUFFICES ASSUME NEW d \in DeltaStreams, NEW t \in Types
               PROVE  Room(muxed'[d], t, DeltaWaiting(d, t)', Busy(d)' \/ t \notin overtaken'[d])
    BY DEF DeltaRoom
  <2> DEFINE strict == Busy(d) \/ t \notin overtaken[d]
  <2>1. Room(muxed[d], t, DeltaWaiting(d, t), strict)
    BY DEF DeltaRoom
  <2>2. Room(muxed[d] \o new(d), t, DeltaWaiting(d, t)', strict)
    <3> HIDE DEF strict
    <3>1. muxed[d] \in Seq(DeltaResponse)
      BY <1>1
    <3> QED  BY <1>3, <1>6, <1>8, <2>1, <3>1, RoomAnswered
  <2>3. (Busy(d)' \/ t \notin overtaken'[d]) = strict
    BY DEF Busy
  <2> QED  BY <1>6, <2>2, <2>3
<1>10. DeltaEntries'
  <2> SUFFICES ASSUME NEW d \in DeltaStreams, NEW t \in Types, deltaSub[d][t] = None
               PROVE  ~DeltaWaiting(d, t)' /\ (deltaPc[d] # "closing" => ~Has(muxed'[d], t))
    BY DEF DeltaEntries
  <2>1. ~DeltaWaiting(d, t) /\ (deltaPc[d] # "closing" => ~Has(muxed[d], t))
    BY DEF DeltaEntries
  <2>2. Has(muxed'[d], t) => Has(muxed[d], t) \/ Has(new(d), t)
    <3>1. muxed[d] \in Seq(DeltaResponse)
      BY <1>1
    <3> QED  BY <1>6, <1>8, <3>1, RoomConcat
  <2> QED  BY <1>3, <1>8, <2>1, <2>2
<1>11. \A d \in DeltaStreams : deltaPending[d] # None => deltaPending[d].type \in Types
  BY PendingIsRequest
<1>12. DeltaReplacing'
  BY <1>3, <1>11 DEF DeltaReplacing, Busy
<1>13. DeltaClosed'
  BY DEF DeltaClosed
<1> QED  BY <1>2, <1>3, <1>4, <1>7, <1>9, <1>10, <1>12, <1>13

\* CreateDeltaWatch for the request that is being handled: its type has no watch, and
\* a response that is still queued counts as overtaken.
LEMMA AnswerOrOpenKept ==
    ASSUME DeltaIInv, NEW d \in DeltaStreams, NEW req, req = deltaPending[d],
           NEW s \in DeltaSub, NEW snap, NEW map,
           snap # None => snap \in Snapshots /\ map \in VersionMap,
           Busy(d), ~DeltaWaiting(d, req.type),
           AnswerOrOpen(d, s, req, snap, map),
           deltaPending' = [deltaPending EXCEPT ![d] = None],
           overtaken' \in [DeltaStreams -> SUBSET Types], overtaken[d] \subseteq overtaken'[d],
           \A e \in DeltaStreams : e # d => overtaken'[e] = overtaken[e],
           Has(muxed[d], req.type) => req.type \in overtaken'[d]
    PROVE  /\ deltaWatches' \in [Nodes -> SUBSET DeltaWatch] /\ deltaWatchCount' \in Nat
           /\ deltaPc' \in [DeltaStreams -> {"closed", "idle", "drained", "cancelled", "closing"}]
           /\ deltaPending' \in [DeltaStreams -> DeltaRequests \cup {None}]
           /\ deltaSub' \in [DeltaStreams -> [Types -> DeltaSub \cup {None}]]
           /\ deltaCancel' \in [DeltaStreams -> [Types -> Nat]]
           /\ muxed' \in [DeltaStreams -> Seq(DeltaResponse)]
           /\ NoSendOnClosedChannel' /\ DeltaWatchIds' /\ DeltaRoom' /\ DeltaReplacing'
           /\ DeltaEntries' /\ DeltaClosed'
<1> DEFINE t    == req.type
           n    == DeltaNodeOf[d]
           w    == [id |-> deltaWatchCount + 1, stream |-> d, type |-> t, sub |-> s]
           resp == createDeltaResponse(snap, map, w, 0)
           answers == snap # None /\ HasDeltaResponse(snap, map, w, s.wildcard /\ ~req.responseNonce)
<1>1. DeltaTypeOK /\ req # None /\ req \in DeltaRequest /\ t \in Types
  BY PendingIsRequest DEF DeltaIInv, DeltaReplacing
<1>2. n \in Nodes /\ s # None /\ w \in DeltaWatch /\ 0 \in Nat
  <2>1. deltaWatchCount + 1 \in Nat /\ 0 \in Nat
    BY SMTT(30), <1>1 DEF DeltaTypeOK
  <2>2. w \in DeltaWatch
    BY <1>1, <2>1 DEF DeltaWatch
  <2> QED  BY <2>1, <2>2, SnapshotDeltaAssumption DEF SnapshotDeltaAssumption
<1> DEFINE Answers == /\ answers
                      /\ muxed' = [muxed EXCEPT ![d] = Append(@, resp)]
                      /\ deltaCancel' = [deltaCancel EXCEPT ![d][t] = 0]
                      /\ UNCHANGED <<deltaWatches, deltaWatchCount>>
           Opened  == /\ deltaWatches' = [deltaWatches EXCEPT ![n] = @ \cup {w}]
                      /\ deltaWatchCount' = w.id
                      /\ deltaCancel' = [deltaCancel EXCEPT ![d][t] = w.id]
                      /\ UNCHANGED muxed
<1>3. Answers \/ Opened
  BY DEF AnswerOrOpen
<1>4. deltaSub' = [deltaSub EXCEPT ![d][t] = s] /\ deltaPc' = [deltaPc EXCEPT ![d] = "idle"]
  BY DEF AnswerOrOpen
<1>5. ASSUME answers PROVE resp \in DeltaResponse /\ resp.type = t
  <2>1. snap \in Snapshots /\ map \in VersionMap /\ w.type = t
    BY <1>5
  <2> HIDE DEF w
  <2> QED  BY <1>2, <2>1, DeltaResponseType
<1>6. /\ w.id = deltaWatchCount + 1 /\ w.stream = d /\ w.type = t
      /\ w.id \in Nat /\ deltaWatchCount \in Nat
  BY <1>1, <1>2 DEF DeltaWatch, DeltaTypeOK
<1> HIDE DEF n, w, resp, answers
<1>7. /\ deltaWatches' \in [Nodes -> SUBSET DeltaWatch] /\ deltaWatchCount' \in Nat
      /\ deltaCancel' \in [DeltaStreams -> [Types -> Nat]]
      /\ muxed' \in [DeltaStreams -> Seq(DeltaResponse)]
  <2>1. CASE Answers
    <3>1. Append(muxed[d], resp) \in Seq(DeltaResponse)
      BY SMTT(30), <1>1, <1>5, <2>1 DEF DeltaTypeOK
    <3> QED  BY <1>1, <1>2, <2>1, <3>1 DEF DeltaTypeOK
  <2>2. CASE Opened
    BY <1>1, <1>2, <1>6, <2>2 DEF DeltaTypeOK
  <2> QED  BY <1>3, <2>1, <2>2
<1>8. /\ deltaPc' \in [DeltaStreams -> {"closed", "idle", "drained", "cancelled", "closing"}]
      /\ deltaPending' \in [DeltaStreams -> DeltaRequests \cup {None}]
      /\ deltaSub' \in [DeltaStreams -> [Types -> DeltaSub \cup {None}]]
  BY <1>1, <1>4 DEF DeltaTypeOK
<1>9. /\ deltaPc'[d] = "idle" /\ deltaSub'[d][t] = s /\ deltaPc[d] # "closed"
      /\ \A e \in DeltaStreams : e # d =>
            /\ deltaPc'[e] = deltaPc[e] /\ deltaPending'[e] = deltaPending[e]
            /\ deltaSub'[e] = deltaSub[e] /\ muxed'[e] = muxed[e]
      /\ \A e \in DeltaStreams : \A u \in Types : ~(e = d /\ u = t) =>
            /\ deltaSub'[e][u] = deltaSub[e][u] /\ deltaCancel'[e][u] = deltaCancel[e][u]
  <2>1. /\ \A e \in DeltaStreams : e # d => muxed'[e] = muxed[e]
        /\ \A e \in DeltaStreams : \A u \in Types : ~(e = d /\ u = t) =>
              deltaCancel'[e][u] = deltaCancel[e][u]
    BY SMTT(30), <1>1, <1>3 DEF DeltaTypeOK
  <2>2. /\ \A e \in DeltaStreams : e # d =>
              /\ deltaPc'[e] = deltaPc[e] /\ deltaPending'[e] = deltaPending[e]
              /\ deltaSub'[e] = deltaSub[e]
        /\ \A e \in DeltaStreams : \A u \in Types : ~(e = d /\ u = t) =>
              deltaSub'[e][u] = deltaSub[e][u]
    BY <1>1, <1>4 DEF DeltaTypeOK
  <2>3. deltaPc'[d] = "idle" /\ deltaSub'[d][t] = s /\ deltaPc[d] # "closed"
    BY <1>1, <1>4 DEF DeltaTypeOK, Busy
  <2> QED  BY <2>1, <2>2, <2>3
<1>10. /\ \A m \in Nodes : \A v \in deltaWatches'[m] :
             v \in deltaWatches[m] \/ (m = n /\ v = w /\ Opened)
       /\ Opened => deltaCancel'[d][t] = w.id
       /\ deltaWatchCount' = deltaWatchCount \/ Opened
  <2>1. CASE Answers
    <3>1. ASSUME Opened PROVE deltaCancel'[d][t] = w.id
      BY <1>1, <3>1 DEF DeltaTypeOK
    <3> QED  BY <2>1, <3>1
  <2>2. CASE Opened
    <3>1. deltaCancel'[d][t] = w.id
      BY <1>1, <2>2 DEF DeltaTypeOK
    <3>2. \A m \in Nodes : \A v \in deltaWatches'[m] : v \in deltaWatches[m] \/ (m = n /\ v = w)
      BY <1>1, <1>2, <2>2 DEF DeltaTypeOK
    <3> QED  BY <2>2, <3>1, <3>2
  <2> QED  BY <1>3, <2>1, <2>2
<1>11. NoSendOnClosedChannel'
  <2>1. ASSUME NEW m \in Nodes, NEW v \in deltaWatches[m]
        PROVE  /\ DeltaNodeOf[v.stream] = m /\ deltaPc'[v.stream] # "closed"
               /\ deltaCancel'[v.stream][v.type] = v.id
    <3>1. v.stream \in DeltaStreams /\ v.type \in Types
      BY SMTT(30), <1>1 DEF DeltaTypeOK, DeltaWatch
    <3>2. ~(v.stream = d /\ v.type = t)
      BY DEF DeltaWaiting
    <3>3. /\ DeltaNodeOf[v.stream] = m /\ deltaPc[v.stream] # "closed"
          /\ deltaCancel[v.stream][v.type] = v.id
      BY DEF DeltaIInv, NoSendOnClosedChannel
    <3> QED  BY <1>9, <3>1, <3>2, <3>3
  <2>2. DeltaNodeOf[w.stream] = n /\ deltaPc'[w.stream] # "closed"
    BY <1>6, <1>9 DEF n
  <2> HIDE DEF Opened
  <2> QED  BY <1>6, <1>10, <2>1, <2>2 DEF NoSendOnClosedChannel
<1>12. DeltaWatchIds'
  <2>1. \A m \in Nodes : \A v \in deltaWatches[m] : v.id \in Nat /\ v.id <= deltaWatchCount
    BY SMTT(30), <1>1 DEF DeltaIInv, DeltaWatchIds, DeltaTypeOK, DeltaWatch
  <2> QED  BY SMTT(30), <1>6, <1>10, <2>1 DEF DeltaIInv, DeltaWatchIds
<1>13. ASSUME NEW e \in DeltaStreams, NEW u \in Types
       PROVE  DeltaWaiting(e, u)' => DeltaWaiting(e, u) \/ (e = d /\ u = t /\ Opened)
  BY <1>6, <1>10 DEF DeltaWaiting
<1>14. ASSUME NEW u \in Types, u # t
       PROVE  /\ Has(muxed'[d], u) = Has(muxed[d], u) /\ One(muxed'[d], u) = One(muxed[d], u)
              /\ Two(muxed'[d], u) = Two(muxed[d], u)
  <2>1. CASE Opened
    BY <2>1
  <2>2. CASE Answers
    <3>1. muxed'[d] = Append(muxed[d], resp) /\ muxed[d] \in Seq(DeltaResponse)
      BY <1>1, <2>2 DEF DeltaTypeOK
    <3>2. resp \in DeltaResponse /\ resp.type # u
      BY <1>5, <1>14, <2>2
    <3> DEFINE more == Append(muxed[d], resp)
    <3>3. Has(more, u) = Has(muxed[d], u) /\ One(more, u) = One(muxed[d], u)
          /\ Two(more, u) = Two(muxed[d], u)
      BY <3>1, <3>2, RoomOther
    <3> HIDE DEF more
    <3> QED  BY <3>1, <3>3 DEF more
  <2> QED  BY <1>3, <2>1, <2>2
<1>15. Two(muxed'[d], t) /\ (t \notin overtaken'[d] => One(muxed'[d], t))
  <2>1. One(muxed[d], t) /\ Two(muxed[d], t) /\ (t \notin overtaken'[d] => ~Has(muxed[d], t))
    BY <1>1 DEF DeltaIInv, DeltaRoom, Room
  <2>2. CASE Opened
    BY <2>1, <2>2
  <2>3. CASE Answers
    <3>1. /\ muxed[d] \in Seq(DeltaResponse) /\ <<resp>> \in Seq(DeltaResponse)
          /\ muxed'[d] = muxed[d] \o <<resp>>
      <4>1. muxed'[d] = Append(muxed[d], resp) /\ muxed[d] \in Seq(DeltaResponse)
        BY <1>1, <2>3 DEF DeltaTypeOK
      <4> QED  BY SMTT(30), <1>5, <2>3, <4>1
    <3>2. One(<<resp>>, t)
      BY SMTT(30) DEF One
    <3> DEFINE more == muxed[d] \o <<resp>>
    <3>3. Two(more, t) /\ (~Has(muxed[d], t) => One(more, t))
      BY <2>1, <3>1, <3>2, RoomConcat
    <3> HIDE DEF more
    <3> QED  BY <2>1, <3>1, <3>3 DEF more
  <2> QED  BY <1>3, <2>2, <2>3
<1>16. DeltaRoom'
  <2> SUFFICES ASSUME NEW e \in DeltaStreams, NEW u \in Types
               PROVE  Room(muxed'[e], u, DeltaWaiting(e, u)', Busy(e)' \/ u \notin overtaken'[e])
    BY DEF DeltaRoom
  <2>1. Room(muxed[e], u, DeltaWaiting(e, u), Busy(e) \/ u \notin overtaken[e])
    BY DEF DeltaIInv, DeltaRoom
  <2>2. CASE e # d
    <3>1. muxed'[e] = muxed[e] /\ overtaken'[e] = overtaken[e] /\ (Busy(e)' => Busy(e))
      BY <1>9, <2>2 DEF Busy
    <3> QED  BY <1>13, <2>1, <2>2, <3>1 DEF Room
  <2>3. CASE e = d /\ u # t
    BY <1>13, <1>14, <2>1, <2>3 DEF Room
  <2>4. CASE e = d /\ u = t
    <3>1. ~Busy(d)'
      BY <1>9 DEF Busy
    <3>2. One(muxed[d], t) /\ (u \notin overtaken'[d] => ~Has(muxed[d], t))
      BY <2>1, <2>4 DEF Room
    <3>3. DeltaWaiting(d, t)' => muxed' = muxed
      BY <1>1, <1>13
    <3> QED  BY <1>15, <2>4, <3>1, <3>2, <3>3 DEF Room
  <2> QED  BY <2>2, <2>3, <2>4
<1>17. DeltaEntries'
  <2> SUFFICES ASSUME NEW e \in DeltaStreams, NEW u \in Types, deltaSub'[e][u] = None
               PROVE  ~DeltaWaiting(e, u)' /\ (deltaPc'[e] # "closing" => ~Has(muxed'[e], u))
    BY DEF DeltaEntries
  <2>1. ~(e = d /\ u = t) /\ deltaSub[e][u] = None
    BY <1>2, <1>9
  <2>2. ~DeltaWaiting(e, u) /\ (deltaPc[e] # "closing" => ~Has(muxed[e], u))
    BY <2>1 DEF DeltaIInv, DeltaEntries
  <2> QED  BY <1>9, <1>13, <1>14, <2>1, <2>2 DEF Busy
<1>18. DeltaReplacing'
  <2> SUFFICES ASSUME NEW e \in DeltaStreams, Busy(e)'
               PROVE  /\ deltaPending'[e] # None
                      /\ deltaPc'[e] = "cancelled" => /\ deltaSub'[e][deltaPending'[e].type] # None
                                                      /\ ~DeltaWaiting(e, deltaPending[e].type)'
    BY <1>9 DEF DeltaReplacing, Busy
  <2>1. e # d /\ Busy(e)
    BY <1>9 DEF Busy
  <2>2. deltaPending[e] # None /\ deltaPending[e].type \in Types
    BY <1>1, <2>1, PendingIsRequest DEF DeltaIInv, DeltaReplacing
  <2> HIDE DEF Opened
  <2>3. /\ deltaPending'[e] = deltaPending[e] /\ deltaPc'[e] = deltaPc[e]
        /\ deltaSub'[e] = deltaSub[e]
    BY <1>9, <2>1
  <2>4. ASSUME deltaPc[e] = "cancelled" PROVE ~DeltaWaiting(e, deltaPending[e].type)'
    <3>1. ~DeltaWaiting(e, deltaPending[e].type)
      BY <2>4 DEF DeltaIInv, DeltaReplacing
    <3> QED  BY <1>13, <2>1, <2>2, <2>3, <3>1
  <2> QED  BY <2>1, <2>2, <2>3, <2>4 DEF DeltaIInv, DeltaReplacing
<1>19. DeltaClosed'
  BY <1>9 DEF DeltaIInv, DeltaClosed
<1> QED  BY <1>7, <1>8, <1>11, <1>12, <1>16, <1>17, <1>18, <1>19

\* The loop leaves with an error of CreateDeltaWatch.
LEMMA DeltaFailKept ==
    ASSUME DeltaIInv, NEW d \in DeltaStreams, Busy(d), DeltaFail(d),
           deltaPending' = [deltaPending EXCEPT ![d] = None],
           overtaken[d] \subseteq overtaken'[d],
           \A e \in DeltaStreams : e # d => overtaken'[e] = overtaken[e]
    PROVE  /\ deltaPc' \in [DeltaStreams -> {"closed", "idle", "drained", "cancelled", "closing"}]
           /\ deltaPending' \in [DeltaStreams -> DeltaRequests \cup {None}]
           /\ NoSendOnClosedChannel' /\ DeltaWatchIds' /\ DeltaRoom' /\ DeltaReplacing'
           /\ DeltaEntries' /\ DeltaClosed'
<1>1. /\ deltaPc' \in [DeltaStreams -> {"closed", "idle", "drained", "cancelled", "closing"}]
      /\ deltaPending' \in [DeltaStreams -> DeltaRequests \cup {None}]
  BY DEF DeltaFail, DeltaIInv, DeltaTypeOK
<1>2. /\ deltaPc'[d] = "closing"
      /\ \A e \in DeltaStreams : e # d =>
            deltaPc'[e] = deltaPc[e] /\ deltaPending'[e] = deltaPending[e]
  BY DEF DeltaFail, DeltaIInv, DeltaTypeOK
<1>3. UNCHANGED <<deltaWatches, deltaWatchCount, deltaSub, deltaCancel, muxed>>
  BY DEF DeltaFail
<1>4. \A e \in DeltaStreams : \A u \in Types : DeltaWaiting(e, u)' = DeltaWaiting(e, u)
  BY <1>3 DEF DeltaWaiting
<1>5. ~Busy(d)' /\ \A e \in DeltaStreams : e # d => Busy(e)' = Busy(e)
  BY <1>2 DEF Busy
<1>6. NoSendOnClosedChannel'
  <2>1. \A n \in Nodes : \A w \in deltaWatches[n] : w.stream \in DeltaStreams
    BY SMTT(30) DEF DeltaIInv, DeltaTypeOK, DeltaWatch
  <2> QED  BY <1>2, <1>3, <2>1 DEF DeltaIInv, NoSendOnClosedChannel
<1>7. DeltaWatchIds'
  BY SMTT(30), <1>3 DEF DeltaIInv, DeltaWatchIds
<1>8. DeltaRoom'
  BY <1>3, <1>4, <1>5 DEF DeltaIInv, DeltaRoom, Room
<1>9. DeltaReplacing'
  <2>1. \A e \in DeltaStreams : deltaPending[e] # None => deltaPending[e].type \in Types
    BY PendingIsRequest DEF DeltaIInv
  <2> QED  BY <1>2, <1>3, <1>4, <1>5, <2>1 DEF DeltaIInv, DeltaReplacing, Busy
<1>10. DeltaEntries'
  BY <1>2, <1>3, <1>4 DEF DeltaIInv, DeltaEntries
<1>11. DeltaClosed'
  BY <1>2, <1>3 DEF DeltaIInv, DeltaClosed
<1> QED  BY <1>1, <1>6, <1>7, <1>8, <1>9, <1>10, <1>11

\* Both ends of the call that a request leads to, through the MuxCache.
LEMMA CreateDeltaKept ==
    ASSUME DeltaIInv, NEW d \in DeltaStreams, NEW req, req = deltaPending[d],
           NEW s \in DeltaSub, Busy(d), ~DeltaWaiting(d, req.type),
           MuxCreateDeltaWatch(d, s, req), deltaPending' = [deltaPending EXCEPT ![d] = None],
           overtaken' \in [DeltaStreams -> SUBSET Types], overtaken[d] \subseteq overtaken'[d],
           \A e \in DeltaStreams : e # d => overtaken'[e] = overtaken[e],
           Has(muxed[d], req.type) => req.type \in overtaken'[d],
           UNCHANGED <<snapshots, deltaFailed, view>>
    PROVE  DeltaIInv'
<1> DEFINE snap == snapshots[DeltaNodeOf[d]]
<1>1. DeltaTypeOK /\ DeltaNodeOf[d] \in Nodes /\ snap \in Snapshots \cup {None}
  BY SnapshotDeltaAssumption DEF SnapshotDeltaAssumption, DeltaIInv, KnownSnapshots
<1>2. KnownSnapshots'
  BY DEF DeltaIInv, KnownSnapshots
<1>3. ASSUME DeltaFail(d), versionMap' \in [Snapshots -> VersionMap \cup {None}]
      PROVE  DeltaIInv'
  <2>1. DeltaTypeOK'
    <3>1. /\ deltaPc' \in [DeltaStreams -> {"closed", "idle", "drained", "cancelled", "closing"}]
          /\ deltaPending' \in [DeltaStreams -> DeltaRequests \cup {None}]
      BY <1>3, DeltaFailKept
    <3>2. UNCHANGED <<deltaWatches, deltaWatchCount, deltaSub, deltaCancel, muxed>>
      BY <1>3 DEF DeltaFail
    <3> QED  BY <1>1, <1>3, <3>1, <3>2 DEF DeltaTypeOK
  <2>2. /\ NoSendOnClosedChannel' /\ DeltaWatchIds' /\ DeltaRoom' /\ DeltaReplacing'
        /\ DeltaEntries' /\ DeltaClosed'
    BY <1>3, DeltaFailKept
  <2> QED  BY <1>2, <2>1, <2>2 DEF DeltaIInv
<1>4. ASSUME NEW from, NEW map, from # None => from \in Snapshots /\ map \in VersionMap,
             AnswerOrOpen(d, s, req, from, map),
             versionMap' \in [Snapshots -> VersionMap \cup {None}]
      PROVE  DeltaIInv'
  <2>1. /\ deltaWatches' \in [Nodes -> SUBSET DeltaWatch] /\ deltaWatchCount' \in Nat
        /\ deltaPc' \in [DeltaStreams -> {"closed", "idle", "drained", "cancelled", "closing"}]
        /\ deltaPending' \in [DeltaStreams -> DeltaRequests \cup {None}]
        /\ deltaSub' \in [DeltaStreams -> [Types -> DeltaSub \cup {None}]]
        /\ deltaCancel' \in [DeltaStreams -> [Types -> Nat]]
        /\ muxed' \in [DeltaStreams -> Seq(DeltaResponse)]
        /\ NoSendOnClosedChannel' /\ DeltaWatchIds' /\ DeltaRoom' /\ DeltaReplacing'
        /\ DeltaEntries' /\ DeltaClosed'
    BY <1>4, AnswerOrOpenKept
  <2>2. DeltaTypeOK'
    BY <1>1, <1>4, <2>1 DEF DeltaTypeOK
  <2> QED  BY <1>2, <2>1, <2>2 DEF DeltaIInv
<1>5. CASE req.type \notin Classified
  <2>1. DeltaFail(d) /\ UNCHANGED versionMap
    BY <1>5 DEF MuxCreateDeltaWatch
  <2> QED  BY <1>1, <1>3, <2>1 DEF DeltaTypeOK
<1>6. CASE CreateDeltaWatch(d, s, req) /\ snap = None
  <2>1. AnswerOrOpen(d, s, req, None, None) /\ UNCHANGED versionMap
    BY <1>6 DEF CreateDeltaWatch
  <2>2. versionMap' \in [Snapshots -> VersionMap \cup {None}]
    BY <1>1, <2>1 DEF DeltaTypeOK
  <2> QED  BY <1>4, <2>1, <2>2
<1>7. CASE CreateDeltaWatch(d, s, req) /\ snap # None
  <2>1. PICK map \in ConstructVersionMap(snap) :
           /\ versionMap' = [versionMap EXCEPT ![snap] = map]
           /\ IF VersionMapFails(snap) THEN DeltaFail(d) ELSE AnswerOrOpen(d, s, req, snap, map)
    BY <1>7 DEF CreateDeltaWatch
  <2>2. snap \in Snapshots /\ map \in VersionMap
    BY <1>1, <1>7, MapFacts
  <2>3. versionMap' \in [Snapshots -> VersionMap \cup {None}]
    BY <1>1, <2>1, <2>2 DEF DeltaTypeOK
  <2> QED  BY <1>3, <1>4, <2>1, <2>2, <2>3
<1> QED  BY <1>5, <1>6, <1>7 DEF MuxCreateDeltaWatch

\* The loops do not move, and the cache at most discards watches.
LEMMA DeltaCacheKept ==
    ASSUME DeltaIInv, KnownSnapshots', versionMap' \in [Snapshots -> VersionMap \cup {None}],
           deltaFailed' \in [Nodes -> BOOLEAN], deltaWatches' \in [Nodes -> SUBSET DeltaWatch],
           \A n \in Nodes : deltaWatches'[n] \subseteq deltaWatches[n],
           UNCHANGED <<deltaWatchCount, deltaStreamVars>>
    PROVE  DeltaIInv'
<1> USE DEF deltaStreamVars
<1>1. DeltaTypeOK'
  BY DEF DeltaIInv, DeltaTypeOK
<1>2. /\ DeltaWatchIds'
      /\ \A d \in DeltaStreams : \A t \in Types : DeltaWaiting(d, t)' => DeltaWaiting(d, t)
  BY FewerDeltaWatches
<1>3. NoSendOnClosedChannel'
  BY DEF DeltaIInv, NoSendOnClosedChannel
<1>4. DeltaRoom' /\ DeltaEntries'
  BY <1>2, FewerDeltaKept DEF Busy
<1>5. DeltaReplacing'
  <2>1. \A e \in DeltaStreams : deltaPending[e] # None => deltaPending[e].type \in Types
    BY PendingIsRequest DEF DeltaIInv
  <2> QED  BY <1>2, <2>1 DEF DeltaIInv, DeltaReplacing, Busy
<1>6. DeltaClosed'
  BY DEF DeltaIInv, DeltaClosed
<1> QED  BY <1>1, <1>2, <1>3, <1>4, <1>5, <1>6 DEF DeltaIInv

-----------------------------------------------------------------------------
(* The actions.                                                            *)

\* At first no stream is open, no snapshot set and no map built.
LEMMA DeltaInitHolds == DeltaInit => DeltaIInv
<1> SUFFICES ASSUME DeltaInit PROVE DeltaIInv
  OBVIOUS
<1> USE DEF DeltaInit
<1>1. DeltaTypeOK
  <2>1. 0 \in Nat /\ <<>> \in Seq(DeltaResponse)
    BY SMTT(30)
  <2>2. NothingKnown \in [Names -> Values \cup {None}]
    BY DEF NothingKnown
  <2> QED  BY <2>1, <2>2 DEF DeltaTypeOK, NoEntries
<1>2. KnownSnapshots
  BY DEF KnownSnapshots, Init
<1>3. \A d \in DeltaStreams : \A t \in Types : ~DeltaWaiting(d, t)
  BY DEF DeltaWaiting
<1>4. ASSUME NEW d \in DeltaStreams, NEW t \in Types
      PROVE  Two(muxed[d], t) /\ One(muxed[d], t) /\ ~Has(muxed[d], t)
  <2>1. DOMAIN muxed[d] = {}
    BY SMTT(30)
  <2> QED  BY <2>1 DEF Two, One, Has
<1>5. DeltaRoom /\ DeltaEntries
  BY <1>3, <1>4 DEF DeltaRoom, Room, DeltaEntries
<1>6. NoSendOnClosedChannel /\ DeltaWatchIds
  BY DEF NoSendOnClosedChannel, DeltaWatchIds
<1>7. DeltaReplacing /\ DeltaClosed
  BY DEF DeltaReplacing, DeltaClosed, Busy
<1> QED  BY <1>1, <1>2, <1>5, <1>6, <1>7 DEF DeltaIInv

\* respondDeltaWatches: a map is built, or kept, and the watches it concerns are answered.
LEMMA SetSnapshotBothKept ==
    ASSUME DeltaIInv, TypeOK, NEW n \in Nodes, NEW snap \in Snapshots, SetSnapshotBoth(n, snap)
    PROVE  DeltaIInv'
<1> USE DEF DeltaIInv
<1>1. KnownSnapshots'
  BY DEF SetSnapshotBoth, SetSnapshot, KnownSnapshots, TypeOK
<1>2. UNCHANGED <<deltaWatchCount, deltaPc, deltaPending, deltaSub, deltaCancel, view, overtaken>>
  BY DEF SetSnapshotBoth
<1>3. ASSUME NEW b \in BOOLEAN, DeltaUnanswered(n, b),
             versionMap' \in [Snapshots -> VersionMap \cup {None}]
      PROVE  DeltaIInv'
  <2>1. /\ UNCHANGED <<deltaWatchCount, deltaStreamVars>> /\ UNCHANGED deltaWatches
        /\ deltaFailed' \in [Nodes -> BOOLEAN]
    BY <1>2, <1>3 DEF DeltaUnanswered, deltaStreamVars, DeltaTypeOK
  <2>2. /\ deltaWatches' \in [Nodes -> SUBSET DeltaWatch]
        /\ \A m \in Nodes : deltaWatches'[m] \subseteq deltaWatches[m]
    BY <2>1 DEF DeltaTypeOK
  <2> QED  BY <1>1, <1>3, <2>1, <2>2, DeltaCacheKept
<1>4. versionMap \in [Snapshots -> VersionMap \cup {None}]
  BY DEF DeltaTypeOK
<1>5. CASE failed'[n]
  BY <1>3, <1>4, <1>5 DEF SetSnapshotBoth
<1>6. CASE ~failed'[n] /\ deltaWatches[n] = {}
  BY <1>3, <1>4, <1>6 DEF SetSnapshotBoth, respondDeltaWatches
<1>7. CASE ~failed'[n] /\ deltaWatches[n] # {}
  <2>1. PICK map \in ConstructVersionMap(snap) :
          /\ versionMap' = [versionMap EXCEPT ![snap] = map]
          /\ IF VersionMapFails(snap)
             THEN DeltaUnanswered(n, TRUE)
             ELSE \E done \in Answered(DeltaDue(n, snap, map)) :
                  \E q \in orderResponseWatches(DeltaStreams, done) :
                    /\ RespondDelta(n, done, q, [w \in done |->
                                          createDeltaResponse(snap, map, w, round + 1)])
                    /\ deltaFailed' = [deltaFailed EXCEPT ![n] = (done # DeltaDue(n, snap, map))]
    BY <1>7 DEF SetSnapshotBoth, respondDeltaWatches
  <2>2. map \in VersionMap
    BY MapFacts
  <2>3. versionMap' \in [Snapshots -> VersionMap \cup {None}]
    BY <1>4, <2>1, <2>2
  <2>4. CASE VersionMapFails(snap)
    BY <1>3, <2>1, <2>3, <2>4
  <2>5. CASE ~VersionMapFails(snap)
    <3>1. PICK done \in Answered(DeltaDue(n, snap, map)) :
            \E q \in orderResponseWatches(DeltaStreams, done) :
              /\ RespondDelta(n, done, q, [w \in done |->
                                    createDeltaResponse(snap, map, w, round + 1)])
              /\ deltaFailed' = [deltaFailed EXCEPT ![n] = (done # DeltaDue(n, snap, map))]
      BY <2>1, <2>5
    <3> DEFINE response == [w \in done |-> createDeltaResponse(snap, map, w, round + 1)]
    <3>2. PICK q \in orderResponseWatches(DeltaStreams, done) :
            /\ RespondDelta(n, done, q, response)
            /\ deltaFailed' = [deltaFailed EXCEPT ![n] = (done # DeltaDue(n, snap, map))]
      BY <3>1
    <3>3. /\ done \in SUBSET deltaWatches[n] /\ done \in SUBSET DeltaWatch
          /\ q \in Shares(DeltaStreams, done)
      BY DEF Answered, DeltaDue, orderResponseWatches, DeltaTypeOK
    <3>4. /\ response \in [done -> DeltaResponse] /\ \A w \in done : response[w].type = w.type
      <4>1. round + 1 \in Nat
        BY SMTT(30) DEF TypeOK
      <4> QED  BY <2>2, <3>3, <4>1, DeltaResponseType
    <3> HIDE DEF response
    <3>5. /\ deltaWatches' \in [Nodes -> SUBSET DeltaWatch]
          /\ muxed' \in [DeltaStreams -> Seq(DeltaResponse)]
          /\ NoSendOnClosedChannel' /\ DeltaWatchIds' /\ DeltaRoom' /\ DeltaReplacing'
          /\ DeltaEntries' /\ DeltaClosed'
      BY <1>2, <3>2, <3>3, <3>4, RespondDeltaKept
    <3>6. deltaFailed' \in [Nodes -> BOOLEAN]
      BY <3>2 DEF DeltaTypeOK
    <3>7. DeltaTypeOK'
      BY <1>2, <2>3, <3>5, <3>6 DEF DeltaTypeOK
    <3> QED  BY <1>1, <3>5, <3>7
  <2> QED  BY <2>4, <2>5
<1> QED  BY <1>5, <1>6, <1>7

\* Heartbeats and the state of the world streams leave the snapshots alone.
LEMMA SameSnapshots ==
    ASSUME \/ \E n \in Nodes : SendHeartbeats(n)
           \/ \E c \in Streams : StreamNext(c)
           \/ UNCHANGED vars
    PROVE  snapshots' = snapshots
<1>1. CASE \E n \in Nodes : SendHeartbeats(n)
  BY <1>1 DEF SendHeartbeats
<1>2. CASE \E c \in Streams : StreamNext(c)
  <2>1. PICK c \in Streams : StreamNext(c)
    BY <1>2
  <2>2. ASSUME NEW req, NEW s, NEW q, CreateWatch(c, req, s, q) PROVE snapshots' = snapshots
    BY <2>2 DEF CreateWatch
  <2>3. (\E req : FirstRequest(c, req)) \/ Rewatch(c) => snapshots' = snapshots
    BY <2>2 DEF FirstRequest, Rewatch
  <2>4. Open(c) \/ Shutdown(c) \/ processAllExcept(c) => snapshots' = snapshots
    BY DEF Open, Shutdown, processAllExcept, cacheVars
  <2>5. (\E req : CloseWatch(c, req)) \/ (\E i : SendResponse(c, i)) => snapshots' = snapshots
    BY DEF CloseWatch, SendResponse, cacheVars
  <2> QED  BY <2>1, <2>3, <2>4, <2>5 DEF StreamNext
<1>3. CASE UNCHANGED vars
  BY <1>3 DEF vars, cacheVars
<1> QED  BY <1>1, <1>2, <1>3

\* Nor does a step of theirs concern the delta watches.
LEMMA SnapshotStepKept ==
    ASSUME DeltaIInv, UNCHANGED <<snapshots, deltaCacheVars, deltaStreamVars>>
    PROVE  DeltaIInv'
<1>1. KnownSnapshots'
  BY DEF DeltaIInv, KnownSnapshots
<1> QED  BY <1>1, DeltaCacheKept DEF DeltaIInv, DeltaTypeOK, deltaCacheVars

\* ClearSnapshot forgets the delta watches of a node and nothing else.
LEMMA ClearSnapshotBothKept ==
    ASSUME DeltaIInv, TypeOK, NEW n \in Nodes, ClearSnapshotBoth(n) PROVE DeltaIInv'
<1>1. KnownSnapshots'
  BY DEF ClearSnapshotBoth, ClearSnapshot, KnownSnapshots, TypeOK, DeltaIInv
<1>2. /\ deltaWatches' \in [Nodes -> SUBSET DeltaWatch] /\ deltaFailed' \in [Nodes -> BOOLEAN]
      /\ \A m \in Nodes : deltaWatches'[m] \subseteq deltaWatches[m]
      /\ versionMap' \in [Snapshots -> VersionMap \cup {None}]
      /\ UNCHANGED <<deltaWatchCount, deltaStreamVars>>
  BY DEF ClearSnapshotBoth, DeltaIInv, DeltaTypeOK
<1> QED  BY <1>1, <1>2, DeltaCacheKept

\* The steps of a loop that change neither the watches nor the channel, nor replace a
\* watch entry: DeltaOpen, DeltaEnd.
LEMMA DeltaMovesKept ==
    ASSUME DeltaIInv, NEW d \in DeltaStreams, DeltaOpen(d) \/ DeltaEnd(d) PROVE DeltaIInv'
<1>1. /\ snapshots' = snapshots /\ UNCHANGED deltaCacheVars
      /\ UNCHANGED <<deltaPending, deltaSub, deltaCancel, muxed, view, overtaken>>
      /\ \/ deltaPc[d] = "closed" /\ deltaPc' = [deltaPc EXCEPT ![d] = "idle"]
         \/ deltaPc[d] = "idle" /\ deltaPc' = [deltaPc EXCEPT ![d] = "closing"]
  BY DEF DeltaOpen, DeltaEnd, vars, cacheVars
<1> USE DEF deltaCacheVars
<1>2. DeltaTypeOK'
  BY <1>1 DEF DeltaIInv, DeltaTypeOK
<1>3. /\ \A e \in DeltaStreams : e # d => deltaPc'[e] = deltaPc[e]
      /\ \/ deltaPc[d] = "closed" /\ deltaPc'[d] = "idle"
         \/ deltaPc[d] = "idle" /\ deltaPc'[d] = "closing"
  BY <1>1 DEF DeltaIInv, DeltaTypeOK
<1>4. \A e \in DeltaStreams : \A t \in Types : DeltaWaiting(e, t)' = DeltaWaiting(e, t)
  BY <1>1 DEF DeltaWaiting
<1>5. ASSUME NEW e \in DeltaStreams PROVE Busy(e)' <=> Busy(e)
  <2>1. CASE e = d
    BY <1>3, <2>1 DEF Busy
  <2>2. CASE e # d
    BY <1>3, <2>2 DEF Busy
  <2> QED  BY <2>1, <2>2
<1>6. KnownSnapshots'
  BY <1>1 DEF DeltaIInv, KnownSnapshots
<1>7. NoSendOnClosedChannel'
  <2>1. \A n \in Nodes : \A w \in deltaWatches[n] : w.stream \in DeltaStreams
    BY SMTT(30) DEF DeltaIInv, DeltaTypeOK, DeltaWatch
  <2> QED  BY <1>1, <1>3, <2>1 DEF DeltaIInv, NoSendOnClosedChannel
<1>8. DeltaWatchIds'
  BY SMTT(30), <1>1 DEF DeltaIInv, DeltaWatchIds
<1>9. DeltaRoom'
  BY <1>1, <1>4, <1>5 DEF DeltaIInv, DeltaRoom, Room
<1>10. DeltaReplacing'
  <2>1. \A e \in DeltaStreams : deltaPending[e] # None => deltaPending[e].type \in Types
    BY PendingIsRequest DEF DeltaIInv
  <2> QED  BY <1>1, <1>3, <1>4, <1>5, <2>1 DEF DeltaIInv, DeltaReplacing, Busy
<1>11. DeltaEntries'
  BY <1>1, <1>3, <1>4 DEF DeltaIInv, DeltaEntries
<1>12. DeltaClosed'
  BY <1>1, <1>3 DEF DeltaIInv, DeltaClosed
<1> QED  BY <1>2, <1>6, <1>7, <1>8, <1>9, <1>10, <1>11, <1>12 DEF DeltaIInv

\* process: a response is taken from the channel; its type has a watch entry.
LEMMA DeltaProcessKept ==
    ASSUME DeltaIInv, NEW d \in DeltaStreams, DeltaProcess(d) PROVE DeltaIInv'
<1> DEFINE resp == Head(muxed[d])
<1>1. DeltaTypeOK /\ muxed[d] \in Seq(DeltaResponse)
  BY DEF DeltaIInv, DeltaTypeOK
<1>2. /\ snapshots' = snapshots /\ UNCHANGED deltaCacheVars
      /\ UNCHANGED <<deltaPending, deltaCancel, overtaken>>
      /\ deltaPc[d] = "idle" /\ muxed[d] # <<>> /\ muxed' = [muxed EXCEPT ![d] = Tail(@)]
  BY DEF DeltaProcess, vars, cacheVars
<1>3. /\ resp \in DeltaResponse /\ resp.type \in Types
      /\ resp.returnedResources \in [Names -> DeltaVersions \cup {None}]
      /\ resp = muxed[d][1] /\ 1 \in DOMAIN muxed[d]
  <2>1. resp \in DeltaResponse /\ resp = muxed[d][1] /\ 1 \in DOMAIN muxed[d]
    BY SMTT(30), <1>1, <1>2
  <2> HIDE DEF resp
  <2>2. resp.type \in Types /\ resp.returnedResources \in [Names -> DeltaVersions \cup {None}]
    BY <2>1 DEF DeltaResponse
  <2> QED  BY <2>1, <2>2
<1>4. deltaSub[d][resp.type] \in DeltaSub
  <2>1. Has(muxed[d], resp.type)
    BY <1>3 DEF Has
  <2>2. deltaSub[d][resp.type] # None
    BY <1>2, <1>3, <2>1 DEF DeltaIInv, DeltaEntries
  <2>3. deltaSub[d] \in [Types -> DeltaSub \cup {None}]
    BY <1>1 DEF DeltaTypeOK
  <2> HIDE DEF resp
  <2> QED  BY <1>3, <2>2, <2>3
<1>5. \/ /\ deltaSub' = [deltaSub EXCEPT ![d][resp.type] =
                            SetReturnedResources(@, resp.returnedResources)]
         /\ view' = [view EXCEPT ![d][resp.type] = Applied(@, resp)]
         /\ UNCHANGED deltaPc
      \/ /\ deltaPc' = [deltaPc EXCEPT ![d] = "closing"]
         /\ UNCHANGED <<deltaSub, view>>
  BY DEF DeltaProcess
<1> HIDE DEF resp
<1> DEFINE ret == SetReturnedResources(deltaSub[d][resp.type], resp.returnedResources)
           now == Applied(view[d][resp.type], resp)
<1>6. ret \in DeltaSub /\ now \in [Names -> Values \cup {None}]
  <2>1. view[d][resp.type] \in [Names -> Values \cup {None}]
    BY ZenonT(40), <1>1, <1>3 DEF DeltaTypeOK
  <2> QED  BY <1>3, <1>4, <2>1, DeltaReturnedType, ViewType
<1>7. /\ deltaSub' \in [DeltaStreams -> [Types -> DeltaSub \cup {None}]]
      /\ view' \in [DeltaStreams -> [Types -> [Names -> Values \cup {None}]]]
      /\ deltaPc' \in [DeltaStreams -> {"closed", "idle", "drained", "cancelled", "closing"}]
      /\ \A e \in DeltaStreams : \A t \in Types : deltaSub'[e][t] = None <=> deltaSub[e][t] = None
  <2>1. ret # None
    BY <1>6, SnapshotDeltaAssumption DEF SnapshotDeltaAssumption
  <2>2. deltaSub[d][resp.type] # None
    BY <1>4, SnapshotDeltaAssumption DEF SnapshotDeltaAssumption
  <2>3. CASE /\ deltaSub' = [deltaSub EXCEPT ![d][resp.type] = ret]
             /\ view' = [view EXCEPT ![d][resp.type] = now]
             /\ UNCHANGED deltaPc
    <3> HIDE DEF ret, now
    <3> QED  BY <1>1, <1>3, <1>6, <2>1, <2>2, <2>3 DEF DeltaTypeOK
  <2>4. CASE deltaPc' = [deltaPc EXCEPT ![d] = "closing"] /\ UNCHANGED <<deltaSub, view>>
    BY <1>1, <2>4 DEF DeltaTypeOK
  <2> QED  BY <1>5, <2>3, <2>4
<1>8. /\ Tail(muxed[d]) \in Seq(DeltaResponse)
      /\ \A t \in Types :
            /\ Has(Tail(muxed[d]), t) => Has(muxed[d], t)
            /\ One(muxed[d], t) => One(Tail(muxed[d]), t)
            /\ Two(muxed[d], t) => Two(Tail(muxed[d]), t)
  BY <1>1, <1>2, RoomTail
<1>9. DeltaTypeOK'
  <2>1. muxed' \in [DeltaStreams -> Seq(DeltaResponse)]
    BY <1>1, <1>2, <1>8 DEF DeltaTypeOK
  <2> QED  BY <1>1, <1>2, <1>7, <2>1 DEF DeltaTypeOK, deltaCacheVars
<1>10. /\ \A e \in DeltaStreams : e # d => deltaPc'[e] = deltaPc[e] /\ muxed'[e] = muxed[e]
       /\ deltaPc'[d] \in {"idle", "closing"} /\ muxed'[d] = Tail(muxed[d])
  BY <1>1, <1>2, <1>5 DEF DeltaTypeOK
<1> USE DEF deltaCacheVars
<1>11. \A e \in DeltaStreams : \A t \in Types : DeltaWaiting(e, t)' = DeltaWaiting(e, t)
  BY <1>2 DEF DeltaWaiting
<1>12. ASSUME NEW e \in DeltaStreams
       PROVE  /\ Busy(e)' <=> Busy(e) /\ e # d
              /\ deltaPc[e] = "closing" => deltaPc'[e] = "closing"
              /\ deltaPc[e] = "closed" <=> deltaPc'[e] = "closed"
  <2>1. CASE e = d
    BY <1>2, <1>10, <2>1 DEF Busy
  <2>2. CASE e # d
    BY <1>10, <2>2 DEF Busy
  <2> QED  BY <2>1, <2>2
<1>13. KnownSnapshots'
  BY <1>2 DEF DeltaIInv, KnownSnapshots
<1>14. NoSendOnClosedChannel'
  <2>1. \A n \in Nodes : \A w \in deltaWatches[n] : w.stream \in DeltaStreams
    BY SMTT(30) DEF DeltaIInv, DeltaTypeOK, DeltaWatch
  <2> QED  BY <1>2, <1>12, <2>1 DEF DeltaIInv, NoSendOnClosedChannel
<1>15. DeltaWatchIds'
  BY SMTT(30), <1>2 DEF DeltaIInv, DeltaWatchIds
<1>16. DeltaRoom' /\ DeltaEntries'
  <2>1. \A e \in DeltaStreams : \A t \in Types :
           /\ Has(muxed'[e], t) => Has(muxed[e], t)
           /\ One(muxed[e], t) => One(muxed'[e], t)
           /\ Two(muxed[e], t) => Two(muxed'[e], t)
    BY <1>8, <1>10
  <2> QED  BY <1>2, <1>7, <1>11, <1>12, <2>1, FewerDeltaKept
<1>17. DeltaReplacing'
  <2>1. \A e \in DeltaStreams : deltaPending[e] # None => deltaPending[e].type \in Types
    BY PendingIsRequest DEF DeltaIInv
  <2> QED  BY <1>2, <1>7, <1>10, <1>11, <1>12, <2>1 DEF DeltaIInv, DeltaReplacing, Busy
<1>18. DeltaClosed'
  <2> SUFFICES ASSUME NEW e \in DeltaStreams, deltaPc'[e] = "closed" PROVE deltaSub'[e] = NoEntries
    BY DEF DeltaClosed
  <2>1. e # d /\ deltaSub[e] = NoEntries
    BY <1>2, <1>12 DEF DeltaIInv, DeltaClosed
  <2> QED  BY <1>1, <1>5, <2>1 DEF DeltaTypeOK
<1> QED  BY <1>9, <1>13, <1>14, <1>15, <1>16, <1>17, <1>18 DEF DeltaIInv

\* A request comes in; the channel is empty.
LEMMA DeltaDrainedKept ==
    ASSUME DeltaIInv, NEW d \in DeltaStreams, NEW req \in DeltaRequests, DeltaDrained(d, req)
    PROVE  DeltaIInv'
<1>1. DeltaTypeOK /\ req # None /\ req \in DeltaRequest /\ req.type \in Types
  BY SnapshotDeltaAssumption DEF DeltaIInv, SnapshotDeltaAssumption, DeltaRequest
<1>2. /\ snapshots' = snapshots /\ UNCHANGED deltaCacheVars
      /\ UNCHANGED <<deltaSub, deltaCancel, muxed, overtaken>>
      /\ deltaPc[d] = "idle" /\ muxed[d] = <<>> /\ deltaPc' = [deltaPc EXCEPT ![d] = "drained"]
      /\ deltaPending' = [deltaPending EXCEPT ![d] = req]
      /\ view' = [view EXCEPT ![d][req.type] = Dropped(@, Given(d, req))]
  BY DEF DeltaDrained, vars, cacheVars
<1> USE DEF deltaCacheVars
<1>3. DeltaTypeOK'
  <2>1. view[d][req.type] \in [Names -> Values \cup {None}]
    BY <1>1 DEF DeltaTypeOK
  <2>2. Dropped(view[d][req.type], Given(d, req)) \in [Names -> Values \cup {None}]
    BY <2>1, ViewType
  <2>3. view' \in [DeltaStreams -> [Types -> [Names -> Values \cup {None}]]]
    BY <1>1, <1>2, <2>2 DEF DeltaTypeOK
  <2> QED  BY <1>1, <1>2, <2>3 DEF DeltaTypeOK
<1>4. /\ \A e \in DeltaStreams : e # d =>
            deltaPc'[e] = deltaPc[e] /\ deltaPending'[e] = deltaPending[e]
      /\ deltaPc'[d] = "drained" /\ deltaPending'[d] = req
  BY <1>1, <1>2 DEF DeltaTypeOK
<1>5. \A e \in DeltaStreams : \A t \in Types : DeltaWaiting(e, t)' = DeltaWaiting(e, t)
  BY <1>2 DEF DeltaWaiting
<1>6. \A e \in DeltaStreams : e # d => (Busy(e)' <=> Busy(e))
  BY <1>4 DEF Busy
<1>7. \A t \in Types : One(muxed[d], t) /\ Two(muxed[d], t) /\ ~Has(muxed[d], t)
  <2>1. DOMAIN muxed[d] = {}
    BY SMTT(30), <1>2
  <2> QED  BY <2>1 DEF One, Two, Has
<1>8. KnownSnapshots'
  BY <1>2 DEF DeltaIInv, KnownSnapshots
<1>9. NoSendOnClosedChannel'
  <2>1. \A n \in Nodes : \A w \in deltaWatches[n] : w.stream \in DeltaStreams
    BY SMTT(30) DEF DeltaIInv, DeltaTypeOK, DeltaWatch
  <2>2. \A e \in DeltaStreams : deltaPc'[e] = "closed" => deltaPc[e] = "closed"
    BY <1>4
  <2> QED  BY <1>2, <2>1, <2>2 DEF DeltaIInv, NoSendOnClosedChannel
<1>10. DeltaWatchIds'
  BY SMTT(30), <1>2 DEF DeltaIInv, DeltaWatchIds
<1>11. DeltaRoom'
  BY <1>2, <1>5, <1>6, <1>7 DEF DeltaIInv, DeltaRoom, Room
<1>12. DeltaReplacing'
  <2>1. \A e \in DeltaStreams : deltaPending[e] # None => deltaPending[e].type \in Types
    BY PendingIsRequest DEF DeltaIInv
  <2> QED  BY <1>1, <1>2, <1>4, <1>5, <1>6, <2>1 DEF DeltaIInv, DeltaReplacing, Busy
<1>13. DeltaEntries'
  BY <1>2, <1>4, <1>5, <1>7 DEF DeltaIInv, DeltaEntries
<1>14. DeltaClosed'
  BY <1>2, <1>4 DEF DeltaIInv, DeltaClosed
<1> QED  BY <1>3, <1>8, <1>9, <1>10, <1>11, <1>12, <1>13, <1>14 DEF DeltaIInv

\* cancelDeltaWatch removes the open watch of the type, if there is one.
LEMMA CancelDeltaFacts ==
    ASSUME DeltaIInv, NEW d \in DeltaStreams, NEW t \in Types, CancelDelta(d, t)
    PROVE  /\ deltaWatches' \in [Nodes -> SUBSET DeltaWatch]
           /\ \A n \in Nodes : deltaWatches'[n] \subseteq deltaWatches[n]
           /\ ~DeltaWaiting(d, t)'
<1>1. /\ deltaWatches' \in [Nodes -> SUBSET DeltaWatch] /\ DeltaNodeOf[d] \in Nodes
      /\ \A n \in Nodes : deltaWatches'[n] \subseteq deltaWatches[n]
      /\ \A w \in deltaWatches'[DeltaNodeOf[d]] : w.id # deltaCancel[d][t]
  BY SnapshotDeltaAssumption DEF SnapshotDeltaAssumption, CancelDelta, DeltaIInv, DeltaTypeOK
<1>2. ASSUME NEW n \in Nodes, NEW w \in deltaWatches'[n], w.stream = d, w.type = t PROVE FALSE
  <2>1. w \in deltaWatches[n]
    BY <1>1
  <2>2. n = DeltaNodeOf[d] /\ w.id = deltaCancel[d][t]
    BY <1>2, <2>1 DEF DeltaIInv, NoSendOnClosedChannel
  <2> QED  BY <1>1, <2>2
<1> QED  BY <1>1, <1>2 DEF DeltaWaiting

\* The watch of the type of the request is cancelled, and only a queued response is left.
LEMMA DeltaCancelWatchKept ==
    ASSUME DeltaIInv, NEW d \in DeltaStreams, NEW t, t = deltaPending[d].type, DeltaCancelWatch(d)
    PROVE  DeltaIInv'
<1>1. /\ snapshots' = snapshots /\ UNCHANGED <<versionMap, deltaWatchCount, deltaFailed>>
      /\ UNCHANGED <<deltaPending, deltaSub, deltaCancel, muxed, view, overtaken>>
      /\ deltaPc[d] = "drained" /\ deltaSub[d][t] # None /\ CancelDelta(d, t)
      /\ deltaPc' = [deltaPc EXCEPT ![d] = "cancelled"]
  BY DEF DeltaCancelWatch, vars, cacheVars
<1>2. DeltaTypeOK /\ deltaPending[d] # None /\ t \in Types
  BY <1>1, PendingIsRequest DEF DeltaIInv, DeltaReplacing, Busy
<1>3. /\ deltaWatches' \in [Nodes -> SUBSET DeltaWatch]
      /\ \A n \in Nodes : deltaWatches'[n] \subseteq deltaWatches[n]
      /\ ~DeltaWaiting(d, t)'
  BY <1>1, <1>2, CancelDeltaFacts
<1>4. /\ DeltaWatchIds'
      /\ \A e \in DeltaStreams : \A u \in Types : DeltaWaiting(e, u)' => DeltaWaiting(e, u)
  BY <1>1, <1>3, FewerDeltaWatches
<1>5. DeltaTypeOK'
  BY <1>1, <1>2, <1>3 DEF DeltaTypeOK
<1>6. deltaPc'[d] = "cancelled" /\ \A e \in DeltaStreams : e # d => deltaPc'[e] = deltaPc[e]
  BY <1>1, <1>2 DEF DeltaTypeOK
<1>7. ASSUME NEW e \in DeltaStreams
      PROVE  /\ Busy(e)' <=> Busy(e)
             /\ deltaPc'[e] = "closed" <=> deltaPc[e] = "closed"
             /\ deltaPc'[e] = "closing" <=> deltaPc[e] = "closing"
  <2>1. CASE e = d
    BY <1>1, <1>6, <2>1 DEF Busy
  <2>2. CASE e # d
    BY <1>6, <2>2 DEF Busy
  <2> QED  BY <2>1, <2>2
<1>8. KnownSnapshots'
  BY <1>1 DEF DeltaIInv, KnownSnapshots
<1>9. NoSendOnClosedChannel'
  <2>1. \A n \in Nodes : \A w \in deltaWatches[n] : w.stream \in DeltaStreams
    BY SMTT(30) DEF DeltaIInv, DeltaTypeOK, DeltaWatch
  <2> QED  BY <1>1, <1>3, <1>7, <2>1 DEF DeltaIInv, NoSendOnClosedChannel
<1>10. DeltaRoom' /\ DeltaEntries'
  BY <1>1, <1>4, <1>7, FewerDeltaKept
<1>11. DeltaReplacing'
  <2> SUFFICES ASSUME NEW e \in DeltaStreams, Busy(e)'
               PROVE  /\ deltaPending[e] # None
                      /\ deltaPc'[e] = "cancelled" => /\ deltaSub[e][deltaPending[e].type] # None
                                                      /\ ~DeltaWaiting(e, deltaPending[e].type)'
    BY <1>1 DEF DeltaReplacing, Busy
  <2>1. deltaPending[e] # None /\ deltaPending[e].type \in Types
    BY <1>2, <1>7, PendingIsRequest DEF DeltaIInv, DeltaReplacing
  <2>2. CASE e = d
    BY <1>1, <1>3, <2>1, <2>2
  <2>3. CASE e # d
    BY <1>1, <1>4, <1>6, <2>1, <2>3 DEF DeltaIInv, DeltaReplacing
  <2> QED  BY <2>2, <2>3
<1>12. DeltaClosed'
  BY <1>1, <1>7 DEF DeltaIInv, DeltaClosed
<1> QED  BY <1>4, <1>5, <1>8, <1>9, <1>10, <1>11, <1>12 DEF DeltaIInv

\* The first request for a type: it has neither a watch nor a response.
LEMMA DeltaFirstRequestKept ==
    ASSUME DeltaIInv, NEW d \in DeltaStreams, NEW req, req = deltaPending[d], DeltaFirstRequest(d)
    PROVE  DeltaIInv'
<1>1. /\ deltaPc[d] = "drained" /\ deltaSub[d][req.type] = None
      /\ deltaPending' = [deltaPending EXCEPT ![d] = None]
      /\ snapshots' = snapshots /\ UNCHANGED <<deltaFailed, view, overtaken>>
  BY DEF DeltaFirstRequest, vars, cacheVars
<1>2. /\ DeltaTypeOK /\ Busy(d) /\ req.type \in Types
      /\ req.subscribe \in SUBSET Tokens /\ req.unsubscribe \in Seq(Tokens)
  BY <1>1, PendingIsRequest DEF DeltaIInv, DeltaReplacing, Busy
<1>3. PICK known \in {NothingKnown, view[d][req.type]} :
        MuxCreateDeltaWatch(d, NewDeltaSubscription(req.subscribe, req.unsubscribe, known,
                                                    LegacyWildcard), req)
  BY DEF DeltaFirstRequest
<1>4. known \in [Names -> Values \cup {None}]
  <2>1. view[d][req.type] \in [Names -> Values \cup {None}]
    BY ZenonT(40), <1>2 DEF DeltaTypeOK
  <2>2. NothingKnown \in [Names -> Values \cup {None}]
    BY DEF NothingKnown
  <2> QED  BY <2>1, <2>2
<1> DEFINE s == NewDeltaSubscription(req.subscribe, req.unsubscribe, known, LegacyWildcard)
<1>5. s \in DeltaSub /\ MuxCreateDeltaWatch(d, s, req)
  BY <1>2, <1>3, <1>4, DeltaSubscriptionType
<1>6. ~DeltaWaiting(d, req.type) /\ ~Has(muxed[d], req.type)
  BY <1>1, <1>2 DEF DeltaIInv, DeltaEntries
<1> HIDE DEF s
<1> QED  BY <1>1, <1>2, <1>5, <1>6, CreateDeltaKept DEF DeltaTypeOK

\* A request for a type with a watch entry: what is still queued is overtaken.
LEMMA DeltaRewatchKept ==
    ASSUME DeltaIInv, NEW d \in DeltaStreams, NEW req, req = deltaPending[d], DeltaRewatch(d)
    PROVE  DeltaIInv'
<1>1. /\ deltaPc[d] = "cancelled" /\ deltaPending' = [deltaPending EXCEPT ![d] = None]
      /\ overtaken' = [overtaken EXCEPT ![d] = @ \cup {t \in {req.type} : DeltaQueued(d, t)}]
      /\ snapshots' = snapshots /\ UNCHANGED <<deltaFailed, view>>
  BY DEF DeltaRewatch, vars, cacheVars
<1>2. /\ DeltaTypeOK /\ Busy(d) /\ req.type \in Types
      /\ req.subscribe \in SUBSET Tokens /\ req.unsubscribe \in Seq(Tokens)
  BY <1>1, PendingIsRequest DEF DeltaIInv, DeltaReplacing, Busy
<1>3. deltaSub[d][req.type] \in DeltaSub /\ ~DeltaWaiting(d, req.type)
  <2>1. deltaSub[d][req.type] \in DeltaSub \cup {None}
    BY ZenonT(40), <1>2 DEF DeltaTypeOK
  <2>2. deltaSub[d][req.type] # None /\ ~DeltaWaiting(d, req.type)
    BY <1>1 DEF DeltaIInv, DeltaReplacing
  <2> QED  BY <2>1, <2>2
<1> DEFINE s == UpdateResourceSubscriptions(deltaSub[d][req.type], req.subscribe, req.unsubscribe)
<1>4. s \in DeltaSub /\ MuxCreateDeltaWatch(d, s, req)
  BY <1>2, <1>3, DeltaSubscriptionType DEF DeltaRewatch
<1>5. /\ overtaken' \in [DeltaStreams -> SUBSET Types] /\ overtaken[d] \subseteq overtaken'[d]
      /\ \A e \in DeltaStreams : e # d => overtaken'[e] = overtaken[e]
  BY <1>1, <1>2 DEF DeltaTypeOK
<1>6. Has(muxed[d], req.type) => req.type \in overtaken'[d]
  BY <1>1, <1>2 DEF DeltaTypeOK, Has, DeltaQueued
<1> HIDE DEF s
<1> QED  BY <1>1, <1>2, <1>3, <1>4, <1>5, <1>6, CreateDeltaKept

\* watches.Cancel: the watch entry of a type goes, and its watch before it.
LEMMA DeltaCancelEntryKept ==
    ASSUME DeltaIInv, NEW d \in DeltaStreams, NEW t \in Types, DeltaCancelEntry(d, t)
    PROVE  DeltaIInv'
<1>1. /\ snapshots' = snapshots /\ UNCHANGED <<versionMap, deltaWatchCount, deltaFailed>>
      /\ UNCHANGED <<deltaPc, deltaPending, muxed, view, overtaken>>
      /\ deltaPc[d] = "closing" /\ CancelDelta(d, t)
      /\ deltaSub' = [deltaSub EXCEPT ![d][t] = None]
      /\ deltaCancel' = [deltaCancel EXCEPT ![d][t] = 0]
  BY DEF DeltaCancelEntry, vars, cacheVars
<1>2. /\ deltaWatches' \in [Nodes -> SUBSET DeltaWatch]
      /\ \A n \in Nodes : deltaWatches'[n] \subseteq deltaWatches[n]
      /\ ~DeltaWaiting(d, t)'
  BY <1>1, CancelDeltaFacts
<1>3. /\ DeltaWatchIds'
      /\ \A e \in DeltaStreams : \A u \in Types : DeltaWaiting(e, u)' => DeltaWaiting(e, u)
  BY <1>1, <1>2, FewerDeltaWatches
<1>4. DeltaTypeOK'
  <2>1. 0 \in Nat
    BY SMTT(30)
  <2> QED  BY <1>1, <1>2, <2>1 DEF DeltaIInv, DeltaTypeOK
<1>5. \A e \in DeltaStreams : \A u \in Types : ~(e = d /\ u = t) =>
          deltaSub'[e][u] = deltaSub[e][u] /\ deltaCancel'[e][u] = deltaCancel[e][u]
  BY <1>1 DEF DeltaIInv, DeltaTypeOK
<1>6. KnownSnapshots'
  BY <1>1 DEF DeltaIInv, KnownSnapshots
<1>7. NoSendOnClosedChannel'
  <2> SUFFICES ASSUME NEW n \in Nodes, NEW w \in deltaWatches'[n]
               PROVE  /\ DeltaNodeOf[w.stream] = n /\ deltaPc[w.stream] # "closed"
                      /\ deltaCancel'[w.stream][w.type] = w.id
    BY <1>1 DEF NoSendOnClosedChannel
  <2>1. w \in DeltaWatch /\ w.stream \in DeltaStreams /\ w.type \in Types
    <3>1. w \in DeltaWatch
      BY <1>2
    <3> QED  BY <3>1 DEF DeltaWatch
  <2>2. ~(w.stream = d /\ w.type = t) /\ w \in deltaWatches[n]
    BY <1>2 DEF DeltaWaiting
  <2> QED  BY <1>5, <2>1, <2>2 DEF DeltaIInv, NoSendOnClosedChannel
<1>8. DeltaRoom'
  <2>1. \A e \in DeltaStreams : Busy(e)' <=> Busy(e)
    BY <1>1 DEF Busy
  <2> QED  BY <1>1, <1>3, <2>1 DEF DeltaIInv, DeltaRoom, Room
<1>9. DeltaEntries'
  <2> SUFFICES ASSUME NEW e \in DeltaStreams, NEW u \in Types, deltaSub'[e][u] = None
               PROVE  ~DeltaWaiting(e, u)' /\ (deltaPc[e] # "closing" => ~Has(muxed[e], u))
    BY <1>1 DEF DeltaEntries
  <2>1. CASE e = d /\ u = t
    BY <1>1, <1>2, <2>1
  <2>2. CASE ~(e = d /\ u = t)
    BY <1>3, <1>5, <2>2 DEF DeltaIInv, DeltaEntries
  <2> QED  BY <2>1, <2>2
<1>10. DeltaReplacing'
  <2> SUFFICES ASSUME NEW e \in DeltaStreams, Busy(e)
               PROVE  /\ deltaPending[e] # None
                      /\ deltaPc[e] = "cancelled" => /\ deltaSub'[e][deltaPending[e].type] # None
                                                     /\ ~DeltaWaiting(e, deltaPending[e].type)'
    BY <1>1 DEF DeltaReplacing, Busy
  <2>1. e # d /\ deltaPending[e] # None /\ deltaPending[e].type \in Types
    BY <1>1, PendingIsRequest DEF DeltaIInv, DeltaReplacing, Busy
  <2> QED  BY <1>1, <1>3, <1>5, <2>1 DEF DeltaIInv, DeltaReplacing
<1>11. DeltaClosed'
  BY <1>1 DEF DeltaIInv, DeltaClosed, DeltaTypeOK
<1> QED  BY <1>3, <1>4, <1>6, <1>7, <1>8, <1>9, <1>10, <1>11 DEF DeltaIInv

\* The channel is closed when no watch entry is left.
LEMMA DeltaCloseKept ==
    ASSUME DeltaIInv, NEW d \in DeltaStreams, DeltaClose(d) PROVE DeltaIInv'
<1>1. /\ snapshots' = snapshots /\ UNCHANGED deltaCacheVars
      /\ UNCHANGED <<deltaPending, deltaSub, deltaCancel, view>>
      /\ deltaPc[d] = "closing" /\ deltaSub[d] = NoEntries
      /\ deltaPc' = [deltaPc EXCEPT ![d] = "closed"] /\ muxed' = [muxed EXCEPT ![d] = <<>>]
      /\ overtaken' = [overtaken EXCEPT ![d] = {}]
  BY DEF DeltaClose, vars, cacheVars
<1> USE DEF deltaCacheVars
<1>2. DeltaTypeOK'
  <2>1. <<>> \in Seq(DeltaResponse)
    BY SMTT(30)
  <2> QED  BY <1>1, <2>1 DEF DeltaIInv, DeltaTypeOK
<1>3. /\ \A e \in DeltaStreams : e # d => /\ deltaPc'[e] = deltaPc[e] /\ muxed'[e] = muxed[e]
                                          /\ overtaken'[e] = overtaken[e]
      /\ deltaPc'[d] = "closed" /\ muxed'[d] = <<>>
  BY <1>1 DEF DeltaIInv, DeltaTypeOK
<1>4. \A e \in DeltaStreams : \A t \in Types : DeltaWaiting(e, t)' = DeltaWaiting(e, t)
  BY <1>1 DEF DeltaWaiting
<1>5. \A t \in Types : ~DeltaWaiting(d, t)
  BY <1>1 DEF DeltaIInv, DeltaEntries, NoEntries
<1>6. \A t \in Types : One(muxed'[d], t) /\ Two(muxed'[d], t) /\ ~Has(muxed'[d], t)
  <2>1. DOMAIN muxed'[d] = {}
    BY SMTT(30), <1>3
  <2> QED  BY <2>1 DEF One, Two, Has
<1>7. KnownSnapshots'
  BY <1>1 DEF DeltaIInv, KnownSnapshots
<1>8. NoSendOnClosedChannel'
  <2>1. ASSUME NEW n \in Nodes, NEW w \in deltaWatches[n]
        PROVE  deltaPc'[w.stream] = deltaPc[w.stream]
    <3>1. w.stream \in DeltaStreams /\ w.type \in Types
      BY SMTT(30) DEF DeltaIInv, DeltaTypeOK, DeltaWatch
    <3>2. w.stream # d
      BY <1>5, <3>1 DEF DeltaWaiting
    <3> QED  BY <1>3, <3>1, <3>2
  <2> QED  BY <1>1, <2>1 DEF DeltaIInv, NoSendOnClosedChannel
<1>9. DeltaWatchIds'
  BY SMTT(30), <1>1 DEF DeltaIInv, DeltaWatchIds
<1>10. \A e \in DeltaStreams : e # d => (Busy(e)' <=> Busy(e))
  BY <1>3 DEF Busy
<1>11. DeltaRoom'
  BY <1>3, <1>4, <1>5, <1>6, <1>10 DEF DeltaIInv, DeltaRoom, Room
<1>12. DeltaReplacing'
  <2>1. \A e \in DeltaStreams : deltaPending[e] # None => deltaPending[e].type \in Types
    BY PendingIsRequest DEF DeltaIInv
  <2>2. ~Busy(d)'
    BY <1>3 DEF Busy
  <2> QED  BY <1>1, <1>3, <1>4, <1>10, <2>1, <2>2 DEF DeltaIInv, DeltaReplacing, Busy
<1>13. DeltaEntries'
  BY <1>1, <1>3, <1>4, <1>6 DEF DeltaIInv, DeltaEntries
<1>14. DeltaClosed'
  BY <1>1, <1>3 DEF DeltaIInv, DeltaClosed
<1> QED  BY <1>2, <1>7, <1>8, <1>9, <1>11, <1>12, <1>13, <1>14 DEF DeltaIInv

\* Every step preserves the invariant.
LEMMA DeltaStepKept ==
    ASSUME DeltaIInv, TypeOK, [DeltaNext]_deltaVars PROVE DeltaIInv'
<1>1. CASE UNCHANGED deltaVars
  <2>1. UNCHANGED <<snapshots, deltaCacheVars, deltaStreamVars>>
    BY <1>1 DEF deltaVars, vars, cacheVars
  <2> QED  BY <2>1, SnapshotStepKept
<1>2. CASE \E n \in Nodes : \/ \E snap \in Snapshots : SetSnapshotBoth(n, snap)
                            \/ SendHeartbeatsBoth(n)
                            \/ ClearSnapshotBoth(n)
  <2>1. ASSUME NEW n \in Nodes, SendHeartbeatsBoth(n) PROVE DeltaIInv'
    BY <2>1, SameSnapshots, SnapshotStepKept DEF SendHeartbeatsBoth
  <2> QED  BY <1>2, <2>1, SetSnapshotBothKept, ClearSnapshotBothKept
<1>3. CASE \E c \in Streams : StreamNext(c) /\ UNCHANGED <<deltaCacheVars, deltaStreamVars>>
  BY <1>3, SameSnapshots, SnapshotStepKept
<1>4. CASE \E d \in DeltaStreams : DeltaStreamNext(d)
  BY <1>4, DeltaMovesKept, DeltaProcessKept, DeltaDrainedKept, DeltaCancelWatchKept,
     DeltaFirstRequestKept, DeltaRewatchKept, DeltaCancelEntryKept, DeltaCloseKept
     DEF DeltaStreamNext
<1> QED  BY <1>1, <1>2, <1>3, <1>4 DEF DeltaNext


-----------------------------------------------------------------------------
(* The order of the responses of a delta stream in ADS mode.               *)

\* The responses of a channel are of the first n calls of SetSnapshot, and those of one
\* call are in the order of the types.
Sorted(q, n) ==
    /\ \A i \in DOMAIN q : q[i].round <= n
    /\ \A i, j \in DOMAIN q : i < j /\ q[i].round # 0 /\ q[i].round = q[j].round =>
          TypeOrder[q[i].type] <= TypeOrder[q[j].type]

\* Every muxed channel is in the order of the calls and of the types.
DeltaInOrder == \A d \in DeltaStreams : Sorted(muxed[d], round)

\* Responses are added that come from no call, or from the next one and in order.
LEMMA SortedConcat ==
    ASSUME NEW q \in Seq(DeltaResponse), NEW new \in Seq(DeltaResponse), NEW n \in Nat,
           NEW m \in Nat, Sorted(q, n),
           \/ m = n /\ \A i \in DOMAIN new : new[i].round = 0
           \/ /\ m = n + 1
              /\ \A i \in DOMAIN new : new[i].round = m
              /\ \A i, j \in DOMAIN new : i < j =>
                    TypeOrder[new[i].type] <= TypeOrder[new[j].type]
    PROVE  Sorted(q \o new, m)
<1> DEFINE s == q \o new
<1>1. /\ s \in Seq(DeltaResponse)
      /\ \A i \in DOMAIN s : \/ i \in DOMAIN q /\ s[i] = q[i]
                             \/ i - Len(q) \in DOMAIN new /\ s[i] = new[i - Len(q)]
                                /\ i > Len(q)
  BY SMTT(30)
<1>2. \A i \in DOMAIN s : i \in Int /\ s[i] \in DeltaResponse
  BY SMTT(30), <1>1
<1>3. Len(q) \in Nat /\ DOMAIN q = 1 .. Len(q)
  BY SMTT(30)
<1>4. \A i \in DOMAIN s : s[i].round \in Nat
  BY <1>2 DEF DeltaResponse
<1> HIDE DEF s
<1>5. ASSUME NEW i \in DOMAIN s PROVE s[i].round <= m
  <2>1. CASE i \in DOMAIN q /\ s[i] = q[i]
    BY SMTT(30), <1>4, <2>1 DEF Sorted
  <2>2. CASE i - Len(q) \in DOMAIN new /\ s[i] = new[i - Len(q)]
    BY SMTT(30), <2>2
  <2> QED  BY <1>1, <2>1, <2>2
<1>6. ASSUME NEW i \in DOMAIN s, NEW j \in DOMAIN s, i < j, s[i].round # 0,
             s[i].round = s[j].round
      PROVE  TypeOrder[s[i].type] <= TypeOrder[s[j].type]
  <2>1. CASE j \in DOMAIN q /\ s[j] = q[j]
    <3>1. i \in DOMAIN q /\ s[i] = q[i]
      BY SMTT(30), <1>1, <1>2, <1>3, <1>6, <2>1
    <3> QED  BY <1>6, <2>1, <3>1 DEF Sorted
  <2>2. CASE j - Len(q) \in DOMAIN new /\ s[j] = new[j - Len(q)]
    <3>1. m = n + 1 /\ s[j].round = m
      BY <1>6, <2>2
    <3>2. CASE i \in DOMAIN q /\ s[i] = q[i]
      <4>1. s[i].round <= n
        BY <3>2 DEF Sorted
      <4> QED  BY SMTT(30), <1>6, <3>1, <4>1
    <3>3. CASE i - Len(q) \in DOMAIN new /\ s[i] = new[i - Len(q)]
      <4>1. i - Len(q) < j - Len(q)
        BY SMTT(30), <1>2, <1>3, <1>6
      <4> QED  BY SMTT(30), <2>2, <3>1, <3>3, <4>1
    <3> QED  BY <1>1, <3>2, <3>3
  <2> QED  BY <1>1, <2>1, <2>2
<1>7. Sorted(s, m)
  BY <1>5, <1>6 DEF Sorted
<1> QED  BY <1>7 DEF s

\* The first response is taken, and calls may be made.
LEMMA SortedRest ==
    ASSUME NEW q \in Seq(DeltaResponse), NEW n \in Nat, NEW m \in Nat, n <= m, Sorted(q, n)
    PROVE  Sorted(q, m) /\ (q # <<>> => Sorted(Tail(q), m)) /\ Sorted(<<>>, m)
<1>1. \A i \in DOMAIN q : q[i].round \in Nat
  <2>1. \A i \in DOMAIN q : q[i] \in DeltaResponse
    BY SMTT(30)
  <2> QED  BY <2>1 DEF DeltaResponse
<1>2. Sorted(q, m)
  BY SMTT(30), <1>1 DEF Sorted
<1>3. ASSUME q # <<>> PROVE Sorted(Tail(q), m)
  <2>1. \A j \in DOMAIN Tail(q) : j \in Nat /\ j + 1 \in DOMAIN q /\ Tail(q)[j] = q[j + 1]
    BY <1>3, RoomTail
  <2>2. \A i, j \in DOMAIN Tail(q) : i < j => i + 1 < j + 1
    BY SMTT(30), <2>1
  <2> QED  BY <1>2, <2>1, <2>2 DEF Sorted
<1>4. Sorted(<<>>, m)
  BY SMTT(30) DEF Sorted
<1> QED  BY <1>2, <1>3, <1>4

\* respondDeltaWatches answers in the order that orderResponseWatches gives.
LEMMA RespondDeltaSorted ==
    ASSUME Ads, DeltaTypeOK, TypeOK, DeltaInOrder, NEW n \in Nodes, NEW snap \in Snapshots,
           NEW map \in VersionMap, NEW ws \in SUBSET DeltaWatch,
           NEW q \in orderResponseWatches(DeltaStreams, ws), round' = round + 1,
           RespondDelta(n, ws, q, [w \in ws |-> createDeltaResponse(snap, map, w, round + 1)])
    PROVE  DeltaInOrder'
<1> SUFFICES ASSUME NEW d \in DeltaStreams PROVE Sorted(muxed'[d], round')
  BY DEF DeltaInOrder
<1> DEFINE response == [w \in ws |-> createDeltaResponse(snap, map, w, round + 1)]
           new      == [i \in DOMAIN q[d] |-> response[q[d][i]]]
<1>1. /\ q[d] \in Seq(ws) /\ DOMAIN q[d] = 1 .. Len(q[d]) /\ Len(q[d]) \in Nat
      /\ \A i \in DOMAIN q[d] : q[d][i] \in ws
  <2>1. q \in Shares(DeltaStreams, ws)
    BY DEF orderResponseWatches
  <2> QED  BY SMTT(30), <2>1, DeltaShareFacts
<1>2. \A i, j \in DOMAIN q[d] : i < j => TypeOrder[q[d][i].type] <= TypeOrder[q[d][j].type]
  BY DEF orderResponseWatches
<1>3. round \in Nat /\ round + 1 \in Nat /\ muxed[d] \in Seq(DeltaResponse)
      /\ Sorted(muxed[d], round)
  BY SMTT(30) DEF TypeOK, DeltaTypeOK, DeltaInOrder
<1>4. \A w \in ws : /\ response[w] \in DeltaResponse /\ response[w].type = w.type
                    /\ response[w].round = round + 1
  BY ZenonT(40), <1>3, DeltaResponseType
<1>5. muxed'[d] = muxed[d] \o new
  BY DEF RespondDelta
<1> HIDE DEF response
<1>6. new \in Seq(DeltaResponse) /\ DOMAIN new = DOMAIN q[d]
  BY SMTT(30), <1>1, <1>4
<1>7. \A i \in DOMAIN new : new[i].type = q[d][i].type /\ new[i].round = round + 1
  BY <1>1, <1>4
<1> HIDE DEF new
<1>8. \A i, j \in DOMAIN new : i < j => TypeOrder[new[i].type] <= TypeOrder[new[j].type]
  BY <1>2, <1>6, <1>7
<1>9. Sorted(muxed[d] \o new, round + 1)
  BY <1>3, <1>6, <1>7, <1>8, SortedConcat
<1> QED  BY <1>5, <1>9

\* The delta loops leave the state of the world part alone.
LEMMA DeltaStreamAlone ==
    ASSUME NEW d \in DeltaStreams, DeltaStreamNext(d) PROVE UNCHANGED vars
<1>1. DeltaOpen(d) \/ DeltaProcess(d) \/ DeltaCancelWatch(d) \/ DeltaEnd(d) => UNCHANGED vars
  BY DEF DeltaOpen, DeltaProcess, DeltaCancelWatch, DeltaEnd
<1>2. DeltaFirstRequest(d) \/ DeltaRewatch(d) \/ DeltaClose(d) => UNCHANGED vars
  BY DEF DeltaFirstRequest, DeltaRewatch, DeltaClose
<1>3. \A req \in DeltaRequests : DeltaDrained(d, req) => UNCHANGED vars
  BY DEF DeltaDrained
<1>4. \A t \in Types : DeltaCancelEntry(d, t) => UNCHANGED vars
  BY DEF DeltaCancelEntry
<1> QED  BY <1>1, <1>2, <1>3, <1>4 DEF DeltaStreamNext

\* CreateDeltaWatch queues a response that comes from no SetSnapshot, or none.
LEMMA CreateDeltaQueues ==
    ASSUME DeltaTypeOK, NEW d \in DeltaStreams, NEW s, NEW req, MuxCreateDeltaWatch(d, s, req)
    PROVE  \/ muxed' = muxed
           \/ \E resp : resp.round = 0 /\ muxed' = [muxed EXCEPT ![d] = Append(@, resp)]
<1>1. ASSUME NEW from, NEW map, AnswerOrOpen(d, s, req, from, map)
      PROVE  \/ muxed' = muxed
             \/ \E resp : resp.round = 0 /\ muxed' = [muxed EXCEPT ![d] = Append(@, resp)]
  <2> DEFINE w == [id |-> deltaWatchCount + 1, stream |-> d, type |-> req.type, sub |-> s]
             resp == createDeltaResponse(from, map, w, 0)
  <2>1. muxed' = muxed \/ muxed' = [muxed EXCEPT ![d] = Append(@, resp)]
    BY <1>1 DEF AnswerOrOpen
  <2>2. resp.round = 0
    BY DEF createDeltaResponse
  <2> HIDE DEF resp
  <2> QED  BY <2>1, <2>2
<1>2. DeltaFail(d) => muxed' = muxed
  BY DEF DeltaFail
<1> QED  BY <1>1, <1>2 DEF MuxCreateDeltaWatch, CreateDeltaWatch

\* What a step of a delta loop does to its channel, and that it leaves the others alone.
LEMMA DeltaStreamQueues ==
    ASSUME DeltaTypeOK, NEW d \in DeltaStreams, DeltaStreamNext(d)
    PROVE  \/ muxed' = muxed
           \/ muxed[d] # <<>> /\ muxed' = [muxed EXCEPT ![d] = Tail(@)]
           \/ muxed' = [muxed EXCEPT ![d] = <<>>]
           \/ \E resp : resp.round = 0 /\ muxed' = [muxed EXCEPT ![d] = Append(@, resp)]
<1>1. DeltaOpen(d) \/ DeltaCancelWatch(d) \/ DeltaEnd(d) => muxed' = muxed
  BY DEF DeltaOpen, DeltaCancelWatch, DeltaEnd
<1>2. DeltaProcess(d) => muxed[d] # <<>> /\ muxed' = [muxed EXCEPT ![d] = Tail(@)]
  BY DEF DeltaProcess
<1>3. DeltaClose(d) => muxed' = [muxed EXCEPT ![d] = <<>>]
  BY DEF DeltaClose
<1>4. (\E req : DeltaDrained(d, req)) \/ (\E t : DeltaCancelEntry(d, t)) => muxed' = muxed
  BY DEF DeltaDrained, DeltaCancelEntry
<1>5. DeltaFirstRequest(d) \/ DeltaRewatch(d) =>
          \/ muxed' = muxed
          \/ \E resp : resp.round = 0 /\ muxed' = [muxed EXCEPT ![d] = Append(@, resp)]
  BY CreateDeltaQueues DEF DeltaFirstRequest, DeltaRewatch
<1> QED  BY <1>1, <1>2, <1>3, <1>4, <1>5 DEF DeltaStreamNext

\* Every step keeps the order, in ADS mode.
LEMMA DeltaOrderKept ==
    ASSUME Ads, DeltaIInv, DeltaTypeOK', TypeOK, DeltaInOrder, [DeltaNext]_deltaVars
    PROVE  DeltaInOrder'
<1>1. /\ DeltaTypeOK /\ round \in Nat /\ round + 1 \in Nat /\ round <= round
      /\ round <= round + 1
  BY SMTT(30) DEF DeltaIInv, TypeOK
<1>2. \A d \in DeltaStreams : muxed[d] \in Seq(DeltaResponse) /\ Sorted(muxed[d], round)
  BY <1>1 DEF DeltaTypeOK, DeltaInOrder
<1>3. \A d \in DeltaStreams :
         /\ Sorted(muxed[d], round) /\ Sorted(muxed[d], round + 1) /\ Sorted(<<>>, round)
         /\ muxed[d] # <<>> => Sorted(Tail(muxed[d]), round)
  BY <1>1, <1>2, SortedRest
<1>4. ASSUME muxed' = muxed, round' = round \/ round' = round + 1 PROVE DeltaInOrder'
  BY <1>3, <1>4 DEF DeltaInOrder
<1>5. ASSUME NEW n \in Nodes, NEW snap \in Snapshots, SetSnapshotBoth(n, snap)
      PROVE  DeltaInOrder'
  <2>1. round' = round + 1
    BY <1>5 DEF SetSnapshotBoth, SetSnapshot
  <2>2. CASE muxed' = muxed
    BY <1>4, <2>1, <2>2
  <2>3. CASE muxed' # muxed
    <3>1. respondDeltaWatches(n, snap) /\ deltaWatches[n] # {}
      BY <1>5, <2>3 DEF SetSnapshotBoth, DeltaUnanswered, respondDeltaWatches
    <3>2. PICK map \in ConstructVersionMap(snap) :
            \E done \in Answered(DeltaDue(n, snap, map)) :
            \E q \in orderResponseWatches(DeltaStreams, done) :
               RespondDelta(n, done, q, [w \in done |->
                                           createDeltaResponse(snap, map, w, round + 1)])
      BY <2>3, <3>1 DEF respondDeltaWatches, DeltaUnanswered
    <3>3. PICK done \in Answered(DeltaDue(n, snap, map)) :
            \E q \in orderResponseWatches(DeltaStreams, done) :
               RespondDelta(n, done, q, [w \in done |->
                                           createDeltaResponse(snap, map, w, round + 1)])
      BY <3>2
    <3>4. map \in VersionMap /\ done \in SUBSET DeltaWatch
      BY <1>1, MapFacts DEF Answered, DeltaDue, DeltaTypeOK
    <3> QED  BY <1>1, <2>1, <3>3, <3>4, RespondDeltaSorted
  <2> QED  BY <2>2, <2>3
<1>6. ASSUME \/ UNCHANGED vars
             \/ \E n \in Nodes : SendHeartbeats(n) \/ ClearSnapshot(n)
             \/ \E c \in Streams : StreamNext(c)
      PROVE  round' = round
  <2>1. CASE \E n \in Nodes : SendHeartbeats(n) \/ ClearSnapshot(n)
    BY <2>1 DEF SendHeartbeats, ClearSnapshot
  <2>2. ASSUME NEW c \in Streams, StreamNext(c) PROVE round' = round
    <3>1. \A req, s, q : CreateWatch(c, req, s, q) => round' = round
      BY DEF CreateWatch
    <3>2. (\E req : FirstRequest(c, req)) \/ Rewatch(c) => round' = round
      BY <3>1 DEF FirstRequest, Rewatch
    <3>3. Open(c) \/ Shutdown(c) \/ processAllExcept(c) => round' = round
      BY DEF Open, Shutdown, processAllExcept, cacheVars
    <3>4. (\E req : CloseWatch(c, req)) \/ (\E i : SendResponse(c, i)) => round' = round
      BY DEF CloseWatch, SendResponse, cacheVars
    <3> QED  BY <2>2, <3>2, <3>3, <3>4 DEF StreamNext
  <2>3. CASE UNCHANGED vars
    BY <2>3 DEF vars, cacheVars
  <2> QED  BY <1>6, <2>1, <2>2, <2>3
<1>7. ASSUME NEW d \in DeltaStreams, DeltaStreamNext(d) PROVE DeltaInOrder'
  <2>1. round' = round
    BY <1>7, DeltaStreamAlone DEF vars, cacheVars
  <2>2. ASSUME muxed' = [muxed EXCEPT ![d] = Tail(@)], muxed[d] # <<>> PROVE DeltaInOrder'
    BY <1>1, <1>3, <2>1, <2>2 DEF DeltaInOrder, DeltaTypeOK
  <2>3. ASSUME muxed' = [muxed EXCEPT ![d] = <<>>] PROVE DeltaInOrder'
    BY <1>1, <1>3, <2>1, <2>3 DEF DeltaInOrder, DeltaTypeOK
  <2>4. ASSUME NEW resp, resp.round = 0, muxed' = [muxed EXCEPT ![d] = Append(@, resp)]
        PROVE  DeltaInOrder'
    <3>1. /\ muxed'[d] = Append(muxed[d], resp) /\ muxed'[d] \in Seq(DeltaResponse)
          /\ \A e \in DeltaStreams : e # d => muxed'[e] = muxed[e]
      BY <1>1, <2>4 DEF DeltaTypeOK
    <3>2. Len(muxed[d]) + 1 \in DOMAIN muxed'[d] /\ muxed'[d][Len(muxed[d]) + 1] = resp
      BY SMTT(30), <1>2, <3>1
    <3>3. resp \in DeltaResponse
      BY SMTT(30), <3>1, <3>2
    <3> DEFINE new == <<resp>>
    <3>4. /\ muxed'[d] = muxed[d] \o new /\ new \in Seq(DeltaResponse)
          /\ \A i \in DOMAIN new : new[i].round = 0
      BY SMTT(30), <1>2, <2>4, <3>1, <3>3
    <3> HIDE DEF new
    <3>5. Sorted(muxed[d] \o new, round)
      BY <1>1, <1>2, <3>4, SortedConcat
    <3> QED  BY <1>3, <2>1, <3>1, <3>4, <3>5 DEF DeltaInOrder
  <2>5. CASE muxed' = muxed
    BY <1>4, <2>1, <2>5
  <2> QED  BY <1>1, <1>7, <2>2, <2>3, <2>4, <2>5, DeltaStreamQueues
<1>8. CASE \E n \in Nodes : SendHeartbeatsBoth(n) \/ ClearSnapshotBoth(n)
  BY <1>4, <1>6, <1>8 DEF SendHeartbeatsBoth, ClearSnapshotBoth, deltaStreamVars
<1>9. CASE \E c \in Streams : StreamNext(c) /\ UNCHANGED <<deltaCacheVars, deltaStreamVars>>
  BY <1>4, <1>6, <1>9 DEF deltaStreamVars
<1>10. CASE UNCHANGED deltaVars
  BY <1>4, <1>6, <1>10 DEF deltaVars, deltaStreamVars
<1> QED  BY <1>5, <1>7, <1>8, <1>9, <1>10 DEF DeltaNext

-----------------------------------------------------------------------------
(* What the server believes of a client, when every resource marshals.     *)

\* Every resource of every snapshot can be marshalled.
AllMarshal == \A snap \in Snapshots : \A t \in Types : Broken(snap, t) = {}

\* Every map is the whole one.
MapsAreWhole == \A snap \in Snapshots : versionMap[snap] \in {None, WholeMap(snap)}

\* An open watch is owed nothing of the snapshot.
NoDeltaOwed ==
    \A n \in Nodes : \A w \in deltaWatches[n] :
        snapshots[n] # None /\ ~deltaFailed[n] =>
            ~HasDeltaResponse(snapshots[n], WholeMap(snapshots[n]), w, FALSE)

\* A client holds what the versions r say of these names.
Agrees(r, v, names) == \A n \in names : r[n] \in Values => v[n] = r[n]

\* The stream is handling a request for the type.
Settling(d, t) == Busy(d) /\ deltaPending[d].type = t

\* The stream has a watch entry for the type and no response of it was overtaken.
Trusted(d, t) == deltaSub[d][t] # None /\ deltaPc[d] # "closing" /\ t \notin overtaken[d]

\* What the watch entry says of the client is right, but for what the client has just
\* given up; the open watch says the same, and so does a response once it is sent.
Believed(d, t) ==
    LET r == deltaSub[d][t].returnedResources
    IN  /\ \A n \in Nodes : \A w \in deltaWatches[n] :
              w.stream = d /\ w.type = t => w.sub = deltaSub[d][t]
        /\ Settling(d, t) => Agrees(r, view[d][t], Names \ Given(d, deltaPending[d]))
        /\ ~Settling(d, t) =>
              /\ Agrees(r, view[d][t], Names)
              /\ \A i \in DOMAIN muxed[d] : muxed[d][i].type = t =>
                    Agrees(muxed[d][i].returnedResources, Applied(view[d][t], muxed[d][i]), Names)

\* Where no response was overtaken, the server is right about its client.
Beliefs == \A d \in DeltaStreams : \A t \in Types : Trusted(d, t) => Believed(d, t)

\* What WatchingClientIsCurrent follows from.
ClientInv == MapsAreWhole /\ NoDeltaOwed /\ Beliefs

\* ConstructVersionMap then succeeds and gives the whole map.
LEMMA MapIsWhole ==
    ASSUME AllMarshal, MapsAreWhole, NEW snap \in Snapshots, NEW map \in ConstructVersionMap(snap)
    PROVE  map = WholeMap(snap) /\ ~VersionMapFails(snap)
  BY DEF AllMarshal, MapsAreWhole, ConstructVersionMap, VersionMapFails

\* A map that is built is the whole one.
LEMMA MapsStayWhole ==
    ASSUME AllMarshal, MapsAreWhole, DeltaTypeOK, NEW snap \in Snapshots,
           NEW map \in ConstructVersionMap(snap), versionMap' = [versionMap EXCEPT ![snap] = map]
    PROVE  MapsAreWhole'
<1>1. map = WholeMap(snap)
  BY MapIsWhole
<1> QED  BY <1>1 DEF MapsAreWhole, DeltaTypeOK

\* A client that was as the watch says is, once it has the response of
\* createDeltaResponse, as the response says.
LEMMA ResponseAgrees ==
    ASSUME NEW snap \in Snapshots, NEW w \in DeltaWatch, NEW r, NEW v,
           Agrees(w.sub.returnedResources, v, Names), NEW resp,
           resp = createDeltaResponse(snap, WholeMap(snap), w, r)
    PROVE  Agrees(resp.returnedResources, Applied(v, resp), Names)
<1> SUFFICES ASSUME NEW n \in Names, resp.returnedResources[n] \in Values
             PROVE  Applied(v, resp)[n] = resp.returnedResources[n]
  BY DEF Agrees
<1>1. w.type \in Types /\ Contents[snap][w.type] \in [Names -> Values]
  BY SnapshotDeltaAssumption DEF SnapshotDeltaAssumption, DeltaWatch
<1>2. None \notin Values
  BY SnapshotDeltaAssumption DEF SnapshotDeltaAssumption, DeltaVersions
<1> DEFINE map == WholeMap(snap)
           changed == DeltaChanged(snap, map, w)
           removed == DeltaRemoved(snap, w)
<1>3. /\ resp.resources[n] = IF n \in changed THEN Contents[snap][w.type][n] ELSE None
      /\ resp.returnedResources[n] = IF n \in removed THEN None
                                     ELSE IF n \in changed THEN map[w.type][n]
                                     ELSE w.sub.returnedResources[n]
      /\ resp.removed = removed
  BY DEF createDeltaResponse
<1>4. n \in changed => n \in snap[w.type].items /\ n \notin removed
  BY DEF DeltaChanged, DeltaRemoved
<1>5. n \in snap[w.type].items => map[w.type][n] = Contents[snap][w.type][n]
  BY <1>1 DEF WholeMap, HashesOf
<1>6. Applied(v, resp)[n] = IF resp.resources[n] # None THEN resp.resources[n]
                            ELSE IF n \in resp.removed THEN None ELSE v[n]
  BY DEF Applied
<1>7. w.sub.returnedResources[n] \in Values => v[n] = w.sub.returnedResources[n]
  BY DEF Agrees
<1> HIDE DEF map, changed, removed
<1>8. CASE n \in changed
  BY <1>1, <1>2, <1>3, <1>4, <1>5, <1>6, <1>8
<1>9. CASE n \notin changed
  BY <1>2, <1>3, <1>6, <1>7, <1>9
<1> QED  BY <1>8, <1>9

\* The server's belief stays right where neither the watch entry nor the client's
\* contents change, no watch is opened and no response is queued.
LEMMA BeliefFrame ==
    ASSUME NEW d, NEW t, Believed(d, t),
           \A n \in Nodes : \A w \in deltaWatches'[n] :
              w.stream = d /\ w.type = t => w \in deltaWatches[n],
           deltaSub'[d][t] = deltaSub[d][t], view'[d][t] = view[d][t],
           Settling(d, t)' <=> Settling(d, t), Settling(d, t) => deltaPending'[d] = deltaPending[d],
           \A i \in DOMAIN muxed'[d] : muxed'[d][i].type = t =>
              \E j \in DOMAIN muxed[d] : muxed'[d][i] = muxed[d][j]
    PROVE  Believed(d, t)'
<1>1. \A n \in Nodes : \A w \in deltaWatches'[n] :
         w.stream = d /\ w.type = t => w.sub = deltaSub'[d][t]
  BY DEF Believed
<1>2. ASSUME Settling(d, t)
      PROVE  Agrees(deltaSub'[d][t].returnedResources, view'[d][t],
                    Names \ Given(d, deltaPending[d])')
  <2>1. Given(d, deltaPending[d])' = Given(d, deltaPending[d])
    BY <1>2 DEF Given, Settling
  <2> QED  BY <1>2, <2>1 DEF Believed
<1>3. ASSUME ~Settling(d, t)
      PROVE  /\ Agrees(deltaSub'[d][t].returnedResources, view'[d][t], Names)
             /\ \A i \in DOMAIN muxed'[d] : muxed'[d][i].type = t =>
                   Agrees(muxed'[d][i].returnedResources, Applied(view'[d][t], muxed'[d][i]), Names)
  BY <1>3 DEF Believed
<1> QED  BY <1>1, <1>2, <1>3 DEF Believed, Agrees, Applied

\* A step that only takes watches away leaves the beliefs right.
LEMMA CacheBelieved ==
    ASSUME Beliefs, \A n \in Nodes : deltaWatches'[n] \subseteq deltaWatches[n],
           UNCHANGED <<deltaPc, deltaPending, deltaSub, muxed, view, overtaken>>
    PROVE  Beliefs'
<1> SUFFICES ASSUME NEW d \in DeltaStreams, NEW t \in Types, Trusted(d, t)'
             PROVE  Believed(d, t)'
  BY DEF Beliefs
<1>1. Trusted(d, t) /\ (Settling(d, t)' <=> Settling(d, t))
  BY DEF Trusted, Settling, Busy
<1>2. Believed(d, t)
  BY <1>1 DEF Beliefs
<1> QED  BY <1>1, <1>2, BeliefFrame

\* A response that respondDeltaWatches makes for a watch tells of the client once it has it.
LEMMA RespondBelieved ==
    ASSUME DeltaTypeOK, Beliefs, NEW n \in Nodes, NEW snap \in Snapshots, NEW r,
           NEW ws \in SUBSET deltaWatches[n], NEW q \in Shares(DeltaStreams, ws),
           RespondDelta(n, ws, q, [w \in ws |-> createDeltaResponse(snap, WholeMap(snap), w, r)]),
           UNCHANGED <<deltaPc, deltaPending, deltaSub, view, overtaken>>
    PROVE  Beliefs'
<1> SUFFICES ASSUME NEW d \in DeltaStreams, NEW t \in Types, Trusted(d, t)'
             PROVE  Believed(d, t)'
  BY DEF Beliefs
<1> DEFINE response == [w \in ws |-> createDeltaResponse(snap, WholeMap(snap), w, r)]
           new      == [i \in DOMAIN q[d] |-> response[q[d][i]]]
<1>1. Trusted(d, t) /\ (Settling(d, t)' <=> Settling(d, t))
  BY DEF Trusted, Settling, Busy
<1>2. Believed(d, t)
  BY <1>1 DEF Beliefs
<1>3. \A m \in Nodes : deltaWatches'[m] \subseteq deltaWatches[m]
  BY DEF RespondDelta, DeltaTypeOK
<1>4. muxed'[d] = muxed[d] \o new /\ muxed[d] \in Seq(DeltaResponse)
  BY DEF RespondDelta, DeltaTypeOK
<1>5. /\ q[d] \in Seq(ws)
      /\ \A i \in DOMAIN q[d] : q[d][i] \in ws /\ q[d][i].stream = d
  BY DeltaShareFacts
<1>6. \A w \in ws : response[w].type = w.type /\ w \in DeltaWatch /\ w \in deltaWatches[n]
  BY DEF createDeltaResponse, DeltaTypeOK
<1>7. \A i \in DOMAIN muxed'[d] :
         \/ i \in DOMAIN muxed[d] /\ muxed'[d][i] = muxed[d][i]
         \/ \E j \in DOMAIN q[d] : muxed'[d][i] = response[q[d][j]]
  <2> HIDE DEF response
  <2> QED  BY SMTT(90), <1>4, <1>5
<1>8. ASSUME ~Settling(d, t), NEW i \in DOMAIN muxed'[d], muxed'[d][i].type = t
      PROVE  Agrees(muxed'[d][i].returnedResources, Applied(view[d][t], muxed'[d][i]), Names)
  <2>1. CASE i \in DOMAIN muxed[d] /\ muxed'[d][i] = muxed[d][i]
    BY <1>2, <1>8, <2>1 DEF Believed
  <2>2. ASSUME NEW j \in DOMAIN q[d], muxed'[d][i] = response[q[d][j]]
        PROVE  Agrees(muxed'[d][i].returnedResources, Applied(view[d][t], muxed'[d][i]), Names)
    <3> DEFINE w == q[d][j]
    <3>1. w \in ws /\ w.stream = d /\ w.type = t /\ w \in DeltaWatch /\ w \in deltaWatches[n]
      BY <1>5, <1>6, <1>8, <2>2
    <3>2. muxed'[d][i] = createDeltaResponse(snap, WholeMap(snap), w, r)
      BY <2>2, <3>1
    <3>3. Agrees(w.sub.returnedResources, view[d][t], Names)
      BY <1>2, <1>8, <3>1 DEF Believed
    <3> HIDE DEF w, response
    <3> QED  BY <3>1, <3>2, <3>3, ResponseAgrees
  <2> QED  BY <1>7, <2>1, <2>2
<1>9. Settling(d, t) => Given(d, deltaPending[d])' = Given(d, deltaPending[d])
  BY DEF Given
<1> HIDE DEF response, new
<1>10. /\ \A m \in Nodes : \A w \in deltaWatches'[m] :
              w.stream = d /\ w.type = t => w.sub = deltaSub'[d][t]
       /\ Settling(d, t)' => Agrees(deltaSub'[d][t].returnedResources, view'[d][t],
                                    Names \ Given(d, deltaPending[d])')
       /\ ~Settling(d, t)' => Agrees(deltaSub'[d][t].returnedResources, view'[d][t], Names)
  BY <1>1, <1>2, <1>3, <1>9 DEF Believed
<1> QED  BY <1>1, <1>8, <1>10 DEF Believed, Agrees, Applied

\* SetSnapshot leaves no watch with something owed, unless it reports an error.
LEMMA SetSnapshotBelieved ==
    ASSUME AllMarshal, DeltaIInv, TypeOK, ClientInv, NEW n \in Nodes, NEW snap \in Snapshots,
           SetSnapshotBoth(n, snap)
    PROVE  ClientInv'
<1> USE DEF DeltaIInv
<1>1. /\ UNCHANGED <<deltaPc, deltaPending, deltaSub, view, overtaken>>
      /\ snapshots' = [snapshots EXCEPT ![n] = snap] /\ snapshots \in [Nodes -> Snapshot \cup {None}]
  BY DEF SetSnapshotBoth, SetSnapshot, TypeOK
<1>2. MapsAreWhole /\ NoDeltaOwed /\ Beliefs
  BY DEF ClientInv
<1>3. ASSUME NEW b \in BOOLEAN, DeltaUnanswered(n, b), MapsAreWhole', b \/ deltaWatches[n] = {}
      PROVE  ClientInv'
  <2>1. Beliefs'
    BY <1>1, <1>2, <1>3, CacheBelieved DEF DeltaUnanswered
  <2>2. /\ deltaFailed'[n] = b /\ UNCHANGED deltaWatches
        /\ \A m \in Nodes : m # n => snapshots'[m] = snapshots[m] /\ deltaFailed'[m] = deltaFailed[m]
    BY <1>1, <1>3 DEF DeltaUnanswered, DeltaTypeOK
  <2>3. NoDeltaOwed'
    <3> SUFFICES ASSUME NEW m \in Nodes, NEW w \in deltaWatches[m], snapshots'[m] # None,
                        ~deltaFailed'[m]
                 PROVE  ~HasDeltaResponse(snapshots'[m], WholeMap(snapshots'[m]), w, FALSE)
      BY <2>2 DEF NoDeltaOwed, HasDeltaResponse, DeltaChanged, DeltaRemoved, WholeMap, HashesOf
    <3>1. m # n
      BY <1>3, <2>2
    <3> QED  BY <1>2, <2>2, <3>1 DEF NoDeltaOwed
  <2> QED  BY <1>3, <2>1, <2>3 DEF ClientInv
<1>4. CASE failed'[n]
  BY <1>2, <1>3, <1>4 DEF SetSnapshotBoth, MapsAreWhole
<1>5. CASE ~failed'[n] /\ deltaWatches[n] = {}
  BY <1>2, <1>3, <1>5 DEF SetSnapshotBoth, respondDeltaWatches, MapsAreWhole
<1>6. CASE ~failed'[n] /\ deltaWatches[n] # {}
  <2>1. PICK map \in ConstructVersionMap(snap) :
          /\ versionMap' = [versionMap EXCEPT ![snap] = map]
          /\ IF VersionMapFails(snap)
             THEN DeltaUnanswered(n, TRUE)
             ELSE \E done \in Answered(DeltaDue(n, snap, map)) :
                  \E q \in orderResponseWatches(DeltaStreams, done) :
                    /\ RespondDelta(n, done, q, [w \in done |->
                                          createDeltaResponse(snap, map, w, round + 1)])
                    /\ deltaFailed' = [deltaFailed EXCEPT ![n] = (done # DeltaDue(n, snap, map))]
    BY <1>6 DEF SetSnapshotBoth, respondDeltaWatches
  <2>2. map = WholeMap(snap) /\ ~VersionMapFails(snap) /\ MapsAreWhole'
    BY <1>2, <2>1, MapIsWhole, MapsStayWhole
  <2> DEFINE due == DeltaDue(n, snap, WholeMap(snap))
  <2>3. PICK done \in Answered(due) : \E q \in orderResponseWatches(DeltaStreams, done) :
          /\ RespondDelta(n, done, q, [w \in done |->
                                createDeltaResponse(snap, WholeMap(snap), w, round + 1)])
          /\ deltaFailed' = [deltaFailed EXCEPT ![n] = (done # due)]
    BY <2>1, <2>2
  <2>4. PICK q \in orderResponseWatches(DeltaStreams, done) :
          /\ RespondDelta(n, done, q, [w \in done |->
                                createDeltaResponse(snap, WholeMap(snap), w, round + 1)])
          /\ deltaFailed' = [deltaFailed EXCEPT ![n] = (done # due)]
    BY <2>3
  <2>5. done \in SUBSET deltaWatches[n] /\ q \in Shares(DeltaStreams, done)
    BY DEF Answered, DeltaDue, orderResponseWatches
  <2>6. Beliefs'
    BY <1>1, <1>2, <2>4, <2>5, RespondBelieved
  <2>7. /\ deltaWatches'[n] = deltaWatches[n] \ done /\ deltaFailed'[n] = (done # due)
        /\ \A m \in Nodes : m # n => /\ snapshots'[m] = snapshots[m]
                                     /\ deltaFailed'[m] = deltaFailed[m]
                                     /\ deltaWatches'[m] = deltaWatches[m]
        /\ snapshots'[n] = snap
    BY <1>1, <2>4 DEF RespondDelta, DeltaTypeOK
  <2>8. NoDeltaOwed'
    <3> SUFFICES ASSUME NEW m \in Nodes, NEW w \in deltaWatches'[m], snapshots'[m] # None,
                        ~deltaFailed'[m]
                 PROVE  ~HasDeltaResponse(snapshots'[m], WholeMap(snapshots'[m]), w, FALSE)
      BY DEF NoDeltaOwed, HasDeltaResponse, DeltaChanged, DeltaRemoved, WholeMap, HashesOf
    <3>1. CASE m = n
      BY <2>7, <3>1 DEF DeltaDue
    <3>2. CASE m # n
      BY <1>2, <2>7, <3>2 DEF NoDeltaOwed
    <3> QED  BY <3>1, <3>2
  <2> QED  BY <2>2, <2>6, <2>8 DEF ClientInv
<1> QED  BY <1>4, <1>5, <1>6

\* Steps that touch neither the snapshots nor the maps and open no watch.
LEMMA OwedFrame ==
    ASSUME MapsAreWhole, NoDeltaOwed, UNCHANGED <<versionMap, deltaFailed, snapshots>>,
           \A n \in Nodes : deltaWatches'[n] \subseteq deltaWatches[n]
    PROVE  MapsAreWhole' /\ NoDeltaOwed'
<1>1. MapsAreWhole'
  BY DEF MapsAreWhole
<1>2. NoDeltaOwed'
  <2> SUFFICES ASSUME NEW n \in Nodes, NEW w \in deltaWatches'[n], snapshots'[n] # None,
                      ~deltaFailed'[n]
               PROVE  ~HasDeltaResponse(snapshots'[n], WholeMap(snapshots'[n]), w, FALSE)
    BY DEF NoDeltaOwed, HasDeltaResponse, DeltaChanged, DeltaRemoved, WholeMap, HashesOf
  <2> QED  BY DEF NoDeltaOwed
<1> QED  BY <1>1, <1>2

\* The beliefs of a loop stay right while it takes no step.
LEMMA IdleStream ==
    ASSUME Beliefs, NEW d \in DeltaStreams, NEW t \in Types, Trusted(d, t)',
           \A n \in Nodes : \A w \in deltaWatches'[n] : w.stream = d => w \in deltaWatches[n],
           deltaPc'[d] = deltaPc[d], deltaPending'[d] = deltaPending[d],
           deltaSub'[d] = deltaSub[d], muxed'[d] = muxed[d],
           view'[d] = view[d], overtaken'[d] = overtaken[d]
    PROVE  Believed(d, t)'
<1>1. Trusted(d, t) /\ (Settling(d, t)' <=> Settling(d, t))
  BY DEF Trusted, Settling, Busy
<1>2. Believed(d, t)
  BY <1>1 DEF Beliefs
<1> QED  BY <1>1, <1>2, BeliefFrame

\* A step of one loop leaves the beliefs of the others right.
LEMMA OtherStreams ==
    ASSUME Beliefs, NEW d \in DeltaStreams,
           \A n \in Nodes : \A w \in deltaWatches'[n] : w.stream # d => w \in deltaWatches[n],
           \A e \in DeltaStreams : e # d =>
              /\ deltaPc'[e] = deltaPc[e] /\ deltaPending'[e] = deltaPending[e]
              /\ deltaSub'[e] = deltaSub[e] /\ muxed'[e] = muxed[e]
              /\ view'[e] = view[e] /\ overtaken'[e] = overtaken[e],
           \A t \in Types : Trusted(d, t)' => Believed(d, t)'
    PROVE  Beliefs'
<1>1. ASSUME NEW e \in DeltaStreams, NEW t \in Types, Trusted(e, t)', e # d
      PROVE  Believed(e, t)'
  <2>1. \A n \in Nodes : \A w \in deltaWatches'[n] : w.stream = e => w \in deltaWatches[n]
    BY <1>1
  <2>2. /\ deltaPc'[e] = deltaPc[e] /\ deltaPending'[e] = deltaPending[e]
        /\ deltaSub'[e] = deltaSub[e] /\ muxed'[e] = muxed[e]
        /\ view'[e] = view[e] /\ overtaken'[e] = overtaken[e]
    BY <1>1
  <2> QED  BY <1>1, <2>1, <2>2, IdleStream
<1> QED  BY <1>1 DEF Beliefs

\* process: the client is as the response says, and no other response of the type follows.
LEMMA ProcessBelieved ==
    ASSUME DeltaIInv, ClientInv, NEW d \in DeltaStreams, DeltaProcess(d)
    PROVE  ClientInv'
<1> USE DEF DeltaIInv
<1> DEFINE resp == Head(muxed[d])
<1>1. /\ deltaPc[d] = "idle" /\ muxed[d] # <<>> /\ muxed' = [muxed EXCEPT ![d] = Tail(@)]
      /\ UNCHANGED <<vars, deltaCacheVars, deltaPending, deltaCancel, overtaken>>
  BY DEF DeltaProcess
<1>2. /\ resp.marshals => /\ deltaSub' = [deltaSub EXCEPT ![d][resp.type] =
                                            SetReturnedResources(@, resp.returnedResources)]
                          /\ view' = [view EXCEPT ![d][resp.type] = Applied(@, resp)]
                          /\ UNCHANGED deltaPc
      /\ ~resp.marshals => deltaPc' = [deltaPc EXCEPT ![d] = "closing"] /\ UNCHANGED <<deltaSub, view>>
  BY DEF DeltaProcess
<1>3. MapsAreWhole' /\ NoDeltaOwed'
  BY <1>1, OwedFrame DEF ClientInv, vars, cacheVars, deltaCacheVars
<1>4. muxed[d] \in Seq(DeltaResponse) /\ resp = muxed[d][1] /\ 1 \in DOMAIN muxed[d]
  BY SMTT(30), <1>1 DEF DeltaTypeOK
<1>5. muxed'[d] = Tail(muxed[d])
  BY <1>1 DEF DeltaTypeOK
<1>6. resp \in DeltaResponse /\ resp.type \in Types
  <2>1. resp \in DeltaResponse
    BY SMTT(30), <1>4
  <2> QED  BY <2>1 DEF DeltaResponse
<1>10. /\ deltaSub \in [DeltaStreams -> [Types -> DeltaSub \cup {None}]]
       /\ view \in [DeltaStreams -> [Types -> [Names -> Values \cup {None}]]]
  BY DEF DeltaTypeOK
<1>7. ASSUME NEW t \in Types, Trusted(d, t)' PROVE Believed(d, t)'
  <2>1. resp.marshals /\ deltaPc'[d] = "idle"
    BY <1>1, <1>2, <1>7 DEF Trusted, DeltaTypeOK
  <2>2. ~Settling(d, t) /\ ~Settling(d, t)'
    BY <1>1, <2>1 DEF Settling, Busy
  <2>3. /\ \A j \in DOMAIN muxed'[d] : \E i \in DOMAIN muxed[d] : muxed'[d][j] = muxed[d][i]
        /\ resp.type = t /\ One(muxed[d], t) => ~Has(muxed'[d], t)
    <3>1. \A j \in DOMAIN Tail(muxed[d]) :
             j + 1 \in DOMAIN muxed[d] /\ Tail(muxed[d])[j] = muxed[d][j + 1]
      BY <1>1, <1>4, RoomTail
    <3>2. muxed[d][1].type = t /\ One(muxed[d], t) => ~Has(Tail(muxed[d]), t)
      BY <1>1, <1>4, RoomTail
    <3> HIDE DEF resp
    <3> QED  BY <1>4, <1>5, <3>1, <3>2
  <2> DEFINE ret == SetReturnedResources(deltaSub[d][resp.type], resp.returnedResources)
             now == Applied(view[d][resp.type], resp)
  <2>6. /\ deltaSub' = [deltaSub EXCEPT ![d][resp.type] = ret]
        /\ view' = [view EXCEPT ![d][resp.type] = now]
    BY <1>2, <2>1
  <2> HIDE DEF resp, ret, now
  <2>7. /\ deltaSub'[d][resp.type] = ret /\ view'[d][resp.type] = now
        /\ t # resp.type => deltaSub'[d][t] = deltaSub[d][t] /\ view'[d][t] = view[d][t]
    BY <1>6, <1>10, <2>6
  <2>4. CASE t # resp.type
    <3>1. deltaSub'[d][t] = deltaSub[d][t] /\ view'[d][t] = view[d][t]
      BY <2>4, <2>7
    <3>2. Trusted(d, t)
      BY <1>1, <1>7, <3>1 DEF Trusted
    <3>3. Believed(d, t)
      BY <3>2 DEF ClientInv, Beliefs
    <3> QED  BY <1>1, <2>2, <2>3, <3>1, <3>3, BeliefFrame DEF deltaCacheVars
  <2>5. CASE t = resp.type
    <3>1. Has(muxed[d], t)
      BY <1>4, <2>5 DEF Has
    <3>2. deltaSub[d][t] # None
      BY <1>1, <3>1 DEF DeltaEntries
    <3>3. Trusted(d, t)
      BY <1>1, <1>7, <3>2 DEF Trusted
    <3>4. Believed(d, t)
      BY <3>3 DEF ClientInv, Beliefs
    <3>5. ~DeltaWaiting(d, t) /\ One(muxed[d], t)
      BY <3>1, <3>3 DEF DeltaRoom, Room, Trusted
    <3>6. ~Has(muxed'[d], t)
      BY <2>3, <2>5, <3>5
    <3>7. Agrees(resp.returnedResources, Applied(view[d][t], resp), Names)
      BY <1>4, <2>2, <2>5, <3>4 DEF Believed
    <3>8. /\ deltaSub'[d][t] = SetReturnedResources(deltaSub[d][t], resp.returnedResources)
          /\ view'[d][t] = Applied(view[d][t], resp)
      BY <2>5, <2>7 DEF ret, now
    <3>9. deltaSub[d][t] \in DeltaSub
      BY <1>10, <3>2
    <3>10. deltaSub'[d][t].returnedResources = resp.returnedResources
      BY <3>8, <3>9 DEF SetReturnedResources, DeltaSub, SubscriptionsOver
    <3>11. ~DeltaWaiting(d, t)'
      BY <1>1, <3>5 DEF DeltaWaiting, deltaCacheVars
    <3> QED  BY <2>2, <3>6, <3>7, <3>8, <3>10, <3>11 DEF Believed, Has, DeltaWaiting, Agrees
  <2> QED  BY <2>4, <2>5
<1>8. \A e \in DeltaStreams : e # d => deltaPc'[e] = deltaPc[e] /\ deltaSub'[e] = deltaSub[e]
                                       /\ muxed'[e] = muxed[e] /\ view'[e] = view[e]
  BY <1>1, <1>2 DEF DeltaTypeOK
<1>9. Beliefs'
  BY <1>1, <1>7, <1>8, OtherStreams DEF ClientInv, deltaCacheVars
<1> QED  BY <1>3, <1>9 DEF ClientInv

\* A request comes in: the client has given up what it unsubscribes from.
LEMMA DrainedBelieved ==
    ASSUME DeltaIInv, ClientInv, NEW d \in DeltaStreams, NEW req \in DeltaRequests,
           DeltaDrained(d, req)
    PROVE  ClientInv'
<1> USE DEF DeltaIInv
<1>1. /\ deltaPc[d] = "idle" /\ muxed[d] = <<>>
      /\ deltaPc' = [deltaPc EXCEPT ![d] = "drained"]
      /\ deltaPending' = [deltaPending EXCEPT ![d] = req]
      /\ view' = [view EXCEPT ![d][req.type] = Dropped(@, Given(d, req))]
      /\ UNCHANGED <<vars, deltaCacheVars, deltaSub, deltaCancel, muxed, overtaken>>
  BY DEF DeltaDrained
<1>2. MapsAreWhole' /\ NoDeltaOwed'
  BY <1>1, OwedFrame DEF ClientInv, vars, cacheVars, deltaCacheVars
<1>3. ASSUME NEW t \in Types, Trusted(d, t)' PROVE Believed(d, t)'
  <2>1. Trusted(d, t) /\ ~Settling(d, t)
    BY <1>1, <1>3 DEF Trusted, Settling, Busy
  <2>2. Believed(d, t)
    BY <2>1 DEF ClientInv, Beliefs
  <2>3. deltaPending'[d] = req /\ deltaPc'[d] = "drained"
    BY <1>1 DEF DeltaTypeOK
  <2>4. CASE t # req.type
    <3>1. ~Settling(d, t)' /\ view'[d][t] = view[d][t]
      BY <1>1, <2>3, <2>4 DEF Settling, DeltaTypeOK
    <3> QED  BY <1>1, <2>1, <2>2, <3>1, BeliefFrame DEF deltaCacheVars
  <2>5. CASE t = req.type
    <3>1. Settling(d, t)' /\ view'[d][t] = Dropped(view[d][t], Given(d, req))
      BY <1>1, <2>3, <2>5 DEF Settling, Busy, DeltaTypeOK
    <3>2. Given(d, deltaPending[d])' = Given(d, req)
      <4>1. deltaSub' = deltaSub
        BY <1>1
      <4> QED  BY <2>3, <4>1 DEF Given
    <3>3. Agrees(deltaSub[d][t].returnedResources, view[d][t], Names)
      BY <2>1, <2>2 DEF Believed
    <3>4. Agrees(deltaSub'[d][t].returnedResources, view'[d][t],
                 Names \ Given(d, deltaPending[d])')
      <4> DEFINE r == deltaSub[d][t].returnedResources
                 given == Given(d, req)
      <4>1. deltaSub'[d][t].returnedResources = r
        BY <1>1
      <4>2. Agrees(r, Dropped(view[d][t], given), Names \ given)
        BY <3>3 DEF Agrees, Dropped
      <4> HIDE DEF r, given
      <4> QED  BY <3>1, <3>2, <4>1, <4>2 DEF given
    <3>5. \A n \in Nodes : \A w \in deltaWatches'[n] :
             w.stream = d /\ w.type = t => w.sub = deltaSub'[d][t]
      BY <1>1, <2>2 DEF Believed, deltaCacheVars
    <3> QED  BY <3>1, <3>4, <3>5 DEF Believed, Agrees
  <2> QED  BY <2>4, <2>5
<1>4. \A e \in DeltaStreams : e # d => deltaPc'[e] = deltaPc[e] /\ view'[e] = view[e]
                                       /\ deltaPending'[e] = deltaPending[e]
  BY <1>1 DEF DeltaTypeOK
<1>5. Beliefs'
  BY <1>1, <1>3, <1>4, OtherStreams DEF ClientInv, deltaCacheVars
<1> QED  BY <1>2, <1>5 DEF ClientInv

\* A loop that opens, ends, or cleans up has no watch entry that is trusted.
LEMMA QuietBelieved ==
    ASSUME ClientInv, NEW d \in DeltaStreams, \A t \in Types : ~Trusted(d, t)',
           UNCHANGED <<versionMap, deltaFailed, snapshots>>,
           \A n \in Nodes : deltaWatches'[n] \subseteq deltaWatches[n],
           \A e \in DeltaStreams : e # d =>
              /\ deltaPc'[e] = deltaPc[e] /\ deltaPending'[e] = deltaPending[e]
              /\ deltaSub'[e] = deltaSub[e] /\ muxed'[e] = muxed[e]
              /\ view'[e] = view[e] /\ overtaken'[e] = overtaken[e]
    PROVE  ClientInv'
<1>1. MapsAreWhole' /\ NoDeltaOwed'
  BY OwedFrame DEF ClientInv
<1>2. Beliefs'
  BY OtherStreams DEF ClientInv
<1> QED  BY <1>1, <1>2 DEF ClientInv

\* The watch of the type is cancelled: nothing is believed that was not.
LEMMA CancelWatchBelieved ==
    ASSUME DeltaIInv, ClientInv, NEW d \in DeltaStreams, NEW u, u = deltaPending[d].type,
           DeltaCancelWatch(d)
    PROVE  ClientInv'
<1> USE DEF DeltaIInv
<1>1. /\ deltaPc[d] = "drained" /\ CancelDelta(d, u)
      /\ deltaPc' = [deltaPc EXCEPT ![d] = "cancelled"]
      /\ UNCHANGED <<snapshots, versionMap, deltaFailed>>
      /\ UNCHANGED <<deltaPending, deltaSub, muxed, view, overtaken>>
  BY DEF DeltaCancelWatch, vars, cacheVars
<1>2. u \in Types
  BY <1>1, PendingIsRequest DEF DeltaReplacing, Busy
<1>3. \A n \in Nodes : deltaWatches'[n] \subseteq deltaWatches[n]
  BY <1>1, <1>2, CancelDeltaFacts
<1>4. deltaPc'[d] = "cancelled" /\ \A e \in DeltaStreams : e # d => deltaPc'[e] = deltaPc[e]
  BY <1>1 DEF DeltaTypeOK
<1>5. ASSUME NEW t \in Types, Trusted(d, t)' PROVE Believed(d, t)'
  <2>1. Trusted(d, t) /\ (Settling(d, t)' <=> Settling(d, t))
    BY <1>1, <1>4, <1>5 DEF Trusted, Settling, Busy
  <2>2. Believed(d, t)
    BY <2>1 DEF ClientInv, Beliefs
  <2> QED  BY <1>1, <1>3, <2>1, <2>2, BeliefFrame
<1>6. Beliefs'
  BY <1>1, <1>3, <1>4, <1>5, OtherStreams DEF ClientInv
<1>7. MapsAreWhole' /\ NoDeltaOwed'
  BY <1>1, <1>3, OwedFrame DEF ClientInv
<1> QED  BY <1>6, <1>7 DEF ClientInv

\* UpdateResourceSubscriptions forgets what the client has given up.
LEMMA UpdateAgrees ==
    ASSUME NEW s, NEW subscribed, NEW unsubscribed, NEW v,
           LET given == IF s.allowLegacyWildcard /\ subscribed = {} THEN {}
                        ELSE Listed(unsubscribed)
           IN  Agrees(s.returnedResources, v, Names \ given)
    PROVE  Agrees(UpdateResourceSubscriptions(s, subscribed, unsubscribed).returnedResources,
                  v, Names)
<1> DEFINE new == UpdateResourceSubscriptions(s, subscribed, unsubscribed)
<1>1. CASE s.allowLegacyWildcard /\ subscribed = {}
  BY <1>1 DEF UpdateResourceSubscriptions, Agrees
<1>2. CASE ~(s.allowLegacyWildcard /\ subscribed = {})
  <2>1. None \notin Values /\ Blank \notin Values
    BY SnapshotDeltaAssumption DEF SnapshotDeltaAssumption, DeltaVersions
  <2>2. \A n \in Names : \/ new.returnedResources[n] \in {Blank, None}
                         \/ /\ n \notin Listed(unsubscribed)
                            /\ new.returnedResources[n] = s.returnedResources[n]
    BY <1>2 DEF UpdateResourceSubscriptions
  <2>3. Agrees(s.returnedResources, v, Names \ Listed(unsubscribed))
    BY <1>2
  <2> HIDE DEF new
  <2>4. Agrees(new.returnedResources, v, Names)
    BY <2>1, <2>2, <2>3 DEF Agrees
  <2> QED  BY <2>4 DEF new
<1> QED  BY <1>1, <1>2

\* CreateDeltaWatch opens a watch only when nothing is owed, and queues no response
\* behind another one of the type unless that is overtaken.
LEMMA AnswerOrOpenBelieved ==
    ASSUME DeltaIInv, ClientInv, NEW d \in DeltaStreams, NEW req, req = deltaPending[d],
           NEW s \in DeltaSub, NEW snap, snap = snapshots[DeltaNodeOf[d]], NEW map,
           snap # None => map = WholeMap(snap),
           Busy(d), ~DeltaWaiting(d, req.type), AnswerOrOpen(d, s, req, snap, map),
           deltaPending' = [deltaPending EXCEPT ![d] = None],
           overtaken[d] \subseteq overtaken'[d],
           \A e \in DeltaStreams : e # d => overtaken'[e] = overtaken[e],
           Has(muxed[d], req.type) => req.type \in overtaken'[d],
           req.type \notin overtaken'[d] => Agrees(s.returnedResources, view[d][req.type], Names),
           UNCHANGED <<snapshots, deltaFailed, view>>, MapsAreWhole'
    PROVE  ClientInv'
<1> USE DEF DeltaIInv
<1> DEFINE u    == req.type
           n    == DeltaNodeOf[d]
           w    == [id |-> deltaWatchCount + 1, stream |-> d, type |-> u, sub |-> s]
           resp == createDeltaResponse(snap, map, w, 0)
<1>1. req \in DeltaRequest /\ u \in Types /\ n \in Nodes /\ (snap # None => snap \in Snapshots)
  BY PendingIsRequest, SnapshotDeltaAssumption
     DEF SnapshotDeltaAssumption, DeltaReplacing, KnownSnapshots
<1>2. w \in DeltaWatch /\ w.stream = d /\ w.type = u /\ w.sub = s
  <2>1. deltaWatchCount + 1 \in Nat
    <3>1. deltaWatchCount \in Nat
      BY DEF DeltaTypeOK
    <3> QED  BY SMTT(30), <3>1
  <2> QED  BY <1>1, <2>1 DEF DeltaWatch
<1>3. /\ deltaSub' = [deltaSub EXCEPT ![d][u] = s] /\ deltaPc' = [deltaPc EXCEPT ![d] = "idle"]
      /\ \/ /\ snap # None /\ UNCHANGED deltaWatches
            /\ muxed' = [muxed EXCEPT ![d] = Append(@, resp)]
         \/ /\ snap # None => ~HasDeltaResponse(snap, map, w, s.wildcard /\ ~req.responseNonce)
            /\ deltaWatches' = [deltaWatches EXCEPT ![n] = @ \cup {w}]
            /\ UNCHANGED muxed
  BY DEF AnswerOrOpen
<1>4. resp.type = u
  BY DEF createDeltaResponse
<1>5. snap # None => \A v : Agrees(s.returnedResources, v, Names) =>
                               Agrees(resp.returnedResources, Applied(v, resp), Names)
  BY <1>1, <1>2, ResponseAgrees
<1>6. /\ \A m \in Nodes : \A x \in deltaWatches'[m] :
            x \in deltaWatches[m] \/ (m = n /\ x = w /\ (snap # None => ~HasDeltaResponse(snap, map, w, FALSE)))
      /\ muxed[d] \in Seq(DeltaResponse)
      /\ \A e \in DeltaStreams : e # d => muxed'[e] = muxed[e]
      /\ muxed'[d] = muxed[d] \/ (snap # None /\ muxed'[d] = Append(muxed[d], resp))
  <2>1. /\ muxed \in [DeltaStreams -> Seq(DeltaResponse)]
        /\ deltaWatches \in [Nodes -> SUBSET DeltaWatch]
    BY DEF DeltaTypeOK
  <2>2. HasDeltaResponse(snap, map, w, FALSE) =>
            HasDeltaResponse(snap, map, w, s.wildcard /\ ~req.responseNonce)
    BY DEF HasDeltaResponse
  <2> HIDE DEF resp, w
  <2>3. CASE /\ snap # None /\ UNCHANGED deltaWatches
             /\ muxed' = [muxed EXCEPT ![d] = Append(@, resp)]
    BY <2>1, <2>3
  <2>4. CASE /\ snap # None => ~HasDeltaResponse(snap, map, w, s.wildcard /\ ~req.responseNonce)
             /\ deltaWatches' = [deltaWatches EXCEPT ![n] = @ \cup {w}]
             /\ UNCHANGED muxed
    <3>1. \A m \in Nodes : \A x \in deltaWatches'[m] : x \in deltaWatches[m] \/ (m = n /\ x = w)
      BY <1>1, <2>1, <2>4
    <3> QED  BY <2>1, <2>2, <2>4, <3>1
  <2> QED  BY <1>3, <2>3, <2>4
<1> HIDE DEF resp, w
<1>7. \A i \in DOMAIN muxed'[d] : \/ i \in DOMAIN muxed[d] /\ muxed'[d][i] = muxed[d][i]
                                  \/ snap # None /\ muxed'[d][i] = resp
  BY SMTT(90), <1>6
<1>8. NoDeltaOwed'
  <2> SUFFICES ASSUME NEW m \in Nodes, NEW x \in deltaWatches'[m], snapshots'[m] # None,
                      ~deltaFailed'[m]
               PROVE  ~HasDeltaResponse(snapshots'[m], WholeMap(snapshots'[m]), x, FALSE)
    BY DEF NoDeltaOwed, HasDeltaResponse, DeltaChanged, DeltaRemoved, WholeMap, HashesOf
  <2>1. CASE x \in deltaWatches[m]
    BY <2>1 DEF ClientInv, NoDeltaOwed
  <2>2. CASE m = n /\ x = w /\ (snap # None => ~HasDeltaResponse(snap, map, w, FALSE))
    BY <2>2
  <2> QED  BY <1>6, <2>1, <2>2
<1>9. /\ deltaPc'[d] = "idle" /\ deltaSub'[d][u] = s
      /\ \A t \in Types : t # u => deltaSub'[d][t] = deltaSub[d][t]
      /\ \A e \in DeltaStreams : e # d =>
            /\ deltaPc'[e] = deltaPc[e] /\ deltaPending'[e] = deltaPending[e]
            /\ deltaSub'[e] = deltaSub[e]
  BY <1>1, <1>3 DEF DeltaTypeOK
<1>10. ASSUME NEW t \in Types, Trusted(d, t)' PROVE Believed(d, t)'
  <2>1. ~Settling(d, t)' /\ t \notin overtaken'[d] /\ t \notin overtaken[d]
    BY <1>9, <1>10 DEF Settling, Busy, Trusted
  <2>2. CASE t = u
    <3>1. Agrees(s.returnedResources, view[d][t], Names) /\ ~Has(muxed[d], t)
      BY <2>1, <2>2
    <3>2. \A i \in DOMAIN muxed'[d] : muxed'[d][i].type = t => snap # None /\ muxed'[d][i] = resp
      BY <1>7, <3>1 DEF Has
    <3>3. \A m \in Nodes : \A x \in deltaWatches'[m] : x.stream = d /\ x.type = t => x.sub = s
      BY <1>2, <1>6, <2>2 DEF DeltaWaiting
    <3>4. \A i \in DOMAIN muxed'[d] : muxed'[d][i].type = t =>
             Agrees(muxed'[d][i].returnedResources, Applied(view[d][t], muxed'[d][i]), Names)
      BY <1>5, <3>1, <3>2
    <3>5. /\ view'[d][t] = view[d][t] /\ deltaSub'[d][t] = s
          /\ Agrees(deltaSub'[d][t].returnedResources, view'[d][t], Names)
      BY <1>9, <2>2, <3>1
    <3> QED  BY <2>1, <3>3, <3>4, <3>5 DEF Believed
  <2>3. CASE t # u
    <3>1. Trusted(d, t) /\ ~Settling(d, t)
      BY <1>9, <1>10, <2>1, <2>3 DEF Trusted, Busy, Settling
    <3>2. Believed(d, t)
      BY <3>1 DEF ClientInv, Beliefs
    <3>3. /\ \A m \in Nodes : \A x \in deltaWatches'[m] :
                x.stream = d /\ x.type = t => x \in deltaWatches[m]
          /\ \A i \in DOMAIN muxed'[d] : muxed'[d][i].type = t =>
                \E j \in DOMAIN muxed[d] : muxed'[d][i] = muxed[d][j]
          /\ deltaSub'[d][t] = deltaSub[d][t] /\ view'[d][t] = view[d][t]
      BY <1>2, <1>4, <1>6, <1>7, <1>9, <2>3
    <3>4. \A m \in Nodes : \A x \in deltaWatches'[m] :
             x.stream = d /\ x.type = t => x.sub = deltaSub'[d][t]
      BY <3>2, <3>3 DEF Believed
    <3>5. Agrees(deltaSub'[d][t].returnedResources, view'[d][t], Names)
      BY <3>1, <3>2, <3>3 DEF Believed
    <3>6. \A i \in DOMAIN muxed'[d] : muxed'[d][i].type = t =>
             Agrees(muxed'[d][i].returnedResources, Applied(view'[d][t], muxed'[d][i]), Names)
      BY <3>1, <3>2, <3>3 DEF Believed
    <3> QED  BY <2>1, <3>4, <3>5, <3>6 DEF Believed
  <2> QED  BY <2>2, <2>3
<1>11. Beliefs'
  <2>1. \A m \in Nodes : \A x \in deltaWatches'[m] : x.stream # d => x \in deltaWatches[m]
    BY <1>2, <1>6
  <2> QED  BY <1>6, <1>9, <1>10, <2>1, OtherStreams DEF ClientInv
<1> QED  BY <1>8, <1>11 DEF ClientInv

\* CreateDeltaWatch through the MuxCache: a type without a cache ends the stream.
LEMMA CreateBelieved ==
    ASSUME AllMarshal, DeltaIInv, ClientInv, NEW d \in DeltaStreams, NEW req, req = deltaPending[d],
           NEW s \in DeltaSub, Busy(d), ~DeltaWaiting(d, req.type),
           MuxCreateDeltaWatch(d, s, req), deltaPending' = [deltaPending EXCEPT ![d] = None],
           overtaken[d] \subseteq overtaken'[d],
           \A e \in DeltaStreams : e # d => overtaken'[e] = overtaken[e],
           Has(muxed[d], req.type) => req.type \in overtaken'[d],
           req.type \notin overtaken'[d] => Agrees(s.returnedResources, view[d][req.type], Names),
           UNCHANGED <<snapshots, deltaFailed, view>>
    PROVE  ClientInv'
<1> DEFINE snap == snapshots[DeltaNodeOf[d]]
<1>1. DeltaTypeOK /\ DeltaNodeOf[d] \in Nodes /\ snap \in Snapshots \cup {None} /\ MapsAreWhole
  BY SnapshotDeltaAssumption DEF SnapshotDeltaAssumption, DeltaIInv, KnownSnapshots, ClientInv
<1>2. CASE req.type \notin Classified
  <2>1. DeltaFail(d) /\ UNCHANGED versionMap
    BY <1>2 DEF MuxCreateDeltaWatch
  <2>2. /\ deltaPc'[d] = "closing" /\ UNCHANGED deltaWatches
        /\ \A e \in DeltaStreams : e # d =>
              /\ deltaPc'[e] = deltaPc[e] /\ deltaPending'[e] = deltaPending[e]
              /\ deltaSub'[e] = deltaSub[e] /\ muxed'[e] = muxed[e]
    BY <1>1, <2>1 DEF DeltaFail, DeltaTypeOK
  <2>3. \A t \in Types : ~Trusted(d, t)'
    BY <2>2 DEF Trusted
  <2> QED  BY <2>1, <2>2, <2>3, QuietBelieved
<1>3. CASE CreateDeltaWatch(d, s, req) /\ snap = None
  <2>1. AnswerOrOpen(d, s, req, None, None) /\ MapsAreWhole'
    BY <1>1, <1>3 DEF CreateDeltaWatch, MapsAreWhole
  <2> QED  BY <1>3, <2>1, AnswerOrOpenBelieved
<1>4. CASE CreateDeltaWatch(d, s, req) /\ snap # None
  <2>1. PICK map \in ConstructVersionMap(snap) :
           /\ versionMap' = [versionMap EXCEPT ![snap] = map]
           /\ IF VersionMapFails(snap) THEN DeltaFail(d) ELSE AnswerOrOpen(d, s, req, snap, map)
    BY <1>4 DEF CreateDeltaWatch
  <2>2. map = WholeMap(snap) /\ MapsAreWhole' /\ AnswerOrOpen(d, s, req, snap, map)
    BY <1>1, <1>4, <2>1, MapIsWhole, MapsStayWhole
  <2> QED  BY <2>2, AnswerOrOpenBelieved
<1> QED  BY <1>2, <1>3, <1>4 DEF MuxCreateDeltaWatch

\* The first request for a type tells of what the client holds, or of nothing.
LEMMA FirstRequestBelieved ==
    ASSUME AllMarshal, DeltaIInv, ClientInv, NEW d \in DeltaStreams, NEW req,
           req = deltaPending[d], DeltaFirstRequest(d)
    PROVE  ClientInv'
<1>1. /\ deltaPc[d] = "drained" /\ deltaSub[d][req.type] = None
      /\ deltaPending' = [deltaPending EXCEPT ![d] = None]
      /\ UNCHANGED <<snapshots, deltaFailed, view, overtaken>>
  BY DEF DeltaFirstRequest, vars, cacheVars
<1>2. /\ DeltaTypeOK /\ Busy(d) /\ req.type \in Types
      /\ req.subscribe \in SUBSET Tokens /\ req.unsubscribe \in Seq(Tokens)
  BY <1>1, PendingIsRequest DEF DeltaIInv, DeltaReplacing, Busy
<1>3. PICK known \in {NothingKnown, view[d][req.type]} :
        MuxCreateDeltaWatch(d, NewDeltaSubscription(req.subscribe, req.unsubscribe, known,
                                                    LegacyWildcard), req)
  BY DEF DeltaFirstRequest
<1>4. known \in [Names -> Values \cup {None}]
  <2>1. view[d][req.type] \in [Names -> Values \cup {None}]
    BY <1>2 DEF DeltaTypeOK
  <2>2. NothingKnown \in [Names -> Values \cup {None}]
    BY DEF NothingKnown
  <2> QED  BY <2>1, <2>2
<1> DEFINE first == newSubscription(req.subscribe = {}, LegacyWildcard, known)
           s == NewDeltaSubscription(req.subscribe, req.unsubscribe, known, LegacyWildcard)
<1>5. s \in DeltaSub /\ MuxCreateDeltaWatch(d, s, req)
  BY <1>2, <1>3, <1>4, DeltaSubscriptionType
<1>6. ~DeltaWaiting(d, req.type) /\ ~Has(muxed[d], req.type)
  BY <1>1, <1>2 DEF DeltaIInv, DeltaEntries
<1>7. Agrees(s.returnedResources, view[d][req.type], Names)
  <2>1. first.returnedResources = known
    BY DEF newSubscription
  <2>2. None \notin Values
    BY SnapshotDeltaAssumption DEF SnapshotDeltaAssumption, DeltaVersions
  <2> HIDE DEF first
  <2>3. \A names \in SUBSET Names : Agrees(first.returnedResources, view[d][req.type], names)
    BY <2>1, <2>2 DEF Agrees, NothingKnown
  <2>4. Agrees(UpdateResourceSubscriptions(first, req.subscribe, req.unsubscribe).returnedResources,
               view[d][req.type], Names)
    BY <2>3, UpdateAgrees
  <2> QED  BY <2>4 DEF first, NewDeltaSubscription
<1> HIDE DEF s
<1> QED  BY <1>1, <1>2, <1>5, <1>6, <1>7, CreateBelieved

\* A request for a type with a watch entry: the entry was right but for what is given up.
LEMMA RewatchBelieved ==
    ASSUME AllMarshal, DeltaIInv, ClientInv, NEW d \in DeltaStreams, NEW req,
           req = deltaPending[d], DeltaRewatch(d)
    PROVE  ClientInv'
<1> DEFINE old == deltaSub[d][req.type]
           s == UpdateResourceSubscriptions(old, req.subscribe, req.unsubscribe)
<1>1. /\ deltaPc[d] = "cancelled" /\ deltaPending' = [deltaPending EXCEPT ![d] = None]
      /\ overtaken' = [overtaken EXCEPT ![d] = @ \cup {t \in {req.type} : DeltaQueued(d, t)}]
      /\ UNCHANGED <<snapshots, deltaFailed, view>>
  BY DEF DeltaRewatch, vars, cacheVars
<1>2. /\ DeltaTypeOK /\ Busy(d) /\ req.type \in Types
      /\ req.subscribe \in SUBSET Tokens /\ req.unsubscribe \in Seq(Tokens)
  BY <1>1, PendingIsRequest DEF DeltaIInv, DeltaReplacing, Busy
<1>3. old \in DeltaSub /\ old # None /\ ~DeltaWaiting(d, req.type)
  <2>1. old \in DeltaSub \cup {None}
    BY <1>2 DEF DeltaTypeOK
  <2>2. old # None /\ ~DeltaWaiting(d, req.type)
    BY <1>1 DEF DeltaIInv, DeltaReplacing
  <2> QED  BY <2>1, <2>2
<1>4. s \in DeltaSub /\ MuxCreateDeltaWatch(d, s, req)
  BY <1>2, <1>3, DeltaSubscriptionType DEF DeltaRewatch
<1>5. /\ overtaken[d] \subseteq overtaken'[d]
      /\ \A e \in DeltaStreams : e # d => overtaken'[e] = overtaken[e]
  BY <1>1, <1>2 DEF DeltaTypeOK
<1>6. Has(muxed[d], req.type) => req.type \in overtaken'[d]
  BY <1>1, <1>2 DEF DeltaTypeOK, Has, DeltaQueued
<1>7. ASSUME req.type \notin overtaken'[d]
      PROVE  Agrees(s.returnedResources, view[d][req.type], Names)
  <2>1. Trusted(d, req.type) /\ Settling(d, req.type)
    BY <1>1, <1>2, <1>3, <1>5, <1>7 DEF Trusted, Settling
  <2>2. Agrees(old.returnedResources, view[d][req.type], Names \ Given(d, req))
    BY <1>2, <2>1 DEF ClientInv, Beliefs, Believed
  <2>3. Given(d, req) = IF old.allowLegacyWildcard /\ req.subscribe = {} THEN {}
                        ELSE Listed(req.unsubscribe)
    BY <1>3 DEF Given
  <2> HIDE DEF old
  <2>4. Agrees(old.returnedResources, view[d][req.type],
               Names \ (IF old.allowLegacyWildcard /\ req.subscribe = {} THEN {}
                        ELSE Listed(req.unsubscribe)))
    BY <2>2, <2>3
  <2> QED  BY <2>4, UpdateAgrees
<1> HIDE DEF s, old
<1> QED  BY <1>1, <1>2, <1>3, <1>4, <1>5, <1>6, <1>7, CreateBelieved

\* At first nothing is believed.
LEMMA ClientInitHolds == DeltaInit => ClientInv
<1> SUFFICES ASSUME DeltaInit PROVE ClientInv
  OBVIOUS
<1>1. MapsAreWhole /\ NoDeltaOwed
  BY DEF DeltaInit, MapsAreWhole, NoDeltaOwed
<1>2. Beliefs
  BY DEF DeltaInit, Beliefs, Trusted, NoEntries
<1> QED  BY <1>1, <1>2 DEF ClientInv

\* The steps of a loop that leave it without a watch entry that is trusted.
LEMMA LoopEndsBelieved ==
    ASSUME DeltaIInv, ClientInv, NEW d \in DeltaStreams,
           \/ DeltaOpen(d) \/ DeltaEnd(d) \/ DeltaClose(d)
           \/ \E t \in Types : DeltaCancelEntry(d, t)
    PROVE  ClientInv'
<1> USE DEF DeltaIInv
<1> DEFINE Others == \A e \in DeltaStreams : e # d =>
              /\ deltaPc'[e] = deltaPc[e] /\ deltaPending'[e] = deltaPending[e]
              /\ deltaSub'[e] = deltaSub[e] /\ muxed'[e] = muxed[e]
              /\ view'[e] = view[e] /\ overtaken'[e] = overtaken[e]
           Fewer == \A n \in Nodes : deltaWatches'[n] \subseteq deltaWatches[n]
           Same == UNCHANGED <<versionMap, deltaFailed, snapshots>>
           Silent == \A t \in Types : ~Trusted(d, t)'
<1>1. CASE DeltaOpen(d) \/ DeltaEnd(d)
  <2>1. Others /\ Fewer /\ Same /\ UNCHANGED deltaSub
    BY <1>1 DEF DeltaOpen, DeltaEnd, DeltaTypeOK, vars, cacheVars, deltaCacheVars
  <2>2. Silent
    <3>1. CASE DeltaOpen(d)
      <4>1. deltaSub[d] = NoEntries
        BY <3>1 DEF DeltaOpen, DeltaClosed
      <4> QED  BY <2>1, <4>1 DEF NoEntries, Trusted
    <3>2. CASE DeltaEnd(d)
      <4>1. deltaPc'[d] = "closing"
        BY <3>2 DEF DeltaEnd, DeltaTypeOK
      <4> QED  BY <4>1 DEF Trusted
    <3> QED  BY <1>1, <3>1, <3>2
  <2> QED  BY <2>1, <2>2, QuietBelieved
<1>2. CASE DeltaClose(d)
  <2>1. Others /\ Fewer /\ Same /\ UNCHANGED deltaSub /\ deltaSub[d] = NoEntries
    BY <1>2 DEF DeltaClose, DeltaTypeOK, vars, cacheVars, deltaCacheVars
  <2>2. Silent
    BY <2>1 DEF NoEntries, Trusted
  <2> QED  BY <2>1, <2>2, QuietBelieved
<1>3. ASSUME NEW t \in Types, DeltaCancelEntry(d, t) PROVE ClientInv'
  <2>1. /\ deltaPc[d] = "closing" /\ CancelDelta(d, t) /\ Same
        /\ deltaSub' = [deltaSub EXCEPT ![d][t] = None]
        /\ UNCHANGED <<deltaPc, deltaPending, muxed, view, overtaken>>
    BY <1>3 DEF DeltaCancelEntry, vars, cacheVars
  <2>2. Fewer
    BY <2>1, CancelDeltaFacts
  <2>3. Others
    BY <2>1 DEF DeltaTypeOK
  <2>4. Silent
    BY <2>1 DEF Trusted
  <2> QED  BY <2>1, <2>2, <2>3, <2>4, QuietBelieved
<1> QED  BY <1>1, <1>2, <1>3

\* Every step keeps the server right about its clients.
LEMMA ClientStepKept ==
    ASSUME AllMarshal, DeltaIInv, TypeOK, ClientInv, [DeltaNext]_deltaVars PROVE ClientInv'
<1> USE DEF DeltaIInv
<1>1. ASSUME snapshots' = snapshots, UNCHANGED <<deltaCacheVars, deltaStreamVars>>
      PROVE  ClientInv'
  <2>1. MapsAreWhole' /\ NoDeltaOwed'
    BY <1>1, OwedFrame DEF ClientInv, deltaCacheVars
  <2>2. Beliefs'
    BY <1>1, CacheBelieved DEF ClientInv, deltaCacheVars, deltaStreamVars
  <2> QED  BY <2>1, <2>2 DEF ClientInv
<1>2. ASSUME NEW n \in Nodes, ClearSnapshotBoth(n) PROVE ClientInv'
  <2>1. /\ snapshots'[n] = None /\ UNCHANGED <<versionMap, deltaStreamVars>>
        /\ \A m \in Nodes : deltaWatches'[m] \subseteq deltaWatches[m]
        /\ \A m \in Nodes : m # n => snapshots'[m] = snapshots[m] /\ deltaFailed'[m] = deltaFailed[m]
    BY <1>2 DEF ClearSnapshotBoth, ClearSnapshot, TypeOK, DeltaTypeOK
  <2>2. Beliefs'
    BY <2>1, CacheBelieved DEF ClientInv, deltaStreamVars
  <2>3. MapsAreWhole'
    BY <2>1 DEF ClientInv, MapsAreWhole
  <2>4. NoDeltaOwed'
    <3> SUFFICES ASSUME NEW m \in Nodes, NEW w \in deltaWatches'[m], snapshots'[m] # None,
                        ~deltaFailed'[m]
                 PROVE  ~HasDeltaResponse(snapshots'[m], WholeMap(snapshots'[m]), w, FALSE)
      BY DEF NoDeltaOwed, HasDeltaResponse, DeltaChanged, DeltaRemoved, WholeMap, HashesOf
    <3> QED  BY <2>1 DEF ClientInv, NoDeltaOwed
  <2> QED  BY <2>2, <2>3, <2>4 DEF ClientInv
<1>3. CASE \/ \E n \in Nodes : SendHeartbeatsBoth(n)
           \/ \E c \in Streams : StreamNext(c) /\ UNCHANGED <<deltaCacheVars, deltaStreamVars>>
           \/ UNCHANGED deltaVars
  <2>1. snapshots' = snapshots
    BY <1>3, SameSnapshots DEF SendHeartbeatsBoth, deltaVars
  <2> QED  BY <1>1, <1>3, <2>1 DEF SendHeartbeatsBoth, deltaVars
<1>4. ASSUME NEW d \in DeltaStreams, DeltaStreamNext(d) PROVE ClientInv'
  <2>1. CASE DeltaProcess(d)
    BY <2>1, ProcessBelieved
  <2>2. CASE \E req \in DeltaRequests : DeltaDrained(d, req)
    BY <2>2, DrainedBelieved
  <2>3. CASE DeltaCancelWatch(d)
    BY <2>3, CancelWatchBelieved
  <2>4. CASE DeltaFirstRequest(d) \/ DeltaRewatch(d)
    BY <2>4, FirstRequestBelieved, RewatchBelieved
  <2>5. CASE \/ DeltaOpen(d) \/ DeltaEnd(d) \/ DeltaClose(d)
             \/ \E t \in Types : DeltaCancelEntry(d, t)
    BY <2>5, LoopEndsBelieved
  <2> QED  BY <1>4, <2>1, <2>2, <2>3, <2>4, <2>5 DEF DeltaStreamNext
<1> QED  BY <1>2, <1>3, <1>4, SetSnapshotBelieved DEF DeltaNext

\* A client the server is right about, with a watch that is owed nothing, is current.
LEMMA BelievedIsCurrent ==
    ASSUME DeltaIInv, ClientInv PROVE WatchingClientIsCurrent
<1> USE DEF DeltaIInv
<1> SUFFICES ASSUME NEW n \in Nodes, NEW w \in deltaWatches[n], snapshots[n] # None,
                    ~deltaFailed[n], deltaPc[w.stream] = "idle", w.type \notin overtaken[w.stream],
                    NEW r \in snapshots[n][w.type].items \cap Watched(w.sub)
             PROVE  view[w.stream][w.type][r] = Contents[snapshots[n]][w.type][r]
  BY DEF WatchingClientIsCurrent
<1> DEFINE d == w.stream
           t == w.type
           snap == snapshots[n]
<1>1. w \in DeltaWatch /\ d \in DeltaStreams /\ t \in Types /\ w.sub \in DeltaSub
  <2>1. w \in DeltaWatch
    BY DEF DeltaTypeOK
  <2> QED  BY <2>1 DEF DeltaWatch
<1>2. snap \in Snapshots
  BY DEF KnownSnapshots
<1>3. r \in Names
  BY <1>1 DEF Watched, DeltaSub, SubscriptionsOver
<1>4. deltaSub[d][t] # None
  BY <1>1 DEF DeltaEntries, DeltaWaiting
<1>5. Believed(d, t)
  BY <1>1, <1>4 DEF ClientInv, Beliefs, Trusted
<1>6. w.sub = deltaSub[d][t] /\ Agrees(w.sub.returnedResources, view[d][t], Names)
  BY <1>5 DEF Believed, Settling, Busy
<1>7. ~HasDeltaResponse(snap, WholeMap(snap), w, FALSE)
  BY DEF ClientInv, NoDeltaOwed
<1>8. w.sub.returnedResources[r] = WholeMap(snap)[t][r]
  BY <1>7 DEF HasDeltaResponse, DeltaChanged
<1>9. WholeMap(snap)[t][r] = Contents[snap][t][r]
  BY <1>1, <1>3 DEF WholeMap, HashesOf
<1>10. Contents[snap][t][r] \in Values
  <2>1. Contents[snap] \in [Types -> [Names -> Values]]
    BY <1>2, SnapshotDeltaAssumption DEF SnapshotDeltaAssumption
  <2> HIDE DEF snap, t
  <2> QED  BY <1>1, <1>3, <2>1
<1> QED  BY <1>3, <1>6, <1>8, <1>9, <1>10 DEF Agrees

=============================================================================
