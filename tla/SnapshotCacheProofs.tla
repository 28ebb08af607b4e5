-------------------------- MODULE SnapshotCacheProofs --------------------------
(***************************************************************************)
(* Theorems about SnapshotCache, for any sets of types, nodes, streams,    *)
(* snapshots and requests, with and without ADS, ordered or not: the types *)
(* of the variables, that no send of the cache finds a channel full, that  *)
(* every open watch can be cancelled, that ordered ADS sends what a        *)
(* snapshot produces in the order of the types, that a stream which waits  *)
(* is served, and that an open watch is owed nothing.                      *)
(***************************************************************************)
EXTENDS SnapshotCache, TLAPS

\* A leaf is for Zenon, or for the SMT solver where it cites it: arithmetic and sequences.
USE Zenon

-----------------------------------------------------------------------------
(* The inductive invariant.                                                *)

\* Watch ids are handed out once.
WatchIds ==
    \A m, n \in Nodes : \A v \in watches[m], w \in watches[n] :
        w.id <= watchCount /\ (v.id = w.id => v = w)

\* No two responses for a type are queued.
OneAnswer ==
    \A c \in Streams : \A i, j \in DOMAIN queue[c] :
        queue[c][i].type = queue[c][j].type => i = j

IsWaiting(c, t) == \E n \in Nodes : \E w \in watches[n] : w.stream = c /\ w.type = t

IsQueued(c, t) == \E i \in DOMAIN queue[c] : queue[c][i].type = t

\* None is queued for a type whose watch is open.
NoAnswerWhileWaiting ==
    \A c \in Streams : \A t \in Types : ~(IsWaiting(c, t) /\ IsQueued(c, t))

\* While a request replaces a watch entry, the old watch is gone, and when ordered
\* ADS has emptied its channel, so is the old response.
Replacing ==
    \A c \in Streams :
        /\ pc[c] = "draining" => Ordered
        /\ pc[c] \in {"draining", "cancelled"} =>
              /\ pending[c] # None
              /\ sub[c][pending[c].type] # None
              /\ ~IsWaiting(c, pending[c].type)
        /\ pc[c] = "cancelled" /\ Ordered => ~IsQueued(c, pending[c].type)

\* A type without a watch entry has neither a watch nor a response.
NothingWithoutEntry ==
    \A c \in Streams : \A t \in Types :
        sub[c][t] = None => ~IsWaiting(c, t) /\ ~IsQueued(c, t)

IInv ==
    /\ TypeOK
    /\ WatchesAreCancellable
    /\ WatchIds
    /\ OneAnswer
    /\ NoAnswerWhileWaiting
    /\ Replacing
    /\ NothingWithoutEntry

-----------------------------------------------------------------------------
(* Types of the operators.                                                 *)

\* The subscriptions the server builds from a request are well formed:
\* NewSotwSubscription and SetResourceSubscription.
LEMMA SubscriptionType ==
    ASSUME NEW names \in SUBSET Tokens
    PROVE  /\ NewSotwSubscription(names, LegacyWildcard) \in Sub
           /\ \A s \in Sub : SetResourceSubscription(s, names) \in Sub
<1>1. ASSUME NEW s \in Sub PROVE SetResourceSubscription(s, names) \in Sub
  BY SMTT(30), TokenAssumption DEF SetResourceSubscription, SubscriptionsOver, Tokens, Sub
<1>2. NothingKnown \in [Names -> VersionInfos \cup {None}] /\ LegacyWildcard \in BOOLEAN
  BY SnapshotAssumption DEF NothingKnown, SnapshotAssumption
<1>3. newSubscription(names = {}, LegacyWildcard, NothingKnown) \in Sub
  BY <1>2 DEF newSubscription, SubscriptionsOver, Sub
<1> QED  BY <1>1, <1>3 DEF NewSotwSubscription

\* A response that was sent is recorded in a well formed subscription:
\* SetReturnedResources.
LEMMA ReturnedType ==
    ASSUME NEW s \in Sub, NEW r \in [Names -> VersionInfos \cup {None}]
    PROVE  SetReturnedResources(s, r) \in Sub /\ SetReturnedResources(s, r) # None
<1>1. SetReturnedResources(s, r) \in Sub
  BY DEF SetReturnedResources, SubscriptionsOver, Sub
<1> QED  BY <1>1, SnapshotAssumption DEF SnapshotAssumption

\* createResponse makes a response of the type of the watch.
LEMMA CreateResponseType ==
    ASSUME NEW snap \in Snapshot, NEW w \in Watch, NEW r \in Nat
    PROVE  createResponse(snap, w, r) \in Response /\ createResponse(snap, w, r).type = w.type
<1>1. /\ w.type \in Types /\ snap[w.type].version \in VersionInfos
      /\ snap[w.type].items \in SUBSET Names
      /\ w.sub.returnedResources \in [Names -> VersionInfos \cup {None}]
  BY DEF Watch, Snapshot, Sub, SubscriptionsOver
<1> QED  BY <1>1 DEF createResponse, Response, Changed

\* So does heartbeatResponse.
LEMMA HeartbeatType ==
    ASSUME NEW snap \in Snapshot, NEW w \in Watch
    PROVE  heartbeatResponse(snap, w) \in Response /\ heartbeatResponse(snap, w).type = w.type
<1>1. /\ w.type \in Types /\ snap[w.type].version \in VersionInfos
      /\ snap[w.type].items \in SUBSET Names
      /\ w.sub.returnedResources \in [Names -> VersionInfos \cup {None}]
  BY DEF Watch, Snapshot, Sub, SubscriptionsOver
<1> QED  BY <1>1 DEF heartbeatResponse, Response

\* The share of a stream is a sequence of its watches without repetition.
LEMMA SharesFacts ==
    ASSUME NEW ws, NEW q \in Shares(Streams, ws), NEW c \in Streams
    PROVE  /\ q[c] \in Seq(ws)
           /\ \A i \in DOMAIN q[c] : q[c][i] \in ws /\ q[c][i].stream = c
           /\ \A i, j \in DOMAIN q[c] : q[c][i] = q[c][j] => i = j
<1> DEFINE S == {w \in ws : w.stream = c}
<1>1. q[c] \in Orders(S)
  BY DEF Shares
<1>2. PICK m \in 0 .. Cardinality(S) : q[c] \in Bijection(1 .. m, S)
  BY <1>1 DEF Orders
<1>3. m \in Nat /\ q[c] \in [1 .. m -> ws]
  BY SMTT(30), <1>2 DEF Bijection, Injection
<1>4. \A i \in DOMAIN q[c] : q[c][i] \in S
  BY <1>2 DEF Bijection, Injection
<1>5. \A i, j \in DOMAIN q[c] : q[c][i] = q[c][j] => i = j
  BY <1>2 DEF Bijection, Injection, IsInjective
<1> QED  BY SMTT(30), <1>3, <1>4, <1>5

\* A sequence without its i-th element: Without.
LEMMA WithoutFacts ==
    ASSUME NEW R, NEW s \in Seq(R), NEW i \in DOMAIN s
    PROVE  /\ Without(s, i) \in Seq(R)
           /\ Len(Without(s, i)) = Len(s) - 1
           /\ \A j \in 1 .. Len(s) - 1 :
                 Without(s, i)[j] = IF j < i THEN s[j] ELSE s[j + 1]
<1> DEFINE a == SubSeq(s, 1, i - 1)
           b == SubSeq(s, i + 1, Len(s))
<1>1. a \in Seq(R) /\ Len(a) = i - 1 /\ \A j \in 1 .. i - 1 : a[j] = s[j]
  BY SMTT(30)
<1>2. b \in Seq(R) /\ Len(b) = Len(s) - i /\ \A j \in 1 .. Len(s) - i : b[j] = s[i + j]
  BY SMTT(30)
<1>3. Without(s, i) = a \o b /\ Len(s) \in Nat /\ i \in 1 .. Len(s)
  BY SMTT(30) DEF Without
<1> HIDE DEF a, b
<1>4. (a \o b) \in Seq(R) /\ Len(a \o b) = Len(s) - 1
  BY SMTT(30), <1>1, <1>2, <1>3
<1>5. \A j \in 1 .. Len(s) - 1 : (a \o b)[j] = IF j < i THEN s[j] ELSE s[j + 1]
  BY SMTT(30), <1>1, <1>2, <1>3
<1> QED  BY <1>3, <1>4, <1>5

\* When no two responses of a channel have the same type, the others are left, and none
\* of the type of the one removed.
LEMMA RemoveAnswer ==
    ASSUME NEW s \in Seq(Response), NEW i \in DOMAIN s,
           \A k, l \in DOMAIN s : s[k].type = s[l].type => k = l
    PROVE  /\ Without(s, i) \in Seq(Response)
           /\ \A j \in DOMAIN Without(s, i) : \E k \in DOMAIN s : Without(s, i)[j] = s[k]
           /\ \A j \in DOMAIN Without(s, i) : Without(s, i)[j].type # s[i].type
           /\ \A k, l \in DOMAIN Without(s, i) :
                 Without(s, i)[k].type = Without(s, i)[l].type => k = l
<1> DEFINE r    == Without(s, i)
           f(j) == IF j < i THEN j ELSE j + 1
<1>1. /\ r \in Seq(Response) /\ Len(r) = Len(s) - 1
      /\ \A j \in 1 .. Len(s) - 1 : r[j] = IF j < i THEN s[j] ELSE s[j + 1]
  BY WithoutFacts
<1> HIDE DEF r
<1>2. \A j \in DOMAIN r : f(j) \in DOMAIN s /\ f(j) # i /\ r[j] = s[f(j)]
  BY SMTT(30), <1>1
<1>3. \A k, l \in DOMAIN r : f(k) = f(l) => k = l
  BY SMTT(30), <1>1
<1> HIDE DEF f
<1>4. /\ \A j \in DOMAIN r : \E k \in DOMAIN s : r[j] = s[k]
      /\ \A j \in DOMAIN r : r[j].type # s[i].type
      /\ \A k, l \in DOMAIN r : r[k].type = r[l].type => k = l
  BY SMTT(30), <1>2, <1>3
<1> QED  BY <1>1, <1>4 DEF r

-----------------------------------------------------------------------------
(* What steps have in common.                                              *)

\* A step that opens no watch and queues no response, and neither takes a watch
\* entry away nor begins to replace one, keeps the relations between watches,
\* responses and entries: ClearSnapshot, CloseWatch, SendResponse, processAllExcept.
LEMMA FewerKept ==
    ASSUME IInv,
           \A c \in Streams : \A t \in Types :
              /\ IsWaiting(c, t)' => IsWaiting(c, t)
              /\ IsQueued(c, t)' => IsQueued(c, t)
              /\ sub[c][t] # None => sub'[c][t] # None
    PROVE  NoAnswerWhileWaiting' /\ NothingWithoutEntry'
  BY DEF IInv, NoAnswerWhileWaiting, NothingWithoutEntry

\* Watches that stay keep their ids and their cancel functions.
LEMMA FewerWatches ==
    ASSUME IInv, \A n \in Nodes : watches'[n] \subseteq watches[n], watchCount' = watchCount
    PROVE  /\ WatchIds'
           /\ \A c \in Streams : \A t \in Types : IsWaiting(c, t)' => IsWaiting(c, t)
<1>1. WatchIds'
  BY DEF IInv, WatchIds
<1>2. \A c \in Streams : \A t \in Types : IsWaiting(c, t)' => IsWaiting(c, t)
  BY DEF IsWaiting
<1> QED  BY <1>1, <1>2

\* At most one watch is open for a stream and a type.
LEMMA OneWatch ==
    ASSUME IInv, NEW m \in Nodes, NEW n \in Nodes, NEW v \in watches[m], NEW w \in watches[n],
           v.stream = w.stream, v.type = w.type
    PROVE  m = n /\ v = w
  BY SMTT(30) DEF IInv, WatchesAreCancellable, WatchIds

\* Respond answers watches of which none had a response queued, and discards them.
LEMMA RespondKept ==
    ASSUME IInv, NEW n \in Nodes, NEW ws \in SUBSET watches[n], NEW q \in Shares(Streams, ws),
           NEW response \in [ws -> Response], \A w \in ws : response[w].type = w.type,
           Respond(n, ws, q, response), UNCHANGED <<watchCount, pc, pending, sub, cancel>>
    PROVE  /\ watches' \in [Nodes -> SUBSET Watch] /\ queue' \in [Streams -> Seq(Response)]
           /\ WatchesAreCancellable' /\ WatchIds' /\ OneAnswer' /\ NoAnswerWhileWaiting'
           /\ Replacing' /\ NothingWithoutEntry'
<1> USE DEF IInv
<1>1. /\ watches \in [Nodes -> SUBSET Watch] /\ queue \in [Streams -> Seq(Response)]
      /\ ws \in SUBSET Watch
  BY DEF TypeOK
<1>2. /\ watches' \in [Nodes -> SUBSET Watch]
      /\ \A m \in Nodes : watches'[m] \subseteq watches[m]
      /\ watches'[n] = watches[n] \ ws
  BY <1>1 DEF Respond
<1>3. WatchIds' /\ \A c \in Streams : \A t \in Types : IsWaiting(c, t)' => IsWaiting(c, t)
  BY <1>2, FewerWatches
<1>4. WatchesAreCancellable'
  BY <1>2 DEF WatchesAreCancellable
<1> DEFINE Share(c) ==
             /\ q[c] \in Seq(ws)
             /\ \A i \in DOMAIN q[c] : q[c][i] \in ws /\ q[c][i].stream = c
             /\ \A i, j \in DOMAIN q[c] : q[c][i] = q[c][j] => i = j
<1>5. ASSUME NEW c \in Streams PROVE Share(c)
  BY SharesFacts
<1>6. ASSUME NEW c \in Streams
      PROVE  /\ queue'[c] \in Seq(Response)
             /\ \A i \in DOMAIN queue[c] : i \in DOMAIN queue'[c] /\ queue'[c][i] = queue[c][i]
             /\ \A i \in DOMAIN queue'[c] : i \notin DOMAIN queue[c] =>
                   /\ i - Len(queue[c]) \in DOMAIN q[c]
                   /\ queue'[c][i].type = q[c][i - Len(queue[c])].type
  <2> DEFINE new == [i \in DOMAIN q[c] |-> response[q[c][i]]]
  <2>1. /\ q[c] \in Seq(ws) /\ \A i \in DOMAIN q[c] : q[c][i] \in ws
    BY <1>5
  <2>2. new \in Seq(Response) /\ Len(new) = Len(q[c])
    BY SMTT(30), <2>1
  <2>3. queue'[c] = queue[c] \o new
    BY DEF Respond
  <2>4. \A i \in DOMAIN q[c] : new[i].type = q[c][i].type
    BY <2>1
  <2> HIDE DEF new
  <2> QED  BY SMTT(30), <1>1, <2>1, <2>2, <2>3, <2>4
<1>7. queue' \in [Streams -> Seq(Response)]
  BY <1>6 DEF Respond
<1>8. ASSUME NEW c \in Streams, NEW i \in DOMAIN queue'[c], i \notin DOMAIN queue[c]
      PROVE  \E w \in ws : w.stream = c /\ w.type = queue'[c][i].type
  <2> DEFINE w == q[c][i - Len(queue[c])]
  <2>1. i - Len(queue[c]) \in DOMAIN q[c] /\ w.type = queue'[c][i].type
    BY <1>6, <1>8
  <2>2. w \in ws /\ w.stream = c
    BY SMTT(30), <1>5, <2>1
  <2> QED  BY <2>1, <2>2
<1>9. ASSUME NEW c \in Streams, NEW t \in Types
      PROVE  /\ IsQueued(c, t)' => IsQueued(c, t) \/ IsWaiting(c, t)
             /\ ~(IsWaiting(c, t)' /\ IsQueued(c, t)')
  <2>1. ASSUME IsQueued(c, t)', ~IsQueued(c, t)
        PROVE  \E w \in ws : w.stream = c /\ w.type = t
    BY SMTT(30), <1>6, <1>8, <2>1 DEF IsQueued
  <2>2. ASSUME IsWaiting(c, t)', IsQueued(c, t)', ~IsQueued(c, t) PROVE FALSE
    <3>1. PICK w \in ws : w.stream = c /\ w.type = t
      BY <2>1, <2>2
    <3>2. PICK m \in Nodes : \E v \in watches'[m] : v.stream = c /\ v.type = t
      BY <2>2 DEF IsWaiting
    <3>3. PICK v \in watches'[m] : v.stream = c /\ v.type = t
      BY <3>2
    <3>4. m = n /\ v = w
      BY SMTT(30), <1>2, <3>1, <3>3, OneWatch
    <3> QED  BY <1>2, <3>1, <3>4
  <2>3. ASSUME IsWaiting(c, t)', IsQueued(c, t) PROVE FALSE
    BY <1>3, <2>3 DEF NoAnswerWhileWaiting
  <2>4. (\E w \in ws : w.stream = c /\ w.type = t) => IsWaiting(c, t)
    BY DEF IsWaiting
  <2> QED  BY <2>1, <2>2, <2>3, <2>4
<1>10. ASSUME NEW c \in Streams, NEW i \in DOMAIN queue'[c], NEW j \in DOMAIN queue'[c],
             queue'[c][i].type = queue'[c][j].type
      PROVE  i = j
  <2>1. ASSUME NEW k \in DOMAIN queue[c], NEW l \in DOMAIN queue'[c], l \notin DOMAIN queue[c],
               queue'[c][k].type = queue'[c][l].type
        PROVE  FALSE
    <3>1. PICK w \in ws : w.stream = c /\ w.type = queue'[c][l].type
      BY <1>8, <2>1
    <3>2. w.type \in Types /\ IsWaiting(c, w.type)
      BY <1>1, <3>1 DEF IsWaiting, Watch
    <3>3. IsQueued(c, w.type)
      BY <1>6, <2>1, <3>1 DEF IsQueued
    <3> QED  BY <3>2, <3>3 DEF NoAnswerWhileWaiting
  <2>2. CASE i \in DOMAIN queue[c] /\ j \in DOMAIN queue[c]
    BY SMTT(30), <1>6, <1>10, <2>2 DEF OneAnswer
  <2>3. CASE i \notin DOMAIN queue[c] /\ j \notin DOMAIN queue[c]
    <3> DEFINE k == i - Len(queue[c])
               l == j - Len(queue[c])
    <3>1. /\ k \in DOMAIN q[c] /\ l \in DOMAIN q[c] /\ q[c][k].type = q[c][l].type
      BY <1>6, <1>10, <2>3
    <3>2. q[c][k] = q[c][l]
      <4>1. /\ q[c][k] \in watches[n] /\ q[c][k].stream = c
            /\ q[c][l] \in watches[n] /\ q[c][l].stream = c
        BY <1>5, <3>1
      <4> QED  BY SMTT(30), <3>1, <4>1, OneWatch
    <3>3. k = l
      <4>1. \A a, b \in DOMAIN q[c] : q[c][a] = q[c][b] => a = b
        BY <1>5
      <4> QED  BY <3>1, <3>2, <4>1
    <3>4. i \in Int /\ j \in Int /\ Len(queue[c]) \in Int
      BY SMTT(30), <1>1, <1>7
    <3> QED  BY SMTT(30), <3>3, <3>4
  <2> QED  BY <1>6, <1>10, <2>1, <2>2, <2>3
<1>11. OneAnswer'
  BY <1>10 DEF OneAnswer
<1>12. NoAnswerWhileWaiting'
  BY <1>9 DEF NoAnswerWhileWaiting
<1>13. NothingWithoutEntry'
  BY <1>3, <1>9 DEF NothingWithoutEntry
<1>14. \A c \in Streams : pending[c] # None => pending[c].type \in Types
  BY DEF TypeOK, Request
<1>15. Replacing'
  BY <1>3, <1>9, <1>14 DEF Replacing
<1> QED  BY <1>2, <1>3, <1>4, <1>7, <1>11, <1>12, <1>13, <1>15

\* A watch for a type that has neither a watch nor a response.
LEMMA WatchOpened ==
    ASSUME IInv, NEW c \in Streams, NEW t \in Types, NEW s \in Sub, NEW q \in Seq(Response),
           NEW w \in Watch, w.id = watchCount + 1, w.stream = c, w.type = t, ~IsWaiting(c, t),
           \A i \in DOMAIN q : q[i].type # t /\ IsQueued(c, q[i].type),
           \A i, j \in DOMAIN q : q[i].type = q[j].type => i = j,
           watchCount' = watchCount + 1, watches' = [watches EXCEPT ![NodeOf[c]] = @ \cup {w}],
           cancel' = [cancel EXCEPT ![c][t] = w.id], queue' = [queue EXCEPT ![c] = q],
           sub' = [sub EXCEPT ![c][t] = s], pending' = [pending EXCEPT ![c] = None],
           pc' = [pc EXCEPT ![c] = "idle"]
    PROVE  /\ WatchesAreCancellable' /\ WatchIds' /\ OneAnswer' /\ NoAnswerWhileWaiting'
           /\ Replacing' /\ NothingWithoutEntry'
<1>1. TypeOK /\ NodeOf[c] \in Nodes /\ s # None
  BY SnapshotAssumption DEF SnapshotAssumption, IInv
<1>2. \A m \in Nodes : \A v \in watches'[m] : v \in watches[m] \/ (m = NodeOf[c] /\ v = w)
  BY <1>1 DEF TypeOK
<1>3. /\ queue'[c] = q /\ pc'[c] = "idle" /\ cancel'[c][t] = w.id
      /\ \A d \in Streams : d # c =>
            queue'[d] = queue[d] /\ pc'[d] = pc[d] /\ pending'[d] = pending[d]
  BY <1>1 DEF TypeOK
<1>4. \A d \in Streams : \A u \in Types : ~(d = c /\ u = t) =>
          cancel'[d][u] = cancel[d][u] /\ sub'[d][u] = sub[d][u]
  BY <1>1 DEF TypeOK
<1>5. WatchesAreCancellable'
  <2>1. ASSUME NEW m \in Nodes, NEW v \in watches[m]
        PROVE  /\ NodeOf[v.stream] = m /\ pc'[v.stream] # "closed"
               /\ cancel'[v.stream][v.type] = v.id
    <3>1. v.stream \in Streams /\ v.type \in Types /\ ~(v.stream = c /\ v.type = t)
      BY SMTT(30), <1>1 DEF TypeOK, Watch, IsWaiting
    <3> QED  BY SMTT(30), <1>3, <1>4, <3>1 DEF IInv, WatchesAreCancellable
  <2> QED  BY SMTT(30), <1>2, <1>3, <2>1 DEF WatchesAreCancellable
<1>6. WatchIds'
  <2>1. \A m \in Nodes : \A v \in watches[m] : v.id \in Nat /\ v.id <= watchCount
    BY SMTT(30), <1>1 DEF IInv, WatchIds, TypeOK, Watch
  <2>2. watchCount \in Nat
    BY <1>1 DEF TypeOK
  <2> QED  BY SMTT(30), <1>2, <2>1, <2>2 DEF IInv, WatchIds
<1>7. ASSUME NEW d \in Streams, NEW u \in Types
      PROVE  /\ IsWaiting(d, u)' => IsWaiting(d, u) \/ (d = c /\ u = t)
             /\ IsQueued(d, u)' => IsQueued(d, u) /\ ~(d = c /\ u = t)
  <2>1. IsWaiting(d, u)' => IsWaiting(d, u) \/ (d = c /\ u = t)
    BY <1>2 DEF IsWaiting
  <2>2. CASE d = c
    BY SMTT(30), <1>3, <2>1, <2>2 DEF IsQueued
  <2>3. CASE d # c
    BY <1>3, <2>1, <2>3 DEF IsQueued
  <2> QED  BY <2>2, <2>3
<1>8. OneAnswer'
  BY SMTT(30), <1>3 DEF IInv, OneAnswer
<1>9. NoAnswerWhileWaiting'
  BY <1>7 DEF IInv, NoAnswerWhileWaiting
<1>10. NothingWithoutEntry'
  <2>1. sub'[c][t] = s
    BY <1>1 DEF TypeOK
  <2> QED  BY SMTT(30), <1>1, <1>4, <1>7, <2>1 DEF IInv, NothingWithoutEntry
<1>11. Replacing'
  <2>1. \A d \in Streams : pending[d] # None => pending[d].type \in Types
    BY <1>1 DEF TypeOK, Request
  <2> QED  BY SMTT(30), <1>3, <1>4, <1>7, <2>1 DEF IInv, Replacing
<1> QED  BY <1>5, <1>6, <1>8, <1>9, <1>10, <1>11

\* A response, or nothing, for a type that has neither a watch nor a response.
LEMMA NoWatchOpened ==
    ASSUME IInv, NEW c \in Streams, NEW t \in Types, NEW s \in Sub, NEW q \in Seq(Response),
           ~IsWaiting(c, t), \A i \in DOMAIN q : q[i].type = t \/ IsQueued(c, q[i].type),
           \A i, j \in DOMAIN q : q[i].type = q[j].type => i = j,
           UNCHANGED <<watchCount, watches>>,
           cancel' = [cancel EXCEPT ![c][t] = 0], queue' = [queue EXCEPT ![c] = q],
           sub' = [sub EXCEPT ![c][t] = s], pending' = [pending EXCEPT ![c] = None],
           pc' = [pc EXCEPT ![c] = "idle"]
    PROVE  /\ WatchesAreCancellable' /\ WatchIds' /\ OneAnswer' /\ NoAnswerWhileWaiting'
           /\ Replacing' /\ NothingWithoutEntry'
<1>1. TypeOK /\ s # None
  BY SnapshotAssumption DEF SnapshotAssumption, IInv
<1>2. /\ queue'[c] = q /\ pc'[c] = "idle" /\ sub'[c][t] = s
      /\ \A d \in Streams : d # c =>
            queue'[d] = queue[d] /\ pc'[d] = pc[d] /\ pending'[d] = pending[d]
  BY <1>1 DEF TypeOK
<1>3. \A d \in Streams : \A u \in Types : ~(d = c /\ u = t) =>
          cancel'[d][u] = cancel[d][u] /\ sub'[d][u] = sub[d][u]
  BY <1>1 DEF TypeOK
<1>4. WatchesAreCancellable'
  <2>1. \A m \in Nodes : \A v \in watches[m] :
            v.stream \in Streams /\ v.type \in Types /\ ~(v.stream = c /\ v.type = t)
    BY SMTT(30), <1>1 DEF TypeOK, Watch, IsWaiting
  <2> QED  BY SMTT(30), <1>2, <1>3, <2>1 DEF IInv, WatchesAreCancellable
<1>5. WatchIds' /\ \A d \in Streams : \A u \in Types : IsWaiting(d, u)' => IsWaiting(d, u)
  BY FewerWatches
<1>6. \A d \in Streams : \A u \in Types :
          IsQueued(d, u)' => IsQueued(d, u) \/ (d = c /\ u = t)
  BY SMTT(30), <1>2 DEF IsQueued
<1>7. OneAnswer'
  BY SMTT(30), <1>2 DEF IInv, OneAnswer
<1>8. NoAnswerWhileWaiting'
  BY <1>5, <1>6 DEF IInv, NoAnswerWhileWaiting
<1>9. NothingWithoutEntry'
  BY SMTT(30), <1>1, <1>2, <1>3, <1>5, <1>6 DEF IInv, NothingWithoutEntry
<1>10. Replacing'
  <2>1. \A d \in Streams : pending[d] # None => pending[d].type \in Types
    BY <1>1 DEF TypeOK, Request
  <2> QED  BY SMTT(30), <1>2, <1>3, <1>5, <1>6, <2>1 DEF IInv, Replacing
<1> QED  BY <1>4, <1>5, <1>7, <1>8, <1>9, <1>10

\* CreateWatch, with what is left of the channel, answers or opens a watch, never both.
LEMMA CreateWatchKept ==
    ASSUME IInv, NEW c \in Streams, NEW req \in Request, NEW s \in Sub, NEW q \in Seq(Response),
           CreateWatch(c, req, s, q), ~IsWaiting(c, req.type),
           \A i \in DOMAIN q : q[i].type # req.type /\ IsQueued(c, q[i].type),
           \A i, j \in DOMAIN q : q[i].type = q[j].type => i = j
    PROVE  IInv'
<1> DEFINE n    == NodeOf[c]
           snap == snapshots[n]
           w    == [id |-> watchCount + 1, stream |-> c, type |-> req.type,
                    versionInfo |-> req.versionInfo, sub |-> s]
           answers == snap # None /\ ~Missing(snap, w) /\ ~NothingChanged(snap, w)
           resp == createResponse(snap, w, 0)
<1>1. /\ n \in Nodes /\ snap \in Snapshot \cup {None} /\ w \in Watch /\ req.type \in Types
      /\ req.versionInfo \in VersionInfos /\ watchCount \in Nat /\ TypeOK
  <2>1. TypeOK
    BY DEF IInv
  <2>2. n \in Nodes
    BY SnapshotAssumption DEF SnapshotAssumption
  <2>3. snap \in Snapshot \cup {None} /\ watchCount \in Nat
    BY <2>1, <2>2 DEF TypeOK
  <2>4. req.type \in Types /\ req.versionInfo \in VersionInfos
    BY DEF Request
  <2>5. w \in Watch
    BY SMTT(30), <2>3, <2>4 DEF Watch
  <2> QED  BY <2>1, <2>2, <2>3, <2>4, <2>5
<1>2. answers => resp \in Response /\ resp.type = req.type
  <2>1. ASSUME answers PROVE resp \in Response /\ resp.type = w.type
    BY SMTT(30), <1>1, <2>1, CreateResponseType
  <2> QED  BY <2>1
<1>3. /\ queue' = [queue EXCEPT ![c] = IF answers THEN Append(q, resp) ELSE q]
      /\ IF Opens(snap, w)
         THEN /\ watchCount' = watchCount + 1
              /\ watches' = [watches EXCEPT ![n] = @ \cup {w}]
         ELSE UNCHANGED <<watchCount, watches>>
      /\ cancel' = [cancel EXCEPT ![c][req.type] = IF Opens(snap, w) THEN w.id ELSE 0]
  BY DEF CreateWatch, cancelFunction
<1>4. /\ sub' = [sub EXCEPT ![c][req.type] = s]
      /\ replied' = [replied EXCEPT ![c] = @ \ {req.type}]
      /\ told' = [told EXCEPT ![c][req.type] = @ \cup {req.versionInfo}]
      /\ pending' = [pending EXCEPT ![c] = None]
      /\ pc' = [pc EXCEPT ![c] = "idle"]
      /\ UNCHANGED <<snapshots, round, failed, cleared, lastSent>>
  BY DEF CreateWatch
<1>5. Opens(snap, w) => ~answers
  BY DEF Opens
<1>6. w.id = watchCount + 1 /\ w.stream = c /\ w.type = req.type
  OBVIOUS
<1> HIDE DEF snap, w, answers, resp
<1>7. CASE Opens(snap, w)
  <2>1. /\ queue' = [queue EXCEPT ![c] = q] /\ watchCount' = watchCount + 1
        /\ watches' = [watches EXCEPT ![n] = @ \cup {w}]
        /\ cancel' = [cancel EXCEPT ![c][req.type] = w.id]
    BY <1>3, <1>5, <1>7
  <2>2. TypeOK'
    <3>1. watches' \in [Nodes -> SUBSET Watch]
      BY <1>1, <2>1 DEF TypeOK
    <3>2. queue' \in [Streams -> Seq(Response)] /\ watchCount' \in Nat
      BY SMTT(30), <1>1, <2>1 DEF TypeOK
    <3>3. sub' \in [Streams -> [Types -> Sub \cup {None}]]
      BY <1>1, <1>4 DEF TypeOK
    <3>4. told' \in [Streams -> [Types -> SUBSET VersionInfos]]
      BY ZenonT(40), <1>1, <1>4 DEF TypeOK
    <3>5. cancel' \in [Streams -> [Types -> Nat]]
      BY SMTT(30), <1>1, <1>6, <2>1 DEF TypeOK
    <3> QED  BY <1>1, <1>4, <2>1, <3>1, <3>2, <3>3, <3>4, <3>5 DEF TypeOK
  <2>3. /\ WatchesAreCancellable' /\ WatchIds' /\ OneAnswer' /\ NoAnswerWhileWaiting'
        /\ Replacing' /\ NothingWithoutEntry'
    BY <1>1, <1>4, <1>6, <2>1, WatchOpened
  <2> QED  BY <2>2, <2>3 DEF IInv
<1>8. CASE ~Opens(snap, w)
  <2> DEFINE r == IF answers THEN Append(q, resp) ELSE q
  <2>1. /\ queue' = [queue EXCEPT ![c] = r] /\ UNCHANGED <<watchCount, watches>>
        /\ cancel' = [cancel EXCEPT ![c][req.type] = 0]
    BY <1>3, <1>8
  <2>2. /\ r \in Seq(Response)
        /\ \A i \in DOMAIN r : r[i].type = req.type \/ IsQueued(c, r[i].type)
        /\ \A i, j \in DOMAIN r : r[i].type = r[j].type => i = j
    BY SMTT(30), <1>2
  <2> HIDE DEF r
  <2>3. TypeOK'
    <3>1. queue' \in [Streams -> Seq(Response)]
      BY <1>1, <2>1, <2>2 DEF TypeOK
    <3>2. sub' \in [Streams -> [Types -> Sub \cup {None}]]
      BY <1>1, <1>4 DEF TypeOK
    <3>3. told' \in [Streams -> [Types -> SUBSET VersionInfos]]
      BY ZenonT(40), <1>1, <1>4 DEF TypeOK
    <3>4. cancel' \in [Streams -> [Types -> Nat]]
      BY <1>1, <2>1 DEF TypeOK
    <3> QED  BY <1>1, <1>4, <2>1, <3>1, <3>2, <3>3, <3>4 DEF TypeOK
  <2>4. /\ WatchesAreCancellable' /\ WatchIds' /\ OneAnswer' /\ NoAnswerWhileWaiting'
        /\ Replacing' /\ NothingWithoutEntry'
    BY <1>1, <1>4, <2>1, <2>2, NoWatchOpened
  <2> QED  BY <2>3, <2>4 DEF IInv
<1> QED  BY <1>7, <1>8

\* streamWrapper.send keeps every watch entry, well formed.
LEMMA SendType ==
    ASSUME IInv, NEW c \in Streams, NEW resp \in Response, IsQueued(c, resp.type), Send(c, resp)
    PROVE  /\ sub' \in [Streams -> [Types -> Sub \cup {None}]]
           /\ replied' \in [Streams -> SUBSET Types]
           /\ told' \in [Streams -> [Types -> SUBSET VersionInfos]]
           /\ lastSent' \in [Streams -> [round : Nat, place : Nat]]
           /\ \A d \in Streams : \A t \in Types : sub[d][t] # None => sub'[d][t] # None
<1> USE DEF IInv
<1>1. /\ sub \in [Streams -> [Types -> Sub \cup {None}]]
      /\ replied \in [Streams -> SUBSET Types]
      /\ told \in [Streams -> [Types -> SUBSET VersionInfos]]
      /\ lastSent \in [Streams -> [round : Nat, place : Nat]]
  BY DEF TypeOK
<1>2. /\ resp.type \in Types /\ resp.version \in VersionInfos /\ resp.round \in Nat
      /\ resp.returnedResources \in [Names -> VersionInfos \cup {None}]
  BY DEF Response
<1>3. CASE ~responseMatchesCurrentSubscription(resp, sub[c][resp.type])
  BY <1>1, <1>3 DEF Send
<1>4. CASE responseMatchesCurrentSubscription(resp, sub[c][resp.type])
  <2> DEFINE s == SetReturnedResources(sub[c][resp.type], resp.returnedResources)
  <2>1. sub[c][resp.type] \in Sub
    BY SMTT(30), <1>1, <1>2 DEF NothingWithoutEntry
  <2>2. s \in Sub /\ s # None
    BY <1>2, <2>1, ReturnedType
  <2>3. /\ sub' = [sub EXCEPT ![c][resp.type] = s]
        /\ replied' = [replied EXCEPT ![c] = @ \cup {resp.type}]
        /\ told' = [told EXCEPT ![c][resp.type] = @ \cup {resp.version}]
        /\ lastSent' = IF resp.round = 0 THEN lastSent
                       ELSE [lastSent EXCEPT ![c] =
                               [round |-> resp.round, place |-> TypeOrder[resp.type]]]
    BY <1>4 DEF Send
  <2> HIDE DEF s
  <2>4. TypeOrder[resp.type] \in Nat
    BY <1>2, SnapshotAssumption DEF SnapshotAssumption
  <2>5. lastSent' \in [Streams -> [round : Nat, place : Nat]]
    BY <1>1, <1>2, <2>3, <2>4
  <2>6. /\ sub' \in [Streams -> [Types -> Sub \cup {None}]]
        /\ \A d \in Streams : \A t \in Types : sub[d][t] # None => sub'[d][t] # None
    BY <1>1, <1>2, <2>2, <2>3
  <2>7. told' \in [Streams -> [Types -> SUBSET VersionInfos]]
    BY <1>1, <1>2, <2>3
  <2>8. replied' \in [Streams -> SUBSET Types]
    BY <1>1, <1>2, <2>3
  <2> QED  BY <2>5, <2>6, <2>7, <2>8
<1> QED  BY <1>3, <1>4

-----------------------------------------------------------------------------
(* The actions.                                                            *)

\* The invariant holds before anything happens.
LEMMA InitInvariant == Init => IInv
<1> SUFFICES ASSUME Init PROVE IInv
  OBVIOUS
<1>1. TypeOK
  BY SMTT(30), SnapshotAssumption DEF Init, TypeOK, SnapshotAssumption
<1>2. /\ WatchesAreCancellable /\ WatchIds /\ OneAnswer /\ NoAnswerWhileWaiting
      /\ NothingWithoutEntry
  BY SMTT(30) DEF Init, WatchesAreCancellable, WatchIds, OneAnswer, NoAnswerWhileWaiting,
         NothingWithoutEntry, IsWaiting, IsQueued
<1>3. Replacing
  BY DEF Init, Replacing
<1> QED  BY <1>1, <1>2, <1>3 DEF IInv

\* SetSnapshot answers the watches that are due.
LEMMA SetSnapshotKept ==
    ASSUME IInv, NEW n \in Nodes, NEW snap \in Snapshots, SetSnapshot(n, snap)
    PROVE  IInv'
<1>1. snap \in Snapshot /\ TypeOK
  BY SnapshotAssumption DEF SnapshotAssumption, IInv
<1>2. PICK ws \in Answered(Due(n, snap)) : \E q \in orderResponseWatches(Streams, ws) :
          /\ Respond(n, ws, q, [w \in ws |-> createResponse(snap, w, round + 1)])
          /\ failed' = [failed EXCEPT ![n] = (ws # Due(n, snap))]
  BY DEF SetSnapshot
<1>3. PICK q \in Shares(Streams, ws) :
          /\ Respond(n, ws, q, [w \in ws |-> createResponse(snap, w, round + 1)])
          /\ failed' = [failed EXCEPT ![n] = (ws # Due(n, snap))]
  BY <1>2 DEF orderResponseWatches
<1> DEFINE response == [w \in ws |-> createResponse(snap, w, round + 1)]
<1>4. ws \in SUBSET watches[n] /\ ws \in SUBSET Watch /\ round + 1 \in Nat
  BY SMTT(30), <1>1, <1>2 DEF Answered, Due, TypeOK
<1>5. response \in [ws -> Response] /\ \A w \in ws : response[w].type = w.type
  BY <1>1, <1>4, CreateResponseType
<1> HIDE DEF response
<1>6. UNCHANGED <<watchCount, pc, pending, sub, cancel>>
  BY DEF SetSnapshot
<1>7. Respond(n, ws, q, response)
  BY <1>3 DEF response
<1>8. /\ watches' \in [Nodes -> SUBSET Watch] /\ queue' \in [Streams -> Seq(Response)]
      /\ WatchesAreCancellable' /\ WatchIds' /\ OneAnswer' /\ NoAnswerWhileWaiting'
      /\ Replacing' /\ NothingWithoutEntry'
  BY <1>4, <1>5, <1>6, <1>7, RespondKept
<1>9. failed' \in [Nodes -> BOOLEAN]
  BY <1>1, <1>3 DEF TypeOK
<1>10. snapshots' \in [Nodes -> Snapshot \cup {None}] /\ round' \in Nat
  BY <1>1, <1>4 DEF TypeOK, SetSnapshot
<1>11. TypeOK'
  BY <1>1, <1>8, <1>9, <1>10 DEF TypeOK, SetSnapshot
<1> QED  BY <1>8, <1>11 DEF IInv

\* So does sendHeartbeats.
LEMMA SendHeartbeatsKept ==
    ASSUME IInv, NEW n \in Nodes, SendHeartbeats(n)
    PROVE  IInv'
<1> DEFINE ws       == DueHeartbeat(n)
           response == [w \in ws |-> heartbeatResponse(snapshots[n], w)]
<1>1. TypeOK
  BY DEF IInv
<1>2. PICK q \in Shares(Streams, ws) : Respond(n, ws, q, response)
  BY DEF SendHeartbeats
<1>3. ws \in SUBSET watches[n] /\ ws \in SUBSET Watch /\ (ws # {} => snapshots[n] \in Snapshot)
  BY <1>1 DEF DueHeartbeat, TypeOK
<1>4. response \in [ws -> Response] /\ \A w \in ws : response[w].type = w.type
  BY <1>3, HeartbeatType
<1> HIDE DEF ws, response
<1>5. UNCHANGED <<watchCount, pc, pending, sub, cancel>>
  BY DEF SendHeartbeats
<1>6. /\ watches' \in [Nodes -> SUBSET Watch] /\ queue' \in [Streams -> Seq(Response)]
      /\ WatchesAreCancellable' /\ WatchIds' /\ OneAnswer' /\ NoAnswerWhileWaiting'
      /\ Replacing' /\ NothingWithoutEntry'
  BY <1>2, <1>3, <1>4, <1>5, RespondKept
<1>7. TypeOK'
  BY <1>1, <1>6 DEF TypeOK, SendHeartbeats
<1> QED  BY <1>6, <1>7 DEF IInv

\* ClearSnapshot forgets the watches of its node.
LEMMA ClearSnapshotKept ==
    ASSUME IInv, NEW n \in Nodes, ClearSnapshot(n)
    PROVE  IInv'
<1> USE DEF IInv
<1>1. /\ watches' = [watches EXCEPT ![n] = {}]
      /\ UNCHANGED <<watchCount, pc, pending, sub, cancel, queue>>
  BY DEF ClearSnapshot, streamVars
<1>2. TypeOK'
  BY SMTT(30) DEF TypeOK, ClearSnapshot, streamVars
<1>3. \A m \in Nodes : watches'[m] \subseteq watches[m]
  BY <1>1 DEF TypeOK
<1>4. WatchIds' /\ \A c \in Streams : \A t \in Types : IsWaiting(c, t)' => IsWaiting(c, t)
  BY <1>1, <1>3, FewerWatches
<1>5. \A c \in Streams : \A t \in Types : IsQueued(c, t)' = IsQueued(c, t)
  BY <1>1 DEF IsQueued
<1>6. NoAnswerWhileWaiting' /\ NothingWithoutEntry'
  BY <1>1, <1>4, <1>5, FewerKept
<1>7. WatchesAreCancellable' /\ OneAnswer'
  BY <1>1, <1>3 DEF WatchesAreCancellable, OneAnswer
<1>8. \A c \in Streams : pending[c] # None => pending[c].type \in Types
  BY DEF TypeOK, Request
<1>9. Replacing'
  BY <1>1, <1>4, <1>5, <1>8 DEF Replacing
<1> QED  BY <1>2, <1>4, <1>6, <1>7, <1>9

\* A stream is opened.
LEMMA OpenKept ==
    ASSUME IInv, NEW c \in Streams, Open(c)
    PROVE  IInv'
<1> USE DEF IInv
<1>1. /\ pc' = [pc EXCEPT ![c] = "idle"]
      /\ UNCHANGED <<watches, watchCount, pending, sub, cancel, queue>>
  BY DEF Open, cacheVars
<1>2. TypeOK'
  BY DEF TypeOK, Open, cacheVars
<1>3. \A d \in Streams : \A t \in Types :
          IsQueued(d, t)' = IsQueued(d, t) /\ IsWaiting(d, t)' = IsWaiting(d, t)
  BY <1>1 DEF IsQueued, IsWaiting
<1>4. NoAnswerWhileWaiting' /\ NothingWithoutEntry' /\ WatchIds' /\ OneAnswer'
  BY SMTT(30), <1>1, <1>3 DEF NoAnswerWhileWaiting, NothingWithoutEntry, WatchIds, OneAnswer
<1>5. WatchesAreCancellable'
  BY SMTT(30), <1>1 DEF WatchesAreCancellable, TypeOK, Watch
<1>6. \A d \in Streams : pending[d] # None => pending[d].type \in Types
  BY DEF TypeOK, Request
<1>7. Replacing'
  BY <1>1, <1>3, <1>6 DEF Replacing, TypeOK
<1> QED  BY <1>2, <1>4, <1>5, <1>7

\* The cancel functions of a stream leave no watch of the types they are for.
LEMMA CancelledWatches ==
    ASSUME IInv, NEW c \in Streams, NEW ts \in SUBSET Types, cancelWatches(c, ts)
    PROVE  /\ watches' \in [Nodes -> SUBSET Watch]
           /\ \A n \in Nodes : watches'[n] \subseteq watches[n]
           /\ \A t \in ts : ~IsWaiting(c, t)'
<1> USE DEF IInv
<1>1. NodeOf[c] \in Nodes /\ watches \in [Nodes -> SUBSET Watch]
  BY SnapshotAssumption DEF SnapshotAssumption, TypeOK
<1>2. /\ watches' \in [Nodes -> SUBSET Watch]
      /\ \A n \in Nodes : watches'[n] \subseteq watches[n]
      /\ \A w \in watches'[NodeOf[c]] : \A t \in ts : w.id # cancel[c][t]
  BY <1>1 DEF cancelWatches
<1>3. ASSUME NEW t \in ts, NEW n \in Nodes, NEW w \in watches'[n], w.stream = c, w.type = t
      PROVE  FALSE
  BY SMTT(30), <1>2, <1>3 DEF WatchesAreCancellable
<1> QED  BY <1>2, <1>3 DEF IsWaiting

\* A stream ends, and its watches with it.
LEMMA ShutdownKept ==
    ASSUME IInv, NEW c \in Streams, Shutdown(c)
    PROVE  IInv'
<1> USE DEF IInv
<1>1. /\ watches' \in [Nodes -> SUBSET Watch]
      /\ \A n \in Nodes : watches'[n] \subseteq watches[n]
      /\ \A t \in Types : ~IsWaiting(c, t)'
  BY CancelledWatches DEF Shutdown
<1>2. /\ pc' = [pc EXCEPT ![c] = "closed"]
      /\ pending' = [pending EXCEPT ![c] = None]
      /\ sub' = [sub EXCEPT ![c] = [t \in Types |-> None]]
      /\ cancel' = [cancel EXCEPT ![c] = [t \in Types |-> 0]]
      /\ queue' = [queue EXCEPT ![c] = <<>>]
      /\ watchCount' = watchCount
  BY DEF Shutdown
<1>3. TypeOK'
  BY SMTT(30), <1>1 DEF Shutdown, TypeOK
<1>4. WatchIds' /\ \A d \in Streams : \A t \in Types : IsWaiting(d, t)' => IsWaiting(d, t)
  BY <1>1, <1>2, FewerWatches
<1>5. queue'[c] = <<>> /\ \A d \in Streams : d # c => queue'[d] = queue[d]
  BY <1>2 DEF TypeOK
<1>6. \A d \in Streams : \A t \in Types : IsQueued(d, t)' => d # c /\ IsQueued(d, t)
  BY SMTT(30), <1>5 DEF IsQueued
<1>7. OneAnswer' /\ NoAnswerWhileWaiting'
  BY SMTT(30), <1>4, <1>5, <1>6 DEF OneAnswer, NoAnswerWhileWaiting
<1>8. \A d \in Streams : d # c =>
          /\ pc'[d] = pc[d] /\ pending'[d] = pending[d]
          /\ sub'[d] = sub[d] /\ cancel'[d] = cancel[d]
  BY <1>2 DEF TypeOK
<1>9. NothingWithoutEntry'
  BY <1>1, <1>4, <1>6, <1>8 DEF NothingWithoutEntry
<1>10. WatchesAreCancellable'
  <2>1. \A n \in Nodes : \A w \in watches'[n] :
            w.stream \in Streams /\ w.stream # c /\ w \in watches[n]
    BY SMTT(30), <1>1 DEF IsWaiting, Watch
  <2> QED  BY ZenonT(40), <1>8, <2>1 DEF WatchesAreCancellable
<1>11. \A d \in Streams : pending[d] # None => pending[d].type \in Types
  BY DEF TypeOK, Request
<1>12. pc'[c] = "closed"
  BY <1>2 DEF TypeOK
<1>13. Replacing'
  <2> SUFFICES ASSUME NEW d \in Streams
               PROVE  /\ pc'[d] = "draining" => Ordered
                      /\ pc'[d] \in {"draining", "cancelled"} =>
                            /\ pending'[d] # None
                            /\ sub'[d][pending'[d].type] # None
                            /\ ~IsWaiting(d, pending[d].type)'
                      /\ pc'[d] = "cancelled" /\ Ordered => ~IsQueued(d, pending[d].type)'
    BY DEF Replacing
  <2>1. CASE d = c
    BY <1>12, <2>1
  <2>2. CASE d # c
    <3>1. pc'[d] = pc[d] /\ pending'[d] = pending[d] /\ sub'[d] = sub[d]
      BY <1>8, <2>2
    <3>2. pending[d] # None =>
              /\ IsWaiting(d, pending[d].type)' => IsWaiting(d, pending[d].type)
              /\ IsQueued(d, pending[d].type)' => IsQueued(d, pending[d].type)
      BY <1>4, <1>6, <1>11, <3>1
    <3> QED  BY <3>1, <3>2 DEF Replacing
  <2> QED  BY <2>1, <2>2
<1> QED  BY <1>3, <1>4, <1>7, <1>9, <1>10, <1>13

\* The first request for a type creates its watch entry.
LEMMA FirstRequestKept ==
    ASSUME IInv, NEW c \in Streams, NEW req \in Request, FirstRequest(c, req)
    PROVE  IInv'
<1> DEFINE s == NewSotwSubscription(req.resourceNames, LegacyWildcard)
<1>1. req.type \in Types /\ s \in Sub /\ queue[c] \in Seq(Response)
  BY SubscriptionType DEF Request, IInv, TypeOK
<1> HIDE DEF s
<1>2. CreateWatch(c, req, s, queue[c]) /\ sub[c][req.type] = None
  BY DEF FirstRequest, s
<1>3. ~IsWaiting(c, req.type) /\ ~IsQueued(c, req.type)
  BY <1>1, <1>2 DEF IInv, NothingWithoutEntry
<1>4. \A i \in DOMAIN queue[c] :
          queue[c][i].type # req.type /\ IsQueued(c, queue[c][i].type)
  BY <1>3 DEF IsQueued
<1>5. \A i, j \in DOMAIN queue[c] : queue[c][i].type = queue[c][j].type => i = j
  BY DEF IInv, OneAnswer
<1> QED  BY <1>1, <1>2, <1>3, <1>4, <1>5, CreateWatchKept

\* When a watch is created again the old one is gone, and so is its response: Kept.
LEMMA RewatchRequest ==
    ASSUME IInv, NEW c \in Streams, pc[c] = "cancelled", NEW req, req = pending[c]
    PROVE  /\ req \in Request /\ req.type \in Types /\ sub[c][req.type] \in Sub
           /\ ~IsWaiting(c, req.type)
           /\ Kept(c, req.type) \in Seq(Response)
           /\ \A i \in DOMAIN Kept(c, req.type) :
                 /\ Kept(c, req.type)[i].type # req.type
                 /\ \E j \in DOMAIN queue[c] : Kept(c, req.type)[i] = queue[c][j]
           /\ \A i, j \in DOMAIN Kept(c, req.type) :
                 Kept(c, req.type)[i].type = Kept(c, req.type)[j].type => i = j
           /\ \A i \in DOMAIN queue[c] : queue[c][i].type # req.type =>
                 \E j \in DOMAIN Kept(c, req.type) : Kept(c, req.type)[j] = queue[c][i]
<1> USE DEF IInv
<1> DEFINE old == {i \in DOMAIN queue[c] : queue[c][i].type = req.type}
           q   == Kept(c, req.type)
<1>1. /\ req \in Request /\ req.type \in Types /\ sub[c][req.type] \in Sub
      /\ ~IsWaiting(c, req.type) /\ (Ordered => ~IsQueued(c, req.type))
      /\ queue[c] \in Seq(Response)
  BY SMTT(30) DEF Replacing, TypeOK, Request
<1>2. \A i, j \in DOMAIN queue[c] : queue[c][i].type = queue[c][j].type => i = j
  BY DEF OneAnswer
<1>3. CASE old = {}
  <2>1. q = queue[c]
    BY <1>3 DEF Kept
  <2> QED  BY <1>1, <1>2, <1>3, <2>1
<1>4. CASE old # {}
  <2> DEFINE k == CHOOSE i \in old : TRUE
  <2>1. k \in DOMAIN queue[c] /\ queue[c][k].type = req.type
    BY <1>4
  <2>2. ~Ordered
    BY <1>1, <1>4 DEF IsQueued
  <2>3. q = Without(queue[c], k)
    BY <1>4, <2>2 DEF Kept
  <2> HIDE DEF k, q
  <2>4. /\ q \in Seq(Response)
        /\ \A j \in DOMAIN q : \E i \in DOMAIN queue[c] : q[j] = queue[c][i]
        /\ \A j \in DOMAIN q : q[j].type # req.type
        /\ \A i, j \in DOMAIN q : q[i].type = q[j].type => i = j
    BY SMTT(30), <1>1, <1>2, <2>1, <2>3, RemoveAnswer
  <2>5. ASSUME NEW i \in DOMAIN queue[c], queue[c][i].type # req.type
        PROVE  \E j \in DOMAIN q : q[j] = queue[c][i]
    <3>1. /\ Len(q) = Len(queue[c]) - 1
          /\ \A j \in 1 .. Len(queue[c]) - 1 :
                q[j] = IF j < k THEN queue[c][j] ELSE queue[c][j + 1]
      BY <1>1, <2>1, <2>3, WithoutFacts
    <3>2. i # k /\ i \in 1 .. Len(queue[c]) /\ k \in 1 .. Len(queue[c]) /\ Len(queue[c]) \in Nat
      BY SMTT(30), <1>1, <2>1, <2>5
    <3>3. CASE i < k
      <4>1. i \in DOMAIN q /\ q[i] = queue[c][i]
        BY SMTT(30), <2>4, <3>1, <3>2, <3>3
      <4> QED  BY <4>1
    <3>4. CASE i > k
      <4>1. i - 1 \in DOMAIN q /\ q[i - 1] = queue[c][i]
        BY SMTT(30), <2>4, <3>1, <3>2, <3>4
      <4> QED  BY <4>1
    <3> QED  BY SMTT(30), <3>2, <3>3, <3>4
  <2> QED  BY <1>1, <2>4, <2>5 DEF q
<1> QED  BY <1>3, <1>4

\* The watch of a type is created again, after the old response was dropped or sent.
LEMMA RewatchKept ==
    ASSUME IInv, NEW c \in Streams, Rewatch(c)
    PROVE  IInv'
<1> DEFINE req == pending[c]
           s   == SetResourceSubscription(sub[c][req.type], req.resourceNames)
           q   == Kept(c, req.type)
<1>1. /\ pc[c] = "cancelled" /\ CreateWatch(c, req, s, q)
  BY DEF Rewatch
<1>2. /\ req \in Request /\ sub[c][req.type] \in Sub /\ ~IsWaiting(c, req.type)
      /\ q \in Seq(Response)
      /\ \A i \in DOMAIN q : q[i].type # req.type /\ \E j \in DOMAIN queue[c] : q[i] = queue[c][j]
      /\ \A i, j \in DOMAIN q : q[i].type = q[j].type => i = j
  BY <1>1, RewatchRequest
<1>3. s \in Sub
  BY <1>2, SubscriptionType DEF Request
<1> HIDE DEF req, s, q
<1>4. \A i \in DOMAIN q : q[i].type # req.type /\ IsQueued(c, q[i].type)
  BY <1>2 DEF IsQueued
<1> QED  BY <1>1, <1>2, <1>3, <1>4, CreateWatchKept

\* The watch of a type is closed, before it is created again.
LEMMA CloseWatchKept ==
    ASSUME IInv, NEW c \in Streams, NEW req \in Request, CloseWatch(c, req)
    PROVE  IInv'
<1> USE DEF IInv
<1>1. req.type \in Types /\ req # None
  BY SnapshotAssumption DEF Request, SnapshotAssumption
<1>2. /\ watches' \in [Nodes -> SUBSET Watch]
      /\ \A n \in Nodes : watches'[n] \subseteq watches[n]
      /\ ~IsWaiting(c, req.type)'
  BY <1>1, CancelledWatches DEF CloseWatch
<1>3. /\ pc[c] = "idle" /\ sub[c][req.type] # None
      /\ pc' = [pc EXCEPT ![c] = IF Ordered THEN "draining" ELSE "cancelled"]
      /\ pending' = [pending EXCEPT ![c] = req]
      /\ UNCHANGED <<watchCount, sub, cancel, queue>>
  BY DEF CloseWatch
<1>4. TypeOK'
  BY <1>2 DEF CloseWatch, TypeOK
<1>5. WatchIds' /\ \A d \in Streams : \A t \in Types : IsWaiting(d, t)' => IsWaiting(d, t)
  BY <1>2, <1>3, FewerWatches
<1>6. \A d \in Streams : \A t \in Types : IsQueued(d, t)' = IsQueued(d, t)
  BY <1>3 DEF IsQueued
<1>7. NoAnswerWhileWaiting' /\ NothingWithoutEntry'
  BY <1>3, <1>5, <1>6, FewerKept
<1>8. OneAnswer'
  BY <1>3 DEF OneAnswer
<1>9. /\ pc'[c] = IF Ordered THEN "draining" ELSE "cancelled"
      /\ pending'[c] = req
      /\ \A d \in Streams : d # c => pc'[d] = pc[d] /\ pending'[d] = pending[d]
  BY <1>3 DEF TypeOK
<1>10. WatchesAreCancellable'
  BY SMTT(30), <1>2, <1>3, <1>9 DEF WatchesAreCancellable, Watch
<1>11. \A d \in Streams : pending[d] # None => pending[d].type \in Types
  BY DEF TypeOK, Request
<1>12. Replacing'
  BY SMTT(90), <1>1, <1>2, <1>3, <1>5, <1>6, <1>9, <1>11 DEF Replacing
<1> QED  BY <1>4, <1>5, <1>7, <1>8, <1>10, <1>12

\* Taking a response from a channel, or finding it empty, keeps the relations between
\* watches, responses and entries.
LEMMA ReceivedKept ==
    ASSUME IInv, NEW c \in Streams, UNCHANGED <<watches, watchCount, pending, cancel>>,
           \A d \in Streams : \A t \in Types : sub[d][t] # None => sub'[d][t] # None,
           \A j \in DOMAIN queue'[c] : \E k \in DOMAIN queue[c] : queue'[c][j] = queue[c][k],
           \A k, l \in DOMAIN queue'[c] : queue'[c][k].type = queue'[c][l].type => k = l,
           \A d \in Streams : d # c => queue'[d] = queue[d] /\ pc'[d] = pc[d],
           \/ pc'[c] = pc[c]
           \/ pc[c] = "draining" /\ pc'[c] = "cancelled" /\ queue'[c] = <<>>
    PROVE  /\ WatchesAreCancellable' /\ WatchIds' /\ OneAnswer' /\ NoAnswerWhileWaiting'
           /\ Replacing' /\ NothingWithoutEntry'
<1>1. OneAnswer'
  BY DEF IInv, OneAnswer
<1>2. \A d \in Streams : \A t \in Types : IsQueued(d, t)' => IsQueued(d, t)
  BY SMTT(30) DEF IsQueued
<1>3. WatchIds' /\ \A d \in Streams : \A t \in Types : IsWaiting(d, t)' => IsWaiting(d, t)
  BY FewerWatches
<1>4. NoAnswerWhileWaiting' /\ NothingWithoutEntry'
  BY <1>2, <1>3, FewerKept
<1>5. WatchesAreCancellable'
  BY SMTT(30) DEF IInv, WatchesAreCancellable, TypeOK, Watch
<1>6. ASSUME NEW d \in Streams
      PROVE  /\ pc'[d] = "draining" => Ordered
             /\ pc'[d] \in {"draining", "cancelled"} =>
                   /\ pending'[d] # None
                   /\ sub'[d][pending'[d].type] # None
                   /\ ~IsWaiting(d, pending[d].type)'
             /\ pc'[d] = "cancelled" /\ Ordered => ~IsQueued(d, pending[d].type)'
  <2>1. pending'[d] = pending[d] /\ (pending[d] # None => pending[d].type \in Types)
    BY DEF IInv, TypeOK, Request
  <2>2. /\ pc[d] = "draining" => Ordered
        /\ pc[d] \in {"draining", "cancelled"} =>
              pending[d] # None /\ sub[d][pending[d].type] # None /\ ~IsWaiting(d, pending[d].type)
        /\ pc[d] = "cancelled" /\ Ordered => ~IsQueued(d, pending[d].type)
    BY DEF IInv, Replacing
  <2>3. CASE pc'[d] = pc[d]
    BY <1>2, <1>3, <2>1, <2>2, <2>3
  <2>4. CASE pc[d] = "draining" /\ pc'[d] = "cancelled" /\ queue'[d] = <<>>
    <3>1. \A t \in Types : ~IsQueued(d, t)'
      BY SMTT(30), <2>4 DEF IsQueued
    <3> QED  BY <1>3, <2>1, <2>2, <2>4, <3>1
  <2> QED  BY <2>3, <2>4
<1>7. Replacing'
  BY <1>6 DEF Replacing
<1> QED  BY <1>1, <1>3, <1>4, <1>5, <1>7

\* A response is received and sent: the select of process and processADS.
LEMMA SendResponseKept ==
    ASSUME IInv, NEW c \in Streams, NEW i \in DOMAIN queue[c], SendResponse(c, i)
    PROVE  IInv'
<1>1. /\ Send(c, queue[c][i])
      /\ queue' = [queue EXCEPT ![c] = Without(queue[c], i)]
      /\ UNCHANGED <<snapshots, watches, watchCount, round, failed, cleared,
                     pc, pending, cancel>>
  BY DEF SendResponse, cacheVars
<1>2. TypeOK /\ queue[c] \in Seq(Response) /\ queue[c][i] \in Response
  BY SMTT(30) DEF IInv, TypeOK
<1>3. IsQueued(c, queue[c][i].type)
  BY DEF IsQueued
<1>4. /\ sub' \in [Streams -> [Types -> Sub \cup {None}]]
      /\ replied' \in [Streams -> SUBSET Types]
      /\ told' \in [Streams -> [Types -> SUBSET VersionInfos]]
      /\ lastSent' \in [Streams -> [round : Nat, place : Nat]]
      /\ \A d \in Streams : \A t \in Types : sub[d][t] # None => sub'[d][t] # None
  BY <1>1, <1>2, <1>3, SendType
<1>5. queue'[c] = Without(queue[c], i) /\ \A d \in Streams : d # c => queue'[d] = queue[d]
  BY <1>1, <1>2 DEF TypeOK
<1>6. \A k, l \in DOMAIN queue[c] : queue[c][k].type = queue[c][l].type => k = l
  BY DEF IInv, OneAnswer
<1>7. /\ Without(queue[c], i) \in Seq(Response)
      /\ \A j \in DOMAIN queue'[c] : \E k \in DOMAIN queue[c] : queue'[c][j] = queue[c][k]
      /\ \A k, l \in DOMAIN queue'[c] : queue'[c][k].type = queue'[c][l].type => k = l
  BY SMTT(30), <1>2, <1>5, <1>6, RemoveAnswer
<1>8. /\ WatchesAreCancellable' /\ WatchIds' /\ OneAnswer' /\ NoAnswerWhileWaiting'
      /\ Replacing' /\ NothingWithoutEntry'
  <2>1. /\ UNCHANGED <<watches, watchCount, pending, cancel>> /\ pc'[c] = pc[c]
        /\ \A d \in Streams : d # c => queue'[d] = queue[d] /\ pc'[d] = pc[d]
    BY <1>1, <1>5
  <2> QED  BY <1>4, <1>7, <2>1, ReceivedKept
<1>9. queue' \in [Streams -> Seq(Response)]
  BY <1>1, <1>2, <1>7 DEF TypeOK
<1>10. TypeOK'
  BY <1>1, <1>2, <1>4, <1>9 DEF TypeOK
<1> QED  BY <1>8, <1>10 DEF IInv

\* One turn of processAllExcept.
LEMMA ProcessAllExceptKept ==
    ASSUME IInv, NEW c \in Streams, processAllExcept(c)
    PROVE  IInv'
<1>1. /\ pc[c] = "draining"
      /\ UNCHANGED <<snapshots, watches, watchCount, round, failed, cleared, pending, cancel>>
  BY DEF processAllExcept, cacheVars
<1>2. /\ TypeOK /\ queue[c] \in Seq(Response)
      /\ \A k, l \in DOMAIN queue[c] : queue[c][k].type = queue[c][l].type => k = l
  BY DEF IInv, TypeOK, OneAnswer
<1>3. CASE queue[c] = <<>>
  <2>1. /\ pc' = [pc EXCEPT ![c] = "cancelled"]
        /\ UNCHANGED <<sub, replied, told, lastSent, queue>>
    BY <1>3 DEF processAllExcept
  <2>2. pc'[c] = "cancelled" /\ \A d \in Streams : d # c => pc'[d] = pc[d]
    BY <1>2, <2>1 DEF TypeOK
  <2>3. /\ WatchesAreCancellable' /\ WatchIds' /\ OneAnswer' /\ NoAnswerWhileWaiting'
        /\ Replacing' /\ NothingWithoutEntry'
    BY <1>1, <1>2, <1>3, <2>1, <2>2, ReceivedKept
  <2>4. TypeOK'
    BY <1>1, <1>2, <2>1 DEF TypeOK
  <2> QED  BY <2>3, <2>4 DEF IInv
<1>4. CASE queue[c] # <<>>
  <2>1. queue' = [queue EXCEPT ![c] = Tail(queue[c])] /\ pc' = pc
    BY <1>4 DEF processAllExcept
  <2>2. Head(queue[c]) = queue[c][1] /\ 1 \in DOMAIN queue[c] /\ Head(queue[c]) \in Response
    BY SMTT(30), <1>2, <1>4
  <2>3. IsQueued(c, Head(queue[c]).type)
    BY <2>2 DEF IsQueued
  <2>4. /\ sub' \in [Streams -> [Types -> Sub \cup {None}]]
        /\ replied' \in [Streams -> SUBSET Types]
        /\ told' \in [Streams -> [Types -> SUBSET VersionInfos]]
        /\ lastSent' \in [Streams -> [round : Nat, place : Nat]]
        /\ \A d \in Streams : \A t \in Types : sub[d][t] # None => sub'[d][t] # None
    <3>1. CASE UNCHANGED <<sub, replied, told, lastSent>>
      BY <1>2, <3>1 DEF TypeOK
    <3>2. CASE Send(c, Head(queue[c]))
      BY <2>2, <2>3, <3>2, SendType
    <3> QED  BY <1>4, <3>1, <3>2 DEF processAllExcept
  <2>5. queue'[c] = Tail(queue[c]) /\ \A d \in Streams : d # c => queue'[d] = queue[d]
    BY <1>2, <2>1 DEF TypeOK
  <2>6. /\ Tail(queue[c]) \in Seq(Response)
        /\ \A j \in DOMAIN Tail(queue[c]) :
              j \in Nat /\ j + 1 \in DOMAIN queue[c] /\ Tail(queue[c])[j] = queue[c][j + 1]
    BY SMTT(30), <1>2, <1>4
  <2>7. /\ \A j \in DOMAIN queue'[c] : \E k \in DOMAIN queue[c] : queue'[c][j] = queue[c][k]
        /\ \A k, l \in DOMAIN queue'[c] : queue'[c][k].type = queue'[c][l].type => k = l
    BY SMTT(30), <1>2, <2>5, <2>6
  <2>8. /\ WatchesAreCancellable' /\ WatchIds' /\ OneAnswer' /\ NoAnswerWhileWaiting'
        /\ Replacing' /\ NothingWithoutEntry'
    <3>1. /\ UNCHANGED <<watches, watchCount, pending, cancel>> /\ pc'[c] = pc[c]
          /\ \A d \in Streams : d # c => queue'[d] = queue[d] /\ pc'[d] = pc[d]
      BY <1>1, <2>1, <2>5
    <3> QED  BY <2>4, <2>7, <3>1, ReceivedKept
  <2>9. queue' \in [Streams -> Seq(Response)]
    BY <1>2, <2>1, <2>6 DEF TypeOK
  <2>10. TypeOK'
    BY <1>1, <1>2, <2>1, <2>4, <2>9 DEF TypeOK
  <2> QED  BY <2>8, <2>10 DEF IInv
<1> QED  BY <1>3, <1>4

-----------------------------------------------------------------------------
(* The theorems that follow from it.                                       *)

\* A step of the cache or of a stream, in which a stream c takes a request of requests[c].
CacheStep(requests) ==
    \/ UNCHANGED vars
    \/ CacheNext
    \/ \E c \in Streams :
          \/ Open(c)
          \/ Shutdown(c)
          \/ \E req \in requests[c] : FirstRequest(c, req) \/ CloseWatch(c, req)
          \/ processAllExcept(c)
          \/ Rewatch(c)
          \/ \E i \in DOMAIN queue[c] : SendResponse(c, i)

\* The steps of the specification take the requests of the constant Requests.
LEMMA NextIsStep ==
    ASSUME [Next]_vars
    PROVE  \E requests \in [Streams -> SUBSET Request] :
              CacheStep(requests) /\ \A c \in Streams : requests[c] = Requests
<1> DEFINE requests == [c \in Streams |-> Requests]
<1>1. requests \in [Streams -> SUBSET Request] /\ \A c \in Streams : requests[c] = Requests
  BY SnapshotAssumption DEF SnapshotAssumption
<1> HIDE DEF requests
<1>2. CacheStep(requests)
  BY <1>1 DEF CacheStep, Next, StreamNext
<1> QED  BY <1>1, <1>2

\* Every step keeps the inductive invariant.
LEMMA StepKept ==
    ASSUME NEW requests \in [Streams -> SUBSET Request], IInv, CacheStep(requests)
    PROVE  IInv'
<1>1. CASE UNCHANGED vars
  <2> USE <1>1 DEF vars, cacheVars, streamVars, IInv
  <2>1. TypeOK'
    BY DEF TypeOK
  <2>2. WatchesAreCancellable' /\ WatchIds' /\ OneAnswer'
    BY SMTT(30) DEF WatchesAreCancellable, WatchIds, OneAnswer
  <2>3. NoAnswerWhileWaiting' /\ NothingWithoutEntry'
    BY SMTT(30) DEF NoAnswerWhileWaiting, NothingWithoutEntry, IsWaiting, IsQueued
  <2>4. Replacing'
    BY DEF Replacing, IsWaiting, IsQueued
  <2> QED  BY <2>1, <2>2, <2>3, <2>4
<1>2. CASE CacheNext
  BY <1>2, SetSnapshotKept, SendHeartbeatsKept, ClearSnapshotKept DEF CacheNext
<1>3. ASSUME NEW c \in Streams, NEW req \in requests[c], FirstRequest(c, req) \/ CloseWatch(c, req)
      PROVE  IInv'
  <2>1. req \in Request
    OBVIOUS
  <2> QED  BY <1>3, <2>1, FirstRequestKept, CloseWatchKept
<1> QED  BY <1>1, <1>2, <1>3, OpenKept, ShutdownKept, ProcessAllExceptKept, RewatchKept,
            SendResponseKept DEF CacheStep

\* The inductive invariant holds in every reachable state: whatever the cache and the
\* streams do, a type has one watch or one response and an entry that cancels it.
THEOREM Invariance == Spec => []IInv
<1>1. IInv /\ [Next]_vars => IInv'
  BY NextIsStep, StepKept
<1> QED  BY <1>1, InitInvariant, PTL DEF Spec

\* Every variable of the snapshot cache and of the stream loops keeps its type.
THEOREM TypeCorrect == Spec => []TypeOK
<1>1. IInv => TypeOK
  BY DEF IInv
<1> QED  BY <1>1, Invariance, PTL

\* Every open watch of the snapshot cache belongs to a live stream whose cancel function
\* removes it.
THEOREM NoWatchLeaks == Spec => []WatchesAreCancellable
<1>1. IInv => WatchesAreCancellable
  BY DEF IInv
<1> QED  BY <1>1, Invariance, PTL

\* The snapshot cache never sends on a full channel while it holds its lock: a type has
\* one response or one open watch.
THEOREM NoSendBlocks == Spec => []SendNeverBlocks
<1>1. ASSUME IInv PROVE SendNeverBlocks
  <2> SUFFICES ASSUME NEW c \in Streams, NEW t \in Types
               PROVE  /\ Queued(c, t) = {} \/ Waiting(c, t) = {}
                      /\ \A i, j \in Queued(c, t) : i = j
                      /\ \A v, w \in Waiting(c, t) : v = w
    BY DEF SendNeverBlocks
  <2>1. \A i, j \in Queued(c, t) : i = j
    BY <1>1 DEF IInv, OneAnswer, Queued
  <2>2. NodeOf[c] \in Nodes
    BY SnapshotAssumption DEF SnapshotAssumption
  <2>3. \A v, w \in Waiting(c, t) : v = w
    BY <1>1, <2>2, OneWatch DEF Waiting
  <2>4. Queued(c, t) = {} \/ Waiting(c, t) = {}
    BY <1>1, <2>2 DEF IInv, NoAnswerWhileWaiting, IsQueued, IsWaiting, Queued, Waiting
  <2> QED  BY <2>1, <2>3, <2>4
<1> QED  BY <1>1, Invariance, PTL

-----------------------------------------------------------------------------
(* The order of the responses of an ordered ADS stream.                    *)

Precedes(r, place, resp) == r < resp.round \/ (r = resp.round /\ place <= TypeOrder[resp.type])

\* The responses of a channel come in the order of the SetSnapshot calls they are from and
\* of the types, and after what was sent; n calls were made.
Sequenced(q, last, n) ==
    /\ last.round <= n
    /\ \A i \in DOMAIN q :
          /\ q[i].round <= n
          /\ q[i].round # 0 => Precedes(last.round, last.place, q[i])
    /\ \A i, j \in DOMAIN q : i <= j /\ q[i].round # 0 /\ q[j].round # 0 =>
          Precedes(q[i].round, TypeOrder[q[i].type], q[j])

InSequence == \A c \in Streams : Sequenced(queue[c], lastSent[c], round)

Place == [round : Nat, place : Nat]

\* The places of the types in the enumeration are numbers.
LEMMA PlaceOfResponse ==
    ASSUME NEW resp \in Response
    PROVE  resp.round \in Nat /\ TypeOrder[resp.type] \in Nat
  BY SnapshotAssumption DEF SnapshotAssumption, Response

\* createResponse notes the call it is made for.
LEMMA RoundOfResponse ==
    ASSUME NEW snap, NEW w, NEW r
    PROVE  createResponse(snap, w, r).round = r
  BY DEF createResponse

\* Responses that come from no SetSnapshot may be queued: CreateWatch and sendHeartbeats.
\* So may those of a new one that are in order.
LEMMA SequencedConcat ==
    ASSUME NEW q \in Seq(Response), NEW new \in Seq(Response), NEW last \in Place, NEW n \in Nat,
           NEW m \in Nat, Sequenced(q, last, n),
           \/ m = n /\ \A i \in DOMAIN new : new[i].round = 0
           \/ /\ m = n + 1
              /\ \A i \in DOMAIN new : new[i].round = m
              /\ \A i, j \in DOMAIN new : i <= j =>
                    TypeOrder[new[i].type] <= TypeOrder[new[j].type]
    PROVE  Sequenced(q \o new, last, m)
<1> DEFINE s == q \o new
<1>1. /\ s \in Seq(Response)
      /\ \A i \in DOMAIN s : \/ i \in DOMAIN q /\ s[i] = q[i]
                             \/ i - Len(q) \in DOMAIN new /\ s[i] = new[i - Len(q)]
                                /\ i > Len(q)
  BY SMTT(30)
<1>2. \A i \in DOMAIN s : i \in Int /\ s[i] \in Response
  BY SMTT(30), <1>1
<1>3. Len(q) \in Nat /\ DOMAIN q = 1 .. Len(q) /\ last.round \in Nat /\ last.place \in Nat
  BY SMTT(30) DEF Place
<1> HIDE DEF s
<1>4. last.round <= m
  BY SMTT(30), <1>3 DEF Sequenced
<1>5. ASSUME NEW i \in DOMAIN s
      PROVE  s[i].round <= m /\ (s[i].round # 0 => Precedes(last.round, last.place, s[i]))
  <2>1. s[i].round \in Nat
    BY <1>2, PlaceOfResponse
  <2>2. CASE i \in DOMAIN q /\ s[i] = q[i]
    BY SMTT(30), <2>1, <2>2 DEF Sequenced
  <2>3. CASE i - Len(q) \in DOMAIN new /\ s[i] = new[i - Len(q)]
    <3>1. s[i].round = 0 \/ (m = n + 1 /\ s[i].round = m)
      BY <2>3
    <3> QED  BY SMTT(30), <1>3, <3>1 DEF Sequenced, Precedes
  <2> QED  BY <1>1, <2>2, <2>3
<1>6. ASSUME NEW i \in DOMAIN s, NEW j \in DOMAIN s, i <= j, s[i].round # 0, s[j].round # 0
      PROVE  Precedes(s[i].round, TypeOrder[s[i].type], s[j])
  <2>1. CASE j \in DOMAIN q /\ s[j] = q[j]
    <3>1. i \in DOMAIN q /\ s[i] = q[i]
      BY SMTT(30), <1>1, <1>2, <1>3, <1>6, <2>1
    <3> QED  BY <1>6, <2>1, <3>1 DEF Sequenced
  <2>2. CASE j - Len(q) \in DOMAIN new /\ s[j] = new[j - Len(q)] /\ j > Len(q)
    <3>1. m = n + 1 /\ s[j].round = m
      BY <1>6, <2>2
    <3>2. CASE i \in DOMAIN q /\ s[i] = q[i]
      <4>1. s[i].round <= n /\ s[i].round \in Nat
        BY <1>2, <3>2, PlaceOfResponse DEF Sequenced
      <4> QED  BY SMTT(30), <3>1, <4>1 DEF Precedes
    <3>3. CASE i - Len(q) \in DOMAIN new /\ s[i] = new[i - Len(q)]
      <4>1. s[i].round = m /\ i - Len(q) <= j - Len(q)
        BY SMTT(30), <1>2, <1>3, <1>6, <3>1, <3>3
      <4>2. TypeOrder[s[i].type] <= TypeOrder[s[j].type]
        BY SMTT(30), <2>2, <3>1, <3>3, <4>1
      <4> QED  BY <3>1, <4>1, <4>2 DEF Precedes
    <3> QED  BY <1>1, <3>2, <3>3
  <2> QED  BY <1>1, <2>1, <2>2
<1>7. Sequenced(s, last, m)
  BY <1>4, <1>5, <1>6 DEF Sequenced
<1> QED  BY <1>7 DEF s

\* The first response may be taken, and sent or dropped.
LEMMA SequencedRest ==
    ASSUME NEW q \in Seq(Response), NEW s \in Seq(Response), NEW last \in Place, NEW n \in Nat,
           Sequenced(q, last, n), q # <<>>,
           \A j \in DOMAIN s : j \in Nat /\ j + 1 \in DOMAIN q /\ s[j] = q[j + 1]
    PROVE  /\ Sequenced(s, last, n)
           /\ q[1].round # 0 =>
                 Sequenced(s, [round |-> q[1].round, place |-> TypeOrder[q[1].type]], n)
<1>1. 1 \in DOMAIN q
  BY SMTT(30)
<1>2. /\ \A j \in DOMAIN s : s[j].round <= n
      /\ \A i, j \in DOMAIN s : i <= j /\ s[i].round # 0 /\ s[j].round # 0 =>
            Precedes(s[i].round, TypeOrder[s[i].type], s[j])
  <2>1. \A i, j \in DOMAIN s : i <= j => i + 1 <= j + 1
    BY SMTT(30)
  <2> QED  BY <2>1 DEF Sequenced
<1>3. Sequenced(s, last, n)
  BY <1>2 DEF Sequenced
<1>4. \A j \in DOMAIN s : q[1].round # 0 /\ s[j].round # 0 =>
          Precedes(q[1].round, TypeOrder[q[1].type], s[j])
  BY SMTT(30), <1>1 DEF Sequenced
<1>5. q[1].round <= n
  BY <1>1 DEF Sequenced
<1>6. q[1].round # 0 =>
          Sequenced(s, [round |-> q[1].round, place |-> TypeOrder[q[1].type]], n)
  BY <1>2, <1>4, <1>5 DEF Sequenced
<1> QED  BY <1>3, <1>6

\* Answers that come from no SetSnapshot, or from a new one and in order: Respond.
LEMMA RespondSequenced ==
    ASSUME IInv, InSequence, NEW n \in Nodes, NEW ws \in SUBSET Watch,
           NEW q \in Shares(Streams, ws), NEW response \in [ws -> Response],
           Respond(n, ws, q, response), lastSent' = lastSent, round' \in Nat,
           \/ round' = round /\ \A w \in ws : response[w].round = 0
           \/ /\ round' = round + 1
              /\ \A w \in ws : response[w].round = round' /\ response[w].type = w.type
              /\ \A c \in Streams : \A i, j \in DOMAIN q[c] : i < j =>
                    TypeOrder[q[c][i].type] <= TypeOrder[q[c][j].type]
    PROVE  InSequence'
<1> SUFFICES ASSUME NEW c \in Streams PROVE Sequenced(queue'[c], lastSent'[c], round')
  BY DEF InSequence
<1> DEFINE new == [i \in DOMAIN q[c] |-> response[q[c][i]]]
<1>1. /\ q[c] \in Seq(ws) /\ \A i \in DOMAIN q[c] : q[c][i] \in ws
      /\ DOMAIN q[c] = 1 .. Len(q[c]) /\ Len(q[c]) \in Nat
  BY SMTT(30), SharesFacts
<1>2. /\ queue[c] \in Seq(Response) /\ lastSent[c] \in Place /\ round \in Nat
      /\ Sequenced(queue[c], lastSent[c], round)
  BY DEF IInv, TypeOK, Place, InSequence
<1>3. new \in Seq(Response) /\ DOMAIN new = DOMAIN q[c]
  BY SMTT(30), <1>1
<1>4. queue'[c] = queue[c] \o new
  BY DEF Respond
<1>5. \A i \in DOMAIN new : new[i] = response[q[c][i]] /\ q[c][i] \in ws
  BY <1>1
<1> HIDE DEF new
<1>6. CASE round' = round /\ \A w \in ws : response[w].round = 0
  <2>1. \A i \in DOMAIN new : new[i].round = 0
    BY SMTT(30), <1>5, <1>6
  <2>2. Sequenced(queue[c] \o new, lastSent[c], round')
    BY <1>2, <1>3, <1>6, <2>1, SequencedConcat
  <2> QED  BY <1>4, <2>2
<1>7. CASE /\ round' = round + 1
           /\ \A w \in ws : response[w].round = round' /\ response[w].type = w.type
           /\ \A i, j \in DOMAIN q[c] : i < j =>
                 TypeOrder[q[c][i].type] <= TypeOrder[q[c][j].type]
  <2>1. \A i \in DOMAIN new :
            new[i].round = round' /\ new[i].type = q[c][i].type /\ TypeOrder[new[i].type] \in Nat
    BY SMTT(30), <1>3, <1>5, <1>7, PlaceOfResponse
  <2>2. \A i, j \in DOMAIN new : i <= j => TypeOrder[new[i].type] <= TypeOrder[new[j].type]
    <3>1. \A i, j \in DOMAIN new : i <= j => i < j \/ i = j
      BY SMTT(30), <1>1, <1>3
    <3>2. \A i \in DOMAIN new : TypeOrder[new[i].type] <= TypeOrder[new[i].type]
      BY SMTT(30), <2>1
    <3> QED  BY <1>3, <1>7, <2>1, <3>1, <3>2
  <2>3. Sequenced(queue[c] \o new, lastSent[c], round')
    BY <1>2, <1>3, <1>7, <2>1, <2>2, SequencedConcat
  <2> QED  BY <1>4, <2>3
<1> QED  BY <1>6, <1>7

\* The response of a watch comes from no SetSnapshot, and the channel of ordered ADS is
\* kept when a watch is created again: CreateWatch.
LEMMA CreateWatchSequenced ==
    ASSUME IInv, IInv', InSequence, NEW c \in Streams, NEW req, NEW s,
           CreateWatch(c, req, s, queue[c])
    PROVE  InSequence'
<1>1. /\ queue \in [Streams -> Seq(Response)] /\ queue' \in [Streams -> Seq(Response)]
      /\ lastSent \in [Streams -> Place] /\ round \in Nat /\ UNCHANGED <<lastSent, round>>
  BY DEF IInv, TypeOK, Place, CreateWatch
<1>2. \/ queue' = queue
      \/ \E resp : resp.round = 0 /\ queue' = [queue EXCEPT ![c] = Append(queue[c], resp)]
  <2> DEFINE w    == [id |-> watchCount + 1, stream |-> c, type |-> req.type,
                      versionInfo |-> req.versionInfo, sub |-> s]
             snap == snapshots[NodeOf[c]]
             resp == createResponse(snap, w, 0)
             answers == snap # None /\ ~Missing(snap, w) /\ ~NothingChanged(snap, w)
  <2>1. resp.round = 0
    BY SMTT(30), RoundOfResponse
  <2>2. queue' = [queue EXCEPT ![c] = IF answers THEN Append(queue[c], resp) ELSE queue[c]]
    BY DEF CreateWatch
  <2> HIDE DEF resp, answers
  <2>3. CASE answers
    <3>1. queue' = [queue EXCEPT ![c] = Append(queue[c], resp)]
      BY <2>2, <2>3
    <3> QED  BY <2>1, <3>1
  <2>4. CASE ~answers
    BY <1>1, <2>2, <2>4
  <2> QED  BY <2>3, <2>4
<1>3. ASSUME NEW resp, resp.round = 0, queue' = [queue EXCEPT ![c] = Append(queue[c], resp)]
      PROVE  InSequence'
  <2>1. /\ queue'[c] = Append(queue[c], resp) /\ queue'[c] \in Seq(Response)
        /\ \A d \in Streams : d # c => queue'[d] = queue[d]
    BY <1>1, <1>3
  <2>2. Len(queue[c]) + 1 \in DOMAIN queue'[c] /\ queue'[c][Len(queue[c]) + 1] = resp
    BY SMTT(30), <1>1, <2>1
  <2>3. resp \in Response
    BY SMTT(30), <2>1, <2>2
  <2> DEFINE new == <<resp>>
  <2>4. /\ queue'[c] = queue[c] \o new /\ new \in Seq(Response)
        /\ \A i \in DOMAIN new : new[i].round = 0
    BY SMTT(30), <1>1, <1>3, <2>1, <2>3
  <2> HIDE DEF new
  <2>5. lastSent[c] \in Place /\ Sequenced(queue[c], lastSent[c], round)
    BY <1>1 DEF InSequence
  <2>6. Sequenced(queue[c] \o new, lastSent[c], round)
    BY <1>1, <2>4, <2>5, SequencedConcat
  <2>7. ASSUME NEW d \in Streams PROVE Sequenced(queue'[d], lastSent'[d], round')
    <3>1. lastSent'[d] = lastSent[d] /\ round' = round /\ Sequenced(queue[d], lastSent[d], round)
      BY <1>1 DEF InSequence
    <3>2. CASE d = c
      BY <2>4, <2>6, <3>1, <3>2
    <3>3. CASE d # c
      BY <2>1, <3>1, <3>3
    <3> QED  BY <3>2, <3>3
  <2> QED  BY <2>7 DEF InSequence
<1>4. CASE queue' = queue
  BY <1>1, <1>4 DEF InSequence
<1> QED  BY <1>2, <1>3, <1>4

\* streamWrapper.send records the response it sends, if it comes from a SetSnapshot.
LEMMA SendSequenced ==
    ASSUME IInv, IInv', InSequence, NEW c \in Streams, queue[c] # <<>>,
           \/ UNCHANGED lastSent
           \/ Send(c, queue[c][1]),
           \A j \in DOMAIN queue'[c] :
              j \in Nat /\ j + 1 \in DOMAIN queue[c] /\ queue'[c][j] = queue[c][j + 1],
           \A d \in Streams : d # c => queue'[d] = queue[d], round' = round
    PROVE  InSequence'
<1>1. /\ queue[c] \in Seq(Response) /\ queue'[c] \in Seq(Response)
      /\ lastSent \in [Streams -> Place] /\ lastSent[c] \in Place /\ round \in Nat
      /\ Sequenced(queue[c], lastSent[c], round)
  BY DEF IInv, TypeOK, Place, InSequence
<1>2. /\ Sequenced(queue'[c], lastSent[c], round)
      /\ queue[c][1].round # 0 =>
            Sequenced(queue'[c], [round |-> queue[c][1].round,
                                  place |-> TypeOrder[queue[c][1].type]], round)
  BY <1>1, SequencedRest
<1>3. \/ lastSent' = lastSent
      \/ /\ queue[c][1].round # 0
         /\ lastSent' = [lastSent EXCEPT ![c] = [round |-> queue[c][1].round,
                                                 place |-> TypeOrder[queue[c][1].type]]]
  BY DEF Send
<1>4. /\ Sequenced(queue'[c], lastSent'[c], round)
      /\ \A d \in Streams : d # c => lastSent'[d] = lastSent[d]
  BY <1>1, <1>2, <1>3
<1> QED  BY <1>4 DEF InSequence

\* SetSnapshot answers in the order of the types: orderResponseWatches.
LEMMA SetSnapshotSequenced ==
    ASSUME Ads, Ordered, IInv, InSequence, NEW n \in Nodes, NEW snap \in Snapshots,
           SetSnapshot(n, snap)
    PROVE  InSequence'
<1>t. TypeOK
  BY DEF IInv
<1>1. PICK ws \in Answered(Due(n, snap)) : \E q \in orderResponseWatches(Streams, ws) :
          Respond(n, ws, q, [w \in ws |-> createResponse(snap, w, round + 1)])
  BY DEF SetSnapshot
<1>2. PICK q \in orderResponseWatches(Streams, ws) :
          Respond(n, ws, q, [w \in ws |-> createResponse(snap, w, round + 1)])
  BY <1>1
<1> DEFINE response == [w \in ws |-> createResponse(snap, w, round + 1)]
<1>3. /\ q \in Shares(Streams, ws)
      /\ \A c \in Streams : \A i, j \in DOMAIN q[c] : i < j =>
            TypeOrder[q[c][i].type] <= TypeOrder[q[c][j].type]
  BY <1>2 DEF orderResponseWatches
<1>4. ws \in SUBSET Watch /\ snap \in Snapshot /\ round \in Nat
  BY <1>t, <1>1, SnapshotAssumption DEF SnapshotAssumption, Answered, Due, TypeOK
<1>5. round' = round + 1 /\ lastSent' = lastSent
  BY DEF SetSnapshot
<1>6. \A w \in ws : response[w] \in Response /\ response[w].type = w.type
  BY SMTT(30), <1>4, CreateResponseType
<1>7. \A w \in ws : response[w].round = round'
  BY <1>5, RoundOfResponse
<1>8. response \in [ws -> Response] /\ Respond(n, ws, q, response)
  BY <1>2, <1>6
<1> HIDE DEF response
<1> QED  BY SMTT(30), <1>3, <1>4, <1>5, <1>6, <1>7, <1>8, RespondSequenced

\* A heartbeat comes from no SetSnapshot.
LEMMA HeartbeatsSequenced ==
    ASSUME IInv, InSequence, NEW n \in Nodes, SendHeartbeats(n)
    PROVE  InSequence'
<1>t. TypeOK
  BY DEF IInv
<1> DEFINE ws       == DueHeartbeat(n)
           response == [w \in ws |-> heartbeatResponse(snapshots[n], w)]
<1>1. PICK q \in Shares(Streams, ws) : Respond(n, ws, q, response)
  BY DEF SendHeartbeats
<1>2. ws \in SUBSET Watch /\ (ws # {} => snapshots[n] \in Snapshot) /\ round \in Nat
  BY <1>t DEF DueHeartbeat, TypeOK
<1>3. response \in [ws -> Response]
  BY <1>2, HeartbeatType
<1>4. \A w \in ws : response[w].round = 0
  BY DEF heartbeatResponse
<1> HIDE DEF ws, response
<1>5. round' = round /\ lastSent' = lastSent
  BY DEF SendHeartbeats
<1> QED  BY <1>1, <1>2, <1>3, <1>4, <1>5, RespondSequenced

\* A new stream has sent nothing.
LEMMA ShutdownSequenced ==
    ASSUME IInv, InSequence, NEW c \in Streams, Shutdown(c)
    PROVE  InSequence'
<1>t. TypeOK
  BY DEF IInv
<1>1. /\ queue'[c] = <<>> /\ lastSent'[c] = [round |-> 0, place |-> 0] /\ round' = round
      /\ round \in Nat
      /\ \A d \in Streams : d # c => queue'[d] = queue[d] /\ lastSent'[d] = lastSent[d]
  BY <1>t DEF Shutdown, TypeOK
<1>2. Sequenced(queue'[c], lastSent'[c], round')
  BY SMTT(30), <1>1 DEF Sequenced
<1>3. \A d \in Streams : d # c => Sequenced(queue'[d], lastSent'[d], round')
  BY <1>1 DEF InSequence
<1> QED  BY <1>2, <1>3 DEF InSequence

\* The loop takes the first response of its only channel and sends it.
LEMMA SendResponseSequenced ==
    ASSUME Ads, Ordered, IInv, IInv', InSequence, NEW c \in Streams, NEW i \in DOMAIN queue[c],
           SendResponse(c, i)
    PROVE  InSequence'
<1>t. TypeOK
  BY DEF IInv
<1>1. i = 1 /\ queue[c] \in Seq(Response)
  BY <1>t DEF SendResponse, Receivable, TypeOK
<1>2. /\ Send(c, queue[c][1]) /\ round' = round
      /\ queue' = [queue EXCEPT ![c] = Without(queue[c], i)]
  BY <1>1 DEF SendResponse, cacheVars
<1>3. queue'[c] = Without(queue[c], i) /\ \A d \in Streams : d # c => queue'[d] = queue[d]
  BY <1>t, <1>2 DEF TypeOK
<1>4. queue[c] # <<>> /\ \A j \in DOMAIN queue'[c] :
          j \in Nat /\ j + 1 \in DOMAIN queue[c] /\ queue'[c][j] = queue[c][j + 1]
  <2>1. /\ Without(queue[c], i) \in Seq(Response)
        /\ Len(Without(queue[c], i)) = Len(queue[c]) - 1
        /\ \A j \in 1 .. Len(queue[c]) - 1 :
              Without(queue[c], i)[j] = IF j < i THEN queue[c][j] ELSE queue[c][j + 1]
    BY <1>1, WithoutFacts
  <2> QED  BY SMTT(30), <1>1, <1>3, <2>1
<1> QED  BY <1>2, <1>3, <1>4, SendSequenced

\* Before a watch is created again the channel is drained in order: processAllExcept.
LEMMA DrainSequenced ==
    ASSUME IInv, IInv', InSequence, NEW c \in Streams, processAllExcept(c)
    PROVE  InSequence'
<1>t. TypeOK
  BY DEF IInv
<1>1. CASE queue[c] = <<>>
  BY <1>1 DEF processAllExcept, cacheVars, InSequence
<1>2. CASE queue[c] # <<>>
  <2>1. queue' = [queue EXCEPT ![c] = Tail(queue[c])] /\ round' = round
    BY <1>2 DEF processAllExcept, cacheVars
  <2>2. UNCHANGED lastSent \/ Send(c, Head(queue[c]))
    BY <1>2 DEF processAllExcept
  <2>3. queue[c] \in Seq(Response) /\ Head(queue[c]) = queue[c][1]
    BY SMTT(30), <1>t, <1>2 DEF TypeOK
  <2>4. queue'[c] = Tail(queue[c]) /\ \A d \in Streams : d # c => queue'[d] = queue[d]
    BY <1>t, <2>1 DEF TypeOK
  <2>5. \A j \in DOMAIN queue'[c] :
            j \in Nat /\ j + 1 \in DOMAIN queue[c] /\ queue'[c][j] = queue[c][j + 1]
    BY SMTT(30), <1>2, <2>3, <2>4
  <2> QED  BY <1>2, <2>1, <2>2, <2>3, <2>4, <2>5, SendSequenced
<1> QED  BY <1>1, <1>2

\* With ADS and an ordered server the order is kept by every step.
LEMMA SequenceKept ==
    ASSUME Ads, Ordered, NEW requests, IInv, IInv', InSequence, CacheStep(requests)
    PROVE  InSequence'
<1>1. ASSUME UNCHANGED <<queue, lastSent, round>> PROVE InSequence'
  BY <1>1 DEF InSequence
<1>2. ASSUME NEW n \in Nodes, NEW snap \in Snapshots, SetSnapshot(n, snap) PROVE InSequence'
  BY <1>2, SetSnapshotSequenced
<1>3. ASSUME NEW n \in Nodes, SendHeartbeats(n) PROVE InSequence'
  BY <1>3, HeartbeatsSequenced
<1>4. ASSUME NEW c \in Streams, Shutdown(c) PROVE InSequence'
  BY <1>4, ShutdownSequenced
<1>5. ASSUME NEW c \in Streams, NEW req, FirstRequest(c, req) PROVE InSequence'
  BY <1>5, CreateWatchSequenced DEF FirstRequest
<1>6. ASSUME NEW c \in Streams, Rewatch(c) PROVE InSequence'
  <2>1. Kept(c, pending[c].type) = queue[c]
    BY DEF Kept
  <2> QED  BY <1>6, <2>1, CreateWatchSequenced DEF Rewatch
<1>7. ASSUME NEW c \in Streams, NEW i \in DOMAIN queue[c], SendResponse(c, i) PROVE InSequence'
  BY <1>7, SendResponseSequenced
<1>8. ASSUME NEW c \in Streams, processAllExcept(c) PROVE InSequence'
  BY <1>8, DrainSequenced
<1>9. ASSUME NEW n \in Nodes, ClearSnapshot(n) PROVE InSequence'
  BY <1>1, <1>9 DEF ClearSnapshot, streamVars
<1>10. ASSUME NEW c \in Streams, Open(c) PROVE InSequence'
  BY <1>1, <1>10 DEF Open, cacheVars
<1>11. ASSUME NEW c \in Streams, NEW req, CloseWatch(c, req) PROVE InSequence'
  BY <1>1, <1>11 DEF CloseWatch, cacheVars
<1>12. CASE UNCHANGED vars
  BY <1>1, <1>12 DEF vars, cacheVars, streamVars
<1> QED  BY <1>2, <1>3, <1>4, <1>5, <1>6, <1>7, <1>8, <1>9, <1>10, <1>11, <1>12
         DEF CacheStep, CacheNext

\* Ordered ADS sends what one SetSnapshot produces in the order of the types, however
\* many snapshots follow each other and whatever the client asks for in between.
THEOREM SentInOrder ==
    ASSUME Ads, Ordered
    PROVE  Spec => []SnapshotSentInOrder
<1>1. ASSUME Init PROVE InSequence
  BY SMTT(30), <1>1 DEF Init, InSequence, Sequenced
<1>2. ASSUME TypeOK, InSequence PROVE SnapshotSentInOrder
  <2> SUFFICES ASSUME NEW c \in Streams, NEW i \in DOMAIN queue[c], queue[c][i].round # 0
               PROVE  /\ queue[c][i].round = lastSent[c].round =>
                            lastSent[c].place <= TypeOrder[queue[c][i].type]
                      /\ \A j \in 1 .. i : queue[c][j].round = queue[c][i].round =>
                            TypeOrder[queue[c][j].type] <= TypeOrder[queue[c][i].type]
    BY DEF SnapshotSentInOrder
  <2>1. Sequenced(queue[c], lastSent[c], round)
    BY <1>2 DEF InSequence
  <2>2. /\ queue[c][i].round \in Nat
        /\ \A j \in 1 .. i : j \in DOMAIN queue[c] /\ j <= i
    <3>1. queue[c] \in Seq(Response)
      BY <1>2 DEF TypeOK
    <3>2. queue[c][i] \in Response /\ \A j \in 1 .. i : j \in DOMAIN queue[c] /\ j <= i
      BY SMTT(30), <3>1
    <3> QED  BY <3>2, PlaceOfResponse
  <2> QED  BY SMTT(30), <2>1, <2>2 DEF Sequenced, Precedes
<1>3. IInv => TypeOK
  BY DEF IInv
<1>4. IInv /\ IInv' /\ InSequence /\ [Next]_vars => InSequence'
  BY NextIsStep, SequenceKept
<1> QED  BY <1>1, <1>2, <1>3, <1>4, Invariance, PTL DEF Spec

-----------------------------------------------------------------------------
(* What a stream is taken to hold fits what it subscribes to.              *)

\* The client is known to hold only what it subscribes to.
HoldsSubscribed(s) == s.wildcard \/ \A n \in Known(s) : isSubscribedTo(s, n)

EntriesFit ==
    \A c \in Streams : \A t \in Types : sub[c][t] # None => HoldsSubscribed(sub[c][t])

\* A watch has the subscription of its entry.
WatchesFit == \A n \in Nodes : \A w \in watches[n] : w.sub = sub[w.stream][w.type]

\* send drops none of the responses that are queued.
ResponsesFit ==
    \A c \in Streams : \A i \in DOMAIN queue[c] :
        responseMatchesCurrentSubscription(queue[c][i], sub[c][queue[c][i].type])

FitInv == EntriesFit /\ WatchesFit /\ ResponsesFit

\* The subscription of a request forgets what it no longer lists: NewSotwSubscription and
\* SetResourceSubscription.
LEMMA RequestFits ==
    ASSUME NEW names \in SUBSET Tokens
    PROVE  /\ HoldsSubscribed(NewSotwSubscription(names, LegacyWildcard))
           /\ \A s \in Sub : HoldsSubscribed(s) =>
                 HoldsSubscribed(SetResourceSubscription(s, names))
<1>1. ASSUME NEW s \in Sub, HoldsSubscribed(s)
      PROVE  HoldsSubscribed(SetResourceSubscription(s, names))
  <2>1. CASE s.allowLegacyWildcard /\ names = {}
    BY <1>1, <2>1 DEF SetResourceSubscription
  <2>2. CASE ~(s.allowLegacyWildcard /\ names = {})
    <3> DEFINE r == SetResourceSubscription(s, names)
    <3>1. /\ r.wildcard = (Star \in names) /\ r.subscribedResourceNames = names \cap Names
          /\ r.subscribedPrefixes = names \cap Globs
          /\ r.returnedResources =
                [n \in Names |->
                    IF n \in (IF Star \in names THEN Names
                              ELSE {m \in Names :
                                       m \in names \/ matchesAnyPrefix(names \cap Globs, m)})
                    THEN s.returnedResources[n] ELSE None]
      BY <2>2 DEF SetResourceSubscription
    <3> HIDE DEF r
    <3>2. ASSUME Star \notin names, NEW n \in Known(r) PROVE isSubscribedTo(r, n)
      BY <3>1, <3>2 DEF isSubscribedTo, Known
    <3> QED  BY <3>1, <3>2 DEF HoldsSubscribed, r
  <2> QED  BY <2>1, <2>2
<1> DEFINE s == newSubscription(names = {}, LegacyWildcard, NothingKnown)
<1>2. s \in Sub
  <2>1. NothingKnown \in [Names -> VersionInfos \cup {None}] /\ LegacyWildcard \in BOOLEAN
    BY SnapshotAssumption DEF NothingKnown, SnapshotAssumption
  <2> QED  BY <2>1 DEF newSubscription, SubscriptionsOver, Sub
<1>3. HoldsSubscribed(s)
  BY SMTT(30) DEF HoldsSubscribed, Known, newSubscription, NothingKnown
<1> HIDE DEF s
<1> QED  BY <1>1, <1>2, <1>3 DEF NewSotwSubscription, s

\* A response of createResponse names what the watch subscribes to.
LEMMA ResponseFits ==
    ASSUME NEW snap \in Snapshot, NEW w \in Watch, NEW r
    PROVE  responseMatchesCurrentSubscription(createResponse(snap, w, r), w.sub)
<1>1. /\ snap[w.type].items \in SUBSET Names /\ w.sub.wildcard \in BOOLEAN
      /\ w.sub.subscribedResourceNames \in SUBSET Names
  BY DEF Watch, Snapshot, Sub, SubscriptionsOver
<1> QED  BY SMTT(30), <1>1 DEF createResponse, responseMatchesCurrentSubscription, Watched,
            isSubscribedTo, Changed, Deleted, Known

\* A heartbeat leaves what the client is known to hold alone.
LEMMA HeartbeatFits ==
    ASSUME NEW snap, NEW w, HoldsSubscribed(w.sub)
    PROVE  responseMatchesCurrentSubscription(heartbeatResponse(snap, w), w.sub)
  BY DEF heartbeatResponse, responseMatchesCurrentSubscription, HoldsSubscribed, Known

\* What send records is what the response fits.
LEMMA ReturnedFits ==
    ASSUME NEW s \in Sub, NEW resp \in Response, responseMatchesCurrentSubscription(resp, s)
    PROVE  HoldsSubscribed(SetReturnedResources(s, resp.returnedResources))
  BY SMTT(30) DEF SetReturnedResources, responseMatchesCurrentSubscription, HoldsSubscribed, Known,
         isSubscribedTo, Sub, SubscriptionsOver, Response

\* Respond adds to the channel of each stream the answers of its watches, and to each
\* watch there is one.
LEMMA AnswersQueued ==
    ASSUME TypeOK, NEW n \in Nodes, NEW ws \in SUBSET watches[n], NEW q \in Shares(Streams, ws),
           NEW response \in [ws -> Response], Respond(n, ws, q, response)
    PROVE  /\ \A c \in Streams : \A i \in DOMAIN queue[c] :
                 i \in DOMAIN queue'[c] /\ queue'[c][i] = queue[c][i]
           /\ \A c \in Streams : \A i \in DOMAIN queue'[c] :
                 \/ \E j \in DOMAIN queue[c] : queue'[c][i] = queue[c][j]
                 \/ \E w \in ws : w.stream = c /\ queue'[c][i] = response[w]
           /\ \A w \in ws : \E i \in DOMAIN queue'[w.stream] : queue'[w.stream][i] = response[w]
<1>1. ASSUME NEW c \in Streams
      PROVE  /\ \A i \in DOMAIN queue[c] : i \in DOMAIN queue'[c] /\ queue'[c][i] = queue[c][i]
             /\ \A i \in DOMAIN queue'[c] :
                   \/ \E j \in DOMAIN queue[c] : queue'[c][i] = queue[c][j]
                   \/ \E w \in ws : w.stream = c /\ queue'[c][i] = response[w]
             /\ \A w \in ws : w.stream = c =>
                   \E i \in DOMAIN queue'[c] : queue'[c][i] = response[w]
  <2> DEFINE new == [i \in DOMAIN q[c] |-> response[q[c][i]]]
             S == {w \in ws : w.stream = c}
  <2>1. q[c] \in Seq(ws) /\ \A i \in DOMAIN q[c] : q[c][i] \in ws /\ q[c][i].stream = c
    BY SharesFacts
  <2>2. queue[c] \in Seq(Response) /\ queue'[c] = queue[c] \o new
    BY DEF TypeOK, Respond
  <2>3. /\ new \in Seq(Response) /\ Len(new) = Len(q[c])
        /\ \A i \in DOMAIN q[c] : new[i] = response[q[c][i]]
    BY SMTT(30), <2>1
  <2>4. \A w \in S : \E i \in DOMAIN q[c] : q[c][i] = w
    <3>1. q[c] \in Orders(S)
      BY DEF Shares
    <3>2. PICK m \in 0 .. Cardinality(S) : q[c] \in Bijection(1 .. m, S)
      BY <3>1 DEF Orders
    <3>3. q[c] \in [1 .. m -> S] /\ \A w \in S : \E i \in 1 .. m : q[c][i] = w
      BY <3>2 DEF Bijection, Surjection
    <3> QED  BY <3>3
  <2> HIDE DEF new
  <2>5. /\ \A i \in DOMAIN queue[c] : i \in DOMAIN queue'[c] /\ queue'[c][i] = queue[c][i]
        /\ \A i \in DOMAIN queue'[c] :
              \/ i \in DOMAIN queue[c] /\ queue'[c][i] = queue[c][i]
              \/ i - Len(queue[c]) \in DOMAIN q[c] /\ queue'[c][i] = new[i - Len(queue[c])]
        /\ \A i \in DOMAIN q[c] :
              Len(queue[c]) + i \in DOMAIN queue'[c] /\ queue'[c][Len(queue[c]) + i] = new[i]
    BY SMTT(30), <2>1, <2>2, <2>3
  <2>6. ASSUME NEW i \in DOMAIN queue'[c]
        PROVE  \/ \E j \in DOMAIN queue[c] : queue'[c][i] = queue[c][j]
               \/ \E w \in ws : w.stream = c /\ queue'[c][i] = response[w]
    <3> DEFINE j == i - Len(queue[c])
    <3>1. CASE j \in DOMAIN q[c] /\ queue'[c][i] = new[j]
      <4> HIDE DEF j
      <4>1. q[c][j] \in ws /\ q[c][j].stream = c /\ queue'[c][i] = response[q[c][j]]
        BY <2>1, <2>3, <3>1
      <4> QED  BY <4>1
    <3> QED  BY <2>5, <3>1
  <2>7. ASSUME NEW w \in ws, w.stream = c
        PROVE  \E i \in DOMAIN queue'[c] : queue'[c][i] = response[w]
    <3>1. PICK i \in DOMAIN q[c] : q[c][i] = w
      BY <2>4, <2>7
    <3>2. queue'[c][Len(queue[c]) + i] = response[w]
      BY <2>3, <2>5, <3>1
    <3> QED  BY <2>5, <3>2
  <2> QED  BY <2>5, <2>6, <2>7
<1>2. ws \in SUBSET Watch
  BY DEF TypeOK
<1>3. \A w \in ws : w.stream \in Streams
  BY <1>2 DEF Watch
<1> QED  BY <1>1, <1>3

\* Watches are answered with responses that fit: SetSnapshot and sendHeartbeats.
LEMMA RespondFits ==
    ASSUME IInv, FitInv, NEW n \in Nodes, NEW ws \in SUBSET watches[n],
           NEW q \in Shares(Streams, ws), NEW response \in [ws -> Response],
           Respond(n, ws, q, response), sub' = sub,
           \A w \in ws : /\ response[w].type = w.type
                         /\ responseMatchesCurrentSubscription(response[w], w.sub)
    PROVE  FitInv'
<1>1. TypeOK /\ watches \in [Nodes -> SUBSET Watch]
  BY DEF IInv, TypeOK
<1>2. WatchesFit'
  BY <1>1 DEF Respond, FitInv, WatchesFit
<1>3. EntriesFit'
  BY DEF FitInv, EntriesFit
<1>4. \A c \in Streams : \A i \in DOMAIN queue'[c] :
          \/ \E j \in DOMAIN queue[c] : queue'[c][i] = queue[c][j]
          \/ \E w \in ws : w.stream = c /\ queue'[c][i] = response[w]
  BY <1>1, AnswersQueued
<1>5. ASSUME NEW c \in Streams, NEW i \in DOMAIN queue'[c]
      PROVE  responseMatchesCurrentSubscription(queue'[c][i], sub[c][queue'[c][i].type])
  <2>1. CASE \E j \in DOMAIN queue[c] : queue'[c][i] = queue[c][j]
    BY <2>1 DEF FitInv, ResponsesFit
  <2>2. ASSUME NEW w \in ws, w.stream = c, queue'[c][i] = response[w]
        PROVE  responseMatchesCurrentSubscription(queue'[c][i], sub[c][queue'[c][i].type])
    <3>1. w.sub = sub[c][w.type]
      BY <2>2 DEF FitInv, WatchesFit
    <3> QED  BY <2>2, <3>1
  <2> QED  BY <1>4, <2>1, <2>2
<1>6. ResponsesFit'
  BY <1>5 DEF ResponsesFit
<1> QED  BY <1>2, <1>3, <1>6 DEF FitInv

\* SetSnapshot answers with responses that fit.
LEMMA SetSnapshotFits ==
    ASSUME IInv, FitInv, NEW n \in Nodes, NEW snap \in Snapshots, SetSnapshot(n, snap)
    PROVE  FitInv'
<1>1. snap \in Snapshot /\ TypeOK
  BY SnapshotAssumption DEF SnapshotAssumption, IInv
<1>2. PICK ws \in Answered(Due(n, snap)) : \E q \in orderResponseWatches(Streams, ws) :
          Respond(n, ws, q, [w \in ws |-> createResponse(snap, w, round + 1)])
  BY DEF SetSnapshot
<1>3. PICK q \in Shares(Streams, ws) :
          Respond(n, ws, q, [w \in ws |-> createResponse(snap, w, round + 1)])
  BY <1>2 DEF orderResponseWatches
<1> DEFINE response == [w \in ws |-> createResponse(snap, w, round + 1)]
<1>4. ws \in SUBSET watches[n] /\ ws \in SUBSET Watch /\ round + 1 \in Nat
  BY SMTT(30), <1>1, <1>2 DEF Answered, Due, TypeOK
<1>5. /\ response \in [ws -> Response]
      /\ \A w \in ws : /\ response[w].type = w.type
                       /\ responseMatchesCurrentSubscription(response[w], w.sub)
  BY <1>1, <1>4, CreateResponseType, ResponseFits
<1>6. Respond(n, ws, q, response) /\ sub' = sub
  BY <1>3 DEF SetSnapshot
<1> HIDE DEF response
<1> QED  BY <1>4, <1>5, <1>6, RespondFits

\* So does sendHeartbeats.
LEMMA HeartbeatsFit ==
    ASSUME IInv, FitInv, NEW n \in Nodes, SendHeartbeats(n)
    PROVE  FitInv'
<1> DEFINE ws       == DueHeartbeat(n)
           response == [w \in ws |-> heartbeatResponse(snapshots[n], w)]
<1>1. TypeOK
  BY DEF IInv
<1>2. PICK q \in Shares(Streams, ws) : Respond(n, ws, q, response)
  BY DEF SendHeartbeats
<1>3. ws \in SUBSET watches[n] /\ ws \in SUBSET Watch /\ (ws # {} => snapshots[n] \in Snapshot)
  BY <1>1 DEF DueHeartbeat, TypeOK
<1>4. ASSUME NEW w \in ws PROVE HoldsSubscribed(w.sub)
  <2>1. w.stream \in Streams /\ w.type \in Types /\ w.sub \in Sub /\ w.sub # None
    BY <1>3, SnapshotAssumption DEF Watch, SnapshotAssumption
  <2>2. w.sub = sub[w.stream][w.type]
    BY <1>3 DEF FitInv, WatchesFit
  <2> QED  BY <2>1, <2>2 DEF FitInv, EntriesFit
<1>5. /\ response \in [ws -> Response]
      /\ \A w \in ws : /\ response[w].type = w.type
                       /\ responseMatchesCurrentSubscription(response[w], w.sub)
  BY <1>3, <1>4, HeartbeatType, HeartbeatFits
<1> HIDE DEF ws, response
<1>6. sub' = sub
  BY DEF SendHeartbeats
<1> QED  BY <1>2, <1>3, <1>5, <1>6, RespondFits

\* So do steps that leave subscriptions and channels alone: ClearSnapshot, Open, CloseWatch.
LEMMA FewerFit ==
    ASSUME FitInv, \A n \in Nodes : watches'[n] \subseteq watches[n], UNCHANGED <<sub, queue>>
    PROVE  FitInv'
<1>1. WatchesFit'
  BY DEF FitInv, WatchesFit
<1>2. EntriesFit' /\ ResponsesFit'
  BY SMTT(30) DEF FitInv, EntriesFit, ResponsesFit
<1> QED  BY <1>1, <1>2 DEF FitInv

\* A stream that ends takes its entries, watches and responses with it.
LEMMA ShutdownFits ==
    ASSUME IInv, IInv', FitInv, NEW c \in Streams, Shutdown(c)
    PROVE  FitInv'
<1>1. /\ cancelWatches(c, Types) /\ pc' = [pc EXCEPT ![c] = "closed"]
      /\ sub' = [sub EXCEPT ![c] = [t \in Types |-> None]]
      /\ queue' = [queue EXCEPT ![c] = <<>>]
  BY DEF Shutdown
<1>2. /\ sub'[c] = [t \in Types |-> None] /\ queue'[c] = <<>> /\ pc'[c] = "closed"
      /\ \A d \in Streams : d # c => sub'[d] = sub[d] /\ queue'[d] = queue[d]
  BY <1>1 DEF IInv, TypeOK
<1>3. watches' \in [Nodes -> SUBSET Watch] /\ \A n \in Nodes : watches'[n] \subseteq watches[n]
  BY <1>1, CancelledWatches
<1>4. WatchesFit'
  <2> SUFFICES ASSUME NEW n \in Nodes, NEW w \in watches'[n]
               PROVE  w.sub = sub'[w.stream][w.type]
    BY DEF WatchesFit
  <2>1. w.stream # c
    BY ZenonT(40), <1>2 DEF IInv, WatchesAreCancellable
  <2>2. w \in Watch /\ w \in watches[n]
    BY <1>3
  <2>3. w.stream \in Streams
    BY <2>2 DEF Watch
  <2> QED  BY <1>2, <2>1, <2>2, <2>3 DEF FitInv, WatchesFit
<1>5. EntriesFit'
  <2> SUFFICES ASSUME NEW d \in Streams, NEW t \in Types, sub'[d][t] # None
               PROVE  HoldsSubscribed(sub'[d][t])
    BY DEF EntriesFit
  <2>1. d # c
    BY <1>2
  <2>2. sub'[d] = sub[d]
    BY <1>2, <2>1
  <2> QED  BY <2>2 DEF FitInv, EntriesFit
<1>6. ResponsesFit'
  <2>1. DOMAIN queue'[c] = {}
    BY SMTT(30), <1>2
  <2> QED  BY <1>2, <2>1 DEF FitInv, ResponsesFit
<1> QED  BY <1>4, <1>5, <1>6 DEF FitInv

\* A new watch entry: CreateWatch.
LEMMA CreateWatchFits ==
    ASSUME IInv, FitInv, NEW c \in Streams, NEW req \in Request, NEW s \in Sub,
           NEW q \in Seq(Response), CreateWatch(c, req, s, q), HoldsSubscribed(s),
           ~IsWaiting(c, req.type),
           \A i \in DOMAIN q :
              q[i].type # req.type /\ \E j \in DOMAIN queue[c] : q[i] = queue[c][j]
    PROVE  FitInv'
<1> DEFINE n    == NodeOf[c]
           t    == req.type
           snap == snapshots[n]
           w    == [id |-> watchCount + 1, stream |-> c, type |-> req.type,
                    versionInfo |-> req.versionInfo, sub |-> s]
           resp == createResponse(snap, w, 0)
<1>1. /\ n \in Nodes /\ t \in Types /\ TypeOK /\ w \in Watch /\ snap \in Snapshot \cup {None}
      /\ w.sub = s /\ w.stream = c /\ w.type = t
  <2>1. TypeOK /\ n \in Nodes /\ t \in Types /\ req.versionInfo \in VersionInfos
    BY SnapshotAssumption DEF IInv, SnapshotAssumption, Request
  <2>2. watchCount \in Nat /\ snap \in Snapshot \cup {None}
    BY <2>1 DEF TypeOK
  <2>3. w \in Watch
    BY SMTT(30), <2>1, <2>2 DEF Watch
  <2> QED  BY <2>1, <2>2, <2>3
<1>2. /\ sub' = [sub EXCEPT ![c][t] = s]
      /\ watches' = [watches EXCEPT ![n] = @ \cup {w}] \/ watches' = watches
  BY DEF CreateWatch
<1>3. \/ queue' = [queue EXCEPT ![c] = q]
      \/ snap # None /\ queue' = [queue EXCEPT ![c] = Append(q, resp)]
  BY DEF CreateWatch
<1> HIDE DEF w, resp
<1>4. /\ sub'[c][t] = s
      /\ \A u \in Types : u # t => sub'[c][u] = sub[c][u]
      /\ \A d \in Streams : d # c => sub'[d] = sub[d]
  BY <1>1, <1>2 DEF TypeOK
<1>5. EntriesFit'
  BY <1>4 DEF FitInv, EntriesFit
<1>6. WatchesFit'
  <2> SUFFICES ASSUME NEW m \in Nodes, NEW v \in watches'[m]
               PROVE  v.sub = sub'[v.stream][v.type]
    BY DEF WatchesFit
  <2>1. CASE v = w
    BY <1>1, <1>4, <2>1
  <2>2. CASE v \in watches[m]
    <3>1. v.stream \in Streams /\ v.type \in Types
      <4>1. v \in Watch
        BY <1>1, <2>2 DEF TypeOK
      <4> QED  BY <4>1 DEF Watch
    <3>2. v.stream # c \/ v.type # t
      BY <2>2 DEF IsWaiting
    <3>3. sub'[v.stream][v.type] = sub[v.stream][v.type]
      BY <1>4, <3>1, <3>2
    <3> QED  BY <2>2, <3>3 DEF FitInv, WatchesFit
  <2>3. v = w \/ v \in watches[m]
    <3>1. CASE watches' = watches
      BY <3>1
    <3>2. CASE watches' = [watches EXCEPT ![n] = @ \cup {w}]
      <4>1. watches'[m] \subseteq watches[m] \cup {w}
        BY <1>1, <3>2 DEF TypeOK
      <4> QED  BY <4>1
    <3> QED  BY <1>2, <3>1, <3>2
  <2> QED  BY <2>1, <2>2, <2>3
<1>7. ASSUME NEW i \in DOMAIN queue'[c]
      PROVE  responseMatchesCurrentSubscription(queue'[c][i], sub'[c][queue'[c][i].type])
  <2>1. ASSUME NEW j \in DOMAIN q
        PROVE  responseMatchesCurrentSubscription(q[j], sub'[c][q[j].type])
    <3>1. q[j] \in Response /\ q[j].type # t
      BY SMTT(30)
    <3>2. q[j].type \in Types
      BY <3>1 DEF Response
    <3>3. sub'[c][q[j].type] = sub[c][q[j].type]
      BY <1>4, <3>1, <3>2
    <3> QED  BY <3>3 DEF FitInv, ResponsesFit
  <2>2. CASE queue' = [queue EXCEPT ![c] = q]
    BY <1>1, <2>1, <2>2 DEF TypeOK
  <2>3. CASE snap # None /\ queue' = [queue EXCEPT ![c] = Append(q, resp)]
    <3>1. queue'[c] = Append(q, resp) /\ snap \in Snapshot
      BY <1>1, <2>3 DEF TypeOK
    <3>2. responseMatchesCurrentSubscription(resp, s) /\ resp.type = t
      BY SMTT(30), <1>1, <3>1, ResponseFits, CreateResponseType DEF resp
    <3>3. queue'[c][i] = resp \/ \E j \in DOMAIN q : queue'[c][i] = q[j]
      BY SMTT(30), <3>1
    <3> QED  BY <1>4, <2>1, <3>2, <3>3
  <2> QED  BY <1>3, <2>2, <2>3
<1>8. ASSUME NEW d \in Streams, d # c PROVE queue'[d] = queue[d]
  BY <1>1, <1>3, <1>8 DEF TypeOK
<1>9. ResponsesFit'
  BY <1>4, <1>7, <1>8 DEF FitInv, ResponsesFit
<1> QED  BY <1>5, <1>6, <1>9 DEF FitInv

\* What the loop takes from a channel: the response it sends, or drops while it drains,
\* and what is left.
Took(c, i) ==
    /\ UNCHANGED <<cacheVars, cancel, pending>>
    /\ \A d \in Streams : d # c => queue'[d] = queue[d] /\ pc'[d] = pc[d]
    /\ pc'[c] = pc[c] /\ pc[c] \in {"idle", "draining"}
    /\ \A j \in DOMAIN queue'[c] :
          queue'[c][j].type # queue[c][i].type /\ \E k \in DOMAIN queue[c] : queue'[c][j] = queue[c][k]
    /\ \A k \in DOMAIN queue[c] : k # i => \E j \in DOMAIN queue'[c] : queue'[c][j] = queue[c][k]
    /\ \/ Send(c, queue[c][i])
       \/ /\ UNCHANGED <<sub, replied, told, lastSent>>
          /\ pc[c] = "draining" /\ queue[c][i].type = pending[c].type

\* SendResponse takes a response.
LEMMA SendResponseTook ==
    ASSUME IInv, NEW c \in Streams, NEW i \in DOMAIN queue[c], SendResponse(c, i)
    PROVE  Took(c, i)
<1>1. /\ pc[c] = "idle" /\ Send(c, queue[c][i])
      /\ queue' = [queue EXCEPT ![c] = Without(queue[c], i)]
      /\ UNCHANGED <<cacheVars, cancel, pending, pc>>
  BY DEF SendResponse
<1> DEFINE q == Without(queue[c], i)
<1>2. queue'[c] = q /\ \A d \in Streams : d # c => queue'[d] = queue[d]
  BY <1>1 DEF IInv, TypeOK
<1>3. /\ queue[c] \in Seq(Response)
      /\ \A k, l \in DOMAIN queue[c] : queue[c][k].type = queue[c][l].type => k = l
  BY DEF IInv, TypeOK, OneAnswer
<1>4. /\ q \in Seq(Response)
      /\ \A j \in DOMAIN q : \E k \in DOMAIN queue[c] : q[j] = queue[c][k]
      /\ \A j \in DOMAIN q : q[j].type # queue[c][i].type
  BY <1>3, RemoveAnswer
<1>5. /\ Len(q) = Len(queue[c]) - 1
      /\ \A j \in 1 .. Len(queue[c]) - 1 : q[j] = IF j < i THEN queue[c][j] ELSE queue[c][j + 1]
  BY <1>3, WithoutFacts
<1> HIDE DEF q
<1>6. ASSUME NEW k \in DOMAIN queue[c], k # i PROVE \E j \in DOMAIN q : q[j] = queue[c][k]
  <2>1. k \in 1 .. Len(queue[c]) /\ i \in 1 .. Len(queue[c]) /\ Len(queue[c]) \in Nat
    BY SMTT(30), <1>3
  <2>2. CASE k < i
    <3>1. k \in DOMAIN q /\ q[k] = queue[c][k]
      BY SMTT(30), <1>4, <1>5, <2>1, <2>2
    <3> QED  BY <3>1
  <2>3. CASE k > i
    <3>1. k - 1 \in DOMAIN q /\ q[k - 1] = queue[c][k]
      BY SMTT(30), <1>4, <1>5, <2>1, <2>3
    <3> QED  BY <3>1
  <2> QED  BY SMTT(30), <1>6, <2>1, <2>2, <2>3
<1> QED  BY <1>1, <1>2, <1>4, <1>6 DEF Took

\* A turn of processAllExcept takes the first response, if there is one.
LEMMA ProcessAllExceptTook ==
    ASSUME IInv, NEW c \in Streams, processAllExcept(c), queue[c] # <<>>
    PROVE  1 \in DOMAIN queue[c] /\ queue[c][1] = Head(queue[c]) /\ Took(c, 1)
<1>1. /\ pc[c] = "draining" /\ UNCHANGED <<cacheVars, cancel, pending, pc>>
      /\ queue' = [queue EXCEPT ![c] = Tail(queue[c])]
      /\ IF Head(queue[c]).type = pending[c].type
         THEN UNCHANGED <<sub, replied, told, lastSent>>
         ELSE Send(c, Head(queue[c]))
  BY DEF processAllExcept
<1>2. queue'[c] = Tail(queue[c]) /\ \A d \in Streams : d # c => queue'[d] = queue[d]
  BY <1>1 DEF IInv, TypeOK
<1>3. /\ queue[c] \in Seq(Response)
      /\ \A k, l \in DOMAIN queue[c] : queue[c][k].type = queue[c][l].type => k = l
  BY DEF IInv, TypeOK, OneAnswer
<1>4. /\ 1 \in DOMAIN queue[c] /\ queue[c][1] = Head(queue[c])
      /\ \A j \in DOMAIN queue'[c] :
            j + 1 \in DOMAIN queue[c] /\ j + 1 # 1 /\ queue'[c][j] = queue[c][j + 1]
      /\ \A k \in DOMAIN queue[c] : k # 1 =>
            k - 1 \in DOMAIN queue'[c] /\ queue'[c][k - 1] = queue[c][k]
  BY SMTT(30), <1>2, <1>3
<1>5. \A j \in DOMAIN queue'[c] :
          queue'[c][j].type # queue[c][1].type /\ \E k \in DOMAIN queue[c] : queue'[c][j] = queue[c][k]
  <2> TAKE j \in DOMAIN queue'[c]
  <2> DEFINE k == j + 1
  <2>1. k \in DOMAIN queue[c] /\ k # 1 /\ queue'[c][j] = queue[c][k]
    BY <1>4
  <2> HIDE DEF k
  <2>2. queue[c][k].type # queue[c][1].type
    BY <1>3, <1>4, <2>1
  <2> QED  BY <2>1, <2>2
<1> QED  BY <1>1, <1>2, <1>4, <1>5 DEF Took

\* A response that is sent is recorded in the subscription it fits.
LEMMA TookFits ==
    ASSUME IInv, FitInv, NEW c \in Streams, NEW i \in DOMAIN queue[c], Took(c, i)
    PROVE  FitInv'
<1> DEFINE resp == queue[c][i]
           t    == resp.type
           s    == SetReturnedResources(sub[c][t], resp.returnedResources)
<1>1. resp \in Response /\ t \in Types /\ TypeOK /\ watches \in [Nodes -> SUBSET Watch]
  <2>1. TypeOK /\ resp \in Response /\ watches \in [Nodes -> SUBSET Watch]
    BY SMTT(30) DEF IInv, TypeOK
  <2> QED  BY <2>1 DEF Response
<1>2. responseMatchesCurrentSubscription(resp, sub[c][t])
  BY DEF FitInv, ResponsesFit
<1>3. sub[c][t] \in Sub /\ IsQueued(c, t)
  <2>1. IsQueued(c, t)
    BY DEF IsQueued
  <2> QED  BY SMTT(30), <1>1, <2>1 DEF IInv, NothingWithoutEntry, TypeOK
<1>4. /\ watches' = watches
      /\ \A d \in Streams : d # c => queue'[d] = queue[d]
      /\ \A j \in DOMAIN queue'[c] :
            queue'[c][j].type # t /\ \E k \in DOMAIN queue[c] : queue'[c][j] = queue[c][k]
      /\ sub' = sub \/ sub' = [sub EXCEPT ![c][t] = s]
  BY <1>2 DEF Took, Send, cacheVars
<1>5. HoldsSubscribed(s)
  BY <1>1, <1>2, <1>3, ReturnedFits
<1> HIDE DEF resp, t, s
<1>6. /\ sub'[c][t] \in {s, sub[c][t]}
      /\ \A u \in Types : u # t => sub'[c][u] = sub[c][u]
      /\ \A d \in Streams : d # c => sub'[d] = sub[d]
  <2>1. CASE sub' = sub
    BY <2>1
  <2>2. CASE sub' = [sub EXCEPT ![c][t] = s]
    BY <1>1, <2>2 DEF TypeOK
  <2> QED  BY <1>4, <2>1, <2>2
<1>7. EntriesFit'
  BY <1>5, <1>6 DEF FitInv, EntriesFit
<1>8. WatchesFit'
  <2> SUFFICES ASSUME NEW n \in Nodes, NEW w \in watches[n]
               PROVE  w.sub = sub'[w.stream][w.type]
    BY <1>4 DEF WatchesFit
  <2>1. w \in Watch
    BY <1>1
  <2>2. w.stream \in Streams /\ w.type \in Types
    BY <2>1 DEF Watch
  <2>3. w.stream # c \/ w.type # t
    BY <1>1, <1>3 DEF IInv, NoAnswerWhileWaiting, IsWaiting
  <2>4. sub'[w.stream][w.type] = sub[w.stream][w.type]
    BY <1>6, <2>2, <2>3
  <2> QED  BY <2>4 DEF FitInv, WatchesFit
<1>9. ASSUME NEW j \in DOMAIN queue'[c]
      PROVE  responseMatchesCurrentSubscription(queue'[c][j], sub'[c][queue'[c][j].type])
  <2>1. PICK k \in DOMAIN queue[c] : queue'[c][j] = queue[c][k]
    BY <1>4
  <2>2. queue[c][k] \in Response /\ queue[c][k].type # t
    BY SMTT(30), <1>1, <1>4, <2>1 DEF TypeOK
  <2>3. queue[c][k].type \in Types
    BY <2>2 DEF Response
  <2>4. sub'[c][queue[c][k].type] = sub[c][queue[c][k].type]
    BY <1>6, <2>2, <2>3
  <2> QED  BY <2>1, <2>4 DEF FitInv, ResponsesFit
<1>10. ResponsesFit'
  BY <1>4, <1>6, <1>9 DEF FitInv, ResponsesFit
<1> QED  BY <1>7, <1>8, <1>10 DEF FitInv

\* The first request for a type.
LEMMA FirstRequestFits ==
    ASSUME IInv, FitInv, NEW c \in Streams, NEW req \in Request, FirstRequest(c, req)
    PROVE  FitInv'
<1> DEFINE s == NewSotwSubscription(req.resourceNames, LegacyWildcard)
<1>1. req.type \in Types /\ s \in Sub /\ HoldsSubscribed(s) /\ queue[c] \in Seq(Response)
  BY SubscriptionType, RequestFits DEF Request, IInv, TypeOK
<1> HIDE DEF s
<1>2. CreateWatch(c, req, s, queue[c]) /\ sub[c][req.type] = None
  BY DEF FirstRequest, s
<1>3. ~IsWaiting(c, req.type) /\ ~IsQueued(c, req.type)
  BY <1>1, <1>2 DEF IInv, NothingWithoutEntry
<1>4. \A i \in DOMAIN queue[c] : queue[c][i].type # req.type
  BY <1>3 DEF IsQueued
<1> QED  BY <1>1, <1>2, <1>3, <1>4, CreateWatchFits

\* A watch is created again.
LEMMA RewatchFits ==
    ASSUME IInv, FitInv, NEW c \in Streams, Rewatch(c)
    PROVE  FitInv'
<1> DEFINE req == pending[c]
           s   == SetResourceSubscription(sub[c][req.type], req.resourceNames)
           q   == Kept(c, req.type)
<1>1. /\ pc[c] = "cancelled" /\ CreateWatch(c, req, s, q)
  BY DEF Rewatch
<1>2. /\ req \in Request /\ sub[c][req.type] \in Sub /\ ~IsWaiting(c, req.type)
      /\ q \in Seq(Response)
      /\ \A i \in DOMAIN q : q[i].type # req.type /\ \E j \in DOMAIN queue[c] : q[i] = queue[c][j]
  BY <1>1, RewatchRequest
<1>3. HoldsSubscribed(sub[c][req.type]) /\ req.type \in Types /\ req.resourceNames \in SUBSET Tokens
  <2>1. req.type \in Types /\ req.resourceNames \in SUBSET Tokens /\ sub[c][req.type] # None
    BY <1>2, SnapshotAssumption DEF Request, SnapshotAssumption
  <2> QED  BY <2>1 DEF FitInv, EntriesFit
<1>4. s \in Sub /\ HoldsSubscribed(s)
  BY <1>2, <1>3, SubscriptionType, RequestFits
<1> HIDE DEF req, s, q
<1> QED  BY <1>1, <1>2, <1>4, CreateWatchFits

-----------------------------------------------------------------------------
(* The cancel function of a watch entry removes its own watch.             *)

\* No two cancel functions remove the same watch.
CancelIds ==
    /\ \A c, d \in Streams : \A t, u \in Types :
          cancel[c][t] # 0 /\ cancel[c][t] = cancel[d][u] => c = d /\ t = u
    /\ \A c \in Streams : \A t \in Types : cancel[c][t] <= watchCount
    /\ \A n \in Nodes : \A w \in watches[n] : w.id # 0

\* Watches of another stream or another type are not cancelled: cancelWatches.
LEMMA OthersNotCancelled ==
    ASSUME IInv, CancelIds, NEW c \in Streams, NEW ts \in SUBSET Types, cancelWatches(c, ts),
           NEW d \in Streams, NEW u \in Types, d # c \/ u \notin ts, IsWaiting(d, u)
    PROVE  IsWaiting(d, u)'
<1>1. /\ NodeOf[c] \in Nodes /\ watches \in [Nodes -> SUBSET Watch]
      /\ cancel \in [Streams -> [Types -> Nat]]
  BY SnapshotAssumption DEF SnapshotAssumption, IInv, TypeOK
<1>2. PICK n \in Nodes : \E w \in watches[n] : w.stream = d /\ w.type = u
  BY DEF IsWaiting
<1>3. PICK w \in watches[n] : w.stream = d /\ w.type = u
  BY <1>2
<1>4. cancel[d][u] = w.id /\ w.id # 0
  BY <1>3 DEF IInv, WatchesAreCancellable, CancelIds
<1>5. \A t \in ts : w.id # cancel[c][t]
  <2> SUFFICES ASSUME NEW t \in ts, w.id = cancel[c][t] PROVE FALSE
    OBVIOUS
  <2>1. t \in Types /\ cancel[c][t] = cancel[d][u] /\ cancel[c][t] # 0
    BY <1>4
  <2>2. c = d /\ t = u
    BY SMTT(30), <2>1 DEF CancelIds
  <2> QED  BY <2>2
<1>6. w \in watches'[n]
  BY <1>1, <1>5 DEF cancelWatches
<1> QED  BY <1>3, <1>6 DEF IsWaiting

\* A watch that is opened gets an id of its own; nothing else makes a cancel function.
LEMMA CancelIdsKept ==
    ASSUME IInv, CancelIds, NEW c \in Streams, NEW t \in Types,
           \/ /\ watchCount' = watchCount /\ \A n \in Nodes : watches'[n] \subseteq watches[n]
              /\ \A d \in Streams : \A u \in Types : cancel'[d][u] \in {0, cancel[d][u]}
           \/ /\ watchCount' = watchCount + 1 /\ cancel' = [cancel EXCEPT ![c][t] = watchCount + 1]
              /\ \A n \in Nodes : \A w \in watches'[n] : w \in watches[n] \/ w.id = watchCount + 1
    PROVE  CancelIds'
<1>1. /\ watchCount \in Nat /\ cancel \in [Streams -> [Types -> Nat]]
      /\ watches \in [Nodes -> SUBSET Watch]
  BY DEF IInv, TypeOK
<1>2. CASE /\ watchCount' = watchCount /\ \A n \in Nodes : watches'[n] \subseteq watches[n]
           /\ \A d \in Streams : \A u \in Types : cancel'[d][u] \in {0, cancel[d][u]}
  BY SMTT(30), <1>1, <1>2 DEF CancelIds
<1>3. CASE /\ watchCount' = watchCount + 1 /\ cancel' = [cancel EXCEPT ![c][t] = watchCount + 1]
           /\ \A n \in Nodes : \A w \in watches'[n] : w \in watches[n] \/ w.id = watchCount + 1
  <2>1. \A d \in Streams : \A u \in Types :
            cancel'[d][u] = IF d = c /\ u = t THEN watchCount + 1 ELSE cancel[d][u]
    BY <1>1, <1>3
  <2> QED  BY SMTT(30), <1>1, <1>3, <2>1 DEF CancelIds
<1> QED  BY <1>2, <1>3

-----------------------------------------------------------------------------
(* A stream that has asked for a type is served.                           *)

\* A request for the type is being handled.
Replaced(c, t) == pc[c] \in {"draining", "cancelled"} /\ pending[c].type = t

EntriesServed ==
    \A c \in Streams : \A t \in Types :
        sub[c][t] # None /\ ~Replaced(c, t) =>
            IsWaiting(c, t) \/ IsQueued(c, t) \/ t \in replied[c]

ServedInv == FitInv /\ CancelIds /\ EntriesServed

\* Watches that are answered have a response queued: SetSnapshot and sendHeartbeats.
LEMMA RespondServes ==
    ASSUME IInv, EntriesServed, NEW n \in Nodes, NEW ws \in SUBSET watches[n],
           NEW q \in Shares(Streams, ws), NEW response \in [ws -> Response],
           Respond(n, ws, q, response), \A w \in ws : response[w].type = w.type,
           UNCHANGED <<pc, pending, sub, replied>>
    PROVE  EntriesServed'
<1>1. TypeOK /\ watches \in [Nodes -> SUBSET Watch]
  BY DEF IInv, TypeOK
<1>2. /\ \A c \in Streams : \A i \in DOMAIN queue[c] :
            i \in DOMAIN queue'[c] /\ queue'[c][i] = queue[c][i]
      /\ \A w \in ws : \E i \in DOMAIN queue'[w.stream] : queue'[w.stream][i] = response[w]
  BY <1>1, AnswersQueued
<1>3. ASSUME NEW c \in Streams, NEW t \in Types
      PROVE  /\ IsQueued(c, t) => IsQueued(c, t)'
             /\ IsWaiting(c, t) => IsWaiting(c, t)' \/ IsQueued(c, t)'
  <2>1. IsQueued(c, t) => IsQueued(c, t)'
    BY <1>2 DEF IsQueued
  <2>2. ASSUME NEW m \in Nodes, NEW w \in watches[m], w.stream = c, w.type = t
        PROVE  IsWaiting(c, t)' \/ IsQueued(c, t)'
    <3>1. CASE w \in ws
      <4>1. PICK i \in DOMAIN queue'[w.stream] : queue'[w.stream][i] = response[w]
        BY <1>2, <3>1
      <4>2. response[w].type = t
        BY <2>2, <3>1
      <4> QED  BY <2>2, <4>1, <4>2 DEF IsQueued
    <3>2. CASE w \notin ws
      <4>1. w \in watches'[m]
        BY <1>1, <3>2 DEF Respond
      <4> QED  BY <2>2, <4>1 DEF IsWaiting
    <3> QED  BY <3>1, <3>2
  <2>3. ASSUME IsWaiting(c, t) PROVE IsWaiting(c, t)' \/ IsQueued(c, t)'
    <3>1. PICK m \in Nodes : \E w \in watches[m] : w.stream = c /\ w.type = t
      BY <2>3 DEF IsWaiting
    <3> QED  BY <2>2, <3>1
  <2> QED  BY <2>1, <2>3
<1>4. \A c \in Streams : \A t \in Types : Replaced(c, t)' = Replaced(c, t)
  BY DEF Replaced
<1> QED  BY <1>3, <1>4 DEF EntriesServed

\* The response that the loop takes is sent, unless its watch is being replaced.
LEMMA TookServes ==
    ASSUME IInv, FitInv, EntriesServed, NEW c \in Streams, NEW i \in DOMAIN queue[c], Took(c, i)
    PROVE  EntriesServed'
<1> DEFINE t == queue[c][i].type
<1>1. /\ t \in Types /\ TypeOK /\ queue[c][i] \in Response
      /\ replied \in [Streams -> SUBSET Types] /\ sub \in [Streams -> [Types -> Sub \cup {None}]]
  <2>1. TypeOK /\ queue[c][i] \in Response
    BY SMTT(30) DEF IInv, TypeOK
  <2> QED  BY <2>1 DEF Response, TypeOK
<1>2. responseMatchesCurrentSubscription(queue[c][i], sub[c][t])
  BY DEF FitInv, ResponsesFit
<1>3. \/ Replaced(c, t) /\ UNCHANGED <<sub, replied>>
      \/ /\ replied' = [replied EXCEPT ![c] = @ \cup {t}]
         /\ \E s : sub' = [sub EXCEPT ![c][t] = s]
  BY <1>2 DEF Took, Send, Replaced
<1>4. /\ \A d \in Streams : \A u \in Types : u \in replied[d] => u \in replied'[d]
      /\ \A d \in Streams : \A u \in Types : d # c \/ u # t => sub'[d][u] = sub[d][u]
      /\ Replaced(c, t) \/ t \in replied'[c]
  <2>1. CASE Replaced(c, t) /\ UNCHANGED <<sub, replied>>
    BY <2>1
  <2>2. CASE /\ replied' = [replied EXCEPT ![c] = @ \cup {t}]
             /\ \E s : sub' = [sub EXCEPT ![c][t] = s]
    <3> HIDE DEF t
    <3>1. PICK s : sub' = [sub EXCEPT ![c][t] = s]
      BY <2>2
    <3>2. \A d \in Streams : \A u \in Types : d # c \/ u # t => sub'[d][u] = sub[d][u]
      BY <1>1, <3>1
    <3> QED  BY <1>1, <2>2, <3>2
  <2> QED  BY <1>3, <2>1, <2>2
<1>5. /\ \A d \in Streams : \A u \in Types : IsWaiting(d, u)' = IsWaiting(d, u)
      /\ \A d \in Streams : \A u \in Types : Replaced(d, u)' = Replaced(d, u)
      /\ \A d \in Streams : \A u \in Types : (d # c \/ u # t) /\ IsQueued(d, u) => IsQueued(d, u)'
  <2>1. UNCHANGED <<watches, pending>> /\ \A d \in Streams : pc'[d] = pc[d]
    BY DEF Took, cacheVars
  <2>2. ASSUME NEW u \in Types, u # t, IsQueued(c, u) PROVE IsQueued(c, u)'
    <3>1. PICK k \in DOMAIN queue[c] : queue[c][k].type = u
      BY <2>2 DEF IsQueued
    <3>2. \E j \in DOMAIN queue'[c] : queue'[c][j] = queue[c][k]
      BY <2>2, <3>1 DEF Took
    <3> QED  BY <3>1, <3>2 DEF IsQueued
  <2>3. \A d \in Streams : \A u \in Types : d # c /\ IsQueued(d, u) => IsQueued(d, u)'
    BY DEF IsQueued, Took
  <2>4. \A d \in Streams : \A u \in Types :
            IsWaiting(d, u)' = IsWaiting(d, u) /\ Replaced(d, u)' = Replaced(d, u)
    BY <2>1 DEF IsWaiting, Replaced
  <2> QED  BY <2>2, <2>3, <2>4
<1> HIDE DEF t
<1> QED  BY <1>4, <1>5 DEF EntriesServed

\* Snapshots that the control plane set.
SnapshotsSet == \A n \in Nodes : snapshots[n] # None => snapshots[n] \in Snapshots

\* The subscription covers all that a snapshot may have of the type: nothing is held back.
Covers(s, t) ==
    Ads => s.wildcard \/ \A snap \in Snapshots : snap[t].items \subseteq s.subscribedResourceNames

\* CreateWatch answers or opens a watch, unless ADS mode drops the request.
LEMMA CreateWatchServes ==
    ASSUME IInv, EntriesServed, SnapshotsSet, NEW c \in Streams, NEW req \in Request,
           NEW s \in Sub, NEW q \in Seq(Response), CreateWatch(c, req, s, q),
           Covers(s, req.type), pc[c] = "idle" \/ pending[c] = req,
           \A i \in DOMAIN queue[c] :
              queue[c][i].type # req.type => \E j \in DOMAIN q : q[j] = queue[c][i]
    PROVE  EntriesServed'
<1> DEFINE n    == NodeOf[c]
           t    == req.type
           snap == snapshots[n]
           w    == [id |-> watchCount + 1, stream |-> c, type |-> req.type,
                    versionInfo |-> req.versionInfo, sub |-> s]
           answers == snap # None /\ ~Missing(snap, w) /\ ~NothingChanged(snap, w)
           resp == createResponse(snap, w, 0)
           r    == IF answers THEN Append(q, resp) ELSE q
<1>1. /\ n \in Nodes /\ t \in Types /\ TypeOK /\ resp.type = t /\ w.stream = c /\ w.type = t
      /\ w.sub = s
  BY SnapshotAssumption DEF IInv, SnapshotAssumption, Request, createResponse
<1>2. /\ queue' = [queue EXCEPT ![c] = r]
      /\ IF Opens(snap, w) THEN watches' = [watches EXCEPT ![n] = @ \cup {w}]
                           ELSE watches' = watches
      /\ sub' = [sub EXCEPT ![c][t] = s]
      /\ replied' = [replied EXCEPT ![c] = @ \ {t}]
      /\ pending' = [pending EXCEPT ![c] = None]
      /\ pc' = [pc EXCEPT ![c] = "idle"]
  BY DEF CreateWatch
<1>3. snap # None => ~Missing(snap, w)
  <2>1. ASSUME snap # None PROVE snap \in Snapshots
    BY <1>1, <2>1 DEF SnapshotsSet
  <2> QED  BY <1>1, <2>1 DEF Missing, Watched, Covers
<1>4. Opens(snap, w) \/ answers
  BY <1>3 DEF Opens
<1> HIDE DEF snap, w, resp, answers
<1>5. /\ queue'[c] = r
      /\ \A d \in Streams : d # c =>
            /\ queue'[d] = queue[d] /\ pc'[d] = pc[d] /\ pending'[d] = pending[d]
            /\ replied'[d] = replied[d] /\ sub'[d] = sub[d]
      /\ \A u \in Types : u # t => sub'[c][u] = sub[c][u] /\ (u \in replied[c] => u \in replied'[c])
  BY <1>1, <1>2 DEF TypeOK
<1>6. IsWaiting(c, t)' \/ IsQueued(c, t)'
  <2>1. CASE Opens(snap, w)
    <3>1. watches' = [watches EXCEPT ![n] = @ \cup {w}] /\ watches \in [Nodes -> SUBSET Watch]
      BY <1>1, <1>2, <2>1 DEF TypeOK
    <3>2. w \in watches'[n]
      BY <1>1, <3>1
    <3> QED  BY <1>1, <3>2 DEF IsWaiting
  <2>2. CASE answers
    <3>1. Len(r) \in DOMAIN r /\ r[Len(r)] = resp
      BY SMTT(30), <2>2
    <3> HIDE DEF r
    <3>2. Len(r) \in DOMAIN queue'[c] /\ queue'[c][Len(r)].type = t
      BY <1>1, <1>5, <3>1
    <3> QED  BY <3>2 DEF IsQueued
  <2> QED  BY <1>4, <2>1, <2>2
<1>7. \A d \in Streams : \A u \in Types : IsWaiting(d, u) => IsWaiting(d, u)'
  <2>1. ASSUME NEW m \in Nodes PROVE watches[m] \subseteq watches'[m]
    <3>1. CASE Opens(snap, w)
      <4>1. watches' = [watches EXCEPT ![n] = @ \cup {w}] /\ watches \in [Nodes -> SUBSET Watch]
        BY <1>1, <1>2, <3>1 DEF TypeOK
      <4> QED  BY <1>1, <4>1
    <3>2. CASE ~Opens(snap, w)
      BY <1>2, <3>2
    <3> QED  BY <3>1, <3>2
  <2> QED  BY <2>1 DEF IsWaiting
<1>8. ASSUME NEW u \in Types, u # t, IsQueued(c, u) PROVE IsQueued(c, u)'
  <2>1. PICK i \in DOMAIN queue[c] : queue[c][i].type = u
    BY <1>8 DEF IsQueued
  <2>2. PICK j \in DOMAIN q : q[j] = queue[c][i]
    BY <1>8, <2>1
  <2>3. j \in DOMAIN r /\ r[j] = q[j]
    BY SMTT(30)
  <2> QED  BY <1>5, <2>1, <2>2, <2>3 DEF IsQueued
<1> HIDE DEF r
<1>9. \A d \in Streams : \A u \in Types :
          (d # c => Replaced(d, u)' = Replaced(d, u) /\ IsQueued(d, u)' = IsQueued(d, u))
  <2> SUFFICES ASSUME NEW d \in Streams, NEW u \in Types, d # c
               PROVE  Replaced(d, u)' = Replaced(d, u) /\ IsQueued(d, u)' = IsQueued(d, u)
    OBVIOUS
  <2>1. queue'[d] = queue[d] /\ pc'[d] = pc[d] /\ pending'[d] = pending[d]
    BY <1>5
  <2>2. Replaced(d, u)' = Replaced(d, u)
    BY <2>1 DEF Replaced
  <2>3. IsQueued(d, u)' = IsQueued(d, u)
    BY <2>1 DEF IsQueued
  <2> QED  BY <2>2, <2>3
<1>10. \A u \in Types : u # t => ~Replaced(c, u)
  BY DEF Replaced
<1> QED  BY <1>5, <1>6, <1>7, <1>8, <1>9, <1>10 DEF EntriesServed

\* Every list of names a client sends for a type covers what any snapshot has of it: it is
\* a wildcard, names it all, or is the empty list of a client that never sends another.
NothingHeldBack(lists) ==
    Ads => \A t \in Types :
        \/ LegacyWildcard /\ lists[t] \subseteq {{}}
        \/ \A names \in lists[t] :
              Star \in names \/ \A snap \in Snapshots : snap[t].items \subseteq names

\* What subscriptions made from such lists look like.
Reached(lists, s, t) ==
    Ads => \/ s.wildcard /\ s.allowLegacyWildcard /\ lists[t] \subseteq {{}}
           \/ /\ \A names \in lists[t] :
                    Star \in names \/ \A snap \in Snapshots : snap[t].items \subseteq names
              /\ s.wildcard \/ \A snap \in Snapshots : snap[t].items \subseteq s.subscribedResourceNames

\* Such lists lead to such subscriptions: NewSotwSubscription and SetResourceSubscription.
LEMMA ListsReach ==
    ASSUME NEW lists, NothingHeldBack(lists), NEW t \in Types, NEW names \in lists[t],
           names \in SUBSET Tokens
    PROVE  /\ Reached(lists, NewSotwSubscription(names, LegacyWildcard), t)
           /\ \A s \in Sub : Reached(lists, s, t) =>
                 Reached(lists, SetResourceSubscription(s, names), t)
<1> SUFFICES ASSUME Ads
             PROVE  /\ Reached(lists, NewSotwSubscription(names, LegacyWildcard), t)
                    /\ \A s \in Sub : Reached(lists, s, t) =>
                          Reached(lists, SetResourceSubscription(s, names), t)
  BY DEF Reached
<1>1. \A snap \in Snapshots : snap[t].items \in SUBSET Names
  BY SnapshotAssumption DEF SnapshotAssumption, Snapshot
<1>2. ASSUME NEW s, ~(s.allowLegacyWildcard /\ names = {}),
             \A list \in lists[t] :
                Star \in list \/ \A snap \in Snapshots : snap[t].items \subseteq list
      PROVE  Reached(lists, SetResourceSubscription(s, names), t)
  <2> DEFINE r == SetResourceSubscription(s, names)
  <2>1. r.wildcard = (Star \in names) /\ r.subscribedResourceNames = names \cap Names
    BY <1>2 DEF SetResourceSubscription
  <2> HIDE DEF r
  <2> QED  BY <1>1, <1>2, <2>1 DEF Reached, r
<1>3. ASSUME NEW s \in Sub, Reached(lists, s, t)
      PROVE  Reached(lists, SetResourceSubscription(s, names), t)
  <2>1. CASE s.allowLegacyWildcard /\ names = {}
    BY <1>3, <2>1 DEF SetResourceSubscription
  <2>2. CASE ~(s.allowLegacyWildcard /\ names = {})
    <3>1. ~(s.allowLegacyWildcard /\ lists[t] \subseteq {{}})
      BY <2>2
    <3>2. \A list \in lists[t] :
              Star \in list \/ \A snap \in Snapshots : snap[t].items \subseteq list
      BY <1>3, <3>1 DEF Reached
    <3> QED  BY <1>2, <2>2, <3>2
  <2> QED  BY <2>1, <2>2
<1>4. Reached(lists, NewSotwSubscription(names, LegacyWildcard), t)
  <2> DEFINE s == newSubscription(names = {}, LegacyWildcard, NothingKnown)
  <2>1. s.wildcard = (names = {} /\ LegacyWildcard) /\ s.allowLegacyWildcard = LegacyWildcard
    BY DEF newSubscription
  <2>2. NewSotwSubscription(names, LegacyWildcard) = SetResourceSubscription(s, names)
    BY DEF NewSotwSubscription
  <2> HIDE DEF s
  <2>3. CASE LegacyWildcard /\ names = {}
    <3>1. SetResourceSubscription(s, names) = s /\ s.wildcard /\ s.allowLegacyWildcard
      BY <2>1, <2>3 DEF SetResourceSubscription
    <3> QED  BY <2>2, <3>1 DEF Reached, NothingHeldBack
  <2>4. CASE ~(LegacyWildcard /\ names = {})
    <3>1. ~(LegacyWildcard /\ lists[t] \subseteq {{}})
      BY <2>4
    <3>2. \A list \in lists[t] :
              Star \in list \/ \A snap \in Snapshots : snap[t].items \subseteq list
      BY <3>1 DEF NothingHeldBack
    <3>3. ~(s.allowLegacyWildcard /\ names = {})
      BY <2>1, <2>4
    <3>4. Reached(lists, SetResourceSubscription(s, names), t)
      BY <1>2, <3>2, <3>3
    <3> QED  BY <2>2, <3>4
  <2> QED  BY <2>3, <2>4
<1> QED  BY <1>3, <1>4

\* The entries and the requests at hand come from such lists.
CoverInv(lists) ==
    /\ SnapshotsSet
    /\ \A c \in Streams : \A t \in Types : sub[c][t] # None => Reached(lists, sub[c][t], t)
    /\ \A c \in Streams : pending[c] # None => pending[c].resourceNames \in lists[pending[c].type]

\* A step that brings no request and no subscription.
LEMMA CoverUnchanged ==
    ASSUME NEW lists, CoverInv(lists), UNCHANGED <<snapshots, sub, pending>>
    PROVE  CoverInv(lists)'
BY DEF CoverInv, SnapshotsSet, Reached

\* CreateWatch for a request from such a list.
LEMMA CreateWatchServed ==
    ASSUME NEW lists, IInv, ServedInv, CoverInv(lists), NEW c \in Streams, NEW req \in Request,
           NEW s \in Sub, NEW q \in Seq(Response), CreateWatch(c, req, s, q),
           HoldsSubscribed(s), Reached(lists, s, req.type), ~IsWaiting(c, req.type),
           pc[c] = "idle" \/ pending[c] = req,
           \A i \in DOMAIN q :
              q[i].type # req.type /\ \E j \in DOMAIN queue[c] : q[i] = queue[c][j],
           \A i \in DOMAIN queue[c] :
              queue[c][i].type # req.type => \E j \in DOMAIN q : q[j] = queue[c][i]
    PROVE  ServedInv' /\ CoverInv(lists)'
<1>1. req.type \in Types /\ TypeOK
  BY DEF Request, IInv
<1>2. Covers(s, req.type)
  BY DEF Covers, Reached
<1>3. FitInv'
  BY CreateWatchFits DEF ServedInv
<1>4. EntriesServed'
  BY <1>2, CreateWatchServes DEF ServedInv, CoverInv
<1>5. CancelIds'
  <2> DEFINE snap == snapshots[NodeOf[c]]
             w    == [id |-> watchCount + 1, stream |-> c, type |-> req.type,
                      versionInfo |-> req.versionInfo, sub |-> s]
  <2>1. /\ w.id = watchCount + 1
        /\ IF Opens(snap, w)
           THEN /\ watchCount' = watchCount + 1
                /\ watches' = [watches EXCEPT ![NodeOf[c]] = @ \cup {w}]
           ELSE UNCHANGED <<watchCount, watches>>
        /\ cancel' = [cancel EXCEPT ![c][req.type] = IF Opens(snap, w) THEN w.id ELSE 0]
    BY DEF CreateWatch, cancelFunction
  <2> HIDE DEF snap, w
  <2>2. watches \in [Nodes -> SUBSET Watch] /\ cancel \in [Streams -> [Types -> Nat]]
    BY <1>1 DEF TypeOK
  <2>3. CASE Opens(snap, w)
    <3>1. /\ watchCount' = watchCount + 1
          /\ cancel' = [cancel EXCEPT ![c][req.type] = watchCount + 1]
      BY <2>1, <2>3
    <3>2. ASSUME NEW n \in Nodes, NEW v \in watches'[n] PROVE v \in watches[n] \/ v.id = watchCount + 1
      <4>1. watches' = [watches EXCEPT ![NodeOf[c]] = @ \cup {w}]
        BY <2>1, <2>3
      <4>2. v \in watches[n] \/ v = w
        BY <2>2, <4>1
      <4> QED  BY <2>1, <4>2
    <3> QED  BY <1>1, <3>1, <3>2, CancelIdsKept DEF ServedInv
  <2>4. CASE ~Opens(snap, w)
    <3>1. watchCount' = watchCount /\ \A n \in Nodes : watches'[n] \subseteq watches[n]
      BY <2>1, <2>4
    <3>2. \A d \in Streams : \A u \in Types : cancel'[d][u] \in {0, cancel[d][u]}
      BY <1>1, <2>1, <2>2, <2>4
    <3> QED  BY <1>1, <3>1, <3>2, CancelIdsKept DEF ServedInv
  <2> QED  BY <2>3, <2>4
<1>6. CoverInv(lists)'
  <2>1. /\ sub' = [sub EXCEPT ![c][req.type] = s] /\ pending' = [pending EXCEPT ![c] = None]
        /\ snapshots' = snapshots
    BY DEF CreateWatch
  <2>2. /\ \A d \in Streams : \A u \in Types :
              sub'[d][u] = IF d = c /\ u = req.type THEN s ELSE sub[d][u]
        /\ \A d \in Streams : pending'[d] \in {None, pending[d]}
    BY <1>1, <2>1 DEF TypeOK
  <2>3. ASSUME NEW d \in Streams, NEW u \in Types, sub'[d][u] # None
        PROVE  Reached(lists, sub'[d][u], u)
    <3>1. CASE d = c /\ u = req.type
      <4>1. sub'[d][u] = s
        BY <2>2, <3>1
      <4> QED  BY <3>1, <4>1
    <3>2. CASE ~(d = c /\ u = req.type)
      <4>1. sub'[d][u] = sub[d][u] /\ Reached(lists, sub[d][u], u)
        BY <2>2, <2>3, <3>2 DEF CoverInv
      <4> QED  BY <4>1
    <3> QED  BY <3>1, <3>2
  <2>4. \A d \in Streams : pending'[d] # None =>
            pending'[d].resourceNames \in lists[pending'[d].type]
    BY <2>2 DEF CoverInv
  <2>5. SnapshotsSet'
    BY <2>1 DEF CoverInv, SnapshotsSet
  <2> QED  BY <2>3, <2>4, <2>5 DEF CoverInv
<1> QED  BY <1>3, <1>4, <1>5, <1>6 DEF ServedInv

\* The first request for a type is answered or opens a watch.
LEMMA FirstRequestServed ==
    ASSUME NEW lists, NothingHeldBack(lists), IInv, ServedInv, CoverInv(lists),
           NEW c \in Streams, NEW req \in Request, req.resourceNames \in lists[req.type],
           FirstRequest(c, req)
    PROVE  ServedInv' /\ CoverInv(lists)'
<1> DEFINE s == NewSotwSubscription(req.resourceNames, LegacyWildcard)
<1>1. req.type \in Types /\ req.resourceNames \in SUBSET Tokens /\ queue[c] \in Seq(Response)
  BY DEF Request, IInv, TypeOK
<1>2. s \in Sub /\ HoldsSubscribed(s) /\ Reached(lists, s, req.type)
  BY <1>1, SubscriptionType, RequestFits, ListsReach
<1> HIDE DEF s
<1>3. CreateWatch(c, req, s, queue[c]) /\ sub[c][req.type] = None /\ pc[c] = "idle"
  BY DEF FirstRequest, s
<1>4. ~IsWaiting(c, req.type) /\ ~IsQueued(c, req.type)
  BY <1>1, <1>3 DEF IInv, NothingWithoutEntry
<1>5. \A i \in DOMAIN queue[c] : queue[c][i].type # req.type
  BY <1>4 DEF IsQueued
<1> QED  BY <1>1, <1>2, <1>3, <1>4, <1>5, CreateWatchServed

\* A later request, whose list replaces the one of the entry, is answered or opens a watch.
LEMMA RewatchServed ==
    ASSUME NEW lists, NothingHeldBack(lists), IInv, ServedInv, CoverInv(lists),
           NEW c \in Streams, Rewatch(c)
    PROVE  ServedInv' /\ CoverInv(lists)'
<1> DEFINE req == pending[c]
           s   == SetResourceSubscription(sub[c][req.type], req.resourceNames)
           q   == Kept(c, req.type)
<1>1. /\ pc[c] = "cancelled" /\ CreateWatch(c, req, s, q)
  BY DEF Rewatch
<1>2. /\ req \in Request /\ sub[c][req.type] \in Sub /\ ~IsWaiting(c, req.type)
      /\ q \in Seq(Response)
      /\ \A i \in DOMAIN q : q[i].type # req.type /\ \E j \in DOMAIN queue[c] : q[i] = queue[c][j]
      /\ \A i \in DOMAIN queue[c] :
            queue[c][i].type # req.type => \E j \in DOMAIN q : q[j] = queue[c][i]
  BY <1>1, RewatchRequest
<1>3. /\ req.type \in Types /\ req.resourceNames \in SUBSET Tokens
      /\ sub[c][req.type] # None /\ req # None
  BY <1>2, SnapshotAssumption DEF Request, SnapshotAssumption
<1>4. /\ HoldsSubscribed(sub[c][req.type]) /\ Reached(lists, sub[c][req.type], req.type)
      /\ req.resourceNames \in lists[req.type]
  BY <1>3 DEF ServedInv, FitInv, EntriesFit, CoverInv
<1>5. s \in Sub /\ HoldsSubscribed(s) /\ Reached(lists, s, req.type)
  BY <1>2, <1>3, <1>4, SubscriptionType, RequestFits, ListsReach
<1>6. pending[c] = req
  OBVIOUS
<1> HIDE DEF req, s, q
<1> QED  BY ZenonT(40), <1>1, <1>2, <1>5, <1>6, CreateWatchServed

\* The answers of SetSnapshot and sendHeartbeats leave every entry served.
LEMMA CacheServed ==
    ASSUME NEW lists, IInv, ServedInv, CoverInv(lists), NEW n \in Nodes,
           (\E snap \in Snapshots : SetSnapshot(n, snap)) \/ SendHeartbeats(n)
    PROVE  ServedInv' /\ CoverInv(lists)'
<1>1. TypeOK /\ watches \in [Nodes -> SUBSET Watch]
  BY DEF IInv, TypeOK
<1>2. FitInv'
  BY SetSnapshotFits, HeartbeatsFit DEF ServedInv
<1>3. PICK ws \in SUBSET watches[n] : \E q \in Shares(Streams, ws) :
          \E response \in [ws -> Response] :
             Respond(n, ws, q, response) /\ \A w \in ws : response[w].type = w.type
  <2>1. ASSUME NEW snap \in Snapshots, SetSnapshot(n, snap)
        PROVE  \E ws \in SUBSET watches[n] : \E q \in Shares(Streams, ws) :
                  \E response \in [ws -> Response] :
                     Respond(n, ws, q, response) /\ \A w \in ws : response[w].type = w.type
    <3>1. snap \in Snapshot
      BY SnapshotAssumption DEF SnapshotAssumption
    <3>2. PICK ws \in Answered(Due(n, snap)) : \E q \in orderResponseWatches(Streams, ws) :
              Respond(n, ws, q, [w \in ws |-> createResponse(snap, w, round + 1)])
      BY <2>1 DEF SetSnapshot
    <3>3. PICK q \in Shares(Streams, ws) :
              Respond(n, ws, q, [w \in ws |-> createResponse(snap, w, round + 1)])
      BY <3>2 DEF orderResponseWatches
    <3> DEFINE response == [w \in ws |-> createResponse(snap, w, round + 1)]
    <3>4. ws \in SUBSET watches[n] /\ ws \in SUBSET Watch /\ round + 1 \in Nat
      <4>1. ws \in SUBSET watches[n]
        BY <3>2 DEF Answered, Due
      <4>2. ws \in SUBSET Watch
        BY <1>1, <4>1
      <4>3. round \in Nat
        BY <1>1 DEF TypeOK
      <4>4. round + 1 \in Nat
        BY SMTT(30), <4>3
      <4> QED  BY <4>1, <4>2, <4>4
    <3>5. /\ response \in [ws -> Response]
          /\ \A w \in ws : response[w].type = w.type
      BY <3>1, <3>4, CreateResponseType DEF createResponse
    <3> HIDE DEF response
    <3>6. Respond(n, ws, q, response)
      BY <3>3 DEF response
    <3> QED  BY <3>4, <3>5, <3>6
  <2>2. ASSUME SendHeartbeats(n)
        PROVE  \E ws \in SUBSET watches[n] : \E q \in Shares(Streams, ws) :
                  \E response \in [ws -> Response] :
                     Respond(n, ws, q, response) /\ \A w \in ws : response[w].type = w.type
    <3> DEFINE ws       == DueHeartbeat(n)
               response == [w \in ws |-> heartbeatResponse(snapshots[n], w)]
    <3>1. PICK q \in Shares(Streams, ws) : Respond(n, ws, q, response)
      BY <2>2 DEF SendHeartbeats
    <3>2. ws \in SUBSET watches[n] /\ ws \in SUBSET Watch /\ (ws # {} => snapshots[n] \in Snapshot)
      BY <1>1 DEF DueHeartbeat, TypeOK
    <3>3. /\ response \in [ws -> Response]
          /\ \A w \in ws : response[w].type = w.type
      BY <3>2, HeartbeatType DEF heartbeatResponse
    <3> HIDE DEF response, ws
    <3> QED  BY <3>1, <3>2, <3>3
  <2> QED  BY <2>1, <2>2
<1>4. /\ UNCHANGED <<watchCount, pc, pending, sub, cancel, replied>>
      /\ snapshots' = snapshots \/ \E snap \in Snapshots : snapshots' = [snapshots EXCEPT ![n] = snap]
  BY DEF SetSnapshot, SendHeartbeats
<1>5. EntriesServed'
  BY <1>3, <1>4, RespondServes DEF ServedInv
<1>6. CancelIds'
  <2>1. \A m \in Nodes : watches'[m] \subseteq watches[m]
    BY <1>1, <1>3 DEF Respond
  <2>2. ServedInv => CancelIds
    BY DEF ServedInv
  <2> QED  BY SMTT(30), <1>4, <2>1, <2>2 DEF CancelIds
<1>7. CoverInv(lists)'
  <2>1. SnapshotsSet'
    BY <1>1, <1>4 DEF CoverInv, SnapshotsSet, TypeOK
  <2> QED  BY <1>4, <2>1 DEF CoverInv, Reached
<1> QED  BY <1>2, <1>5, <1>6, <1>7 DEF ServedInv

\* A stream that is opened, ends or closes a watch leaves the others served.
LEMMA CancelServed ==
    ASSUME NEW lists, IInv, IInv', ServedInv, CoverInv(lists), NEW c \in Streams,
           \/ Open(c)
           \/ Shutdown(c)
           \/ \E req \in Request : req.resourceNames \in lists[req.type] /\ CloseWatch(c, req)
    PROVE  ServedInv' /\ CoverInv(lists)'
<1>1. TypeOK /\ CancelIds /\ EntriesServed /\ FitInv
  BY DEF IInv, ServedInv
<1>2. CASE Open(c)
  <2>1. /\ pc[c] = "closed" /\ pc' = [pc EXCEPT ![c] = "idle"]
        /\ UNCHANGED <<snapshots, watches, watchCount, pending, sub, cancel, queue, replied>>
    BY <1>2 DEF Open, cacheVars
  <2>2. FitInv'
    BY <1>1, <2>1, FewerFit
  <2>3. CancelIds'
    BY SMTT(30), <1>1, <2>1 DEF CancelIds
  <2>4. \A d \in Streams : \A t \in Types :
            /\ Replaced(d, t)' = Replaced(d, t)
            /\ IsWaiting(d, t)' = IsWaiting(d, t) /\ IsQueued(d, t)' = IsQueued(d, t)
    BY <1>1, <2>1 DEF Replaced, IsWaiting, IsQueued, TypeOK
  <2>5. EntriesServed'
    BY <1>1, <2>1, <2>4 DEF EntriesServed
  <2> QED  BY <2>1, <2>2, <2>3, <2>5, CoverUnchanged DEF ServedInv
<1>3. CASE Shutdown(c)
  <2>1. /\ cancelWatches(c, Types) /\ UNCHANGED <<snapshots, watchCount>>
        /\ pc' = [pc EXCEPT ![c] = "closed"]
        /\ pending' = [pending EXCEPT ![c] = None]
        /\ sub' = [sub EXCEPT ![c] = [t \in Types |-> None]]
        /\ cancel' = [cancel EXCEPT ![c] = [t \in Types |-> 0]]
        /\ queue' = [queue EXCEPT ![c] = <<>>]
        /\ replied' = [replied EXCEPT ![c] = {}]
    BY <1>3 DEF Shutdown
  <2>2. /\ \A t \in Types : sub'[c][t] = None /\ cancel'[c][t] = 0
        /\ pending'[c] = None
        /\ \A d \in Streams : d # c =>
              /\ pc'[d] = pc[d] /\ pending'[d] = pending[d] /\ sub'[d] = sub[d]
              /\ cancel'[d] = cancel[d] /\ queue'[d] = queue[d] /\ replied'[d] = replied[d]
    BY <1>1, <2>1 DEF TypeOK
  <2>3. FitInv'
    BY <1>1, <1>3, ShutdownFits
  <2>4. \A n \in Nodes : watches'[n] \subseteq watches[n]
    BY <2>1, CancelledWatches
  <2>5. \A d \in Streams : \A t \in Types : cancel'[d][t] \in {0, cancel[d][t]}
    BY <2>2
  <2>6. CancelIds'
    <3>1. CASE Types = {}
      <4>1. \A n \in Nodes : \A w \in watches'[n] : w.id # 0
        BY <1>1, <2>4 DEF CancelIds
      <4> QED  BY <3>1, <4>1 DEF CancelIds
    <3>2. ASSUME NEW t \in Types PROVE CancelIds'
      BY <1>1, <2>1, <2>4, <2>5, CancelIdsKept
    <3> QED  BY <3>1, <3>2
  <2>7. \A d \in Streams : \A t \in Types : d # c =>
            /\ Replaced(d, t)' = Replaced(d, t) /\ IsQueued(d, t)' = IsQueued(d, t)
    BY <2>2 DEF Replaced, IsQueued
  <2>8. \A d \in Streams : \A t \in Types : d # c /\ IsWaiting(d, t) => IsWaiting(d, t)'
    BY <1>1, <2>1, OthersNotCancelled
  <2>9. EntriesServed'
    BY ZenonT(40), <1>1, <2>2, <2>7, <2>8 DEF EntriesServed
  <2>10. CoverInv(lists)'
    <3>1. \A d \in Streams : \A t \in Types : sub'[d][t] # None => Reached(lists, sub'[d][t], t)
      BY <2>2 DEF CoverInv
    <3> QED  BY <2>1, <2>2, <3>1 DEF CoverInv, SnapshotsSet
  <2> QED  BY <2>3, <2>6, <2>9, <2>10 DEF ServedInv
<1>4. ASSUME NEW req \in Request, req.resourceNames \in lists[req.type], CloseWatch(c, req)
      PROVE  ServedInv' /\ CoverInv(lists)'
  <2>1. /\ cancelWatches(c, {req.type})
        /\ UNCHANGED <<snapshots, watchCount, sub, cancel, queue, replied>>
        /\ pc' = [pc EXCEPT ![c] = IF Ordered THEN "draining" ELSE "cancelled"]
        /\ pc[c] = "idle" /\ pending' = [pending EXCEPT ![c] = req] /\ req.type \in Types
    BY <1>4 DEF CloseWatch, Request
  <2>2. /\ pending'[c] = req /\ pc'[c] \in {"draining", "cancelled"}
        /\ \A d \in Streams : d # c => pc'[d] = pc[d] /\ pending'[d] = pending[d]
    BY <1>1, <2>1 DEF TypeOK
  <2>3. \A n \in Nodes : watches'[n] \subseteq watches[n]
    BY <2>1, CancelledWatches
  <2>4. FitInv'
    BY <1>1, <2>1, <2>3, FewerFit
  <2>5. CancelIds'
    BY SMTT(30), <1>1, <2>1, <2>3 DEF CancelIds
  <2>6. \A d \in Streams : \A t \in Types : IsQueued(d, t)' = IsQueued(d, t)
    BY <2>1 DEF IsQueued
  <2>7. ASSUME NEW d \in Streams, NEW t \in Types, d # c \/ t # req.type
        PROVE  /\ IsWaiting(d, t) => IsWaiting(d, t)'
               /\ Replaced(d, t) => Replaced(d, t)'
    <3>1. t \notin {req.type} \/ d # c
      BY <2>7
    <3>2. IsWaiting(d, t) => IsWaiting(d, t)'
      BY <1>1, <2>1, <3>1, OthersNotCancelled
    <3>3. Replaced(d, t) => Replaced(d, t)'
      BY <2>1, <2>2 DEF Replaced
    <3> QED  BY <3>2, <3>3
  <2>8. Replaced(c, req.type)'
    BY <2>2 DEF Replaced
  <2>9. EntriesServed'
    BY <1>1, <2>1, <2>6, <2>7, <2>8 DEF EntriesServed
  <2>10. CoverInv(lists)'
    <3>1. \A d \in Streams : pending'[d] # None =>
              pending'[d].resourceNames \in lists[pending'[d].type]
      BY <1>4, <2>2 DEF CoverInv
    <3> QED  BY <2>1, <3>1 DEF CoverInv, SnapshotsSet, Reached
  <2> QED  BY <2>4, <2>5, <2>9, <2>10 DEF ServedInv
<1> QED  BY <1>2, <1>3, <1>4

\* So does taking a response from a channel, to send it or to drop it.
LEMMA TookServed ==
    ASSUME NEW lists, IInv, ServedInv, CoverInv(lists), NEW c \in Streams,
           NEW i \in DOMAIN queue[c], Took(c, i)
    PROVE  ServedInv' /\ CoverInv(lists)'
<1>1. FitInv /\ CancelIds /\ EntriesServed /\ TypeOK
  BY DEF IInv, ServedInv
<1>2. FitInv' /\ EntriesServed'
  BY <1>1, TookFits, TookServes
<1>3. UNCHANGED <<snapshots, watches, watchCount, cancel, pending>>
  BY DEF Took, cacheVars
<1>4. CancelIds'
  BY SMTT(30), <1>1, <1>3 DEF CancelIds
<1>5. ASSUME NEW d \in Streams, NEW u \in Types, sub'[d][u] # None
      PROVE  Reached(lists, sub'[d][u], u)
  <2> DEFINE t == queue[c][i].type
             s == SetReturnedResources(sub[c][t], queue[c][i].returnedResources)
  <2>1. t \in Types /\ sub[c][t] \in Sub /\ sub[c][t] # None /\ IsQueued(c, t)
    <3>1. queue[c][i] \in Response
      BY SMTT(30), <1>1 DEF TypeOK
    <3>2. t \in Types /\ IsQueued(c, t)
      BY <3>1 DEF Response, IsQueued
    <3> HIDE DEF t
    <3>3. sub[c][t] # None
      BY <3>2 DEF IInv, NothingWithoutEntry
    <3>4. sub \in [Streams -> [Types -> Sub \cup {None}]]
      BY <1>1 DEF TypeOK
    <3> QED  BY <3>2, <3>3, <3>4
  <2>2. /\ Reached(lists, sub[c][t], t) /\ s.wildcard = sub[c][t].wildcard
        /\ s.subscribedResourceNames = sub[c][t].subscribedResourceNames
        /\ s.allowLegacyWildcard = sub[c][t].allowLegacyWildcard
    <3>1. Reached(lists, sub[c][t], t)
      BY <2>1 DEF CoverInv
    <3> QED  BY <2>1, <3>1 DEF SetReturnedResources, Sub, SubscriptionsOver
  <2>3. Reached(lists, s, t)
    BY <2>2 DEF Reached
  <2>4. sub' = sub \/ sub' = [sub EXCEPT ![c][t] = s]
    BY DEF Took, Send
  <2> HIDE DEF s, t
  <2> sub \in [Streams -> [Types -> Sub \cup {None}]]
    BY <1>1 DEF TypeOK
  <2>5. CASE d = c /\ u = t
    <3>1. sub'[d][u] \in {sub[c][t], s}
      BY <2>1, <2>4, <2>5
    <3> QED  BY <2>2, <2>3, <2>5, <3>1
  <2>6. CASE ~(d = c /\ u = t)
    <3>1. sub'[d][u] = sub[d][u]
      BY ZenonT(40), <2>1, <2>4, <2>6
    <3>2. Reached(lists, sub[d][u], u)
      BY <1>5, <3>1 DEF CoverInv
    <3> QED  BY <3>1, <3>2
  <2> QED  BY <2>5, <2>6
<1>6. CoverInv(lists)'
  BY <1>3, <1>5 DEF CoverInv, SnapshotsSet
<1> QED  BY <1>2, <1>4, <1>6 DEF ServedInv

\* So does the end of processAllExcept, and a step that changes nothing.
LEMMA IdleServed ==
    ASSUME NEW lists, IInv, ServedInv, CoverInv(lists),
           UNCHANGED <<cacheVars, pending, sub, cancel, queue, replied>>,
           \/ pc' = pc
           \/ \E c \in Streams : pc[c] = "draining" /\ pc' = [pc EXCEPT ![c] = "cancelled"]
    PROVE  ServedInv' /\ CoverInv(lists)'
<1>1. FitInv /\ CancelIds /\ EntriesServed /\ TypeOK
  BY DEF IInv, ServedInv
<1>2. UNCHANGED <<snapshots, watches, watchCount>>
  BY DEF cacheVars
<1>3. FitInv'
  BY <1>1, <1>2, FewerFit
<1>4. CancelIds'
  BY SMTT(30), <1>1, <1>2 DEF CancelIds
<1>5. \A d \in Streams : \A t \in Types :
          /\ IsWaiting(d, t)' = IsWaiting(d, t) /\ IsQueued(d, t)' = IsQueued(d, t)
          /\ Replaced(d, t) => Replaced(d, t)'
  <2>1. \A d \in Streams : \A t \in Types :
            IsWaiting(d, t)' = IsWaiting(d, t) /\ IsQueued(d, t)' = IsQueued(d, t)
    BY <1>2 DEF IsWaiting, IsQueued
  <2>2. \A d \in Streams : pc[d] \in {"draining", "cancelled"} => pc'[d] \in {"draining", "cancelled"}
    BY <1>1 DEF TypeOK
  <2> QED  BY <2>1, <2>2 DEF Replaced
<1>6. EntriesServed'
  BY <1>1, <1>5 DEF EntriesServed
<1> QED  BY <1>2, <1>3, <1>4, <1>6, CoverUnchanged DEF ServedInv

\* Every step keeps the entries served, if the cache is never cleared and the requests come
\* from lists that ADS mode does not hold back.
LEMMA StepServed ==
    ASSUME NEW lists, NothingHeldBack(lists), MaxClears = 0,
           NEW requests \in [Streams -> SUBSET Request],
           \A c \in Streams : \A req \in requests[c] : req.resourceNames \in lists[req.type],
           IInv, IInv', ServedInv, CoverInv(lists), CacheStep(requests)
    PROVE  ServedInv' /\ CoverInv(lists)'
<1>1. CASE UNCHANGED vars
  BY <1>1, IdleServed DEF vars, streamVars
<1>2. ASSUME NEW n \in Nodes, ClearSnapshot(n) PROVE FALSE
  <2>1. cleared[n] \in Nat /\ cleared[n] < 0
    BY <1>2 DEF ClearSnapshot, IInv, TypeOK
  <2> QED  BY SMTT(30), <2>1
<1>3. CASE CacheNext
  BY <1>2, <1>3, CacheServed DEF CacheNext
<1>4. ASSUME NEW c \in Streams, Open(c) \/ Shutdown(c) PROVE ServedInv' /\ CoverInv(lists)'
  BY <1>4, CancelServed
<1>5. ASSUME NEW c \in Streams, NEW req \in requests[c], FirstRequest(c, req) \/ CloseWatch(c, req)
      PROVE  ServedInv' /\ CoverInv(lists)'
  <2>1. req \in Request /\ req.resourceNames \in lists[req.type]
    OBVIOUS
  <2> QED  BY <1>5, <2>1, FirstRequestServed, CancelServed
<1>6. ASSUME NEW c \in Streams, Rewatch(c) PROVE ServedInv' /\ CoverInv(lists)'
  BY <1>6, RewatchServed
<1>7. ASSUME NEW c \in Streams, processAllExcept(c) PROVE ServedInv' /\ CoverInv(lists)'
  <2>1. CASE queue[c] = <<>>
    BY <1>7, <2>1, IdleServed DEF processAllExcept
  <2>2. CASE queue[c] # <<>>
    BY <1>7, <2>2, ProcessAllExceptTook, TookServed
  <2> QED  BY <2>1, <2>2
<1>8. ASSUME NEW c \in Streams, NEW i \in DOMAIN queue[c], SendResponse(c, i)
      PROVE  ServedInv' /\ CoverInv(lists)'
  BY <1>8, SendResponseTook, TookServed
<1> QED  BY <1>1, <1>3, <1>4, <1>5, <1>6, <1>7, <1>8 DEF CacheStep

\* At first there is no entry.
LEMMA InitServed ==
    ASSUME NEW lists, Init
    PROVE  ServedInv /\ CoverInv(lists)
<1>1. /\ \A c \in Streams : \A t \in Types : sub[c][t] = None /\ cancel[c][t] = 0
      /\ \A c \in Streams : pending[c] = None /\ queue[c] = <<>>
      /\ \A n \in Nodes : watches[n] = {} /\ snapshots[n] = None
      /\ watchCount = 0
  BY DEF Init
<1>2. FitInv
  BY SMTT(30), <1>1 DEF FitInv, EntriesFit, WatchesFit, ResponsesFit
<1>3. CancelIds
  BY SMTT(30), <1>1 DEF CancelIds
<1>4. EntriesServed
  BY <1>1 DEF EntriesServed
<1>5. CoverInv(lists)
  BY <1>1 DEF CoverInv, SnapshotsSet
<1> QED  BY <1>2, <1>3, <1>4, <1>5 DEF ServedInv

\* What the entries promise is what StreamIsServed asks of them.
LEMMA ServedIsServed == IInv /\ ServedInv => StreamIsServed
<1> SUFFICES ASSUME IInv, ServedInv, NEW c \in Streams, NEW t \in Types,
                    pc[c] = "idle", sub[c][t] # None
             PROVE  Waiting(c, t) # {} \/ Queued(c, t) # {} \/ t \in replied[c]
  BY DEF StreamIsServed
<1>1. IsWaiting(c, t) \/ IsQueued(c, t) \/ t \in replied[c]
  BY DEF ServedInv, EntriesServed, Replaced
<1>2. ASSUME NEW n \in Nodes, NEW w \in watches[n], w.stream = c, w.type = t
      PROVE  Waiting(c, t) # {}
  <2>1. n = NodeOf[c]
    BY <1>2 DEF IInv, WatchesAreCancellable
  <2> QED  BY <1>2, <2>1 DEF Waiting
<1>3. IsQueued(c, t) => Queued(c, t) # {}
  BY DEF IsQueued, Queued
<1> QED  BY <1>1, <1>2, <1>3 DEF IsWaiting

\* The lists of names the clients send for a type.
RequestLists == [t \in Types |-> {req.resourceNames : req \in {r \in Requests : r.type = t}}]

\* A stream that has asked for a type is served: its watch is open, a response is queued, or
\* it was sent one to acknowledge.  ClearSnapshot discards the watches of a node and ADS mode
\* drops a request that does not name the whole snapshot; without them none is forgotten.
THEOREM NoStreamForgotten ==
    ASSUME MaxClears = 0, NothingHeldBack(RequestLists)
    PROVE  Spec => []StreamIsServed
<1> DEFINE Inv == ServedInv /\ CoverInv(RequestLists)
<1>1. Init => Inv
  BY InitServed
<1>2. ASSUME IInv, IInv', Inv, [Next]_vars PROVE Inv'
  <2>1. PICK requests \in [Streams -> SUBSET Request] :
            CacheStep(requests) /\ \A c \in Streams : requests[c] = Requests
    BY <1>2, NextIsStep
  <2>2. \A c \in Streams : \A req \in requests[c] : req.resourceNames \in RequestLists[req.type]
    <3> TAKE c \in Streams
    <3> TAKE req \in requests[c]
    <3>a. req \in Requests /\ req \in Request
      BY <2>1, SnapshotAssumption DEF SnapshotAssumption
    <3>1. req \in Requests /\ req.type \in Types
      BY <3>a DEF Request
    <3>2. RequestLists[req.type] = {r.resourceNames : r \in {q \in Requests : q.type = req.type}}
      BY <3>1 DEF RequestLists
    <3> QED  BY <3>1, <3>2
  <2> QED  BY <1>2, <2>1, <2>2, StepServed
<1>3. IInv /\ Inv => StreamIsServed
  BY ServedIsServed
<1> QED  BY <1>1, <1>2, <1>3, Invariance, PTL DEF Spec

-----------------------------------------------------------------------------
(* An open watch is owed nothing.                                          *)

\* A type of a snapshot without a version has no resources: NewSnapshot gives its version to
\* every type it has resources of.
BlankIsEmpty ==
    \A snap \in Snapshots : \A t \in Types : snap[t].version = Blank => snap[t].items = {}

\* The client of the watch had nothing when it asked, or what a snapshot has.
HasSome(w) ==
    \/ w.versionInfo = Blank /\ Known(w.sub) = {}
    \/ \E snap \in Snapshots : NothingChanged(snap, w)

\* The client of the watch is owed nothing of the snapshot, or ADS mode holds it back.
OwedNothing(snap, w) == Missing(snap, w) \/ NothingChanged(snap, w)

\* The streams of the node have never been told of a snapshot.
Untold(n) ==
    \A c \in Streams : NodeOf[c] = n =>
        /\ DOMAIN queue[c] = {}
        /\ \A t \in Types : sub[c][t] # None => Known(sub[c][t]) = {}
        /\ \A t \in Types : told[c][t] \subseteq {Blank}
        /\ pending[c] # None => pending[c].versionInfo = Blank

OwedInv ==
    /\ SnapshotsSet
    /\ \A n \in Nodes : cleared[n] = 0 =>
          /\ \A w \in watches[n] : HasSome(w)
          /\ snapshots[n] = None => Untold(n)
          /\ snapshots[n] # None /\ ~failed[n] => \A w \in watches[n] : OwedNothing(snapshots[n], w)

\* The invariant says what OpenWatchOwedNothing says of each watch.
LEMMA OwedIsNothing == OwedInv => OpenWatchOwedNothing
<1> SUFFICES ASSUME OwedInv, NEW n \in Nodes, NEW w \in watches[n],
                    snapshots[n] # None, ~failed[n], cleared[n] = 0,
                    OwedNothing(snapshots[n], w)
             PROVE  LET items == snapshots[n][w.type].items \cap Watched(w.sub)
                    IN  \/ Ads /\ ~w.sub.wildcard /\ items # snapshots[n][w.type].items
                        \/ /\ w.versionInfo = snapshots[n][w.type].version
                           /\ items \subseteq Known(w.sub)
                           /\ w.type \in FullStateTypes => Known(w.sub) \subseteq items
  BY DEF OwedInv, OpenWatchOwedNothing
<1>1. CASE Missing(snapshots[n], w)
  BY <1>1 DEF Missing
<1>2. CASE NothingChanged(snapshots[n], w)
  BY <1>2 DEF NothingChanged, Changed, Deleted
<1> QED  BY <1>1, <1>2 DEF OwedNothing

\* A watch that a new snapshot does not answer is owed nothing of it: respondSOTWWatches.
LEMMA NotDue ==
    ASSUME BlankIsEmpty, NEW snap \in Snapshots, NEW w \in Watch, HasSome(w),
           snap[w.type].version = w.versionInfo \/ Missing(snap, w)
    PROVE  OwedNothing(snap, w)
<1> SUFFICES ASSUME snap[w.type].version = w.versionInfo
             PROVE  NothingChanged(snap, w)
  BY DEF OwedNothing
<1>1. w.type \in Types
  BY DEF Watch
<1>2. CASE w.versionInfo = Blank /\ Known(w.sub) = {}
  <2>1. snap[w.type].items = {}
    BY <1>1, <1>2 DEF BlankIsEmpty
  <2> QED  BY <1>2, <2>1 DEF NothingChanged, Changed, Deleted
<1>3. ASSUME NEW old \in Snapshots, NothingChanged(old, w) PROVE NothingChanged(snap, w)
  <2>1. old[w.type].version = snap[w.type].version
    BY <1>3 DEF NothingChanged
  <2>2. old[w.type].items = snap[w.type].items
    BY <1>1, <2>1, SnapshotAssumption DEF SnapshotAssumption
  <2> QED  BY <1>3, <2>2 DEF NothingChanged, Changed, Deleted
<1> QED  BY <1>2, <1>3 DEF HasSome

\* SetSnapshot answers the watches that are owed something, unless it is cut short.
LEMMA SetSnapshotOwes ==
    ASSUME BlankIsEmpty, IInv, OwedInv, NEW n \in Nodes, NEW snap \in Snapshots,
           SetSnapshot(n, snap)
    PROVE  OwedInv'
<1>1. TypeOK /\ snap \in Snapshot /\ snap # None /\ round + 1 \in Nat
  <2>1. TypeOK /\ snap \in Snapshot /\ snap # None /\ round \in Nat
    BY SnapshotAssumption DEF SnapshotAssumption, IInv, TypeOK
  <2>2. round + 1 \in Nat
    BY SMTT(30), <2>1
  <2> QED  BY <2>1, <2>2
<1>2. PICK ws \in Answered(Due(n, snap)) : \E q \in orderResponseWatches(Streams, ws) :
          /\ Respond(n, ws, q, [w \in ws |-> createResponse(snap, w, round + 1)])
          /\ failed' = [failed EXCEPT ![n] = (ws # Due(n, snap))]
  BY DEF SetSnapshot
<1>3. PICK q \in Shares(Streams, ws) :
          Respond(n, ws, q, [w \in ws |-> createResponse(snap, w, round + 1)])
  BY <1>2 DEF orderResponseWatches
<1> DEFINE response == [w \in ws |-> createResponse(snap, w, round + 1)]
<1>4. ws \in SUBSET watches[n] /\ ws \in SUBSET Watch /\ response \in [ws -> Response]
  <2>1. ws \in SUBSET watches[n] /\ ws \in SUBSET Watch
    BY <1>1, <1>2 DEF Answered, Due, TypeOK
  <2> QED  BY <1>1, <2>1, CreateResponseType
<1>5. Respond(n, ws, q, response)
  BY <1>3
<1> HIDE DEF response
<1>6. \A c \in Streams : NodeOf[c] # n /\ DOMAIN queue[c] = {} => DOMAIN queue'[c] = {}
  <2>1. \A c \in Streams : \A i \in DOMAIN queue'[c] :
            \/ \E j \in DOMAIN queue[c] : queue'[c][i] = queue[c][j]
            \/ \E w \in ws : w.stream = c /\ queue'[c][i] = response[w]
    BY <1>1, <1>4, <1>5, AnswersQueued
  <2>2. \A w \in ws : NodeOf[w.stream] = n
    BY <1>4 DEF IInv, WatchesAreCancellable
  <2>3. ASSUME NEW c \in Streams, NodeOf[c] # n, DOMAIN queue[c] = {}, NEW i \in DOMAIN queue'[c]
        PROVE  FALSE
    <3>1. \A j : j \notin DOMAIN queue[c]
      BY <2>3
    <3>2. PICK w \in ws : w.stream = c
      BY <2>1, <2>3, <3>1
    <3> QED  BY <2>2, <2>3, <3>2
  <2> QED  BY <2>3
<1>7. /\ snapshots' = [snapshots EXCEPT ![n] = snap]
      /\ UNCHANGED <<cleared, pending, sub, told>>
  BY DEF SetSnapshot
<1>8. /\ \A m \in Nodes : m # n =>
            watches'[m] = watches[m] /\ snapshots'[m] = snapshots[m] /\ failed'[m] = failed[m]
      /\ watches'[n] = watches[n] \ ws /\ snapshots'[n] = snap
      /\ failed'[n] = (ws # Due(n, snap))
  BY <1>1, <1>2, <1>5, <1>7 DEF Respond, TypeOK
<1>9. SnapshotsSet'
  BY <1>8 DEF OwedInv, SnapshotsSet
<1>10. ASSUME NEW m \in Nodes, cleared'[m] = 0
       PROVE  /\ \A w \in watches'[m] : HasSome(w)
              /\ snapshots'[m] = None => Untold(m)'
              /\ snapshots'[m] # None /\ ~failed'[m] =>
                    \A w \in watches'[m] : OwedNothing(snapshots'[m], w)
  <2>1. cleared[m] = 0 /\ \A w \in watches'[m] : w \in watches[m] /\ HasSome(w) /\ w \in Watch
    <3>1. cleared[m] = 0
      BY <1>7, <1>10
    <3>2. watches'[m] \subseteq watches[m] /\ watches[m] \subseteq Watch
      BY <1>1, <1>8 DEF TypeOK
    <3> QED  BY <3>1, <3>2 DEF OwedInv
  <2>2. CASE m = n
    <3>1. ASSUME ~failed'[n], NEW w \in watches'[n] PROVE OwedNothing(snap, w)
      <4>1. w \notin Due(n, snap) /\ w \in watches[n]
        BY <1>8, <3>1
      <4>2. snap[w.type].version = w.versionInfo \/ Missing(snap, w)
        BY <4>1 DEF Due
      <4> QED  BY <2>1, <2>2, <3>1, <4>2, NotDue
    <3> QED  BY <1>1, <1>8, <2>1, <2>2, <3>1
  <2>3. CASE m # n
    <3>1. snapshots[m] = None => Untold(m)'
      BY <1>6, <1>7, <2>1, <2>3 DEF OwedInv, Untold
    <3> QED  BY <1>8, <2>1, <2>3, <3>1 DEF OwedInv
  <2> QED  BY <2>2, <2>3
<1> QED  BY <1>9, <1>10 DEF OwedInv

\* Fewer watches, and streams that are told of nothing, are owed nothing more: sendHeartbeats,
\* ClearSnapshot, and the steps of a stream that open no watch.
LEMMA FewerOwed ==
    ASSUME IInv, OwedInv,
           \A n \in Nodes : /\ watches'[n] \subseteq watches[n]
                            /\ cleared'[n] = 0 =>
                                  /\ UNCHANGED <<snapshots[n], failed[n], cleared[n]>>
                                  /\ snapshots[n] = None /\ Untold(n) => Untold(n)'
                            /\ snapshots'[n] \in {None, snapshots[n]}
    PROVE  OwedInv'
<1>1. SnapshotsSet'
  BY DEF OwedInv, SnapshotsSet
<1>2. ASSUME NEW n \in Nodes, cleared'[n] = 0
      PROVE  /\ \A w \in watches'[n] : HasSome(w)
             /\ snapshots'[n] = None => Untold(n)'
             /\ snapshots'[n] # None /\ ~failed'[n] =>
                   \A w \in watches'[n] : OwedNothing(snapshots'[n], w)
  <2>1. /\ watches'[n] \subseteq watches[n] /\ snapshots'[n] = snapshots[n]
        /\ failed'[n] = failed[n] /\ cleared[n] = 0
        /\ snapshots[n] = None /\ Untold(n) => Untold(n)'
    BY <1>2
  <2> QED  BY <2>1 DEF OwedInv
<1> QED  BY <1>1, <1>2 DEF OwedInv

\* A heartbeat goes to streams of a node that has a snapshot.
LEMMA HeartbeatsOwe ==
    ASSUME IInv, OwedInv, NEW n \in Nodes, SendHeartbeats(n)
    PROVE  OwedInv'
<1> DEFINE ws       == DueHeartbeat(n)
           response == [w \in ws |-> heartbeatResponse(snapshots[n], w)]
<1>1. TypeOK
  BY DEF IInv
<1>2. PICK q \in Shares(Streams, ws) : Respond(n, ws, q, response)
  BY DEF SendHeartbeats
<1>3. /\ ws \in SUBSET watches[n] /\ ws \in SUBSET Watch
      /\ snapshots[n] # None /\ snapshots[n] \in Snapshot
  BY <1>1 DEF DueHeartbeat, TypeOK, SendHeartbeats
<1>4. response \in [ws -> Response]
  BY <1>3, HeartbeatType
<1> HIDE DEF ws, response
<1>5. \A c \in Streams : \A i \in DOMAIN queue'[c] :
          \/ \E j \in DOMAIN queue[c] : queue'[c][i] = queue[c][j]
          \/ \E w \in ws : w.stream = c /\ queue'[c][i] = response[w]
  BY <1>1, <1>2, <1>3, <1>4, AnswersQueued
<1>6. \A w \in ws : NodeOf[w.stream] = n
  BY <1>3 DEF IInv, WatchesAreCancellable
<1>7. UNCHANGED <<snapshots, failed, cleared, pending, sub, told>>
  BY DEF SendHeartbeats
<1>8. \A m \in Nodes : watches'[m] \subseteq watches[m]
  BY <1>1, <1>2 DEF Respond, TypeOK
<1>9. ASSUME NEW m \in Nodes, snapshots[m] = None, Untold(m) PROVE Untold(m)'
  <2>1. ASSUME NEW c \in Streams, NodeOf[c] = m, NEW i \in DOMAIN queue'[c] PROVE FALSE
    <3>1. \A j : j \notin DOMAIN queue[c]
      BY <1>9, <2>1 DEF Untold
    <3>2. PICK w \in ws : w.stream = c
      BY <1>5, <2>1, <3>1
    <3> QED  BY <1>3, <1>6, <1>9, <2>1, <3>2
  <2> QED  BY <1>7, <1>9, <2>1 DEF Untold
<1> QED  BY <1>7, <1>8, <1>9, FewerOwed

\* A node that was cleared is not spoken of.
LEMMA ClearSnapshotOwes ==
    ASSUME IInv, OwedInv, NEW n \in Nodes, ClearSnapshot(n)
    PROVE  OwedInv'
<1>1. /\ snapshots' = [snapshots EXCEPT ![n] = None]
      /\ watches' = [watches EXCEPT ![n] = {}]
      /\ failed' = [failed EXCEPT ![n] = FALSE]
      /\ cleared' = [cleared EXCEPT ![n] = @ + 1]
      /\ UNCHANGED <<pending, sub, queue, told>>
  BY DEF ClearSnapshot, streamVars
<1>2. /\ cleared'[n] = cleared[n] + 1 /\ cleared[n] \in Nat
      /\ watches'[n] = {} /\ snapshots'[n] = None
      /\ \A m \in Nodes : m # n =>
            /\ watches'[m] = watches[m] /\ snapshots'[m] = snapshots[m]
            /\ failed'[m] = failed[m] /\ cleared'[m] = cleared[m]
  BY <1>1 DEF IInv, TypeOK
<1>3. cleared'[n] # 0
  BY SMTT(30), <1>2
<1>4. \A m \in Nodes : Untold(m) => Untold(m)'
  BY <1>1 DEF Untold
<1>5. ASSUME NEW m \in Nodes
      PROVE  /\ watches'[m] \subseteq watches[m] /\ snapshots'[m] \in {None, snapshots[m]}
             /\ cleared'[m] = 0 => UNCHANGED <<snapshots[m], failed[m], cleared[m]>>
  <2>1. CASE m = n
    BY <1>2, <1>3, <2>1
  <2>2. CASE m # n
    BY <1>2, <2>2
  <2> QED  BY <2>1, <2>2
<1> QED  BY <1>4, <1>5, FewerOwed

\* A stream that is opened, ends, closes a watch or finds its channel empty opens none.
LEMMA StreamOwes ==
    ASSUME IInv, OwedInv, NEW c \in Streams,
           \/ Open(c)
           \/ Shutdown(c)
           \/ \E req \in Request : CloseWatch(c, req)
           \/ processAllExcept(c) /\ queue[c] = <<>>
    PROVE  OwedInv'
<1>1. UNCHANGED <<snapshots, failed, cleared>>
  BY DEF Open, Shutdown, CloseWatch, processAllExcept, cacheVars
<1>2. \A n \in Nodes : watches'[n] \subseteq watches[n]
  <2>1. CASE Open(c) \/ processAllExcept(c)
    BY <2>1 DEF Open, processAllExcept, cacheVars
  <2>2. CASE Shutdown(c)
    BY <2>2, CancelledWatches DEF Shutdown
  <2>3. ASSUME NEW req \in Request, CloseWatch(c, req) PROVE \A n \in Nodes : watches'[n] \subseteq watches[n]
    <3>1. {req.type} \in SUBSET Types
      BY DEF Request
    <3> QED  BY <2>3, <3>1, CancelledWatches DEF CloseWatch
  <2> QED  BY <2>1, <2>2, <2>3
<1>3. ASSUME NEW n \in Nodes, snapshots[n] = None, Untold(n) PROVE Untold(n)'
  <2>1. CASE Open(c) \/ (processAllExcept(c) /\ queue[c] = <<>>)
    <3>1. UNCHANGED <<queue, sub, told, pending>>
      BY <2>1 DEF Open, processAllExcept
    <3> QED  BY <1>3, <3>1 DEF Untold
  <2>2. CASE Shutdown(c)
    <3>1. /\ pending' = [pending EXCEPT ![c] = None]
          /\ sub' = [sub EXCEPT ![c] = [t \in Types |-> None]]
          /\ queue' = [queue EXCEPT ![c] = <<>>]
          /\ told' = [told EXCEPT ![c] = [t \in Types |-> {}]]
      BY <2>2 DEF Shutdown
    <3>2. /\ pending'[c] = None /\ queue'[c] = <<>>
          /\ \A t \in Types : sub'[c][t] = None /\ told'[c][t] = {}
          /\ \A d \in Streams : d # c => /\ pending'[d] = pending[d] /\ sub'[d] = sub[d]
                                         /\ queue'[d] = queue[d] /\ told'[d] = told[d]
      BY <3>1 DEF IInv, TypeOK
    <3>3. DOMAIN queue'[c] = {}
      BY SMTT(30), <3>2
    <3> QED  BY ZenonT(40), <1>3, <3>2, <3>3 DEF Untold
  <2>3. ASSUME NEW req \in Request, CloseWatch(c, req) PROVE Untold(n)'
    <3>1. /\ UNCHANGED <<queue, sub, told>> /\ pending' = [pending EXCEPT ![c] = req]
          /\ req.versionInfo \in told[c][req.type] /\ req.type \in Types
      BY <2>3 DEF CloseWatch, Request
    <3>2. pending'[c] = req /\ \A d \in Streams : d # c => pending'[d] = pending[d]
      BY <3>1 DEF IInv, TypeOK
    <3>3. NodeOf[c] = n => req.versionInfo = Blank
      BY <1>3, <3>1 DEF Untold
    <3> QED  BY <1>3, <3>1, <3>2, <3>3 DEF Untold
  <2> QED  BY <2>1, <2>2, <2>3
<1> QED  BY <1>1, <1>2, <1>3, FewerOwed

\* A stream takes a response only where there is a snapshot.
LEMMA TookOwes ==
    ASSUME IInv, OwedInv, NEW c \in Streams, NEW i \in DOMAIN queue[c], Took(c, i)
    PROVE  OwedInv'
<1>1. UNCHANGED <<snapshots, failed, cleared, watches, pending>>
  BY DEF Took, cacheVars
<1>2. ASSUME NEW n \in Nodes, Untold(n) PROVE Untold(n)'
  <2>1. NodeOf[c] # n
    BY <1>2 DEF Untold
  <2>2. \A d \in Streams : d # c => queue'[d] = queue[d] /\ sub'[d] = sub[d] /\ told'[d] = told[d]
    <3>1. \A d \in Streams : d # c => queue'[d] = queue[d]
      BY DEF Took
    <3> DEFINE t == queue[c][i].type
    <3>2. \/ UNCHANGED <<sub, told>>
          \/ /\ \E s : sub' = [sub EXCEPT ![c][t] = s]
             /\ \E v : told' = [told EXCEPT ![c][t] = v]
      BY DEF Took, Send
    <3> HIDE DEF t
    <3>3. DOMAIN sub = Streams /\ DOMAIN told = Streams
      BY DEF IInv, TypeOK
    <3> QED  BY <3>1, <3>2, <3>3
  <2> QED  BY <1>1, <1>2, <2>1, <2>2 DEF Untold
<1> QED  BY <1>1, <1>2, FewerOwed

\* A request brings no knowledge of resources: NewSotwSubscription and SetResourceSubscription.
LEMMA RequestKnows ==
    ASSUME NEW names
    PROVE  /\ Known(NewSotwSubscription(names, LegacyWildcard)) = {}
           /\ \A s : Known(SetResourceSubscription(s, names)) \subseteq Known(s)
<1>1. \A s : Known(SetResourceSubscription(s, names)) \subseteq Known(s)
  BY DEF SetResourceSubscription, Known
<1> DEFINE s == newSubscription(names = {}, LegacyWildcard, NothingKnown)
<1>2. Known(s) = {}
  BY DEF Known, newSubscription, NothingKnown
<1> HIDE DEF s
<1>3. Known(SetResourceSubscription(s, names)) = {}
  BY <1>1, <1>2
<1> QED  BY <1>1, <1>3 DEF NewSotwSubscription, s

\* CreateWatch opens a watch for a client that has what the snapshot has, or, before there is
\* one, for a client that has nothing.
LEMMA CreateWatchOwes ==
    ASSUME IInv, OwedInv, NEW c \in Streams, NEW req \in Request, NEW s \in Sub,
           NEW q \in Seq(Response), CreateWatch(c, req, s, q),
           cleared[NodeOf[c]] = 0 /\ snapshots[NodeOf[c]] = None =>
              req.versionInfo = Blank /\ Known(s) = {} /\ \A i : i \notin DOMAIN q
    PROVE  OwedInv'
<1> DEFINE n    == NodeOf[c]
           snap == snapshots[n]
           w    == [id |-> watchCount + 1, stream |-> c, type |-> req.type,
                    versionInfo |-> req.versionInfo, sub |-> s]
           answers == snap # None /\ ~Missing(snap, w) /\ ~NothingChanged(snap, w)
           r    == IF answers THEN Append(q, createResponse(snap, w, 0)) ELSE q
<1>1. n \in Nodes /\ TypeOK /\ req.type \in Types
  BY SnapshotAssumption DEF SnapshotAssumption, IInv, Request
<1>2. /\ queue' = [queue EXCEPT ![c] = r]
      /\ IF Opens(snap, w) THEN watches' = [watches EXCEPT ![n] = @ \cup {w}]
                           ELSE watches' = watches
      /\ sub' = [sub EXCEPT ![c][req.type] = s]
      /\ told' = [told EXCEPT ![c][req.type] = @ \cup {req.versionInfo}]
      /\ pending' = [pending EXCEPT ![c] = None]
      /\ UNCHANGED <<snapshots, failed, cleared>>
  BY DEF CreateWatch
<1>3. snap = None => r = q
  OBVIOUS
<1>4. w.versionInfo = req.versionInfo /\ w.sub = s
  OBVIOUS
<1> HIDE DEF w, r, snap, answers
<1>5. /\ queue'[c] = r /\ pending'[c] = None
      /\ sub'[c][req.type] = s /\ told'[c][req.type] = told[c][req.type] \cup {req.versionInfo}
      /\ \A t \in Types : t # req.type => sub'[c][t] = sub[c][t] /\ told'[c][t] = told[c][t]
      /\ \A d \in Streams : d # c => /\ queue'[d] = queue[d] /\ pending'[d] = pending[d]
                                     /\ sub'[d] = sub[d] /\ told'[d] = told[d]
  BY <1>1, <1>2 DEF TypeOK
<1>6. \A m \in Nodes : \A v \in watches'[m] : v \in watches[m] \/ (m = n /\ v = w /\ Opens(snap, w))
  <2>1. CASE Opens(snap, w)
    <3>1. watches' = [watches EXCEPT ![n] = @ \cup {w}] /\ watches \in [Nodes -> SUBSET Watch]
      BY <1>1, <1>2, <2>1 DEF TypeOK
    <3>2. \A m \in Nodes : watches'[m] = IF m = n THEN watches[n] \cup {w} ELSE watches[m]
      BY <3>1
    <3> QED  BY <2>1, <3>2
  <2>2. CASE ~Opens(snap, w)
    BY <1>2, <2>2
  <2> QED  BY <2>1, <2>2
<1>7. SnapshotsSet'
  BY <1>2 DEF OwedInv, SnapshotsSet
<1>8. ASSUME NEW m \in Nodes, cleared'[m] = 0
      PROVE  /\ \A v \in watches'[m] : HasSome(v)
             /\ snapshots'[m] = None => Untold(m)'
             /\ snapshots'[m] # None /\ ~failed'[m] =>
                   \A v \in watches'[m] : OwedNothing(snapshots'[m], v)
  <2>1. /\ cleared[m] = 0 /\ snapshots'[m] = snapshots[m] /\ failed'[m] = failed[m]
        /\ \A v \in watches[m] : HasSome(v)
        /\ snapshots[m] = None => Untold(m)
        /\ snapshots[m] # None /\ ~failed[m] => \A v \in watches[m] : OwedNothing(snapshots[m], v)
    <3>1. cleared[m] = 0 /\ snapshots'[m] = snapshots[m] /\ failed'[m] = failed[m]
      BY <1>2, <1>8
    <3> QED  BY <3>1 DEF OwedInv
  <2>2. ASSUME m = n, Opens(snap, w)
        PROVE  HasSome(w) /\ (snapshots[m] # None => OwedNothing(snapshots[m], w))
    <3>1. CASE snap = None
      <4>1. req.versionInfo = Blank /\ Known(s) = {} /\ snapshots[m] = None
        BY <2>1, <2>2, <3>1 DEF snap
      <4> QED  BY <1>4, <4>1 DEF HasSome
    <3>2. CASE snap # None
      <4>1. NothingChanged(snap, w) /\ snap = snapshots[m]
        BY <2>2, <3>2 DEF Opens, snap
      <4>2. snap \in Snapshots
        BY <3>2, <4>1 DEF OwedInv, SnapshotsSet
      <4> QED  BY <4>1, <4>2 DEF HasSome, OwedNothing
    <3> QED  BY <3>1, <3>2
  <2>3. ASSUME snapshots[m] = None PROVE Untold(m)'
    <3> SUFFICES ASSUME NEW d \in Streams, NodeOf[d] = m
                 PROVE  /\ DOMAIN queue'[d] = {}
                        /\ \A t \in Types : sub'[d][t] # None => Known(sub'[d][t]) = {}
                        /\ \A t \in Types : told'[d][t] \subseteq {Blank}
                        /\ pending'[d] # None => pending'[d].versionInfo = Blank
      BY DEF Untold
    <3>1. /\ DOMAIN queue[d] = {}
          /\ \A t \in Types : sub[d][t] # None => Known(sub[d][t]) = {}
          /\ \A t \in Types : told[d][t] \subseteq {Blank}
          /\ pending[d] # None => pending[d].versionInfo = Blank
      BY <2>1, <2>3 DEF Untold
    <3>2. CASE d = c
      <4>1. req.versionInfo = Blank /\ Known(s) = {} /\ DOMAIN r = {}
        <5>1. snap = None /\ snapshots[NodeOf[c]] = None /\ cleared[NodeOf[c]] = 0
          BY <2>1, <2>3, <3>2 DEF snap
        <5> QED  BY <1>3, <5>1
      <4>2. \A t \in Types : sub'[c][t] # None => Known(sub'[c][t]) = {}
        BY <1>5, <3>1, <3>2, <4>1
      <4>3. \A t \in Types : told'[c][t] \subseteq {Blank}
        BY <1>5, <3>1, <3>2, <4>1
      <4> QED  BY <1>5, <3>2, <4>1, <4>2, <4>3
    <3>3. CASE d # c
      BY <1>5, <3>1, <3>3
    <3> QED  BY <3>2, <3>3
  <2> QED  BY <1>6, <2>1, <2>2, <2>3
<1> QED  BY <1>7, <1>8 DEF OwedInv

\* The first request for a type, from a client that has nothing while there is no snapshot.
LEMMA FirstRequestOwes ==
    ASSUME IInv, OwedInv, NEW c \in Streams, NEW req \in Request, FirstRequest(c, req),
           cleared[NodeOf[c]] = 0 /\ snapshots[NodeOf[c]] = None => req.versionInfo = Blank
    PROVE  OwedInv'
<1> DEFINE s == NewSotwSubscription(req.resourceNames, LegacyWildcard)
<1>1. /\ req.resourceNames \in SUBSET Tokens /\ queue[c] \in Seq(Response)
      /\ NodeOf[c] \in Nodes
  BY SnapshotAssumption DEF SnapshotAssumption, Request, IInv, TypeOK
<1>2. s \in Sub /\ Known(s) = {}
  BY <1>1, SubscriptionType, RequestKnows
<1> HIDE DEF s
<1>3. CreateWatch(c, req, s, queue[c])
  BY DEF FirstRequest, s
<1>4. ASSUME cleared[NodeOf[c]] = 0, snapshots[NodeOf[c]] = None PROVE \A i : i \notin DOMAIN queue[c]
  BY <1>1, <1>4 DEF OwedInv, Untold
<1> QED  BY <1>1, <1>2, <1>3, <1>4, CreateWatchOwes

\* A later request for the type, which was closed with a version the client was told.
LEMMA RewatchOwes ==
    ASSUME IInv, OwedInv, NEW c \in Streams, Rewatch(c)
    PROVE  OwedInv'
<1> DEFINE req == pending[c]
           s   == SetResourceSubscription(sub[c][req.type], req.resourceNames)
           q   == Kept(c, req.type)
<1>1. /\ pc[c] = "cancelled" /\ CreateWatch(c, req, s, q)
  BY DEF Rewatch
<1>2. /\ req \in Request /\ sub[c][req.type] \in Sub /\ q \in Seq(Response)
      /\ \A i \in DOMAIN q : \E j \in DOMAIN queue[c] : q[i] = queue[c][j]
  BY ZenonT(40), <1>1, RewatchRequest
<1>3. /\ req.type \in Types /\ req.resourceNames \in SUBSET Tokens
      /\ sub[c][req.type] # None /\ req # None /\ NodeOf[c] \in Nodes
  BY <1>2, SnapshotAssumption DEF Request, SnapshotAssumption
<1>4. s \in Sub /\ Known(s) \subseteq Known(sub[c][req.type])
  BY <1>2, <1>3, SubscriptionType, RequestKnows
<1>5. ASSUME cleared[NodeOf[c]] = 0, snapshots[NodeOf[c]] = None
      PROVE  req.versionInfo = Blank /\ Known(s) = {} /\ \A i : i \notin DOMAIN q
  <2>1. /\ \A i : i \notin DOMAIN queue[c]
        /\ Known(sub[c][req.type]) = {} /\ req.versionInfo = Blank
    BY <1>3, <1>5 DEF OwedInv, Untold
  <2> HIDE DEF req, s, q
  <2> QED  BY <1>2, <1>4, <2>1
<1> HIDE DEF req, s, q
<1> QED  BY <1>1, <1>2, <1>4, <1>5, CreateWatchOwes

\* At first there is neither a snapshot nor a watch.
LEMMA InitOwes == Init => OwedInv
<1> SUFFICES ASSUME Init PROVE OwedInv
  OBVIOUS
<1>1. /\ \A n \in Nodes : snapshots[n] = None /\ watches[n] = {}
      /\ \A c \in Streams : /\ queue[c] = <<>> /\ pending[c] = None
                            /\ \A t \in Types : sub[c][t] = None /\ told[c][t] = {}
  BY DEF Init
<1>2. \A c \in Streams : DOMAIN queue[c] = {}
  BY SMTT(30), <1>1
<1>3. SnapshotsSet /\ \A n \in Nodes : Untold(n)
  BY <1>1, <1>2 DEF SnapshotsSet, Untold
<1> QED  BY <1>1, <1>3 DEF OwedInv

\* Every step keeps open watches owed nothing, if a stream of a node that never had a snapshot
\* begins with no version.
LEMMA StepOwes ==
    ASSUME BlankIsEmpty, NEW requests \in [Streams -> SUBSET Request],
           \A c \in Streams : \A req \in requests[c] :
              FirstRequest(c, req) /\ cleared[NodeOf[c]] = 0 /\ snapshots[NodeOf[c]] = None =>
                 req.versionInfo = Blank,
           IInv, OwedInv, CacheStep(requests)
    PROVE  OwedInv'
<1>1. CASE UNCHANGED vars
  <2>1. UNCHANGED <<snapshots, watches, failed, cleared, queue, sub, told, pending>>
    BY <1>1 DEF vars, cacheVars, streamVars
  <2>2. \A n \in Nodes : Untold(n) => Untold(n)'
    BY <2>1 DEF Untold
  <2> QED  BY <2>1, <2>2, FewerOwed
<1>2. CASE CacheNext
  BY <1>2, SetSnapshotOwes, HeartbeatsOwe, ClearSnapshotOwes DEF CacheNext
<1>3. ASSUME NEW c \in Streams, Open(c) \/ Shutdown(c) PROVE OwedInv'
  BY <1>3, StreamOwes
<1>4. ASSUME NEW c \in Streams, NEW req \in requests[c], FirstRequest(c, req) \/ CloseWatch(c, req)
      PROVE  OwedInv'
  <2>1. req \in Request
    OBVIOUS
  <2> QED  BY <1>4, <2>1, FirstRequestOwes, StreamOwes
<1>5. ASSUME NEW c \in Streams, Rewatch(c) PROVE OwedInv'
  BY <1>5, RewatchOwes
<1>6. ASSUME NEW c \in Streams, processAllExcept(c) PROVE OwedInv'
  <2>1. CASE queue[c] = <<>>
    BY <1>6, <2>1, StreamOwes
  <2>2. CASE queue[c] # <<>>
    BY <1>6, <2>2, ProcessAllExceptTook, TookOwes
  <2> QED  BY <2>1, <2>2
<1>7. ASSUME NEW c \in Streams, NEW i \in DOMAIN queue[c], SendResponse(c, i) PROVE OwedInv'
  BY <1>7, SendResponseTook, TookOwes
<1> QED  BY <1>1, <1>2, <1>3, <1>4, <1>5, <1>6, <1>7 DEF CacheStep

\* An open watch is owed nothing of the snapshot of its node, unless the last SetSnapshot was
\* cut short, the node was cleared or ADS mode holds the answer back.  A client that reconnects
\* with a version before there is a snapshot is believed to have it, so there is none here.
THEOREM NothingOwed ==
    ASSUME ~Reconnects, BlankIsEmpty
    PROVE  Spec => []OpenWatchOwedNothing
<1>1. ASSUME IInv, OwedInv, [Next]_vars PROVE OwedInv'
  <2>1. PICK requests \in [Streams -> SUBSET Request] : CacheStep(requests)
    BY <1>1, NextIsStep
  <2>2. \A c \in Streams : \A req \in requests[c] : FirstRequest(c, req) => req.versionInfo = Blank
    BY DEF FirstRequest
  <2> QED  BY <1>1, <2>1, <2>2, StepOwes
<1> QED  BY <1>1, InitOwes, OwedIsNothing, Invariance, PTL DEF Spec
=============================================================================
