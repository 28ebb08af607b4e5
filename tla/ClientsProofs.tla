----------------------------- MODULE ClientsProofs -----------------------------
(***************************************************************************)
(* What the clients of the snapshot cache may rely on, for any number of   *)
(* them: REST pollers and the client library.                              *)
(***************************************************************************)
EXTENDS Clients, SotwClientInvariant

\* A leaf is for Zenon, or for the SMT solver where it cites it: arithmetic and sequences.
USE Zenon

-----------------------------------------------------------------------------
(* REST pollers.                                                           *)

\* The variables of the pollers are well formed.
RestTypes ==
    /\ listed \in [Pollers -> PollerNames]
    /\ polled \in [Pollers -> VersionInfos]
    /\ holds \in [Pollers -> Holding]
    /\ exchange \in [Pollers -> Exchange]

\* What the poller, the gateway and Fetch exchange is well formed.
LEMMA RestTypesKept ==
    ASSUME RestTypes, SnapshotsSet, NEW p \in Pollers, RestStep(p)
    PROVE  RestTypes'
<1>1. /\ PollerType[p] \in Types /\ PollerNode[p] \in Nodes /\ listed[p] \in SUBSET Names
      /\ Blank \in VersionInfos /\ exchange[p] \in Exchange
      /\ \A snap \in Snapshots : snap \in Snapshot
  BY PollerAssumption, SnapshotAssumption DEF PollerAssumption, SnapshotAssumption, RestTypes
<1>2. \A status \in Statuses : \A snap \in Snapshot \cup {None} : Empty(status, snap) \in Exchange
  BY <1>1 DEF Empty, Exchange
<1>3. CASE Ask(p)
  <2>1. Empty("asked", None) \in Exchange
    BY <1>2 DEF Statuses
  <2> QED  BY <1>3, <2>1 DEF Ask, RestTypes
<1>4. CASE FetchSnapshot(p)
  <2>1. PICK snap : snap = snapshots[PollerNode[p]]
    OBVIOUS
  <2> DEFINE answer == IF snap = None THEN Empty("InternalServerError", snap)
                       ELSE IF UpToDate(p, snap) THEN Empty("NotModified", snap)
                       ELSE [Empty("OK", snap) EXCEPT !.version = snap[PollerType[p]].version,
                                                      !.resources = Listing(p, snap)]
  <2>2. exchange' = [exchange EXCEPT ![p] = answer] /\ UNCHANGED <<listed, polled, holds>>
    BY <1>4, <2>1 DEF FetchSnapshot
  <2>3. snap # None => snap \in Snapshot
    BY <1>1, <2>1 DEF SnapshotsSet
  <2>4. answer \in Exchange
    <3>1. Empty("InternalServerError", None) \in Exchange
      BY <1>2 DEF Statuses
    <3>2. ASSUME snap \in Snapshot
          PROVE  Empty("NotModified", snap) \in Exchange /\ Empty("OK", snap) \in Exchange
      BY <1>2, <3>2 DEF Statuses
    <3>3. ASSUME snap \in Snapshot
          PROVE  snap[PollerType[p]].version \in VersionInfos /\ Listing(p, snap) \in SUBSET Names
      BY <1>1, <3>3 DEF Snapshot, Listing
    <3>4. ASSUME snap \in Snapshot
          PROVE  [Empty("OK", snap) EXCEPT !.version = snap[PollerType[p]].version,
                                           !.resources = Listing(p, snap)] \in Exchange
      BY <3>2, <3>3, <3>4 DEF Exchange
    <3> QED  BY <2>3, <3>1, <3>2, <3>4
  <2> HIDE DEF answer
  <2> QED  BY <2>2, <2>4 DEF RestTypes
<1>5. CASE Take(p)
  <2>1. Empty("idle", None) \in Exchange /\ exchange' = [exchange EXCEPT ![p] = Empty("idle", None)]
        /\ listed' = listed
    BY <1>2, <1>5 DEF Statuses, Take
  <2>2. exchange[p].version \in VersionInfos
    BY <1>1 DEF Exchange
  <2>3. [n \in Names |-> IF n \in exchange[p].resources THEN exchange[p].version ELSE None] \in Holding
    BY <2>2 DEF Holding
  <2>4. polled' \in [Pollers -> VersionInfos] /\ holds' \in [Pollers -> Holding]
    BY <1>5, <2>2, <2>3 DEF Take, RestTypes
  <2> QED  BY <2>1, <2>4 DEF RestTypes
<1> QED  BY <1>3, <1>4, <1>5 DEF RestStep

\* What a poller has is what it lists of the snapshot whose version it polls with.
HasPolled(p) ==
    \/ polled[p] = Blank /\ holds[p] = NothingKnown
    \/ \E snap \in Snapshots :
          polled[p] = snap[PollerType[p]].version /\ HoldsListing(p, snap)

\* The answer it waits for was made from a snapshot of the control plane.
AnswerOf(p, snap) ==
    /\ exchange[p].status = "OK" =>
          /\ snap \in Snapshots
          /\ exchange[p].version = snap[PollerType[p]].version
          /\ exchange[p].resources = Listing(p, snap)
    /\ exchange[p].status = "NotModified" => snap \in Snapshots /\ UpToDate(p, snap)

\* What every poller holds and is being answered.
PollInv == \A p \in Pollers : HasPolled(p) /\ AnswerOf(p, exchange[p].of)

\* Two snapshots with the same version of the type have the same contents of it, and one
\* with no version has none: the poller that has one has the other.
LEMMA SameListing ==
    ASSUME BlankIsEmpty, PollInv, NEW p \in Pollers, NEW snap \in Snapshots, UpToDate(p, snap)
    PROVE  HoldsListing(p, snap)
<1> DEFINE t == PollerType[p]
<1>1. t \in Types /\ snap[t].version = polled[p]
  BY PollerAssumption DEF PollerAssumption, UpToDate
<1>2. CASE polled[p] = Blank /\ holds[p] = NothingKnown
  <2>1. snap[t].items = {}
    BY <1>1, <1>2 DEF BlankIsEmpty
  <2> QED  BY <1>2, <2>1 DEF HoldsListing, NothingKnown
<1>3. ASSUME NEW old \in Snapshots, polled[p] = old[t].version, HoldsListing(p, old)
      PROVE  HoldsListing(p, snap)
  <2>1. old[t].version = snap[t].version
    BY <1>1, <1>3
  <2>2. old[t].items = snap[t].items
    <3> HIDE DEF t
    <3> QED  BY <1>1, <2>1, SnapshotAssumption DEF SnapshotAssumption
  <2> QED  BY <1>3, <2>1, <2>2 DEF HoldsListing
<1> QED  BY <1>2, <1>3 DEF PollInv, HasPolled

\* A poller's request, its answer from Fetch and what it takes from it keep that; other
\* pollers are left alone.
LEMMA PollerKept ==
    ASSUME RestTypes, SnapshotsSet, PollInv, NEW p \in Pollers, RestStep(p)
    PROVE  PollInv'
<1> DEFINE t == PollerType[p]
<1>1. /\ t \in Types /\ PollerNode[p] \in Nodes /\ Snapshots \subseteq Snapshot
      /\ exchange \in [Pollers -> Exchange] /\ polled \in [Pollers -> VersionInfos]
      /\ holds \in [Pollers -> Holding]
  BY PollerAssumption, SnapshotAssumption DEF PollerAssumption, SnapshotAssumption, RestTypes
<1>2. listed' = listed
  BY DEF RestStep, Ask, FetchSnapshot, Take
<1>3. ASSUME NEW o \in Pollers, o # p
      PROVE  polled'[o] = polled[o] /\ holds'[o] = holds[o] /\ exchange'[o] = exchange[o]
  BY <1>1, <1>3 DEF RestStep, Ask, FetchSnapshot, Take
<1>4. ASSUME NEW o \in Pollers, polled'[o] = polled[o], holds'[o] = holds[o] PROVE HasPolled(o)'
  <2>1. \A snap : HoldsListing(o, snap) => HoldsListing(o, snap)'
    BY <1>2, <1>4 DEF HoldsListing
  <2> QED  BY <1>4, <2>1 DEF PollInv, HasPolled
<1>5. ASSUME NEW o \in Pollers, o # p PROVE HasPolled(o)' /\ AnswerOf(o, exchange[o].of)'
  <2>1. HasPolled(o)'
    BY <1>3, <1>4, <1>5
  <2>2. AnswerOf(o, exchange[o].of)'
    BY <1>2, <1>3, <1>5 DEF PollInv, AnswerOf, Listing, UpToDate
  <2> QED  BY <2>1, <2>2
<1>6. CASE Ask(p)
  <2>1. exchange'[p].status = "asked" /\ polled'[p] = polled[p] /\ holds'[p] = holds[p]
    BY <1>1, <1>6 DEF Ask, Empty
  <2>2. HasPolled(p)' /\ AnswerOf(p, exchange[p].of)'
    BY <1>4, <2>1 DEF AnswerOf
  <2> QED  BY <1>5, <2>2 DEF PollInv
<1>7. CASE FetchSnapshot(p)
  <2>1. PICK snap : snap = snapshots[PollerNode[p]]
    OBVIOUS
  <2>2. /\ polled'[p] = polled[p] /\ holds'[p] = holds[p]
        /\ exchange'[p] = IF snap = None THEN Empty("InternalServerError", snap)
                          ELSE IF UpToDate(p, snap) THEN Empty("NotModified", snap)
                          ELSE [Empty("OK", snap) EXCEPT !.version = snap[PollerType[p]].version,
                                                         !.resources = Listing(p, snap)]
    BY <1>1, <1>7, <2>1 DEF FetchSnapshot
  <2>3. snap # None => snap \in Snapshots
    BY <1>1, <2>1 DEF SnapshotsSet
  <2>4. Listing(p, snap)' = Listing(p, snap) /\ UpToDate(p, snap)' = UpToDate(p, snap)
    BY <1>2, <2>2 DEF Listing, UpToDate
  <2>5. exchange'[p].of = snap /\ AnswerOf(p, snap)'
    <3>1. CASE snap = None
      <4>a. exchange'[p] = Empty("InternalServerError", snap)
        BY <2>2, <3>1
      <4>1. exchange'[p].of = snap /\ exchange'[p].status = "InternalServerError"
        BY SMTT(30), <4>a DEF Empty
      <4> QED  BY <4>1 DEF AnswerOf
    <3>2. CASE snap # None /\ UpToDate(p, snap)
      <4>a. exchange'[p] = Empty("NotModified", snap)
        BY <2>2, <3>2
      <4>1. exchange'[p].of = snap /\ exchange'[p].status = "NotModified"
        BY SMTT(30), <4>a DEF Empty
      <4> QED  BY <2>3, <2>4, <3>2, <4>1 DEF AnswerOf
    <3>3. CASE snap # None /\ ~UpToDate(p, snap)
      <4>1. /\ exchange'[p].of = snap /\ exchange'[p].status = "OK"
            /\ exchange'[p].version = snap[PollerType[p]].version
            /\ exchange'[p].resources = Listing(p, snap)
        BY <2>2, <3>3 DEF Empty
      <4> QED  BY <2>3, <2>4, <3>3, <4>1 DEF AnswerOf
    <3> QED  BY <3>1, <3>2, <3>3
  <2>6. HasPolled(p)'
    BY <1>4, <2>2
  <2> QED  BY <1>5, <2>5, <2>6 DEF PollInv
<1>8. CASE Take(p)
  <2>1. exchange'[p].status = "idle"
    BY <1>1, <1>8 DEF Take, Empty
  <2>2. AnswerOf(p, exchange[p].of)'
    BY <2>1 DEF AnswerOf
  <2>3. CASE exchange[p].status = "OK"
    <3>1. PICK snap : snap = exchange[p].of
      OBVIOUS
    <3>2. /\ snap \in Snapshots /\ exchange[p].version = snap[t].version
          /\ exchange[p].resources = Listing(p, snap)
      BY <2>3, <3>1 DEF PollInv, AnswerOf
    <3>3. Listing(p, snap) = Listing(p, snap)' /\ snap \in Snapshot
      BY <1>1, <1>2, <3>2 DEF Listing
    <3>4. /\ polled' = [polled EXCEPT ![p] = exchange[p].version]
          /\ holds' = [holds EXCEPT ![p] =
                [n \in Names |-> IF n \in exchange[p].resources THEN exchange[p].version ELSE None]]
      BY <1>8, <2>3 DEF Take
    <3>5. polled'[p] = snap[t].version
      BY <1>1, <3>2, <3>4
    <3>6. holds'[p] = [n \in Names |-> IF n \in Listing(p, snap)' THEN snap[t].version ELSE None]
      BY <1>1, <3>2, <3>3, <3>4
    <3>7. HoldsListing(p, snap)'
      <4>1. \A n \in Names : n \in Listing(p, snap)' <=>
               n \in snap[t].items /\ (listed'[p] = {} \/ n \in listed'[p])
        BY DEF Listing
      <4> QED  BY <3>6, <4>1 DEF HoldsListing
    <3>8. HasPolled(p)'
      BY <3>2, <3>5, <3>7 DEF HasPolled
    <3> QED  BY <1>5, <2>2, <3>8 DEF PollInv
  <2>4. CASE exchange[p].status # "OK"
    <3>1. polled'[p] = polled[p] /\ holds'[p] = holds[p]
      BY <1>8, <2>4 DEF Take
    <3> QED  BY <1>4, <1>5, <2>2, <3>1 DEF PollInv
  <2> QED  BY <2>3, <2>4
<1> QED  BY <1>6, <1>7, <1>8 DEF RestStep

-----------------------------------------------------------------------------
(* Types of the client library and of the messages on their way.           *)

\* The variables of the client library are well formed.
AdsTypes ==
    /\ WireTypes
    /\ pipelined \in [Streams -> BOOLEAN]
    /\ received \in [Streams -> VersionInfos]
    /\ phase \in [Streams -> {"unconnected", "ready", "fetching"}]
    /\ handed \in [Streams -> Seq(Response)]
    /\ rejected \in [Streams -> SUBSET VersionInfos]

\* sendRequest sends a well formed request, or none.
LEMMA SendRequestType ==
    ASSUME WireTypes, NEW c \in Streams, NEW connected \in BOOLEAN, NEW v \in VersionInfos,
           NEW k \in Nat, sendRequest(c, connected, v, k)
    PROVE  up' \in [Streams -> Seq(Messages)]
<1> DEFINE m == Message(TypeURL[c], {}, v, k)
<1>1. m \in Messages
  BY AdsClientAssumption, MessageType DEF AdsClientAssumption
<1> HIDE DEF m
<1>2. Append(up[c], m) \in Seq(Messages)
  BY SMTT(30), <1>1 DEF WireTypes
<1> QED  BY <1>2 DEF sendRequest, WireTypes, m

\* The client library and its application handle well formed responses and versions.
LEMMA ApplicationTypes ==
    ASSUME AdsTypes, NEW c \in Streams, Application(c) \/ Nack(c) \/ LoseStream(c)
    PROVE  AdsTypes'
<1> DEFINE t == TypeURL[c]
<1>1. /\ t \in Types /\ WireTypes /\ received[c] \in VersionInfos /\ nonce[c][t] \in Nat
      /\ version[c][t] \in VersionInfos /\ handed[c] \in Seq(Response)
      /\ (pc[c] # "closed") \in BOOLEAN
  BY AdsClientAssumption DEF AdsClientAssumption, AdsTypes, WireTypes
<1>2. CASE InitConnect(c)
  <2>1. up' \in [Streams -> Seq(Messages)]
    BY <1>1, <1>2, SendRequestType DEF InitConnect
  <2>2. version' = [version EXCEPT ![c][t] = received[c]]
        /\ phase' = [phase EXCEPT ![c] = "ready"]
        /\ UNCHANGED <<nonce, down, lastNonce, pipelined, received, handed, rejected>>
    BY <1>2 DEF InitConnect, nonceVars
  <2>3. version' \in [Streams -> [Types -> VersionInfos]]
    BY <1>1, <2>2 DEF WireTypes
  <2> QED  BY <2>1, <2>2, <2>3 DEF AdsTypes, WireTypes
<1>3. CASE Fetch(c) \/ FetchFails(c)
  BY <1>3 DEF Fetch, FetchFails, clientVars, nonceVars, AdsTypes, WireTypes
<1>4. CASE FetchReturns(c)
  <2>1. /\ down[c] \in Seq(Deliveries) /\ down[c] # <<>>
        /\ phase' = [phase EXCEPT ![c] = "ready"]
        /\ down' = [down EXCEPT ![c] = Tail(@)]
        /\ received' = [received EXCEPT ![c] = Head(down[c]).resp.version]
        /\ nonce' = [nonce EXCEPT ![c][t] = Head(down[c]).nonce]
        /\ handed' = [handed EXCEPT ![c] = Append(@, Head(down[c]).resp)]
        /\ UNCHANGED <<version, up, lastNonce, pipelined, rejected>>
    BY <1>1, <1>4 DEF FetchReturns, nonceVars, WireTypes
  <2>2. Head(down[c]) \in Deliveries /\ Tail(down[c]) \in Seq(Deliveries)
    BY <2>1, HeadAndTail
  <2>3. Head(down[c]).resp \in Response /\ Head(down[c]).nonce \in Nat
    BY <2>2 DEF Deliveries
  <2>4. Head(down[c]).resp.version \in VersionInfos
    BY <2>3 DEF Response
  <2>5. Append(handed[c], Head(down[c]).resp) \in Seq(Response)
    BY SMTT(30), <1>1, <2>3
  <2>6. down' \in [Streams -> Seq(Deliveries)] /\ nonce' \in [Streams -> [Types -> Nat]]
    BY <1>1, <2>1, <2>2, <2>3 DEF WireTypes
  <2>7. WireTypes'
    BY <2>1, <2>6, <1>1 DEF WireTypes
  <2> QED  BY <2>1, <2>4, <2>5, <2>7 DEF AdsTypes
<1>5. CASE Ack(c)
  <2>1. up' \in [Streams -> Seq(Messages)]
    BY <1>1, <1>5, SendRequestType DEF Ack
  <2>2. /\ handed[c] # <<>> /\ handed' = [handed EXCEPT ![c] = Tail(@)]
        /\ version' = [version EXCEPT ![c][t] = received[c]]
        /\ UNCHANGED <<nonce, down, lastNonce, pipelined, received, phase, rejected>>
    BY <1>5 DEF Ack, nonceVars
  <2>3. version' \in [Streams -> [Types -> VersionInfos]]
    BY <1>1, <2>2 DEF WireTypes
  <2>4. Tail(handed[c]) \in Seq(Response)
    BY <1>1, <2>2, HeadAndTail
  <2> QED  BY <2>1, <2>2, <2>3, <2>4 DEF AdsTypes, WireTypes
<1>6. CASE Nack(c)
  <2>1. up' \in [Streams -> Seq(Messages)]
    BY <1>1, <1>6, SendRequestType DEF Nack
  <2>2. /\ handed[c] # <<>> /\ handed' = [handed EXCEPT ![c] = Tail(@)]
        /\ rejected' = [rejected EXCEPT ![c] = @ \cup {Head(handed[c]).version}]
        /\ UNCHANGED <<version, nonce, down, lastNonce, pipelined, received, phase>>
    BY <1>6 DEF Nack, nonceVars
  <2>3. Tail(handed[c]) \in Seq(Response) /\ Head(handed[c]) \in Response
    BY <1>1, <2>2, HeadAndTail
  <2>4. Head(handed[c]).version \in VersionInfos
    BY <2>3 DEF Response
  <2> QED  BY <2>1, <2>2, <2>3, <2>4 DEF AdsTypes, WireTypes
<1>7. CASE LoseStream(c)
  <2>1. /\ up' = [up EXCEPT ![c] = <<>>] /\ down' = [down EXCEPT ![c] = <<>>]
        /\ lastNonce' = [lastNonce EXCEPT ![c] = 0]
        /\ UNCHANGED <<version, nonce, pipelined, received, phase, handed, rejected>>
    BY <1>7 DEF LoseStream, adsVars
  <2>2. up' \in [Streams -> Seq(Messages)] /\ down' \in [Streams -> Seq(Deliveries)]
    BY SMTT(30), <1>1, <2>1 DEF WireTypes
  <2>3. lastNonce' \in [Streams -> Nat]
    BY SMTT(30), <1>1, <2>1 DEF WireTypes
  <2> QED  BY <2>1, <2>2, <2>3 DEF AdsTypes, WireTypes
<1> QED  BY <1>2, <1>3, <1>4, <1>5, <1>6, <1>7 DEF Application

-----------------------------------------------------------------------------
(* The cache and the streams under the client library.                     *)

\* Whatever the client library does, the server sees a stream that opens, sends requests
\* and breaks.
LEMMA AdsIsStep ==
    ASSUME WireTypes, AdsNext
    PROVE  CacheStep(Arriving)
<1>1. ASSUME NEW n \in Nodes, ControlPlane(n) \/ Heartbeat(n) PROVE CacheStep(Arriving)
  BY <1>1 DEF ControlPlane, Heartbeat, CacheStep, CacheNext
<1>2. ASSUME NEW c \in Streams, Application(c) \/ Nack(c) \/ LoseStream(c)
      PROVE  CacheStep(Arriving)
  <2>1. Open(c) \/ Shutdown(c) \/ UNCHANGED vars
    BY <1>2 DEF Application, Nack, LoseStream, InitConnect, Fetch, FetchReturns, FetchFails, Ack
  <2> QED  BY <2>1 DEF CacheStep
<1> QED  BY <1>1, <1>2, ServerIsStep DEF AdsNext

-----------------------------------------------------------------------------
(* The theorems on the pollers.                                            *)

\* The invariant of the cache and the types of its clients.
ClientsInv == IInv /\ AdsTypes /\ RestTypes /\ SnapshotsSet

\* At first everything is empty.
LEMMA ClientsStart == ClientsInit => ClientsInv /\ PollInv
<1> SUFFICES ASSUME ClientsInit PROVE ClientsInv /\ PollInv
  OBVIOUS
<1> USE DEF ClientsInit, AdsInit, ClientInit, RestInit
<1>1. IInv
  BY InitInvariant
<1>2. SnapshotsSet
  BY DEF Init, SnapshotsSet
<1>3. AdsTypes
  <2>1. WireTypes
    BY SMTT(30), SnapshotAssumption DEF SnapshotAssumption, WireTypes
  <2> QED  BY SMTT(30), <2>1, SnapshotAssumption DEF SnapshotAssumption, AdsTypes
<1>4. RestTypes
  <2>1. Blank \in VersionInfos /\ NothingKnown \in Holding
    BY SnapshotAssumption DEF SnapshotAssumption, NothingKnown, Holding
  <2>2. Empty("idle", None) \in Exchange
    BY <2>1 DEF Empty, Exchange, Statuses
  <2> QED  BY <2>1, <2>2 DEF RestTypes
<1>5. PollInv
  <2>1. \A p \in Pollers : exchange[p].status = "idle"
    BY DEF Empty
  <2> QED  BY <2>1 DEF PollInv, HasPolled, AnswerOf
<1> QED  BY <1>1, <1>2, <1>3, <1>4, <1>5 DEF ClientsInv

\* Every step of the cache, the streams and the client library keeps that.
LEMMA LibraryKept ==
    ASSUME IInv, AdsTypes, SnapshotsSet, AdsNext \/ UNCHANGED <<allVars, adsVars>>
    PROVE  IInv' /\ AdsTypes' /\ SnapshotsSet'
<1>1. WireTypes /\ Arriving \in [Streams -> SUBSET Request]
  BY ArrivingType DEF AdsTypes
<1>2. ASSUME UNCHANGED <<clientVars, nonceVars, adsVars>> PROVE AdsTypes'
  BY <1>2 DEF clientVars, nonceVars, adsVars, AdsTypes, WireTypes
<1>3. CASE UNCHANGED <<allVars, adsVars>>
  <2>1. CacheStep(Arriving) /\ UNCHANGED <<clientVars, nonceVars, adsVars>>
    BY <1>3 DEF CacheStep, allVars
  <2> QED  BY <1>1, <1>2, <2>1, StepKept, SnapshotsSetKept
<1>4. CASE AdsNext
  <2>1. CacheStep(Arriving)
    BY <1>1, <1>4, AdsIsStep
  <2>2. ASSUME NEW n \in Nodes, ControlPlane(n) \/ Heartbeat(n), UNCHANGED adsVars PROVE AdsTypes'
    BY <1>2, <2>2 DEF ControlPlane, Heartbeat
  <2>3. ASSUME NEW c \in Streams, ServerStep(c), UNCHANGED adsVars PROVE AdsTypes'
    <3>1. WireTypes'
      BY <1>1, <2>3, ServerTypes
    <3> QED  BY <2>3, <3>1 DEF AdsTypes, adsVars
  <2>4. AdsTypes'
    BY <1>4, <2>2, <2>3, ApplicationTypes DEF AdsNext
  <2> QED  BY <1>1, <2>1, <2>4, StepKept, SnapshotsSetKept
<1> QED  BY <1>3, <1>4

\* So does every step of the pollers.
LEMMA ClientsKept ==
    ASSUME ClientsInv, [ClientsNext]_everything
    PROVE  ClientsInv'
<1> USE DEF ClientsInv
<1>1. AdsNext \/ UNCHANGED <<allVars, adsVars>>
  BY DEF ClientsNext, PollerStep, everything
<1>2. IInv' /\ AdsTypes' /\ SnapshotsSet'
  BY <1>1, LibraryKept
<1>3. ASSUME UNCHANGED restVars PROVE RestTypes'
  BY <1>3 DEF restVars, RestTypes
<1>4. RestTypes'
  BY <1>3, RestTypesKept DEF ClientsNext, PollerStep, everything
<1> QED  BY <1>2, <1>4

\* The clients and the cache they share keep to their types, in every reachable state.
THEOREM ClientsInvariance == ClientsSpec => []ClientsInv
<1>1. ClientsInit => ClientsInv
  BY ClientsStart
<1>2. ClientsInv /\ [ClientsNext]_everything => ClientsInv'
  BY ClientsKept
<1> QED  BY <1>1, <1>2, PTL DEF ClientsSpec

\* Every variable of the client library and of the REST pollers keeps its type, whatever the
\* server and the application do.
THEOREM ClientsTypeCorrect == ClientsSpec => []ClientsTypeOK
<1>1. ClientsInv => ClientsTypeOK
  BY DEF ClientsInv, AdsTypes, RestTypes, ClientsTypeOK
<1> QED  BY <1>1, ClientsInvariance, PTL

\* A poller that is told 304 has what it lists of the snapshot that snapshotCache.Fetch found,
\* although Fetch compares versions only.
THEOREM NotModifiedIsCurrent ==
    ASSUME BlankIsEmpty
    PROVE  ClientsSpec => []NotModifiedMeansCurrent
<1>1. ClientsInit => PollInv
  BY ClientsStart
<1>2. ASSUME ClientsInv, PollInv, [ClientsNext]_everything PROVE PollInv'
  <2>1. CASE UNCHANGED restVars
    <3>1. UNCHANGED <<listed, polled, holds, exchange>>
      BY <2>1 DEF restVars
    <3>2. \A p \in Pollers : \A snap : HoldsListing(p, snap)' = HoldsListing(p, snap)
      BY <3>1 DEF HoldsListing
    <3>3. \A p \in Pollers : HasPolled(p)' = HasPolled(p)
      BY <3>1, <3>2 DEF HasPolled
    <3>4. \A p \in Pollers : \A snap : AnswerOf(p, snap)' = AnswerOf(p, snap)
      BY <3>1 DEF AnswerOf, Listing, UpToDate
    <3> QED  BY <1>2, <3>1, <3>3, <3>4 DEF PollInv
  <2> QED  BY <1>2, <2>1, PollerKept DEF ClientsInv, ClientsNext, PollerStep, everything
<1>3. PollInv => NotModifiedMeansCurrent
  <2> SUFFICES ASSUME PollInv, NEW p \in Pollers, exchange[p].status = "NotModified"
               PROVE  HoldsListing(p, exchange[p].of)
    BY DEF NotModifiedMeansCurrent
  <2>1. exchange[p].of \in Snapshots /\ UpToDate(p, exchange[p].of)
    BY DEF PollInv, AnswerOf
  <2> QED  BY <2>1, SameListing
<1> QED  BY <1>1, <1>2, <1>3, ClientsInvariance, PTL DEF ClientsSpec

-----------------------------------------------------------------------------
(* The client library and the server take turns.                           *)

\* The server has something for the type of the client, or will when there is a snapshot.
Serving(c) == IsWaiting(c, TypeURL[c]) \/ IsQueued(c, TypeURL[c])

\* The server is replacing a watch.
Handling(c) == pc[c] \in {"draining", "cancelled"}

\* The request, the watch, the response and the judgement of it follow one another: only one
\* of them exists.
TurnOf(c) ==
    /\ \A u \in Types : u # TypeURL[c] => sub[c][u] = None
    /\ \A i \in DOMAIN up[c] : i = 1 /\ up[c][i].req.type = TypeURL[c]
    /\ \A i \in DOMAIN down[c] : i = 1
    /\ \A i \in DOMAIN handed[c] : i = 1 /\ handed[c][i].version = received[c]
    /\ pc[c] = "closed" => up[c] = <<>> /\ down[c] = <<>> /\ sub[c][TypeURL[c]] = None
    /\ up[c] # <<>> => pc[c] = "idle" /\ ~Serving(c) /\ down[c] = <<>> /\ handed[c] = <<>>
    /\ Handling(c) => ~Serving(c) /\ down[c] = <<>> /\ handed[c] = <<>>
    /\ Serving(c) => down[c] = <<>> /\ handed[c] = <<>>
    /\ down[c] # <<>> => handed[c] = <<>>

\* It is somebody's turn on every stream.
TurnInv == \A c \in Streams : TurnOf(c)

\* Answering watches serves nobody who was not being served: SetSnapshot, sendHeartbeats.
LEMMA RespondServing ==
    ASSUME IInv, NEW n \in Nodes, NEW ws \in SUBSET watches[n], NEW q \in Shares(Streams, ws),
           NEW response \in [ws -> Response], Respond(n, ws, q, response),
           \A w \in ws : response[w].type = w.type
    PROVE  \A c \in Streams : Serving(c)' => Serving(c)
<1>1. TypeOK /\ watches \in [Nodes -> SUBSET Watch]
  BY DEF IInv, TypeOK
<1>2. \A c \in Streams : \A i \in DOMAIN queue'[c] :
          \/ \E j \in DOMAIN queue[c] : queue'[c][i] = queue[c][j]
          \/ \E w \in ws : w.stream = c /\ queue'[c][i] = response[w]
  BY <1>1, AnswersQueued
<1>3. \A m \in Nodes : watches'[m] \subseteq watches[m]
  BY <1>1 DEF Respond
<1>4. ASSUME NEW c \in Streams, NEW i \in DOMAIN queue'[c], queue'[c][i].type = TypeURL[c]
      PROVE  Serving(c)
  <2>1. CASE \E j \in DOMAIN queue[c] : queue'[c][i] = queue[c][j]
    BY <1>4, <2>1 DEF Serving, IsQueued
  <2>2. CASE \E w \in ws : w.stream = c /\ queue'[c][i] = response[w]
    <3>1. PICK w \in ws : w.stream = c /\ queue'[c][i] = response[w]
      BY <2>2
    <3>2. w \in watches[n] /\ w.stream = c /\ w.type = TypeURL[c]
      BY <1>4, <3>1
    <3> QED  BY <3>2 DEF Serving, IsWaiting
  <2> QED  BY <1>2, <2>1, <2>2
<1>5. ASSUME NEW c \in Streams, IsWaiting(c, TypeURL[c])' PROVE Serving(c)
  BY <1>3, <1>5 DEF Serving, IsWaiting
<1> QED  BY <1>4, <1>5 DEF Serving, IsQueued

\* The cache serves nobody who was not being served, and leaves the streams alone.
LEMMA CacheServing ==
    ASSUME IInv, CacheNext
    PROVE  /\ UNCHANGED <<pc, sub>>
           /\ \A c \in Streams : Serving(c)' => Serving(c)
<1>1. ASSUME NEW n \in Nodes, NEW snap \in Snapshots, SetSnapshot(n, snap)
      PROVE  /\ UNCHANGED <<pc, sub>>
             /\ \A c \in Streams : Serving(c)' => Serving(c)
  <2>1. snap \in Snapshot /\ TypeOK
    BY SnapshotAssumption DEF SnapshotAssumption, IInv
  <2>2. PICK ws \in Answered(Due(n, snap)) : \E q \in orderResponseWatches(Streams, ws) :
            Respond(n, ws, q, [w \in ws |-> createResponse(snap, w, round + 1)])
    BY <1>1 DEF SetSnapshot
  <2>3. PICK q \in Shares(Streams, ws) :
            Respond(n, ws, q, [w \in ws |-> createResponse(snap, w, round + 1)])
    BY <2>2 DEF orderResponseWatches
  <2> DEFINE response == [w \in ws |-> createResponse(snap, w, round + 1)]
  <2>4. ws \in SUBSET watches[n] /\ ws \in SUBSET Watch /\ round + 1 \in Nat
    BY SMTT(30), <2>1, <2>2 DEF Answered, Due, TypeOK
  <2>5. response \in [ws -> Response] /\ \A w \in ws : response[w].type = w.type
    BY <2>1, <2>4, CreateResponseType
  <2>6. Respond(n, ws, q, response) /\ UNCHANGED <<pc, sub>>
    BY <1>1, <2>3 DEF SetSnapshot
  <2> HIDE DEF response
  <2> QED  BY <2>4, <2>5, <2>6, RespondServing
<1>2. ASSUME NEW n \in Nodes, SendHeartbeats(n)
      PROVE  /\ UNCHANGED <<pc, sub>>
             /\ \A c \in Streams : Serving(c)' => Serving(c)
  <2> DEFINE ws       == DueHeartbeat(n)
             response == [w \in ws |-> heartbeatResponse(snapshots[n], w)]
  <2>1. TypeOK
    BY DEF IInv
  <2>2. PICK q \in Shares(Streams, ws) : Respond(n, ws, q, response)
    BY <1>2 DEF SendHeartbeats
  <2>3. ws \in SUBSET watches[n] /\ ws \in SUBSET Watch /\ (ws # {} => snapshots[n] \in Snapshot)
    BY <2>1 DEF DueHeartbeat, TypeOK
  <2>4. response \in [ws -> Response] /\ \A w \in ws : response[w].type = w.type
    BY <2>3, HeartbeatType
  <2>5. UNCHANGED <<pc, sub>>
    BY <1>2 DEF SendHeartbeats
  <2> HIDE DEF ws, response
  <2> QED  BY <2>2, <2>3, <2>4, <2>5, RespondServing
<1>3. ASSUME NEW n \in Nodes, ClearSnapshot(n)
      PROVE  /\ UNCHANGED <<pc, sub>>
             /\ \A c \in Streams : Serving(c)' => Serving(c)
  <2>1. watches \in [Nodes -> SUBSET Watch]
    BY DEF IInv, TypeOK
  <2>2. UNCHANGED <<pc, sub, queue>> /\ \A m \in Nodes : watches'[m] \subseteq watches[m]
    BY <1>3, <2>1 DEF ClearSnapshot, streamVars
  <2> QED  BY <2>2 DEF Serving, IsWaiting, IsQueued
<1> QED  BY <1>1, <1>2, <1>3 DEF CacheNext

\* A stream whose messages stay where they are.
LEMMA TurnSame ==
    ASSUME NEW d \in Streams, TurnOf(d), pc'[d] = pc[d], \A u \in Types : sub'[d][u] = sub[d][u],
           Serving(d)' => Serving(d), up'[d] = up[d], down'[d] = down[d], handed'[d] = handed[d],
           received'[d] = received[d]
    PROVE  TurnOf(d)'
<1>1. TypeURL[d] \in Types
  BY AdsClientAssumption DEF AdsClientAssumption
<1>2. Handling(d)' = Handling(d)
  BY DEF Handling
<1> QED  BY <1>1, <1>2 DEF TurnOf

\* A step on one stream does not change whose turn it is on another.
LEMMA OthersTurn ==
    ASSUME NEW c \in Streams, OthersSame(c), NEW d \in Streams, d # c, TurnOf(d),
           up'[d] = up[d], down'[d] = down[d], handed'[d] = handed[d], received'[d] = received[d]
    PROVE  TurnOf(d)'
<1>1. TypeURL[d] \in Types
  BY AdsClientAssumption DEF AdsClientAssumption
<1>2. pc'[d] = pc[d] /\ \A u \in Types : Same(d, u)
  BY DEF OthersSame
<1>3. Serving(d)' => Serving(d)
  BY <1>1, <1>2, SameServed DEF Serving
<1>4. \A u \in Types : sub'[d][u] = sub[d][u]
  BY <1>2 DEF Same
<1> QED  BY <1>2, <1>3, <1>4, TurnSame

\* The server takes the request, when nothing else is on its way.
LEMMA ServerTakesTurn ==
    ASSUME IInv, WireTypes, NEW c \in Streams, TurnOf(c), UNCHANGED adsVars,
           ServerFirstRequest(c) \/ ServerIgnores(c) \/ ServerCloses(c)
    PROVE  TurnOf(c)' /\ OthersSame(c) /\ UNCHANGED down
           /\ \A d \in Streams : d # c => up'[d] = up[d]
<1> DEFINE m == Head(up[c])
           t == TypeURL[c]
<1>1. /\ up[c] # <<>> /\ up' = [up EXCEPT ![c] = Tail(@)] /\ UNCHANGED down
      /\ UNCHANGED <<handed, received>>
  BY DEF ServerFirstRequest, ServerIgnores, ServerCloses, adsVars
<1>2. t \in Types /\ 1 \in DOMAIN up[c] /\ m = up[c][1] /\ Tail(up[c]) = <<>> /\ m \in Messages
  <2>1. t \in Types /\ up[c] \in Seq(Messages) /\ \A i \in DOMAIN up[c] : i = 1
    BY AdsClientAssumption DEF AdsClientAssumption, WireTypes, TurnOf
  <2>2. 1 \in DOMAIN up[c] /\ m = up[c][1] /\ Tail(up[c]) = <<>>
    BY <1>1, <2>1, OneElement
  <2>3. m \in Messages
    BY <1>1, <2>1, HeadAndTail
  <2> QED  BY <2>1, <2>2, <2>3
<1>3. /\ m.req.type = t /\ m.req \in Request /\ DOMAIN <<>> = {}
      /\ up'[c] = <<>> /\ \A d \in Streams : d # c => up'[d] = up[d]
  <2>1. m.req.type = t /\ m.req \in Request
    BY <1>2 DEF TurnOf, Messages
  <2>2. up'[c] = <<>> /\ \A d \in Streams : d # c => up'[d] = up[d]
    BY <1>1, <1>2 DEF WireTypes
  <2> QED  BY <2>1, <2>2, OneElement
<1>4. /\ pc[c] = "idle" /\ ~Serving(c) /\ down[c] = <<>> /\ handed[c] = <<>>
      /\ down'[c] = <<>> /\ handed'[c] = <<>>
  BY <1>1 DEF TurnOf
<1> HIDE DEF m, t
<1>5. ASSUME pc'[c] # "closed", \A u \in Types : u # t => sub'[c][u] = None,
             Handling(c)' => ~Serving(c)'
      PROVE  TurnOf(c)'
  BY <1>3, <1>4, <1>5 DEF TurnOf, t
<1>6. ASSUME NEW u \in Types, u # t PROVE sub[c][u] = None
  BY <1>6 DEF TurnOf, t
<1>7. CASE ServerFirstRequest(c)
  <2>1. FirstRequest(c, m.req)
    BY <1>7 DEF ServerFirstRequest, m
  <2>2. Created(c, m.req, NewSotwSubscription(m.req.resourceNames, LegacyWildcard))
    BY <1>3, <2>1, FirstRequestEffect
  <2>3. OthersSame(c) /\ pc'[c] = "idle" /\ \A u \in Types : u # t => Same(c, u)
    BY <1>3, <2>2 DEF Created
  <2>4. \A u \in Types : u # t => sub'[c][u] = None
    BY <1>6, <2>3 DEF Same
  <2>5. ~Handling(c)'
    BY <2>3 DEF Handling
  <2> QED  BY <1>1, <1>3, <1>5, <2>3, <2>4, <2>5
<1>8. CASE ServerIgnores(c)
  <2>1. UNCHANGED <<pc, sub, watches, queue, pending, replied>>
    BY <1>8 DEF ServerIgnores, vars, cacheVars, streamVars
  <2>2. OthersSame(c)
    BY <2>1 DEF OthersSame, Same
  <2>3. ~Handling(c)' /\ pc'[c] # "closed"
    BY <1>4, <2>1 DEF Handling
  <2>4. \A u \in Types : u # t => sub'[c][u] = None
    BY <1>6, <2>1
  <2> QED  BY <1>1, <1>3, <1>5, <2>2, <2>3, <2>4
<1>9. CASE ServerCloses(c)
  <2>1. CloseWatch(c, m.req)
    BY <1>9 DEF ServerCloses, m
  <2>2. /\ OthersSame(c) /\ pc'[c] \in {"draining", "cancelled"} /\ Same(c, t)
        /\ UNCHANGED sub
    BY <1>2, <1>3, <2>1, CloseWatchEffect DEF t
  <2>3. ~Serving(c)'
    BY <1>2, <1>4, <2>2, SameServed DEF Serving, t
  <2>4. \A u \in Types : u # t => sub'[c][u] = None
    BY <1>6, <2>2
  <2> QED  BY <1>1, <1>3, <1>5, <2>2, <2>3, <2>4
<1> QED  BY <1>7, <1>8, <1>9

\* The server answers.
LEMMA ServerAnswersTurn ==
    ASSUME IInv, WireTypes, NEW c \in Streams, TurnOf(c), UNCHANGED adsVars, up' = up,
           NEW i \in DOMAIN queue[c], Took(c, i), Deliver(c, queue[c][i]) \/ UNCHANGED down
    PROVE  TurnOf(c)' /\ OthersSame(c) /\ \A d \in Streams : d # c => down'[d] = down[d]
<1> DEFINE t == TypeURL[c]
<1>1. PICK u : u = queue[c][i].type
  OBVIOUS
<1>2. /\ u \in Types /\ IsQueued(c, u) /\ ~IsQueued(c, u)' /\ ~IsWaiting(c, u)'
      /\ OthersSame(c) /\ pc'[c] = pc[c] /\ \A x \in Types : x # u => Same(c, x)
  BY <1>1, TookEffect
<1>3. u = t /\ sub[c][t] # None
  BY <1>2 DEF TurnOf, IInv, NothingWithoutEntry
<1>4. Serving(c) /\ ~Serving(c)'
  BY <1>2, <1>3 DEF Serving
<1>5. /\ down[c] = <<>> /\ handed[c] = <<>> /\ up[c] = <<>> /\ ~Handling(c) /\ pc[c] # "closed"
      /\ up'[c] = <<>> /\ handed'[c] = <<>>
  BY <1>3, <1>4 DEF TurnOf, adsVars
<1>6. \A x \in Types : x # t => sub'[c][x] = None
  BY <1>2, <1>3 DEF TurnOf, Same
<1>7. (\A j \in DOMAIN down'[c] : j = 1) /\ \A d \in Streams : d # c => down'[d] = down[d]
  <2> DEFINE r == [resp |-> queue[c][i], nonce |-> lastNonce[c] + 1]
  <2>1. queue[c][i] \in Response
    BY SMTT(30) DEF IInv, TypeOK
  <2>2. down' = down \/ down' = [down EXCEPT ![c] = Append(@, r)]
    BY <2>1, DeliverType
  <2>3. r \in Deliveries
    <3>1. lastNonce[c] + 1 \in Nat
      BY SMTT(30) DEF WireTypes
    <3> QED  BY <2>1, <3>1 DEF Deliveries
  <2> HIDE DEF r
  <2>4. CASE down' = down
    BY <1>5, <2>4, OneElement
  <2>5. CASE down' = [down EXCEPT ![c] = Append(@, r)]
    <3>1. down'[c] = Append(<<>>, r) /\ \A d \in Streams : d # c => down'[d] = down[d]
      BY <1>5, <2>5 DEF WireTypes
    <3>2. DOMAIN Append(<<>>, r) = {1}
      BY <2>3, OneElement
    <3> QED  BY <3>1, <3>2
  <2> QED  BY <2>2, <2>4, <2>5
<1>8. ~Handling(c)' /\ DOMAIN <<>> = {} /\ pc'[c] # "closed"
  BY <1>2, <1>5, OneElement DEF Handling
<1>9. TurnOf(c)'
  BY <1>4, <1>5, <1>6, <1>7, <1>8 DEF TurnOf
<1> QED  BY <1>2, <1>7, <1>9

\* Every step of the server leaves one message at most, or none while it serves the client.
LEMMA ServerTurn ==
    ASSUME IInv, WireTypes, TurnInv, NEW c \in Streams, ServerStep(c), UNCHANGED adsVars
    PROVE  TurnInv'
<1>1. TurnOf(c) /\ UNCHANGED <<handed, received>>
  BY DEF TurnInv, adsVars
<1>2. ASSUME TurnOf(c)', OthersSame(c), \A d \in Streams : d # c => up'[d] = up[d],
             \A d \in Streams : d # c => down'[d] = down[d]
      PROVE  TurnInv'
  <2> SUFFICES ASSUME NEW d \in Streams, d # c PROVE TurnOf(d)'
    BY <1>2 DEF TurnInv
  <2>1. /\ TurnOf(d) /\ up'[d] = up[d] /\ down'[d] = down[d] /\ handed'[d] = handed[d]
        /\ received'[d] = received[d]
    BY <1>1, <1>2 DEF TurnInv
  <2> QED  BY <1>2, <2>1, OthersTurn
<1>3. CASE ServerFirstRequest(c) \/ ServerIgnores(c) \/ ServerCloses(c)
  BY <1>1, <1>2, <1>3, ServerTakesTurn
<1>4. ASSUME NEW i \in DOMAIN queue[c], Took(c, i), Deliver(c, queue[c][i]) \/ UNCHANGED down,
             up' = up
      PROVE  TurnInv'
  BY <1>1, <1>2, <1>4, ServerAnswersTurn
<1>5. CASE ServerSends(c)
  <2>1. PICK i \in DOMAIN queue[c] : SendResponse(c, i) /\ Deliver(c, queue[c][i])
    BY <1>5 DEF ServerSends
  <2>2. Took(c, i) /\ up' = up
    BY <1>5, <2>1, SendResponseTook DEF ServerSends
  <2> QED  BY <1>4, <2>1, <2>2
<1>6. CASE ServerDrains(c)
  <2>1. CASE queue[c] # <<>>
    <3>1. 1 \in DOMAIN queue[c] /\ queue[c][1] = Head(queue[c]) /\ Took(c, 1)
      BY <1>6, <2>1, ProcessAllExceptTook DEF ServerDrains
    <3>2. up' = up /\ (Deliver(c, Head(queue[c])) \/ UNCHANGED down)
      BY <1>6 DEF ServerDrains
    <3> QED  BY <1>4, <3>1, <3>2
  <2>2. CASE queue[c] = <<>>
    <3>1. /\ pc[c] = "draining" /\ pc' = [pc EXCEPT ![c] = "cancelled"]
          /\ UNCHANGED <<watches, pending, sub, queue, replied, up, down>>
      BY <1>6, <2>2 DEF ServerDrains, processAllExcept, cacheVars
    <3>2. pc \in [Streams -> {"closed", "idle", "draining", "cancelled"}]
      BY DEF IInv, TypeOK
    <3>3. pc'[c] = "cancelled" /\ \A d \in Streams : d # c => pc'[d] = pc[d]
      BY <3>1, <3>2
    <3>4. OthersSame(c)
      BY <3>1, <3>3 DEF OthersSame, Same
    <3>5. Serving(c)' = Serving(c)
      BY <3>1 DEF Serving, IsWaiting, IsQueued
    <3>6. Handling(c) /\ Handling(c)'
      BY <3>1, <3>3 DEF Handling
    <3>7. TurnOf(c)'
      BY <1>1, <3>1, <3>3, <3>5, <3>6 DEF TurnOf
    <3> QED  BY <1>2, <3>1, <3>4, <3>7
  <2> QED  BY <2>1, <2>2
<1>7. CASE ServerRewatches(c)
  <2>1. Rewatch(c) /\ UNCHANGED <<up, down>>
    BY <1>7 DEF ServerRewatches, clientVars
  <2>2. PICK req \in Request :
            /\ req = pending[c] /\ req.type \in Types /\ pc[c] = "cancelled" /\ sub[c][req.type] \in Sub
            /\ Created(c, req, SetResourceSubscription(sub[c][req.type], req.resourceNames))
    BY <2>1, RewatchEffect
  <2>3. OthersSame(c) /\ pc'[c] = "idle" /\ \A u \in Types : u # req.type => Same(c, u)
    BY <2>2 DEF Created
  <2>4. req.type = TypeURL[c]
    BY <1>1, <2>2, SnapshotAssumption DEF SnapshotAssumption, TurnOf
  <2>5. Handling(c) /\ ~Handling(c)' /\ up[c] = <<>>
    BY <1>1, <2>2, <2>3 DEF Handling, TurnOf
  <2>6. \A u \in Types : u # TypeURL[c] => sub'[c][u] = None
    BY <1>1, <2>3, <2>4 DEF TurnOf, Same
  <2>7. down[c] = <<>> /\ handed[c] = <<>> /\ DOMAIN <<>> = {}
    BY <1>1, <2>5, OneElement DEF TurnOf
  <2>8. TurnOf(c)'
    BY <1>1, <2>1, <2>3, <2>5, <2>6, <2>7 DEF TurnOf
  <2> QED  BY <1>2, <2>1, <2>3, <2>8
<1> QED  BY <1>3, <1>5, <1>6, <1>7 DEF ServerStep

\* The application judges what it was handed, and the client asks for more: sendRequest.
LEMMA SendRequestTurn ==
    ASSUME WireTypes, NEW c \in Streams, NEW connected \in BOOLEAN, NEW v \in VersionInfos,
           NEW k \in Nat, sendRequest(c, connected, v, k), up[c] = <<>>
    PROVE  /\ \A d \in Streams : d # c => up'[d] = up[d]
           /\ \A i \in DOMAIN up'[c] : i = 1 /\ up'[c][i].req.type = TypeURL[c]
           /\ ~connected => up'[c] = <<>>
<1> DEFINE m == Message(TypeURL[c], {}, v, k)
<1>1. m \in Messages /\ m.req.type = TypeURL[c]
  <2>1. TypeURL[c] \in Types /\ {} \in SUBSET Tokens
    BY AdsClientAssumption DEF AdsClientAssumption
  <2>2. m \in Messages
    BY <2>1, MessageType
  <2> QED  BY <2>2 DEF Message
<1> HIDE DEF m
<1>2. CASE connected
  <2>1. up' = [up EXCEPT ![c] = Append(@, m)]
    BY <1>2 DEF sendRequest, m
  <2>2. up'[c] = Append(<<>>, m) /\ \A d \in Streams : d # c => up'[d] = up[d]
    BY <2>1 DEF WireTypes
  <2>3. DOMAIN Append(<<>>, m) = {1} /\ Append(<<>>, m)[1] = m
    BY <1>1, OneElement
  <2> QED  BY <1>1, <1>2, <2>2, <2>3
<1>3. CASE ~connected
  <2>1. up' = up /\ DOMAIN <<>> = {}
    BY <1>3, OneElement DEF sendRequest
  <2> QED  BY <2>1
<1> QED  BY <1>2, <1>3

\* The client library and its application hand on the one message there is.
LEMMA ApplicationTurn ==
    ASSUME IInv, AdsTypes, TurnInv, NEW c \in Streams, Application(c) \/ Nack(c) \/ LoseStream(c)
    PROVE  TurnInv'
<1> DEFINE t == TypeURL[c]
<1>1. /\ t \in Types /\ WireTypes /\ received[c] \in VersionInfos /\ nonce[c][t] \in Nat
      /\ version[c][t] \in VersionInfos /\ handed[c] \in Seq(Response) /\ TurnOf(c)
      /\ (pc[c] # "closed") \in BOOLEAN /\ TRUE \in BOOLEAN /\ DOMAIN <<>> = {}
  <2>1. t \in Types /\ WireTypes /\ TurnOf(c)
    BY AdsClientAssumption DEF AdsClientAssumption, AdsTypes, TurnInv
  <2>2. /\ received[c] \in VersionInfos /\ nonce[c][t] \in Nat
        /\ version[c][t] \in VersionInfos /\ handed[c] \in Seq(Response)
    BY <2>1 DEF AdsTypes, WireTypes
  <2>3. DOMAIN <<>> = {}
    BY OneElement
  <2> QED  BY <2>1, <2>2, <2>3
<1> HIDE DEF t
<1>2. ASSUME TurnOf(c)', OthersSame(c),
             \A d \in Streams : d # c => up'[d] = up[d] /\ down'[d] = down[d]
                                         /\ handed'[d] = handed[d] /\ received'[d] = received[d]
      PROVE  TurnInv'
  <2> SUFFICES ASSUME NEW d \in Streams, d # c PROVE TurnOf(d)'
    BY <1>2 DEF TurnInv
  <2>1. /\ TurnOf(d) /\ up'[d] = up[d] /\ down'[d] = down[d] /\ handed'[d] = handed[d]
        /\ received'[d] = received[d]
    BY <1>2 DEF TurnInv
  <2> QED  BY <1>2, <2>1, OthersTurn
<1>3. ASSUME UNCHANGED vars
      PROVE  OthersSame(c) /\ UNCHANGED <<pc, sub>> /\ Serving(c)' = Serving(c)
             /\ Handling(c)' = Handling(c)
  <2>1. UNCHANGED <<pc, sub, watches, queue, pending, replied>>
    BY <1>3 DEF vars, cacheVars, streamVars
  <2>2. OthersSame(c)
    BY <2>1 DEF OthersSame, Same
  <2>3. Serving(c)' = Serving(c) /\ Handling(c)' = Handling(c)
    BY <2>1 DEF Serving, Handling, IsWaiting, IsQueued
  <2> QED  BY <2>1, <2>2, <2>3
<1>4. CASE InitConnect(c)
  <2>1. /\ Open(c) /\ sendRequest(c, TRUE, received[c], nonce[c][t]) /\ handed[c] = <<>>
        /\ UNCHANGED <<down, handed, received>>
    BY <1>4 DEF InitConnect, t
  <2>2. /\ OthersSame(c) /\ pc[c] = "closed" /\ pc'[c] = "idle" /\ \A u \in Types : Same(c, u)
    BY <2>1, OpenEffect
  <2>3. up[c] = <<>> /\ down[c] = <<>> /\ sub[c][t] = None
    BY <1>1, <2>2 DEF TurnOf, t
  <2>4. /\ \A d \in Streams : d # c => up'[d] = up[d]
        /\ \A i \in DOMAIN up'[c] : i = 1 /\ up'[c][i].req.type = TypeURL[c]
    BY <1>1, <2>1, <2>3, SendRequestTurn
  <2>5. ~Serving(c)' /\ ~Handling(c)' /\ \A u \in Types : sub'[c][u] = sub[c][u]
    <3>1. ~IsWaiting(c, t) /\ ~IsQueued(c, t) /\ Same(c, t)
      BY <1>1, <2>2, <2>3 DEF IInv, NothingWithoutEntry
    <3>2. ~Serving(c)'
      BY <1>1, <3>1, SameServed DEF Serving, t
    <3>3. ~Handling(c)' /\ \A u \in Types : sub'[c][u] = sub[c][u]
      BY <2>2 DEF Handling, Same
    <3> QED  BY <3>2, <3>3
  <2>6. TurnOf(c)'
    BY <1>1, <2>1, <2>2, <2>3, <2>4, <2>5 DEF TurnOf
  <2> QED  BY <1>2, <2>1, <2>2, <2>4, <2>6
<1>5. CASE Fetch(c) \/ FetchFails(c)
  <2>1. UNCHANGED vars /\ UNCHANGED <<up, down, handed, received>>
    BY <1>5 DEF Fetch, FetchFails, clientVars
  <2>2. TurnOf(c)'
    BY <1>1, <1>3, <2>1, TurnSame
  <2> QED  BY <1>2, <1>3, <2>1, <2>2
<1>6. CASE FetchReturns(c)
  <2> DEFINE resp == Head(down[c]).resp
  <2>1. /\ down[c] # <<>> /\ UNCHANGED vars /\ UNCHANGED up
        /\ down' = [down EXCEPT ![c] = Tail(@)]
        /\ received' = [received EXCEPT ![c] = resp.version]
        /\ handed' = [handed EXCEPT ![c] = Append(@, resp)]
    BY <1>6 DEF FetchReturns
  <2>2. down[c] \in Seq(Deliveries) /\ \A i \in DOMAIN down[c] : i = 1
    BY <1>1 DEF WireTypes, TurnOf
  <2>3. Tail(down[c]) = <<>> /\ Head(down[c]) \in Deliveries
    BY <2>1, <2>2, OneElement, HeadAndTail
  <2>4. resp \in Response
    BY <2>3 DEF Deliveries
  <2>5. handed[c] = <<>> /\ up[c] = <<>> /\ ~Serving(c) /\ ~Handling(c) /\ pc[c] # "closed"
    BY <1>1, <2>1 DEF TurnOf
  <2>6. /\ down'[c] = <<>> /\ received'[c] = resp.version /\ handed'[c] = Append(<<>>, resp)
        /\ \A d \in Streams : d # c =>
              down'[d] = down[d] /\ received'[d] = received[d] /\ handed'[d] = handed[d]
    BY <1>1, <2>1, <2>3, <2>5 DEF WireTypes, AdsTypes
  <2>7. DOMAIN Append(<<>>, resp) = {1} /\ Append(<<>>, resp)[1] = resp
    BY <2>4, OneElement
  <2> HIDE DEF resp
  <2>8. \A i \in DOMAIN handed'[c] : i = 1 /\ handed'[c][i].version = received'[c]
    BY <2>6, <2>7
  <2>9. TurnOf(c)'
    BY <1>1, <1>3, <2>1, <2>5, <2>6, <2>8 DEF TurnOf
  <2> QED  BY <1>2, <1>3, <2>1, <2>6, <2>9
<1>7. CASE Ack(c) \/ Nack(c)
  <2>1. /\ handed[c] # <<>> /\ UNCHANGED vars /\ UNCHANGED <<down, received>>
        /\ handed' = [handed EXCEPT ![c] = Tail(@)]
        /\ \/ sendRequest(c, pc[c] # "closed", received[c], nonce[c][t])
           \/ sendRequest(c, pc[c] # "closed", version[c][t], nonce[c][t])
    BY <1>7 DEF Ack, Nack, t
  <2>2. down[c] = <<>> /\ up[c] = <<>> /\ ~Serving(c) /\ ~Handling(c)
    BY <1>1, <2>1 DEF TurnOf
  <2>3. /\ \A d \in Streams : d # c => up'[d] = up[d]
        /\ \A i \in DOMAIN up'[c] : i = 1 /\ up'[c][i].req.type = TypeURL[c]
        /\ pc[c] = "closed" => up'[c] = <<>>
    BY <1>1, <2>1, <2>2, SendRequestTurn
  <2>4. Tail(handed[c]) = <<>>
    BY <1>1, <2>1, OneElement DEF TurnOf
  <2>5. handed'[c] = <<>> /\ \A d \in Streams : d # c => handed'[d] = handed[d]
    BY <2>1, <2>4 DEF AdsTypes
  <2>6. pc[c] \in {"closed", "idle"} /\ (pc[c] = "closed" => sub[c][TypeURL[c]] = None)
    BY <1>1, <2>2 DEF IInv, TypeOK, Handling, TurnOf
  <2>7. TurnOf(c)'
    BY <1>1, <1>3, <2>1, <2>2, <2>3, <2>5, <2>6 DEF TurnOf
  <2> QED  BY <1>2, <1>3, <2>1, <2>3, <2>5, <2>7
<1>8. CASE LoseStream(c)
  <2>1. /\ Shutdown(c) /\ up' = [up EXCEPT ![c] = <<>>] /\ down' = [down EXCEPT ![c] = <<>>]
        /\ UNCHANGED <<handed, received>>
    BY <1>8 DEF LoseStream, adsVars
  <2>2. OthersSame(c) /\ pc'[c] = "closed" /\ \A u \in Types : sub'[c][u] = None
    BY <2>1, ShutdownEffect
  <2>3. /\ up'[c] = <<>> /\ down'[c] = <<>>
        /\ \A d \in Streams : d # c => up'[d] = up[d] /\ down'[d] = down[d]
    BY <1>1, <2>1 DEF WireTypes
  <2>4. IInv'
    <3>1. CacheStep(Arriving) /\ Arriving \in [Streams -> SUBSET Request]
      BY <1>1, <2>1, ArrivingType DEF CacheStep
    <3> QED  BY <3>1, StepKept
  <2>5. ~Serving(c)' /\ ~Handling(c)'
    <3>1. sub'[c][t] = None
      BY <1>1, <2>2
    <3>2. ~IsWaiting(c, t)' /\ ~IsQueued(c, t)'
      BY <1>1, <2>4, <3>1 DEF IInv, NothingWithoutEntry
    <3> QED  BY <2>2, <3>2 DEF Serving, Handling, t
  <2>6. TurnOf(c)'
    BY <1>1, <2>1, <2>2, <2>3, <2>5 DEF TurnOf, t
  <2> QED  BY <1>2, <2>1, <2>2, <2>3, <2>6
<1> QED  BY <1>4, <1>5, <1>6, <1>7, <1>8 DEF Application

\* At first there is no message and no response.
LEMMA TurnStart == ClientsInit => TurnInv
<1> SUFFICES ASSUME ClientsInit, NEW c \in Streams PROVE TurnOf(c)
  BY DEF TurnInv
<1>1. /\ up[c] = <<>> /\ down[c] = <<>> /\ handed[c] = <<>> /\ pc[c] = "closed"
      /\ \A u \in Types : sub[c][u] = None
  BY DEF ClientsInit, AdsInit, ClientInit, Init
<1>2. IInv /\ TypeURL[c] \in Types /\ DOMAIN <<>> = {}
  BY ClientsStart, AdsClientAssumption, OneElement DEF ClientsInv, AdsClientAssumption
<1>3. ~Serving(c) /\ ~Handling(c)
  BY <1>1, <1>2 DEF Serving, Handling, IInv, NothingWithoutEntry
<1> QED  BY <1>1, <1>2, <1>3 DEF TurnOf

\* Every step leaves at most one of them.
LEMMA TurnKept ==
    ASSUME ClientsInv, TurnInv, [ClientsNext]_everything
    PROVE  TurnInv'
<1>1. IInv /\ AdsTypes /\ WireTypes
  BY DEF ClientsInv, AdsTypes
<1>2. ASSUME UNCHANGED <<pc, sub, up, down, handed, received>>,
             \A c \in Streams : Serving(c)' => Serving(c)
      PROVE  TurnInv'
  BY <1>2, TurnSame DEF TurnInv
<1>3. CASE UNCHANGED <<allVars, adsVars>>
  <2>1. UNCHANGED <<pc, sub, up, down, handed, received, watches, queue>>
    BY <1>3 DEF allVars, vars, cacheVars, streamVars, clientVars, adsVars
  <2>2. \A c \in Streams : Serving(c)' => Serving(c)
    BY <2>1 DEF Serving, IsWaiting, IsQueued
  <2> QED  BY <1>2, <2>1, <2>2
<1>4. ASSUME NEW n \in Nodes, ControlPlane(n) \/ Heartbeat(n), UNCHANGED adsVars PROVE TurnInv'
  <2>1. CacheNext /\ UNCHANGED <<up, down, handed, received>>
    BY <1>4 DEF ControlPlane, Heartbeat, CacheNext, clientVars, adsVars
  <2> QED  BY <1>1, <1>2, <2>1, CacheServing
<1>5. CASE AdsNext
  BY <1>1, <1>4, <1>5, ServerTurn, ApplicationTurn DEF AdsNext
<1> QED  BY <1>3, <1>5 DEF ClientsNext, PollerStep, everything

\* What the application judges is lastReceivedResponse, although Fetch overwrites it and may
\* run in another goroutine: the server does not answer before it hears of the last answer.
THEOREM JudgementIsAboutTheLast == ClientsSpec => []JudgesWhatWasReceived
<1>1. ClientsInit => TurnInv
  BY TurnStart
<1>2. ASSUME ClientsInv, TurnInv, [ClientsNext]_everything PROVE TurnInv'
  BY <1>2, TurnKept
<1>3. ClientsInv /\ TurnInv => JudgesWhatWasReceived
  <2> SUFFICES ASSUME ClientsInv, TurnInv, NEW c \in Streams, handed[c] # <<>>
               PROVE  Len(handed[c]) = 1 /\ handed[c][1].version = received[c]
    BY DEF JudgesWhatWasReceived
  <2>1. /\ handed[c] \in Seq(Response)
        /\ \A i \in DOMAIN handed[c] : i = 1 /\ handed[c][i].version = received[c]
    BY DEF ClientsInv, AdsTypes, TurnInv, TurnOf
  <2>2. 1 \in DOMAIN handed[c]
    BY <2>1, HeadAndTail
  <2>3. DOMAIN handed[c] = 1 .. Len(handed[c]) /\ Len(handed[c]) \in Nat
    BY SMTT(30), <2>1
  <2>4. Len(handed[c]) = 1
    <3>1. \A k \in Nat : 1 \in 1 .. k /\ (\A i \in 1 .. k : i = 1) => k = 1
      BY SMTT(30)
    <3> QED  BY <2>1, <2>2, <2>3, <3>1
  <2> QED  BY <2>1, <2>2, <2>4
<1> QED  BY <1>1, <1>2, <1>3, ClientsInvariance, PTL DEF ClientsSpec

-----------------------------------------------------------------------------
(* What the application holds.                                             *)

\* What a client holds that has all of a type of a snapshot.
AllOf(typed) == [n \in Names |-> IF n \in typed.items THEN typed.version ELSE None]

\* The response has all of the type of a snapshot.
Complete(resp, t) ==
    /\ resp.type = t /\ ~resp.heartbeat
    /\ \E snap \in Snapshots : resp.version = snap[t].version /\ resp.resources = snap[t].items

\* The application rejected the version, or holds what has it.
Shows(c, t, v) ==
    \/ v \in rejected[c]
    \/ v = Blank /\ view[c][t] = NothingHeld
    \/ \E snap \in Snapshots : v = snap[t].version /\ view[c][t] = AllOf(snap[t])

\* Whatever answers a response has its nonce, so no request is ignored.
NonceTurn(c, t) ==
    /\ sub[c][t] = None => entryNonce[c][t] = 0
    /\ \A i \in DOMAIN down[c] : down[c][i].nonce = entryNonce[c][t]
    /\ down[c] = <<>> /\ entryNonce[c][t] # 0 => nonce[c][t] = entryNonce[c][t]
    /\ \A i \in DOMAIN up[c] : up[c][i].nonce = nonce[c][t]

\* It is somebody's turn: a response that was sent is on its way, to be judged, or answered
\* by a request; so is the first request of a stream.
TokenTurn(c, t) ==
    /\ pc[c] = "closed" => replied[c] = {}
    /\ t \in replied[c] => up[c] # <<>> \/ down[c] # <<>> \/ handed[c] # <<>> \/ Handling(c)
    /\ pc[c] # "closed" /\ sub[c][t] = None => up[c] # <<>>

\* Whoever asks, asks for everything, with the version acknowledged last.
AskTurn(c, t) ==
    /\ sub[c][t] # None => sub[c][t].wildcard /\ sub[c][t].allowLegacyWildcard
    /\ \A i \in DOMAIN up[c] :
          up[c][i].req.resourceNames = {} /\ up[c][i].req.versionInfo = version[c][t]
    /\ Handling(c) => /\ pending[c].type = t /\ pending[c].resourceNames = {}
                      /\ pending[c].versionInfo = version[c][t]
    /\ \A n \in Nodes : \A w \in watches[n] :
          w.stream = c /\ w.type = t => w.versionInfo = version[c][t]

\* Every response is complete, and what was acknowledged or judged last is what the
\* application holds, unless it rejected it.
ContentTurn(c, t) ==
    /\ \A i \in DOMAIN queue[c] : queue[c][i].type = t => Complete(queue[c][i], t)
    /\ \A i \in DOMAIN down[c] : Complete(down[c][i].resp, t)
    /\ \A i \in DOMAIN handed[c] : Complete(handed[c][i], t)
    /\ Shows(c, t, version[c][t])
    /\ handed[c] = <<>> => Shows(c, t, received[c])

\* Before the first snapshot there is nothing to acknowledge.
BlankTurn(c, t) ==
    snapshots[NodeOf[c]] = None =>
        version[c][t] = Blank /\ received[c] = Blank /\ down[c] = <<>> /\ handed[c] = <<>>

AppOf(c, t) ==
    NonceTurn(c, t) /\ TokenTurn(c, t) /\ AskTurn(c, t) /\ ContentTurn(c, t) /\ BlankTurn(c, t)

\* The server leaves the entry alone, other than to answer its watch.
ServerCalm(d, t) ==
    /\ sub'[d][t] = sub[d][t] /\ replied'[d] = replied[d] /\ entryNonce'[d][t] = entryNonce[d][t]
    /\ pc'[d] = "closed" <=> pc[d] = "closed"
    /\ Handling(d)' <=> Handling(d)
    /\ Handling(d) => pending'[d] = pending[d]
    /\ \A n \in Nodes : \A w \in watches'[n] : w.stream = d /\ w.type = t => w \in watches[n]
    /\ \A i \in DOMAIN queue'[d] : queue'[d][i].type = t =>
          Complete(queue'[d][i], t) \/ \E j \in DOMAIN queue[d] : queue'[d][i] = queue[d][j]
    /\ snapshots'[NodeOf[d]] = None => snapshots[NodeOf[d]] = None

\* The client, its application and the messages are left alone.
ClientCalm(d, t) ==
    /\ up'[d] = up[d] /\ down'[d] = down[d] /\ handed'[d] = handed[d]
    /\ received'[d] = received[d] /\ rejected'[d] = rejected[d]
    /\ version'[d][t] = version[d][t] /\ view'[d][t] = view[d][t] /\ nonce'[d][t] = nonce[d][t]

\* A stream that a step leaves alone.
LEMMA CalmKept ==
    ASSUME NEW d \in Streams, NEW t \in Types, AppOf(d, t), ServerCalm(d, t), ClientCalm(d, t)
    PROVE  AppOf(d, t)'
<1> USE DEF AppOf
<1>1. NonceTurn(d, t)'
  BY DEF NonceTurn, ServerCalm, ClientCalm
<1>2. TokenTurn(d, t)'
  BY DEF TokenTurn, ServerCalm, ClientCalm
<1>3. AskTurn(d, t)'
  <2>1. \A n \in Nodes : \A w \in watches'[n] : w.stream = d /\ w.type = t => w.versionInfo = version'[d][t]
    BY DEF AskTurn, ServerCalm, ClientCalm
  <2>2. Handling(d)' => /\ pending'[d].type = t /\ pending'[d].resourceNames = {}
                        /\ pending'[d].versionInfo = version'[d][t]
    BY DEF AskTurn, ServerCalm, ClientCalm
  <2>3. /\ sub'[d][t] # None => sub'[d][t].wildcard /\ sub'[d][t].allowLegacyWildcard
        /\ \A i \in DOMAIN up'[d] :
              up'[d][i].req.resourceNames = {} /\ up'[d][i].req.versionInfo = version'[d][t]
    BY ZenonT(40) DEF AskTurn, ServerCalm, ClientCalm
  <2> QED  BY <2>1, <2>2, <2>3 DEF AskTurn
<1>4. ContentTurn(d, t)'
  <2>1. \A v : Shows(d, t, v) => Shows(d, t, v)'
    BY DEF Shows, ClientCalm
  <2>2. Shows(d, t, version[d][t])'
    BY <2>1 DEF ContentTurn, ClientCalm
  <2>3. handed'[d] = <<>> => Shows(d, t, received[d])'
    BY <2>1 DEF ContentTurn, ClientCalm
  <2>4. \A i \in DOMAIN queue'[d] : queue'[d][i].type = t => Complete(queue'[d][i], t)
    BY DEF ContentTurn, ServerCalm
  <2>5. /\ \A i \in DOMAIN down'[d] : Complete(down'[d][i].resp, t)
        /\ \A i \in DOMAIN handed'[d] : Complete(handed'[d][i], t)
    BY DEF ContentTurn, ClientCalm
  <2>6. \A r : Complete(r, t)' = Complete(r, t)
    BY DEF Complete
  <2> QED  BY <2>2, <2>3, <2>4, <2>5 DEF ContentTurn, Complete
<1>5. BlankTurn(d, t)'
  BY DEF BlankTurn, ServerCalm, ClientCalm
<1> QED  BY <1>1, <1>2, <1>3, <1>4, <1>5

\* A step on one stream leaves the others alone.
LEMMA OthersCalm ==
    ASSUME NEW c \in Streams, OthersSame(c), NEW d \in Streams, d # c, NEW t \in Types, AppOf(d, t),
           ClientCalm(d, t), entryNonce'[d][t] = entryNonce[d][t],
           snapshots'[NodeOf[d]] = None => snapshots[NodeOf[d]] = None
    PROVE  AppOf(d, t)'
<1>1. /\ pc'[d] = pc[d] /\ pending'[d] = pending[d] /\ replied'[d] = replied[d]
      /\ Same(d, t)
  BY DEF OthersSame
<1>2. Handling(d)' <=> Handling(d)
  BY <1>1 DEF Handling
<1>3. /\ sub'[d][t] = sub[d][t]
      /\ \A n \in Nodes : \A w \in watches'[n] : w.stream = d /\ w.type = t => w \in watches[n]
      /\ \A i \in DOMAIN queue'[d] : queue'[d][i].type = t =>
            \E j \in DOMAIN queue[d] : queue'[d][i] = queue[d][j]
  BY <1>1 DEF Same
<1>4. ServerCalm(d, t)
  BY <1>1, <1>2, <1>3 DEF ServerCalm
<1> QED  BY <1>4, CalmKept

\* createResponse gives a wildcard subscription all of a full state type.
LEMMA CompleteResponse ==
    ASSUME NEW t \in FullStateTypes, NEW snap \in Snapshots, NEW w, w.type = t, w.sub.wildcard, NEW r
    PROVE  Complete(createResponse(snap, w, r), t)
<1>1. t \in Types /\ snap \in Snapshot
  BY SnapshotAssumption DEF SnapshotAssumption
<1>2. snap[t].items \in SUBSET Names
  BY <1>1 DEF Snapshot
<1>3. snap[t].items \cap Watched(w.sub) = snap[t].items
  BY <1>2 DEF Watched
<1>4. PICK resp : resp = createResponse(snap, w, r)
  OBVIOUS
<1>5. /\ resp.type = t /\ resp.version = snap[t].version /\ ~resp.heartbeat
      /\ resp.resources = snap[t].items \cap Watched(w.sub)
  BY <1>4 DEF createResponse
<1> QED  BY <1>3, <1>4, <1>5 DEF Complete

\* SetSnapshot answers watches with complete responses.
LEMMA SetSnapshotApp ==
    ASSUME IInv, FitInv, NEW n \in Nodes, NEW snap \in Snapshots, SetSnapshot(n, snap),
           UNCHANGED <<clientVars, nonceVars, adsVars>>,
           NEW d \in Streams, NEW t \in FullStateTypes, AppOf(d, t)
    PROVE  AppOf(d, t)'
<1>1. /\ UNCHANGED <<version, view, nonce, up, down>> /\ UNCHANGED entryNonce
      /\ UNCHANGED <<handed, received, rejected>>
  BY DEF clientVars, nonceVars, adsVars
<1>2. /\ UNCHANGED <<pc, pending, sub, replied>>
      /\ snapshots' = [snapshots EXCEPT ![n] = snap]
      /\ \A m \in Nodes : watches'[m] \subseteq watches[m]
      /\ \A c \in Streams : \A i \in DOMAIN queue'[c] :
            \/ \E j \in DOMAIN queue[c] : queue'[c][i] = queue[c][j]
            \/ \E w \in watches[n] :
                  /\ w \in Watch /\ w.stream = c /\ w.type = queue'[c][i].type
                  /\ queue'[c][i] = createResponse(snap, w, round + 1)
  BY SetSnapshotEffect
<1>3. t \in Types /\ NodeOf[d] \in Nodes /\ snap # None
  BY SnapshotAssumption DEF SnapshotAssumption
<1>4. ASSUME NEW i \in DOMAIN queue'[d], queue'[d][i].type = t,
             NEW w \in watches[n], w \in Watch, w.stream = d, w.type = queue'[d][i].type,
             queue'[d][i] = createResponse(snap, w, round + 1)
      PROVE  Complete(queue'[d][i], t)
  <2>1. sub[d][t] # None /\ w.sub = sub[d][t]
    <3>1. w.sub = sub[d][t] /\ w.type = t
      BY <1>4 DEF FitInv, WatchesFit
    <3>2. IsWaiting(d, t)
      BY <1>4 DEF IsWaiting
    <3> QED  BY <1>3, <3>1, <3>2 DEF IInv, NothingWithoutEntry
  <2>2. w.sub.wildcard
    BY <2>1 DEF AppOf, AskTurn
  <2>3. PICK r : r = round + 1
    OBVIOUS
  <2>4. Complete(createResponse(snap, w, r), t)
    BY <1>4, <2>2, CompleteResponse
  <2> QED  BY <1>4, <2>3, <2>4
<1>5. \A i \in DOMAIN queue'[d] : queue'[d][i].type = t =>
          Complete(queue'[d][i], t) \/ \E j \in DOMAIN queue[d] : queue'[d][i] = queue[d][j]
  BY <1>2, <1>4
<1>6. snapshots'[NodeOf[d]] = None => snapshots[NodeOf[d]] = None
  <2>1. snapshots \in [Nodes -> Snapshot \cup {None}]
    BY DEF IInv, TypeOK
  <2>2. CASE NodeOf[d] = n
    BY <1>2, <1>3, <2>1, <2>2
  <2>3. CASE NodeOf[d] # n
    BY <1>2, <1>3, <2>1, <2>3
  <2> QED  BY <2>2, <2>3
<1>7. Handling(d)' <=> Handling(d)
  BY <1>2 DEF Handling
<1>8. ServerCalm(d, t)
  BY <1>1, <1>2, <1>5, <1>6, <1>7 DEF ServerCalm
<1>9. ClientCalm(d, t)
  BY <1>1 DEF ClientCalm
<1> QED  BY <1>3, <1>8, <1>9, CalmKept

\* A watch is created for a request: FirstRequest and Rewatch.
LEMMA CreatedApp ==
    ASSUME IInv, SnapshotsSet, NEW c \in Streams, NEW t \in FullStateTypes, AppOf(c, t),
           NEW req, req.type = t, req.versionInfo = version[c][t],
           NEW s, s # None, s.wildcard, s.allowLegacyWildcard, Created(c, req, s),
           entryNonce'[c][t] = 0, up'[c] = <<>>, down[c] = <<>>, down'[c] = <<>>,
           handed'[c] = handed[c], received'[c] = received[c], rejected'[c] = rejected[c],
           version'[c][t] = version[c][t], view'[c][t] = view[c][t], nonce'[c][t] = nonce[c][t]
    PROVE  AppOf(c, t)'
<1>1. /\ pc'[c] = "idle" /\ sub'[c][t] = s /\ snapshots' = snapshots
      /\ replied'[c] = replied[c] \ {t}
      /\ \A n \in Nodes : \A v \in watches'[n] : v.stream = c /\ v.type = t =>
            v.sub = s /\ v.versionInfo = req.versionInfo
      /\ \A i \in DOMAIN queue'[c] : queue'[c][i].type = t =>
            /\ snapshots[NodeOf[c]] \in Snapshot
            /\ \E w \in Watch : /\ w.stream = c /\ w.type = t
                                /\ w.sub = s /\ w.versionInfo = req.versionInfo
                                /\ queue'[c][i] = createResponse(snapshots[NodeOf[c]], w, 0)
  BY DEF Created
<1>2. ~Handling(c)' /\ DOMAIN <<>> = {} /\ NodeOf[c] \in Nodes
  BY <1>1, OneElement, SnapshotAssumption DEF Handling, SnapshotAssumption
<1>3. NonceTurn(c, t)'
  BY <1>2 DEF NonceTurn
<1>4. TokenTurn(c, t)'
  BY <1>1 DEF TokenTurn
<1>5. AskTurn(c, t)'
  BY <1>1, <1>2 DEF AskTurn
<1>6. ContentTurn(c, t)'
  <2>1. \A v : Shows(c, t, v) => Shows(c, t, v)'
    BY DEF Shows
  <2>2. Shows(c, t, version[c][t])' /\ (handed'[c] = <<>> => Shows(c, t, received[c])')
    BY <2>1 DEF AppOf, ContentTurn
  <2>3. ASSUME NEW i \in DOMAIN queue'[c], queue'[c][i].type = t PROVE Complete(queue'[c][i], t)
    <3>1. snapshots[NodeOf[c]] \in Snapshots
      BY <1>1, <1>2, <2>3, SnapshotAssumption DEF SnapshotAssumption, SnapshotsSet
    <3>2. PICK snap \in Snapshots : snap = snapshots[NodeOf[c]]
      BY <3>1
    <3>3. PICK w : w.type = t /\ w.sub = s /\ queue'[c][i] = createResponse(snap, w, 0)
      BY <1>1, <2>3, <3>2
    <3>4. w.sub.wildcard
      BY <3>3
    <3>5. Complete(createResponse(snap, w, 0), t)
      BY <3>3, <3>4, CompleteResponse
    <3> QED  BY <3>3, <3>5
  <2>4. \A i \in DOMAIN handed'[c] : Complete(handed'[c][i], t)
    BY DEF AppOf, ContentTurn
  <2> QED  BY <1>2, <2>2, <2>3, <2>4 DEF ContentTurn, Complete
<1>7. BlankTurn(c, t)'
  BY <1>1 DEF AppOf, BlankTurn
<1> QED  BY <1>3, <1>4, <1>5, <1>6, <1>7 DEF AppOf

\* An empty list stays the wildcard: NewSotwSubscription and SetResourceSubscription.
LEMMA AsksForAll ==
    ASSUME LegacyWildcard
    PROVE  /\ NewSotwSubscription({}, LegacyWildcard).wildcard
           /\ NewSotwSubscription({}, LegacyWildcard).allowLegacyWildcard
           /\ \A s : s.allowLegacyWildcard => SetResourceSubscription(s, {}) = s
<1>1. \A s : s.allowLegacyWildcard => SetResourceSubscription(s, {}) = s
  BY DEF SetResourceSubscription
<1>2. PICK s : s = newSubscription({} = {}, LegacyWildcard, NothingKnown)
  OBVIOUS
<1>3. s.wildcard /\ s.allowLegacyWildcard
  BY <1>2 DEF newSubscription
<1>4. NewSotwSubscription({}, LegacyWildcard) = s
  BY <1>1, <1>2, <1>3 DEF NewSotwSubscription
<1> QED  BY <1>1, <1>3, <1>4

\* The nonces of the entries and what the applications hold are well formed.
AppTypes ==
    /\ entryNonce \in [Streams -> [Types -> Nat]]
    /\ view \in [Streams -> [Types -> [Names -> VersionInfos \cup {None}]]]
=============================================================================
