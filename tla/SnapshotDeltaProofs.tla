-------------------------- MODULE SnapshotDeltaProofs --------------------------
(***************************************************************************)
(* Theorems about SnapshotDelta, for any sets of types, nodes, streams,    *)
(* snapshots and requests: the snapshot cache keeps its promises next to   *)
(* delta streams; no delta watch sends on a closed or a full channel; the  *)
(* responses of a SetSnapshot are in the order of the types; and a client  *)
(* with an open watch holds the contents of the snapshot.                  *)
(***************************************************************************)
EXTENDS SnapshotDeltaInvariant, SnapshotCacheProofs, FiniteSetTheorems

\* A leaf is for Zenon, or for the SMT solver where it cites it: arithmetic and sequences.
USE Zenon

\* Every step of the composed system is a step of the snapshot cache with its state of
\* the world streams, or none: respondDeltaWatches and processDelta never disturb them.
LEMMA DeltaStepIsStep ==
    ASSUME [DeltaNext]_deltaVars PROVE [Next]_vars
<1>1. CASE UNCHANGED deltaVars
  BY <1>1 DEF deltaVars
<1>2. CASE \E n \in Nodes : \/ \E snap \in Snapshots : SetSnapshotBoth(n, snap)
                            \/ SendHeartbeatsBoth(n)
                            \/ ClearSnapshotBoth(n)
  BY <1>2 DEF SetSnapshotBoth, SendHeartbeatsBoth, ClearSnapshotBoth, Next, CacheNext
<1>3. CASE \E c \in Streams : StreamNext(c) /\ UNCHANGED <<deltaCacheVars, deltaStreamVars>>
  BY <1>3 DEF Next
<1>4. CASE \E d \in DeltaStreams : DeltaStreamNext(d)
  BY <1>4, DeltaStreamAlone
<1> QED  BY <1>1, <1>2, <1>3, <1>4 DEF DeltaNext

\* The snapshot cache with delta streams beside it is still the snapshot cache of
\* SnapshotCache: all that is proved of that one holds of the composition.
THEOREM DeltaImplementsCache == DeltaSpec => Spec
<1>1. DeltaInit => Init
  BY DEF DeltaInit
<1>2. [DeltaNext]_deltaVars => [Next]_vars
  BY DeltaStepIsStep
<1> QED  BY <1>1, <1>2, PTL DEF DeltaSpec, Spec

\* The inductive invariant of the delta part holds in every reachable state.
THEOREM DeltaInvariance == DeltaSpec => []DeltaIInv
<1>1. DeltaIInv /\ TypeOK /\ [DeltaNext]_deltaVars => DeltaIInv'
  BY DeltaStepKept
<1> QED  BY <1>1, DeltaInitHolds, DeltaImplementsCache, TypeCorrect, PTL DEF DeltaSpec

\* Every variable of the delta part of the snapshot cache and of the delta loops keeps
\* its type.
THEOREM DeltaTypeCorrect == DeltaSpec => []DeltaTypeOK
<1>1. DeltaIInv => DeltaTypeOK
  BY DEF DeltaIInv
<1> QED  BY <1>1, DeltaInvariance, PTL

\* No delta watch of the snapshot cache outlives the channel it sends on: the channel is
\* closed after the last cancel function has run, however the sends fall between them.
THEOREM NoDeltaSendOnClosedChannel == DeltaSpec => []NoSendOnClosedChannel
<1>1. DeltaIInv => NoSendOnClosedChannel
  BY DEF DeltaIInv
<1> QED  BY <1>1, DeltaInvariance, PTL

-----------------------------------------------------------------------------
(* The room of the muxed channel.                                          *)

\* A channel with at most two responses of each type has at most twice as many as there
\* are types: a response is told by its type and whether it is the first.
LEMMA TwoOfEach ==
    ASSUME NEW q \in Seq(DeltaResponse), \A t \in Types : Two(q, t)
    PROVE  Len(q) <= 2 * Cardinality(Types)
<1> DEFINE S    == 1 .. Len(q)
           T    == Types \X {1, 2}
           Later(i) == \E j \in S : j < i /\ q[j].type = q[i].type
           f    == [i \in S |-> <<q[i].type, IF Later(i) THEN 2 ELSE 1>>]
<1>1. Len(q) \in Nat /\ DOMAIN q = S /\ \A i \in S : i \in Int /\ q[i] \in DeltaResponse
  BY SMTT(30)
<1>2. \A i \in S : q[i].type \in Types
  BY <1>1 DEF DeltaResponse
<1>3. ASSUME NEW i \in S, NEW j \in S, f[i] = f[j], i < j PROVE FALSE
  <2>1. q[i].type = q[j].type /\ (Later(i) <=> Later(j))
    BY SMTT(30), <1>3
  <2>2. Later(j)
    BY <1>3, <2>1
  <2>3. PICK k \in S : k < i /\ q[k].type = q[i].type
    BY <2>1, <2>2
  <2>4. Two(q, q[i].type)
    BY <1>2
  <2>5. k = i \/ i = j \/ k = j
    BY <1>1, <2>1, <2>3, <2>4 DEF Two
  <2> QED  BY SMTT(30), <1>1, <1>3, <2>3, <2>5
<1>4. \A i, j \in S : f[i] = f[j] => i = j
  <2>1. \A i, j \in S : i < j \/ j < i \/ i = j
    BY SMTT(30), <1>1
  <2> HIDE DEF f
  <2> QED  BY <1>3, <2>1
<1>5. f \in Injection(S, T)
  <2>1. f \in [S -> T]
    BY <1>2
  <2> HIDE DEF f
  <2> QED  BY <1>4, <2>1 DEF Injection, IsInjective
<1>6. IsFiniteSet({1, 2}) /\ Cardinality({1, 2}) = 2
  <2>1. {1, 2} = 1 .. 2 /\ 1 \in Int /\ 2 \in Int
    BY SMTT(30)
  <2>2. /\ IsFiniteSet(1 .. 2)
        /\ Cardinality(1 .. 2) = IF 1 > 2 THEN 0 ELSE 2 - 1 + 1
    BY <2>1, FS_Interval
  <2> QED  BY SMTT(30), <2>1, <2>2
<1>7. IsFiniteSet(Types) /\ Cardinality(Types) \in Nat
  BY SnapshotAssumption, FS_CardinalityType DEF SnapshotAssumption
<1>8. IsFiniteSet(T) /\ Cardinality(T) = Cardinality(Types) * Cardinality({1, 2})
  BY <1>6, <1>7, FS_Product
<1>9. Cardinality(S) <= Cardinality(T)
  <2> HIDE DEF f, S, T
  <2> QED  BY <1>5, <1>8, FS_Injection
<1>10. Cardinality(S) = Len(q)
  <2>1. 1 \in Int /\ Len(q) \in Int
    BY SMTT(30), <1>1
  <2>2. Cardinality(1 .. Len(q)) = IF 1 > Len(q) THEN 0 ELSE Len(q) - 1 + 1
    BY <2>1, FS_Interval
  <2> QED  BY SMTT(30), <1>1, <2>2
<1> QED  BY SMTT(30), <1>6, <1>7, <1>8, <1>9, <1>10

\* The cache never finds the muxed channel of a delta stream full while it holds its
\* lock, whatever overtakes what: two responses for each type are enough.
THEOREM MuxedHasRoom == DeltaSpec => []MuxedNeverFull
<1>1. ASSUME DeltaIInv PROVE MuxedNeverFull
  <2> SUFFICES ASSUME NEW d \in DeltaStreams PROVE Len(muxed[d]) <= 2 * Cardinality(Types)
    BY DEF MuxedNeverFull
  <2>1. muxed[d] \in Seq(DeltaResponse) /\ \A t \in Types : Two(muxed[d], t)
    BY <1>1 DEF DeltaIInv, DeltaTypeOK, DeltaRoom, Room
  <2> QED  BY <2>1, TwoOfEach
<1> QED  BY <1>1, DeltaInvariance, PTL

\* In ADS mode the responses of one SetSnapshot reach a delta stream in the order of the
\* types that orderResponseWatches gives, however many calls are queued in its channel.
THEOREM DeltaOrder == DeltaSpec => []DeltaSentInOrder
<1> DEFINE Inv == Ads => DeltaInOrder
<1>1. DeltaInit => Inv
  <2> SUFFICES ASSUME DeltaInit PROVE DeltaInOrder
    OBVIOUS
  <2>1. round = 0 /\ \A d \in DeltaStreams : muxed[d] = <<>>
    BY DEF DeltaInit, Init
  <2>2. Sorted(<<>>, 0)
    BY SMTT(30) DEF Sorted
  <2> QED  BY <2>1, <2>2 DEF DeltaInOrder
<1>2. DeltaIInv /\ DeltaTypeOK' /\ TypeOK /\ Inv /\ [DeltaNext]_deltaVars => Inv'
  BY DeltaOrderKept
<1>3. Inv => DeltaSentInOrder
  BY DEF DeltaInOrder, Sorted, DeltaSentInOrder
<1> HIDE DEF Inv
<1> QED  BY <1>1, <1>2, <1>3, DeltaInvariance, DeltaTypeCorrect, DeltaImplementsCache,
            TypeCorrect, PTL DEF DeltaSpec

\* When every resource can be marshalled, a client with an open delta watch holds the
\* contents of every resource it asks for: CreateDeltaWatch and SetSnapshot leave no
\* watch with something owed, and the versions of its watch entry are what it holds.
THEOREM WatchingClients ==
    ASSUME AllMarshal PROVE DeltaSpec => []WatchingClientIsCurrent
<1>1. DeltaInit => ClientInv
  BY ClientInitHolds
<1>2. DeltaIInv /\ TypeOK /\ ClientInv /\ [DeltaNext]_deltaVars => ClientInv'
  BY ClientStepKept
<1>3. DeltaIInv /\ ClientInv => WatchingClientIsCurrent
  BY BelievedIsCurrent
<1> QED  BY <1>1, <1>2, <1>3, DeltaInvariance, DeltaImplementsCache, TypeCorrect, PTL
         DEF DeltaSpec
=============================================================================
