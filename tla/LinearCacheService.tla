-------------------------- MODULE LinearCacheService --------------------------
(***************************************************************************)
(* LinearCache implements WatchService: a stream is a consumer; its open   *)
(* watch is the one the indexes hold, whichever way the subscription names *)
(* the resources; the versions it sees are cache versions on a state of    *)
(* the world stream and hashes on a delta stream.                          *)
(***************************************************************************)
EXTENDS LinearCache

\* A nil is neither contents nor a watch.
ASSUME NilAssumption ==
    /\ None \notin [Names -> Versions \cup {None}]
    /\ None \notin [asks : SUBSET Names, holds : [Names -> Versions \cup {None}]]

\* The versions that the contents res have for a stream.
VersionsSeen(res, c) ==
    [n \in Names |-> IF res[n] = None THEN None
                     ELSE IF c \in DeltaStreams THEN res[n].resource
                     ELSE res[n].cacheVersion]

Asking(w) == [asks |-> Requested(w.sub), holds |-> w.sub.returnedResources]

OpenWatch(c) == IF HasOpenWatch(c) THEN Asking(WatchOf(c, Tracked)) ELSE None

Sent(resp) == [sent  |-> {n \in Names : resp.resources[n] # None},
               holds |-> resp.returnedResources]

Answers(queue) == [i \in DOMAIN queue |-> Sent(queue[i])]

ToldRemovals == IF FullState THEN Streams ELSE DeltaStreams

Service == INSTANCE WatchService WITH
    Consumers     <- Streams,
    TellsRemovals <- ToldRemovals,
    contents      <- [c \in Streams |-> VersionsSeen(resources, c)],
    open          <- [c \in Streams |-> OpenWatch(c)],
    answers       <- [c \in Streams |-> Answers(chan[c])],
    missed        <- [c \in Streams |-> failed]

\* The linear cache with its servers is a watch service: every update answers exactly
\* the open watches it concerns, each answer brings the client to the contents of that
\* moment, no watch is answered twice or after it was cancelled, and a new watch is
\* left open only if its client is up to date.
ImplementsWatchService == Service!Spec
=============================================================================
