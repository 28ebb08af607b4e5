------------------------------ MODULE RestPoller ------------------------------
(***************************************************************************)
(* REST clients of the snapshot cache: the HTTP gateway                    *)
(* (pkg/server/v3/gateway.go), server.Fetch (pkg/server/rest/v3) and       *)
(* snapshotCache.Fetch.  The client is not part of the repository: it      *)
(* polls for its names with the version it has, one request at a time.     *)
(***************************************************************************)
EXTENDS SnapshotCache

CONSTANTS
    Pollers,
    PollerNode,  \* the node of each poller
    PollerType,  \* the type of its endpoint
    PollerNames  \* the lists of names a poller may have; {} stands for all

ASSUME PollerAssumption ==
    /\ PollerNode \in [Pollers -> Nodes] /\ PollerType \in [Pollers -> Types]
    /\ PollerNames \subseteq SUBSET Names

VARIABLES
    listed,   \* the names the poller lists
    polled,   \* version of the last response with contents
    holds,    \* versions of the resources the poller has
    exchange  \* its poll: none, a request or an answer

restVars == <<listed, polled, holds, exchange>>

Holding == [Names -> VersionInfos \cup {None}]

\* The status of an answer is that of HTTP; of is a history field, the snapshot it was
\* made from.
Statuses == {"idle", "asked", "OK", "NotModified", "InternalServerError"}

Exchange == [status : Statuses, version : VersionInfos, resources : SUBSET Names,
             of : Snapshot \cup {None}]

Empty_Nil(status, snap) == [status |-> status, version |-> None, resources |-> {}, of |-> snap]

Empty(status, snap) == [status |-> status, version |-> Blank, resources |-> {}, of |-> snap]

RestInit ==
    /\ listed \in [Pollers -> PollerNames]
    /\ polled = [p \in Pollers |-> Blank]
    /\ holds = [p \in Pollers |-> NothingKnown]
    /\ exchange = [p \in Pollers |-> Empty("idle", None)]

-----------------------------------------------------------------------------

Listing_UntilMissing(p, snap) ==
    LET items == snap[PollerType[p]].items
    IN  IF listed[p] = {} THEN items ELSE IF listed[p] \subseteq items THEN listed[p] ELSE {}

\* The names of a snapshot that a poller asks for; one that is missing is skipped.
Listing(p, snap) ==
    LET items == snap[PollerType[p]].items
    IN  IF listed[p] = {} THEN items ELSE items \cap listed[p]

Ask(p) ==
    /\ exchange[p].status = "idle"
    /\ exchange' = [exchange EXCEPT ![p] = Empty("asked", None)]
    /\ UNCHANGED <<listed, polled, holds>>

UpToDate_AnyVersion(p, snap) == polled[p] # Blank

UpToDate(p, snap) == snap[PollerType[p]].version = polled[p]

\* snapshotCache.Fetch under the read lock, and the status ServeHTTP makes of it.
FetchSnapshot(p) ==
    LET snap == snapshots[PollerNode[p]]
    IN  /\ exchange[p].status = "asked"
        /\ exchange' = [exchange EXCEPT ![p] =
              IF snap = None THEN Empty("InternalServerError", snap)
              ELSE IF UpToDate(p, snap) THEN Empty("NotModified", snap)
              ELSE [Empty("OK", snap) EXCEPT !.version = snap[PollerType[p]].version,
                                             !.resources = Listing(p, snap)]]
        /\ UNCHANGED <<listed, polled, holds>>

\* The poller replaces what it has when it is sent contents.
Take(p) ==
    /\ exchange[p].status \notin {"idle", "asked"}
    /\ LET answer == exchange[p]
       IN  IF answer.status = "OK"
           THEN /\ polled' = [polled EXCEPT ![p] = answer.version]
                /\ holds' = [holds EXCEPT ![p] =
                      [n \in Names |-> IF n \in answer.resources THEN answer.version ELSE None]]
           ELSE UNCHANGED <<polled, holds>>
    /\ exchange' = [exchange EXCEPT ![p] = Empty("idle", None)]
    /\ UNCHANGED listed

RestStep(p) == Ask(p) \/ FetchSnapshot(p) \/ Take(p)

-----------------------------------------------------------------------------
(* Properties.                                                             *)

\* The poller has of the snapshot what it lists, and nothing else.
HoldsListing(p, snap) ==
    holds[p] = [n \in Names |->
        LET typed == snap[PollerType[p]]
        IN  IF n \in typed.items /\ (listed[p] = {} \/ n \in listed[p])
            THEN typed.version ELSE None]

\* 304 signifies "that it is already at the latest version": whatever snapshots came
\* and went between its polls, the poller then has exactly what it lists.
NotModifiedMeansCurrent ==
    \A p \in Pollers :
        exchange[p].status = "NotModified" => HoldsListing(p, exchange[p].of)

\* "Responding to individual names with the same version works": a poller that keeps
\* polling ends up with its part of the last snapshot.
PollerBecomesCurrent ==
    \A p \in Pollers :
        <>[](snapshots[PollerNode[p]] # None => HoldsListing(p, snapshots[PollerNode[p]]))
=============================================================================
