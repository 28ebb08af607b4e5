-------------------------------- MODULE Clients --------------------------------
(***************************************************************************)
(* One snapshot cache that serves clients of the ADS client library and    *)
(* REST pollers at the same time.                                          *)
(***************************************************************************)
EXTENDS AdsClient, RestPoller

everything == <<allVars, adsVars, restVars>>

ClientsInit == AdsInit /\ RestInit

PollerStep(p) ==
    /\ RestStep(p)
    /\ UNCHANGED <<allVars, adsVars>>

ClientsNext ==
    \/ AdsNext /\ UNCHANGED restVars
    \/ \E p \in Pollers : PollerStep(p)

\* A poller keeps polling, next to the fairness of AdsClient.
ClientsSpec ==
    /\ ClientsInit /\ [][ClientsNext]_everything
    /\ AdsFairness
    /\ \A p \in Pollers : WF_everything(PollerStep(p))

-----------------------------------------------------------------------------
(* Properties.                                                             *)

\* Every variable of the two kinds of clients has the type of what it stands for.
ClientsTypeOK ==
    /\ pipelined \in [Streams -> BOOLEAN]
    /\ received \in [Streams -> VersionInfos]
    /\ phase \in [Streams -> {"unconnected", "ready", "fetching"}]
    /\ handed \in [Streams -> Seq(Response)]
    /\ rejected \in [Streams -> SUBSET VersionInfos]
    /\ listed \in [Pollers -> PollerNames]
    /\ polled \in [Pollers -> VersionInfos]
    /\ holds \in [Pollers -> Holding]
    /\ exchange \in [Pollers -> Exchange]
=============================================================================
