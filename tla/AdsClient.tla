------------------------------- MODULE AdsClient -------------------------------
(***************************************************************************)
(* The client library pkg/client/sotw/v3 against the server and the cache: *)
(* each stream of SotwClient is the connection of one adsClient, which asks *)
(* for all resources of one type, and of the application that drives it,   *)
(* in the loop its interface describes: InitConnect, then Fetch and Ack or *)
(* Nack, and InitConnect again when the connection is lost.                *)
(*                                                                         *)
(* version and nonce of SotwClient are the version of lastAckedResponse    *)
(* and the nonce of lastReceivedResponse; view is what the application     *)
(* accepted.                                                               *)
(***************************************************************************)
EXTENDS SotwClient

CONSTANT TypeURL  \* the type of each client

ASSUME AdsClientAssumption == TypeURL \in [Streams -> Types]

VARIABLES
    pipelined,  \* the application fetches in one goroutine and judges in another
    received,   \* version of lastReceivedResponse
    phase,      \* the client is unconnected, ready, or in Fetch, with the mutex
    handed,     \* responses Fetch returned that the application has not judged
    rejected    \* history: versions the application rejected

adsVars == <<pipelined, received, phase, handed, rejected>>

AdsInit ==
    /\ ClientInit
    /\ pipelined \in [Streams -> BOOLEAN]
    /\ received = [c \in Streams |-> Blank]
    /\ phase = [c \in Streams |-> "unconnected"]
    /\ handed = [c \in Streams |-> <<>>]
    /\ rejected = [c \in Streams |-> {}]

-----------------------------------------------------------------------------
(* adsClient.                                                              *)

\* Send fails on a broken stream.
sendRequest(c, connected, v, k) ==
    up' = IF connected THEN [up EXCEPT ![c] = Append(@, Message(TypeURL[c], {}, v, k))] ELSE up

InitConnect_Silent(c) ==
    /\ Open(c)
    /\ phase[c] = "unconnected" /\ handed[c] = <<>>
    /\ phase' = [phase EXCEPT ![c] = "ready"]
    /\ UNCHANGED <<clientVars, nonceVars, count, pipelined, received, handed, rejected>>

\* The new stream starts with an Ack of whatever was received on the old one.
InitConnect(c) ==
    LET t == TypeURL[c]
    IN  /\ Open(c)
        /\ phase[c] = "unconnected" /\ handed[c] = <<>>
        /\ phase' = [phase EXCEPT ![c] = "ready"]
        /\ wants' = [wants EXCEPT ![c][t] = {}]
        /\ version' = [version EXCEPT ![c][t] = received[c]]
        /\ sendRequest(c, TRUE, received[c], nonce[c][t])
        /\ UNCHANGED <<view, refused, nonce, down, nonceVars, count,
                       pipelined, received, handed, rejected>>

\* Fetch takes the mutex.
Fetch(c) ==
    /\ phase[c] = "ready"
    /\ handed[c] = <<>> \/ pipelined[c]
    /\ phase' = [phase EXCEPT ![c] = "fetching"]
    /\ UNCHANGED <<vars, clientVars, nonceVars, count, pipelined, received, handed, rejected>>

FetchReturns_KeepsLast(c) ==
    /\ phase[c] = "fetching" /\ down[c] # <<>>
    /\ handed' = [handed EXCEPT ![c] = Append(@, Head(down[c]).resp)]
    /\ down' = [down EXCEPT ![c] = Tail(@)]
    /\ phase' = [phase EXCEPT ![c] = "ready"]
    /\ UNCHANGED <<vars, wants, version, view, refused, nonce, up, nonceVars, count, pipelined,
                   received, rejected>>

\* Recv returns a response.
FetchReturns(c) ==
    /\ phase[c] = "fetching" /\ down[c] # <<>>
    /\ LET resp == Head(down[c]).resp
       IN  /\ received' = [received EXCEPT ![c] = resp.version]
           /\ nonce' = [nonce EXCEPT ![c][TypeURL[c]] = Head(down[c]).nonce]
           /\ handed' = [handed EXCEPT ![c] = Append(@, resp)]
    /\ down' = [down EXCEPT ![c] = Tail(@)]
    /\ phase' = [phase EXCEPT ![c] = "ready"]
    /\ UNCHANGED <<vars, wants, version, view, refused, up, nonceVars, count, pipelined, rejected>>

\* Recv returns the error of a broken stream, which IsConnError recognizes.
FetchFails(c) ==
    /\ phase[c] = "fetching" /\ pc[c] = "closed"
    /\ phase' = [phase EXCEPT ![c] = "unconnected"]
    /\ UNCHANGED <<vars, clientVars, nonceVars, count, pipelined, received, handed, rejected>>

\* The application accepts the first response it has not judged.
Ack(c) ==
    LET t == TypeURL[c]
    IN  /\ handed[c] # <<>> /\ phase[c] # "fetching"
        /\ handed' = [handed EXCEPT ![c] = Tail(@)]
        /\ view' = [view EXCEPT ![c][t] = Applied(@, Head(handed[c]), {})]
        /\ version' = [version EXCEPT ![c][t] = received[c]]
        /\ sendRequest(c, pc[c] # "closed", received[c], nonce[c][t])
        /\ UNCHANGED <<vars, wants, refused, nonce, down, nonceVars, count, pipelined,
                       received, phase, rejected>>

\* The application rejects it.
Nack(c) ==
    LET t == TypeURL[c]
        resp == Head(handed[c])
    IN  /\ handed[c] # <<>> /\ phase[c] # "fetching"
        /\ count.rejections < MaxRejections /\ ~resp.heartbeat
        /\ count' = [count EXCEPT !.rejections = @ + 1]
        /\ handed' = [handed EXCEPT ![c] = Tail(@)]
        /\ rejected' = [rejected EXCEPT ![c] = @ \cup {resp.version}]
        /\ sendRequest(c, pc[c] # "closed", version[c][t], nonce[c][t])
        /\ UNCHANGED <<vars, wants, version, view, refused, nonce, down, nonceVars, pipelined,
                       received, phase>>

\* The stream breaks; the client keeps what it received last.
LoseStream(c) ==
    /\ count.breaks < MaxBreaks
    /\ Shutdown(c)
    /\ count' = [count EXCEPT !.breaks = @ + 1]
    /\ up' = [up EXCEPT ![c] = <<>>]
    /\ down' = [down EXCEPT ![c] = <<>>]
    /\ entryNonce' = [entryNonce EXCEPT ![c] = [t \in Types |-> 0]]
    /\ lastNonce' = [lastNonce EXCEPT ![c] = 0]
    /\ unheard' = [unheard EXCEPT ![c] = [t \in Types |-> {}]]
    /\ UNCHANGED <<wants, version, view, refused, nonce, adsVars>>

-----------------------------------------------------------------------------

Application(c) == InitConnect(c) \/ Fetch(c) \/ FetchReturns(c) \/ FetchFails(c) \/ Ack(c)

AdsNext ==
    \/ \E n \in Nodes : (ControlPlane(n) \/ Heartbeat(n)) /\ UNCHANGED adsVars
    \/ \E c \in Streams :
          \/ ServerStep(c) /\ UNCHANGED adsVars
          \/ Application(c)
          \/ Nack(c)
          \/ LoseStream(c)

\* The goroutine of a stream and the application keep running.
AdsFairness ==
    \A c \in Streams : /\ WF_<<allVars, adsVars>>(ServerStep(c) /\ UNCHANGED adsVars)
                       /\ WF_<<allVars, adsVars>>(Application(c))

-----------------------------------------------------------------------------
(* Properties.                                                             *)

\* The application has the snapshot of its node, or rejected it.
HasSnapshot(c) ==
    LET typed == snapshots[NodeOf[c]][TypeURL[c]]
    IN  \/ typed.version \in rejected[c]
        \/ view[c][TypeURL[c]] = [n \in Names |-> IF n \in typed.items THEN typed.version ELSE None]

\* Once nothing is on its way and nothing is left to judge, the application has the
\* snapshot of its node or rejected it: neither a nonce of an earlier stream nor the Ack
\* that InitConnect begins with hides an update.
ApplicationIsCurrent ==
    \A c \in Streams :
        Settled(c) /\ handed[c] = <<>> /\ wants[c][TypeURL[c]] # None
            /\ snapshots[NodeOf[c]] # None /\ ~failed[NodeOf[c]] => HasSnapshot(c)

\* Ack and Nack say something about lastReceivedResponse, which Fetch overwrites: it is
\* the response the application is judging, because the server does not answer
\* before it hears of the last answer.
JudgesWhatWasReceived ==
    \A c \in Streams : handed[c] # <<>> =>
        Len(handed[c]) = 1 /\ handed[c][1].version = received[c]

\* An application that judges a response before it fetches the next ends up with the
\* last snapshot, or with its rejection.  (One that fetches meanwhile never gets to
\* say Ack: Fetch holds the mutex until the server, which waits for it, sends more.)
ApplicationBecomesCurrent ==
    \A c \in Streams :
        ~pipelined[c] => <>[](snapshots[NodeOf[c]] # None => HasSnapshot(c))
=============================================================================
