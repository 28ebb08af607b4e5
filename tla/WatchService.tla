----------------------------- MODULE WatchService -----------------------------
(***************************************************************************)
(* What a cache promises the servers (ConfigWatcher in                     *)
(* pkg/cache/v3/cache.go), without its indexes, ids, locks and wildcards.  *)
(*                                                                         *)
(* A consumer, a stream or a type of a stream, has at most one open watch: *)
(* the names it asks for and the versions its client holds.  A watch is    *)
(* answered at most once, only when it is owed something, and never after  *)
(* it was cancelled.  The answer brings the client to the contents of the  *)
(* cache at that moment, whatever it held.                                 *)
(***************************************************************************)
EXTENDS Sequences

CONSTANTS
    Consumers,
    Names,
    TellsRemovals,  \* consumers whose clients are told what is gone
    None

VARIABLES
    contents,   \* version of each name, as a consumer sees it; None without contents
    open,       \* the open watch of each consumer, or None
    answers,    \* answers not yet taken, of each consumer
    missed      \* an update that reported an error may have missed the consumer

vars == <<contents, open, answers, missed>>

Init ==
    /\ open = [k \in Consumers |-> None]
    /\ answers = [k \in Consumers |-> <<>>]
    /\ missed = [k \in Consumers |-> FALSE]

\* What a client that asks for these names holds once it has the contents v.
Holding(v, asks) == [n \in Names |-> IF n \in asks THEN v[n] ELSE None]

\* The names of which a client is to be sent the contents.
Needed(v, w) == {n \in w.asks : v[n] # None /\ w.holds[n] # v[n]}

Owed(k, v, w) ==
    /\ v # None
    /\ \/ Needed(v, w) # {}
       \/ k \in TellsRemovals /\ w.holds # Holding(v, w.asks)

\* A queue with one more answer: the client is sent all it needs, and perhaps more of
\* what it asks for.
WithAnswer(queue, v, asks, needed) ==
    {Append(queue, [sent |-> sent, holds |-> Holding(v, asks)]) :
        sent \in {names \in SUBSET asks : needed \subseteq names}}

Undisturbed(k) == open'[k] = open[k] /\ answers'[k] = answers[k]

-----------------------------------------------------------------------------
(* The contents change.                                                    *)

Answer(k, v, w) ==
    /\ open'[k] = None
    /\ answers'[k] \in WithAnswer(answers[k], v, w.asks, Needed(v, w))

\* The update comes to the consumer: it is answered exactly if it is owed something.
Reaches(k) ==
    LET v == contents'[k]
        w == open[k]
    IN  /\ IF w # None /\ Owed(k, v, w) THEN Answer(k, v, w) ELSE Undisturbed(k)
        /\ missed'[k] => missed[k]

\* The update reports an error and may have left the consumer out.
Misses(k) ==
    LET v == contents'[k]
        w == open[k]
    IN  /\ missed'[k]
        /\ Undisturbed(k) \/ (w # None /\ Owed(k, v, w) /\ Answer(k, v, w))

\* The contents are withdrawn, and the watch with them.
Withdraws(k) ==
    /\ contents'[k] = None
    /\ open'[k] = None /\ answers'[k] = answers[k]

Update == \A k \in Consumers : Reaches(k) \/ Misses(k) \/ Withdraws(k)

-----------------------------------------------------------------------------
(* A consumer watches, cancels, and takes its answers.                     *)

Others(k) == \A j \in Consumers \ {k} : Undisturbed(j)

\* A consumer without an open watch creates one, with its channel or a new one.
Watch(k) ==
    /\ open[k] = None
    /\ \E queue \in {answers[k], <<>>} :
          \/ /\ open'[k] = None /\ contents[k] # None
             /\ \E asks \in SUBSET Names : answers'[k] \in WithAnswer(queue, contents[k], asks, {})
          \/ /\ open'[k] # None /\ ~Owed(k, contents[k], open'[k])
             /\ answers'[k] = queue
    /\ Others(k)
    /\ UNCHANGED <<contents, missed>>

\* Consumers give up their watch, if any, and may drop their channel.
Cancel(ks) ==
    /\ \A k \in ks : open'[k] = None /\ answers'[k] \in {answers[k], <<>>}
    /\ \A k \in Consumers \ ks : Undisturbed(k)
    /\ UNCHANGED <<contents, missed>>

Take(k) ==
    /\ answers[k] # <<>>
    /\ answers'[k] = Tail(answers[k]) /\ open'[k] = open[k]
    /\ Others(k)
    /\ UNCHANGED <<contents, missed>>

Next ==
    \/ \E ks \in SUBSET Consumers : Cancel(ks)
    \/ \E k \in Consumers : Watch(k) \/ Take(k)
    \/ Update

Spec == Init /\ [][Next]_vars
=============================================================================
