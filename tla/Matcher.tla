-------------------------------- MODULE Matcher --------------------------------
(***************************************************************************)
(* xdsmatcher: the evaluation of a match tree on data that arrive piece by *)
(* piece, and a caller that matches again whenever more of them are there. *)
(* A text is the set of its words: a regular expression, unanchored, looks *)
(* for a word, and an exact match map for the text of one word.            *)
(***************************************************************************)
EXTENDS Naturals, Sequences, FiniteSetsExt

CONSTANTS
    Inputs,  \* data inputs
    Partial, \* those whose data may come in pieces
    Words,
    Trees,   \* the match trees that create made
    None     \* nil

VARIABLES
    tree,    \* the tree the caller evaluates
    data,    \* what each DataInput returns: an availability and a text
    result,  \* what Match returned for these data; None before the call
    decided  \* history: the first result that did not ask for more data

matcherVars == <<tree, data, result, decided>>

ASSUME MatcherAssumption == Partial \subseteq Inputs

Availabilities == {"NotAvailable", "MoreDataMightBeAvailable", "AllDataAvailable", "Error"}

DataInputResult == [availability : Availabilities, text : SUBSET Words \cup {None}]

Nothing == [availability |-> "NotAvailable", text |-> None]

MatcherInit ==
    /\ tree \in Trees
    /\ data = [i \in Inputs |-> Nothing]
    /\ result = None
    /\ decided = None

-----------------------------------------------------------------------------
(* Results: of a tree, an OnMatch; of a predicate, whether it matches.     *)

Result(onMatch, more) == [err |-> FALSE, matchResult |-> onMatch, needMoreData |-> more]

Failed == [err |-> TRUE, matchResult |-> None, needMoreData |-> FALSE]

matcherResult(match, more) == [err |-> FALSE, match |-> match, needMoreData |-> more]

handlePossiblyMissingInput_NeverEager(i, found) ==
    IF data[i].availability = "Error" THEN Failed
    ELSE IF data[i].availability = "AllDataAvailable" THEN Result(found, FALSE)
    ELSE Result(IF data[i].availability = "NotAvailable" THEN None ELSE found, TRUE)

handlePossiblyMissingInput_NilIsMissing(i, found) ==
    IF data[i].availability = "Error" THEN Failed
    ELSE IF data[i].text = None THEN Result(None, TRUE)
    ELSE Result(found, data[i].availability = "MoreDataMightBeAvailable" /\ found = None)

\* found is what the match function returns for the text of the input.
handlePossiblyMissingInput(i, found) ==
    IF data[i].availability = "Error" THEN Failed
    ELSE IF data[i].availability = "NotAvailable" THEN Result(None, TRUE)
    ELSE Result(found, data[i].availability = "MoreDataMightBeAvailable" /\ found = None)

HasWord(i, word) == data[i].text # None /\ word \in data[i].text

singlePredicate(p) ==
    LET r == handlePossiblyMissingInput(p.input, IF HasWord(p.input, p.regex) THEN p ELSE None)
    IN  [err |-> r.err, match |-> r.matchResult # None, needMoreData |-> r.needMoreData]

\* The first of the results rs that fails, is missing data or does not match.
conjunctionPredicate(rs) ==
    LET ends == {i \in DOMAIN rs : rs[i].err \/ rs[i].needMoreData \/ ~rs[i].match}
    IN  IF ends = {} THEN matcherResult(TRUE, FALSE) ELSE rs[Min(ends)]

\* The first that fails or matches; without one the result may still change.
disjunctionPredicate(rs) ==
    LET ends == {i \in DOMAIN rs : rs[i].err \/ (~rs[i].needMoreData /\ rs[i].match)}
    IN  IF ends # {} THEN rs[Min(ends)]
        ELSE matcherResult(FALSE, \E i \in DOMAIN rs : rs[i].needMoreData)

RECURSIVE predicateMatch(_)
predicateMatch(p) ==
    IF p.kind = "single" THEN singlePredicate(p)
    ELSE LET rs == [i \in DOMAIN p.predicates |-> predicateMatch(p.predicates[i])]
         IN  IF p.kind = "and" THEN conjunctionPredicate(rs) ELSE disjunctionPredicate(rs)

matcherList_Skips(m) ==
    LET rs   == [i \in DOMAIN m.entries |-> predicateMatch(m.entries[i].predicate)]
        ends == {i \in DOMAIN rs : rs[i].err \/ rs[i].match}
    IN  IF ends # {}
        THEN IF rs[Min(ends)].err THEN Failed ELSE Result(m.entries[Min(ends)].onMatch, FALSE)
        ELSE Result(None, \E i \in DOMAIN rs : rs[i].needMoreData)

matcherList_LastWins(m) ==
    LET rs   == [i \in DOMAIN m.entries |-> predicateMatch(m.entries[i].predicate)]
        ends == {i \in DOMAIN rs : rs[i].err \/ rs[i].match \/ rs[i].needMoreData}
        i    == Max(ends)
    IN  IF ends = {} THEN Result(None, FALSE)
        ELSE IF rs[i].err THEN Failed
        ELSE IF rs[i].match THEN Result(m.entries[i].onMatch, FALSE)
        ELSE Result(None, TRUE)

\* An entry that needs more data is not skipped.
matcherList(m) ==
    LET rs   == [i \in DOMAIN m.entries |-> predicateMatch(m.entries[i].predicate)]
        ends == {i \in DOMAIN rs : rs[i].err \/ rs[i].match \/ rs[i].needMoreData}
        i    == Min(ends)
    IN  IF ends = {} THEN Result(None, FALSE)
        ELSE IF rs[i].err THEN Failed
        ELSE IF rs[i].match THEN Result(m.entries[i].onMatch, FALSE)
        ELSE Result(None, TRUE)

exactMatchTree(m) ==
    LET text  == data[m.input].text
        found == {w \in DOMAIN m.map : text # None /\ text = {w}}
    IN  handlePossiblyMissingInput(m.input, IF found = {} THEN None ELSE m.map[CHOOSE w \in found : TRUE])

RECURSIVE MatchTree(_)
MatchTree(m) ==
    LET root == IF m.kind = "list" THEN matcherList(m) ELSE exactMatchTree(m)
        on   == root.matchResult
    IN  IF root.err \/ (on # None /\ root.needMoreData) THEN Failed
        ELSE IF on # None THEN IF on.kind = "matcher" THEN MatchTree(on.matcher) ELSE root
        ELSE IF root.needMoreData THEN root
        ELSE Result(m.onNoMatch, FALSE)

-----------------------------------------------------------------------------
(* The caller.                                                             *)

\* What an input may return once more of its data are there.
Later(i) ==
    {d \in DataInputResult :
        /\ d.availability = "MoreDataMightBeAvailable" => i \in Partial
        /\ d.availability # "NotAvailable"
        /\ d.availability = "Error" => d.text = None
        /\ data[i].text # None /\ d.availability # "Error" =>
              d.text # None /\ data[i].text \subseteq d.text}

Arrive(i) ==
    /\ data[i].availability \in {"NotAvailable", "MoreDataMightBeAvailable"}
    /\ \E d \in Later(i) \ {data[i]} : data' = [data EXCEPT ![i] = d]
    /\ result' = None
    /\ UNCHANGED <<tree, decided>>

Match ==
    /\ result = None
    /\ result' = MatchTree(tree)
    /\ decided' = IF decided = None /\ ~result'.err /\ ~result'.needMoreData
                  THEN result' ELSE decided
    /\ UNCHANGED <<tree, data>>

MatcherNext == Match \/ \E i \in Inputs : Arrive(i)

MatcherSpec == MatcherInit /\ [][MatcherNext]_matcherVars

-----------------------------------------------------------------------------
(* Properties.                                                             *)

Complete == \A i \in Inputs : data[i].availability = "AllDataAvailable"

\* No exact match map of the tree reads an input whose data come in pieces.
RECURSIVE MapsReadWhole(_)
MapsReadWhole(m) ==
    LET below == IF m.kind = "list" THEN {m.entries[i].onMatch : i \in DOMAIN m.entries}
                 ELSE {m.map[w] : w \in DOMAIN m.map}
    IN  /\ m.kind = "tree" => m.input \notin Partial
        /\ \A on \in below : on.kind = "matcher" => MapsReadWhole(on.matcher)

\* A tree that was matched before all the data were there is not matched otherwise
\* later: no early return, eager match or skipped entry decides too soon.  (A map may:
\* it compares a text that can still grow.)
DecisionsAreFinal ==
    MapsReadWhole(tree) /\ decided # None /\ result # None /\ ~result.err => result = decided

\* The truth of a predicate on the complete data.
RECURSIVE Holds(_)
Holds(p) ==
    IF p.kind = "single" THEN HasWord(p.input, p.regex)
    ELSE IF p.kind = "and" THEN \A i \in DOMAIN p.predicates : Holds(p.predicates[i])
    ELSE \E i \in DOMAIN p.predicates : Holds(p.predicates[i])

\* What the tree says: the first entry that holds, or the text in the map; a nested
\* matcher that finds nothing counts as not matching.
RECURSIVE Documented(_)
Documented(m) ==
    LET Follow(on) == IF on # None /\ on.kind = "matcher" THEN Documented(on.matcher) ELSE on
        holding == {i \in DOMAIN m.entries : Holds(m.entries[i].predicate)}
        whole   == {w \in DOMAIN m.map : data[m.input].text = {w}}
        chosen  == IF m.kind = "list"
                   THEN IF holding = {} THEN None ELSE m.entries[Min(holding)].onMatch
                   ELSE IF whole = {} THEN None ELSE m.map[CHOOSE w \in whole : TRUE]
    IN  IF Follow(chosen) # None THEN Follow(chosen) ELSE Follow(m.onNoMatch)

\* With all the data, Match finds what the documentation of Matcher describes.
DecidesAsDocumented ==
    result # None /\ Complete => result = Result(Documented(tree), FALSE)

\* Match fails only when an input does: a result and a request for more data never come
\* together, which Match calls an invariant violation.
FailsOnlyOnInput ==
    result # None /\ result.err => \E i \in Inputs : data[i].availability = "Error"

\* NeedMoreData is true "due to input data not being available yet": a caller that is
\* told to wait does not wait for data that are all there.
WaitsOnlyForData ==
    result # None /\ result.needMoreData =>
        \E i \in Inputs : data[i].availability \in {"NotAvailable", "MoreDataMightBeAvailable"}
=============================================================================
