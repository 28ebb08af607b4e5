------------------------------- MODULE MCMatcher -------------------------------
(***************************************************************************)
(* An instance of Matcher for TLC: predicates of up to two levels over two *)
(* inputs, lists of up to two entries, maps, and matchers in matchers.     *)
(***************************************************************************)
EXTENDS Matcher

CONSTANTS i1, i2, yes, no

Act(x) == [kind |-> "action", action |-> x]

Nested(m) == [kind |-> "matcher", matcher |-> m]

Single(i, w) == [kind |-> "single", input |-> i, regex |-> w]

Singles == {Single(i1, 1), Single(i2, 1), Single(i2, 2)}

Compound(kind, ps) == [kind |-> kind, predicates |-> ps]

Flat == {Compound(k, ps) : k \in {"and", "or"}, ps \in {<<>>} \cup (Singles \X Singles)}

Deep == {Compound(k, <<p, q>>) : k \in {"and", "or"}, p \in Flat, q \in Singles}

Entry(p, on) == [predicate |-> p, onMatch |-> on]

List(entries, on) == [kind |-> "list", entries |-> entries, onNoMatch |-> on]

Map(i, on, otherwise) == [kind |-> "tree", input |-> i, map |-> [w \in {1} |-> on],
                          onNoMatch |-> otherwise]

OneEntry == {List(<<Entry(p, Act(yes))>>, Act(no)) : p \in Singles \cup Flat \cup Deep}

TwoEntries ==
    {List(<<Entry(p, Act(yes)), Entry(q, Act(no))>>, None) : p \in Flat, q \in Singles \cup Flat}

Leaves == {List(<<Entry(p, Act(yes))>>, on) : p \in Singles, on \in {None, Act(no)}}

Inner == {Map(i, Nested(m), None) : i \in Inputs, m \in Leaves}
            \cup {List(<<Entry(p, Nested(m))>>, None) : p \in Singles, m \in Leaves}

\* No OnNoMatch stands above a nested matcher, and none is a matcher.
AllTrees == OneEntry \cup TwoEntries \cup Inner \cup {Map(i, Act(yes), Act(no)) : i \in Inputs}
=============================================================================
