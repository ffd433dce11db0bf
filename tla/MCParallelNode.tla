---------------------------- MODULE MCParallelNode ----------------------------
(* Two parallel nodes: one with two candidates of a category that has a      *)
(* single permit or enough, one with a single child outside any category.    *)
EXTENDS ParallelNode

MCKids == [p |-> {"a", "b"}, q |-> {"d"}]
MCIndex == [a |-> 1, b |-> 2, d |-> 3]
MCCategory == [a |-> "green", b |-> "green", d |-> NoCategory]
ConfigOf(ff, green) == [failFast |-> ff, permits |-> [green |-> green]]

\* Side by side under one permit, or one of them tried twice.
Pair == ConfigOf(FALSE, 1)
MCConfigs == {Pair, ConfigOf(FALSE, 2), ConfigOf(TRUE, 1), ConfigOf(TRUE, 2)}
MCMaxAttempts ==
    [c \in MCConfigs |-> IF c = Pair THEN [p |-> 1, q |-> 1] ELSE [p |-> 2, q |-> 0]]
MCMaxCrashes == [c \in MCConfigs |-> 1]
=============================================================================
