--------------------------- MODULE MCNodeExecution ---------------------------
(* A small plan for TLC. *)
EXTENDS NodeExecution

Declared == [kind |-> "declared", required |-> TRUE]
Optional == [kind |-> "declared", required |-> FALSE]
Artifact == [kind |-> "artifact", required |-> TRUE]
Schema == [kind |-> "schema", required |-> TRUE]

\* impl, a writer, then fan, a parallel node that has impl remediated
ChainNodes == {"impl", "fan"}
ChainNeeds == [impl |-> {}, fan |-> {"impl"}]
ChainGates == [impl |-> <<Declared, Artifact>>, fan |-> <<Optional, Declared>>]
ChainUnits == {"impl"}
ChainImplements == [impl |-> {"impl"}, fan |-> {}]
ChainUnitGates == [impl |-> <<Schema>>]
ChainAttempts == [impl |-> 2, fan |-> 1]
ChainRetryOn == [impl |-> {"exit_nonzero", "timeout"}, fan |-> Reasons]
=============================================================================
