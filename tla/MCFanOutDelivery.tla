--------------------------- MODULE MCFanOutDelivery ---------------------------
(* One parallel node with two children and what follows it: side by side and  *)
(* tried again in one process, or one child after the other and a process that *)
(* may die.                                                                 *)
EXTENDS FanOutDelivery

MCKids == [p |-> {"a", "b"}]
MCIndex == [a |-> 1, b |-> 2]
MCCategory == [c \in {"a", "b"} |-> "green"]
Dying == [failFast |-> FALSE, permits |-> [green |-> 1]]
Retrying == [failFast |-> FALSE, permits |-> [green |-> 2]]
MCConfigs == {Dying, Retrying}
MCMaxAttempts == [c \in MCConfigs |-> [p |-> 1]]
MCMaxCrashes == [c \in MCConfigs |-> IF c = Dying THEN 1 ELSE 0]
MCMaxDeliveries == [c \in MCConfigs |-> IF c = Dying THEN 3 ELSE 4]
=============================================================================
