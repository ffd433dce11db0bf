---------------------------- MODULE MCRunControl ----------------------------
(* One node, with a finish hook: nodes meet only in the queues. *)
EXTENDS RunControl

MCNodes == {"a"}
MCHooked == {"a"}
=============================================================================
