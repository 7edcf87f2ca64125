------------------------- MODULE MCSchemaEvolution -------------------------
(* Small instances of SchemaEvolution for TLC. *)
EXTENDS SchemaEvolution

CONSTANTS alice, bob

MCWallets == {alice, bob}
V1 == [current |-> 1, upcasters |-> {}]
V2 == [current |-> 2, upcasters |-> {1}]
\* Version 3, released without the step from version 1.
V3Gap == [current |-> 3, upcasters |-> {2}]
V3 == [current |-> 3, upcasters |-> {1, 2}]

MCBuilds == {V1, V2, V3Gap, V3}
MCOldest == V1
MCNewest == V3
MCLegacy == <<alice>>
=============================================================================
