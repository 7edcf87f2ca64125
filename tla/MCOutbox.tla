------------------------------ MODULE MCOutbox ------------------------------
(* Small instances of Outbox for TLC. *)
EXTENDS OutboxFeed

CONSTANTS alice, bob, carol

MCWallets == {alice, bob}
MCPartitions == {0}
MCPartitionOf == [w \in Wallets |-> 0]
MCThreeWallets == {alice, bob, carol}
MCTwoPartitions == {0, 1}
MCSpread == [w \in Wallets |-> IF w = carol THEN 1 ELSE 0]

Symmetric == Permutations(Wallets)
=============================================================================
