---------------------------- MODULE MCEventStore ----------------------------
(* Small instances of EventStore for TLC. *)
EXTENDS EventStore, TLC

CONSTANTS alice, bob, k1, k2

MCTwoWallets == {alice, bob}
MCOneWallet == {alice}
MCTwoWorkers == {k1, k2}
MCSameCurrency == [w \in Wallets |-> "USD"]
MCAmounts == {-1, 1}
MCOneAmount == {1}

Symmetric == Permutations(Wallets) \cup Permutations(Workers)
=============================================================================
