----------------------------- MODULE MCWriteSide -----------------------------
(* Small instances of WriteSide for TLC. *)
EXTENDS WriteSide, TLC

CONSTANTS alice, bob, k1, k2

MCTwoWallets == {alice, bob}
MCWorkers == {k1, k2}
MCCurrency == [w \in Wallets |-> "USD"]
MCOneOrTwo == {1, 2}
MCPartitions == {0, 1}
MCSpread == [w \in Wallets |-> IF w = alice THEN 0 ELSE 1]

\* A state WriteSpec reaches: both wallets open, their events published.
Opening(w, i) ==
  [n |-> i, kind |-> "create", wallet |-> w, dest |-> w, amount |-> 2]
OpeningEvent(w, i) ==
  [id |-> i, aggregate |-> w, version |-> 0, type |-> "OPENING_BALANCE",
   amount |-> 2, command |-> i]
MCOpenedInit ==
  /\ store = {OpeningEvent(alice, 1), OpeningEvent(bob, 2)}
  /\ snapshots = [w \in Wallets |-> NewAggregate]
  /\ worker = [k \in Workers |-> Idle]
  /\ nextId = 3
  /\ issued = 2
  /\ acked = {Opening(alice, 1), Opening(bob, 2)}
  /\ published = {1, 2}
  /\ attempts = [i \in O!Ids |-> 0]
  /\ topic = [p \in Partitions |->
                SelectSeq(<<OpeningEvent(alice, 1), OpeningEvent(bob, 2)>>,
                          LAMBDA d : PartitionOf[d.aggregate] = p)]
  /\ publisher = O!Waiting
  /\ faults = 0

\* The commands that follow: transfers from alice, who can fund two of them.
MCTransfersOnly ==
  \A k \in Workers : LET cmd == worker'[k].cmd IN
    cmd.kind # "none" => /\ cmd.kind = "transfer"
                         /\ cmd.wallet = alice /\ cmd.dest = bob
                         /\ cmd.amount = 1
MCTransfersSpec ==
  MCOpenedInit /\ [][WriteNext /\ MCTransfersOnly]_vars /\ PublisherTicks

=============================================================================
