------------------------------ MODULE MCReplay ------------------------------
(* Small instances of Replay, over the events of MCProjection. *)
EXTENDS Replay, MCProjection

MCRank == [w \in Wallets |-> IF w = alice THEN 1 ELSE 2]
\* A transfer whose second save failed: it never reached bob's stream.
MCHalfTransfer == {e \in MCTransfer : e.type # "TRANSFER_IN"}
\* A transfer there, and one back of the same movement id whose second save
\* failed.
MCReturned == Opened \cup Paid \cup {e \in Back : e.wallet = bob}
MCLegacy == {e \in MCTransfer : e.id = 1}
=============================================================================
