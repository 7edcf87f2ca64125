---------------------------- MODULE MCProjection ----------------------------
(* Small instances of Projection for TLC. *)
EXTENDS Projection, TLC

CONSTANTS alice, bob, p1, p2

MCWallets == {alice, bob}
Event(id, w, d, v, type, amount, stamp) ==
  [id |-> id, wallet |-> w, counterparty |-> d, version |-> v, type |-> type,
   amount |-> amount, stamp |-> stamp]

Opened == {Event(1, alice, alice, 0, "OPENING_BALANCE", 3, 0),
           Event(2, bob, bob, 0, "OPENING_BALANCE", 0, 0)}
Paid == {Event(3, alice, bob, 1, "TRANSFER_OUT", 1, 7),
         Event(4, bob, alice, 1, "TRANSFER_IN", 1, 7)}
Spent == {Event(5, alice, alice, 2, "CREDIT", 1, 8),
          Event(6, alice, alice, 2, "DEBIT", 1, 9)}
\* A transfer back with the same reference, millisecond and amount.
Back == {Event(7, bob, alice, 2, "TRANSFER_OUT", 1, 7),
         Event(8, alice, bob, 3, "TRANSFER_IN", 1, 7)}

MCEvents == Opened \cup Paid \cup Spent
MCCredited == {Event(5, alice, alice, 2, "CREDIT", 1, 8)}
MCTransfer == Opened \cup Paid \cup MCCredited
\* Two requests wrote alice's version 1; bob's transfer back collides.
MCForked ==
  Opened \cup Paid \cup {Event(5, alice, alice, 1, "CREDIT", 1, 8),
                         Event(8, alice, bob, 3, "TRANSFER_IN", 1, 7)}
MCTwoProjectors == {p1, p2}

Symmetric == Permutations(Projectors)
=============================================================================
