----------------------------- MODULE MCConsumer -----------------------------
(* Small instances of Consumer for TLC. *)
EXTENDS Consumer, TLC

CONSTANTS alice, bob, op1, c1, c2

MCWallets == {alice, bob}
MCPartitions == {0, 1}
Msg(id, body, w, amount) ==
  [id |-> id, body |-> body, wallet |-> w, amount |-> amount]

\* A wallet's creation, credit and debit on one partition; on the other an event
\* this build cannot decode and a message it cannot read.
MCLog ==
  0 :> << Msg("a0", "created", alice, 2), Msg("a1", "credited", alice, 1),
          Msg("a2", "debited", alice, 2) >>
  @@ 1 :> << Msg("b0", "undecodable", bob, 0), Msg("", "unreadable", bob, 0) >>

MCMembers == {c1, c2}
MCOneOperator == {op1}
=============================================================================
