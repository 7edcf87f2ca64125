-------------------------- MODULE MCLedgerChecker --------------------------
(* Small instances of LedgerChecker, over the events of MCProjection. *)
EXTENDS LedgerChecker, MCProjection
=============================================================================
