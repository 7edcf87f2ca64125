----------------------------- MODULE MCListing -----------------------------
(* Small instances of Listing for TLC. *)
EXTENDS Listing

\* By balance; by time; by times that are updated.
Wallets == [tiebreak |-> FALSE, moves |-> TRUE]
LedgerEntries == [tiebreak |-> TRUE, moves |-> FALSE]  \* and transactions
DeadLetters == [tiebreak |-> TRUE, moves |-> TRUE]     \* and ledger movements

MCListings == {Wallets, LedgerEntries, DeadLetters}
MCRows == 1 .. 4
MCSortKeys == {1, 2}
MCAskedPages == {0, 1}
MCAskedSizes == {0, 1, 9}
=============================================================================
