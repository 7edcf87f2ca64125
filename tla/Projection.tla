----------------------------- MODULE Projection -----------------------------
(***************************************************************************)
(* WalletEventHandler of wallet-query: the PostgreSQL transactions that    *)
(* project wallet events onto the read model.                              *)
(*                                                                         *)
(* The consumer goroutine, the reprocessing requests, a replay and further *)
(* instances of the service all call these handlers: they are Projectors.  *)
(* Each step of a projector is one statement of its transaction, under     *)
(* READ COMMITTED: a SELECT sees what is committed and the transaction's   *)
(* own writes, and takes no lock; a write waits for the row locks of other *)
(* open transactions.  What an open transaction has written follows from   *)
(* its event and its position, so the tables hold committed rows only.     *)
(*                                                                         *)
(* A redelivered event that is already in the inbox is skipped by a        *)
(* transaction without effect: a stuttering step here.  Redelivery and     *)
(* dead-letter reprocessing may start any event at any time, in any order. *)
(* A transfer is within one currency, so currencies are left out.          *)
(***************************************************************************)
EXTENDS Integers, FiniteSets, FiniteSetsExt

CONSTANTS
  Wallets,     \* wallet identifiers
  Events,      \* the events of the log; stamp is (reference, occurredAt)
  Projectors   \* callers of the projection handlers

EventTypes ==
  {"OPENING_BALANCE", "CREDIT", "DEBIT", "TRANSFER_IN", "TRANSFER_OUT"}

ASSUME EventsAssumption ==
  /\ \A e \in Events :
       /\ e.wallet \in Wallets /\ e.counterparty \in Wallets
       /\ e.version \in Nat /\ e.amount \in Nat /\ e.type \in EventTypes
  /\ \A d, e \in Events : d.id = e.id => d = e

\* NewWallet is the only place that raises an opening, and it draws a new
\* identifier; TransferTo refuses a transfer to the wallet itself.
ASSUME OpeningsAssumption ==
  \A d, e \in Events :
    d.type = "OPENING_BALANCE" /\ e.type = "OPENING_BALANCE"
      /\ d.wallet = e.wallet => d = e
ASSUME TransfersAssumption ==
  \A e \in Events :
    e.type \in {"TRANSFER_IN", "TRANSFER_OUT"} => e.wallet # e.counterparty

VARIABLES
  inbox,         \* processed_events, by event
  wallets,       \* wallets
  transactions,  \* transactions, by wallet and version
  ledger,        \* ledger_entries: one per event, its columns are the event's
  movements,     \* ledger_movements, by movement id
  tx             \* each projector's open transaction

tables == <<inbox, wallets, transactions, ledger, movements>>
projectionVars == <<inbox, wallets, transactions, ledger, movements, tx>>
-----------------------------------------------------------------------------
(* Rows. *)

IsTransfer(e) == e.type \in {"TRANSFER_IN", "TRANSFER_OUT"}
IsDebit(e) == e.type \in {"DEBIT", "TRANSFER_OUT"}

\* movementIDForOpening, ...ForCredit, ...ForDebit.  The two sides of a
\* transfer hash to one id, as do transfers with equal metadata.
NoMovement == <<{}, 0, 0>>
MovementOf(e) ==
  CASE IsTransfer(e) -> <<{e.wallet, e.counterparty}, e.stamp, e.amount>>
    [] e.type = "OPENING_BALANCE" /\ e.amount = 0 -> NoMovement
    [] OTHER -> <<{e.wallet}, e.id, e.amount>>
MovementIds == {MovementOf(e) : e \in Events} \ {NoMovement}

\* Mutant of TransactionKey: the wallet is left out of the id.
BugKeyedByVersion(e) == <<"", e.version>>
TransactionKey(e) == <<e.wallet, e.version>>
TransactionKeys == {TransactionKey(e) : e \in Events}

AmountOf(e) == e.amount
Total(entries) == MapThenSumSet(AmountOf, entries)
Debits(entries) == {e \in entries : IsDebit(e)}
CreditEntries(entries) == {e \in entries : ~IsDebit(e)}

\* movementWalletsFromEntry: the sources and destinations of the entries.
Sources(entries) ==
  {IF IsDebit(e) THEN e.wallet ELSE e.counterparty :
     e \in {d \in entries : IsTransfer(d) \/ IsDebit(d)}}
Destinations(entries) ==
  {IF IsDebit(e) THEN e.counterparty ELSE e.wallet :
     e \in {d \in entries : IsTransfer(d) \/ ~IsDebit(d)}}

SidesDisagree(entries) ==
  Cardinality(Sources(entries)) > 1 \/ Cardinality(Destinations(entries)) > 1

\* Mutants of TransferStatus: one entry gets no status; at most one entry on
\* each side is enough; the wallets are not compared.
BugStatusUnset(entries) ==
  IF Cardinality(entries) < 2 THEN "" ELSE "COMPLETED"
BugLonelySide(entries) ==
  IF \/ Cardinality(Debits(entries)) > 1
     \/ Cardinality(CreditEntries(entries)) > 1
     \/ SidesDisagree(entries)
  THEN "INCONSISTENT" ELSE "COMPLETED"
BugSidesIgnored(entries) ==
  IF Cardinality(entries) < 2 THEN "PENDING"
  ELSE IF \/ Cardinality(Debits(entries)) # 1
          \/ Cardinality(CreditEntries(entries)) # 1
       THEN "INCONSISTENT" ELSE "COMPLETED"

TransferStatus(entries) ==
  IF Cardinality(entries) < 2 THEN "PENDING"
  ELSE IF \/ Cardinality(Debits(entries)) # 1
          \/ Cardinality(CreditEntries(entries)) # 1
          \/ Total(Debits(entries)) # Total(CreditEntries(entries))
          \/ SidesDisagree(entries)
       THEN "INCONSISTENT" ELSE "COMPLETED"

\* buildLedgerMovementFromEntriesTx, over the entries of one movement id.
NoRow == [status |-> "none", debit |-> 0, credit |-> 0, count |-> 0,
          sources |-> {}, destinations |-> {}]
BuildMovement(entries) ==
  [status       |-> IF \E e \in entries : IsTransfer(e)
                    THEN TransferStatus(entries)
                    ELSE IF SidesDisagree(entries) THEN "INCONSISTENT"
                    ELSE "COMPLETED",
   debit        |-> Total(Debits(entries)),
   credit       |-> Total(CreditEntries(entries)),
   count        |-> Cardinality(entries),
   sources      |-> Sources(entries),
   destinations |-> Destinations(entries)]

EntriesOf(entries, m) == {e \in entries : MovementOf(e) = m}
-----------------------------------------------------------------------------
(* Transactions and their locks. *)

NoEvent == [id |-> 0]
Closed == [pc |-> "idle", event |-> NoEvent, balance |-> 0, row |-> NoRow]

\* The inbox key stays locked from the insert on, a row from its first write.
HoldsInbox(p, e) == tx[p].pc # "idle" /\ tx[p].event = e
\* Mutant of HoldsWallet: the SELECT takes a shared lock.
BugLocksOnRead(p, w) ==
  /\ tx[p].pc \in {"save", "entries", "upsert", "validate", "commit"}
  /\ tx[p].event.wallet = w
HoldsWallet(p, w) ==
  /\ tx[p].pc \in {"entries", "upsert", "validate", "commit"}
  /\ tx[p].event.wallet = w
HoldsMovement(p, m) ==
  tx[p].pc \in {"validate", "commit"} /\ MovementOf(tx[p].event) = m

Init ==
  /\ inbox = {}
  /\ wallets = [w \in Wallets |-> [open |-> FALSE, balance |-> 0]]
  /\ transactions = [k \in TransactionKeys |-> [event |-> NoEvent, balanceAfter |-> 0]]
  /\ ledger = {}
  /\ movements = [m \in MovementIds |-> NoRow]
  /\ tx = [p \in Projectors |-> Closed]

Proceed(p, r) == tx' = [tx EXCEPT ![p] = r]

\* applyIdempotent: INSERT ... ON CONFLICT DO NOTHING into processed_events,
\* waiting for an open transaction that has inserted the same key.
Begin(p, e) ==
  /\ tx[p].pc = "idle"
  /\ e \notin inbox
  /\ \A q \in Projectors : ~HoldsInbox(q, e)
  /\ Proceed(p, [Closed EXCEPT !.event = e,
                               !.pc = IF e.type = "OPENING_BALANCE"
                                      THEN "save" ELSE "find",
                               !.balance = e.amount])
  /\ UNCHANGED tables

\* findWalletInTx, a plain SELECT, and the new balance computed from it.
FindWallet(p) ==
  LET e == tx[p].event IN
  /\ tx[p].pc = "find"
  /\ IF wallets[e.wallet].open
     THEN Proceed(p, [tx[p] EXCEPT !.pc = "save",
            !.balance = wallets[e.wallet].balance
                        + (IF IsDebit(e) THEN -e.amount ELSE e.amount)])
     ELSE Proceed(p, Closed)
  /\ UNCHANGED tables

\* Save of the wallet, whose row lock covers the transaction and the entry
\* saved next: no two events of different wallets share those.
SaveRows(p) ==
  /\ tx[p].pc = "save"
  /\ \A q \in Projectors \ {p} : ~HoldsWallet(q, tx[p].event.wallet)
  /\ Proceed(p, [tx[p] EXCEPT !.pc = IF MovementOf(tx[p].event) = NoMovement
                                     THEN "commit" ELSE "entries"])
  /\ UNCHANGED tables

\* Mutant of ReadEntries: the movement is built before the entry is saved.
BugOwnEntryMissed(p) ==
  LET e == tx[p].event IN
  /\ tx[p].pc = "entries"
  /\ Proceed(p, [tx[p] EXCEPT !.pc = "upsert",
       !.row = BuildMovement(EntriesOf(ledger, MovementOf(e)))])
  /\ UNCHANGED tables

\* FindLedgerEntriesByMovementIDTx: the committed entries and its own.
ReadEntries(p) ==
  LET e == tx[p].event IN
  /\ tx[p].pc = "entries"
  /\ Proceed(p, [tx[p] EXCEPT !.pc = "upsert",
       !.row = BuildMovement(EntriesOf(ledger, MovementOf(e)) \cup {e})])
  /\ UNCHANGED tables

UpsertMovement(p) ==
  /\ tx[p].pc = "upsert"
  /\ \A q \in Projectors \ {p} : ~HoldsMovement(q, MovementOf(tx[p].event))
  /\ Proceed(p, [tx[p] EXCEPT !.pc = "validate"])
  /\ UNCHANGED tables

\* The entry validateTransferLedgerInvariant looks for.
IsCounterpart(d, e) ==
  /\ MovementOf(d) = MovementOf(e)
  /\ d.wallet = e.counterparty /\ d.counterparty = e.wallet
  /\ IsDebit(d) # IsDebit(e)

\* A counterpart of another amount fails the transaction.
Validate(p) ==
  LET e == tx[p].event IN
  /\ tx[p].pc = "validate"
  /\ IsTransfer(e) =>
       \A d \in ledger : IsCounterpart(d, e) => d.amount = e.amount
  /\ Proceed(p, [tx[p] EXCEPT !.pc = "commit"])
  /\ UNCHANGED tables

\* Mutant of Commit: the movement row of an earlier entry is kept.
BugMovementKept(p) ==
  LET e == tx[p].event IN
  /\ tx[p].pc = "commit"
  /\ inbox' = inbox \cup {e}
  /\ wallets' = [wallets EXCEPT ![e.wallet] =
                   [open |-> TRUE, balance |-> tx[p].balance]]
  /\ transactions' = [transactions EXCEPT ![TransactionKey(e)] =
                        [event |-> e, balanceAfter |-> tx[p].balance]]
  /\ ledger' = ledger \cup {e}
  /\ UNCHANGED movements
  /\ Proceed(p, Closed)
Commit(p) ==
  LET e == tx[p].event IN
  /\ tx[p].pc = "commit"
  /\ inbox' = inbox \cup {e}
  /\ wallets' = [wallets EXCEPT ![e.wallet] =
                   [open |-> TRUE, balance |-> tx[p].balance]]
  /\ transactions' = [transactions EXCEPT ![TransactionKey(e)] =
                        [event |-> e, balanceAfter |-> tx[p].balance]]
  /\ ledger' = ledger \cup {e}
  /\ movements' = IF MovementOf(e) = NoMovement THEN movements
                  ELSE [movements EXCEPT ![MovementOf(e)] = tx[p].row]
  /\ Proceed(p, Closed)

\* A statement or the COMMIT fails, or the process dies.
Rollback(p) ==
  /\ tx[p].pc # "idle"
  /\ Proceed(p, Closed)
  /\ UNCHANGED tables

Statement(p) ==
  \/ FindWallet(p)
  \/ SaveRows(p)
  \/ ReadEntries(p)
  \/ UpsertMovement(p)
  \/ Validate(p)
  \/ Commit(p)

Project(p) == Statement(p) \/ Rollback(p) \/ \E e \in Events : Begin(p, e)

Next == \E p \in Projectors : Project(p)

Spec == Init /\ [][Next]_projectionVars
-----------------------------------------------------------------------------
(* What the read model keeps, however many projectors run at once. *)

Rows == [status : {"none", "PENDING", "COMPLETED", "INCONSISTENT"},
         debit : Nat, credit : Nat, count : Nat,
         sources : SUBSET Wallets, destinations : SUBSET Wallets]

\* Every variable has the shape the table definitions give it.
TypeOK ==
  /\ inbox \subseteq Events
  /\ wallets \in [Wallets -> [open : BOOLEAN, balance : Int]]
  /\ transactions \in [TransactionKeys -> [event : Events \cup {NoEvent},
                                           balanceAfter : Int]]
  /\ ledger \subseteq Events
  /\ movements \in [MovementIds -> Rows]
  /\ tx \in [Projectors ->
       [pc : {"idle", "find", "save", "entries", "upsert", "validate", "commit"},
        event : Events \cup {NoEvent}, balance : Int, row : Rows]]

\* A transfer shown as COMPLETED has left its source and reached its
\* destination in the ledger, although each side builds the movement from what
\* it happened to see while the other was being projected.
CompletedIsBalanced ==
  \A m \in MovementIds :
    movements[m].status = "COMPLETED" /\ Cardinality(m[1]) = 2 =>
      \E d, e \in EntriesOf(ledger, m) : IsDebit(d) /\ IsCounterpart(d, e)

\* A movement row may lag behind its entries but never runs ahead of them, and
\* every entry with a movement id has a row to its movement.
MovementsLagAtMost ==
  \A m \in MovementIds :
    LET entries == EntriesOf(ledger, m)
    IN  /\ movements[m].count <= Cardinality(entries)
        /\ movements[m].debit <= Total(Debits(entries))
        /\ movements[m].credit <= Total(CreditEntries(entries))
        /\ entries # {} => movements[m].count > 0

\* Transaction rows are keyed by wallet and version: unless a write race has
\* forked that version, each entry's transaction row is its own.
TransactionsCoverLedger ==
  \A e \in ledger :
    (\A d \in Events : d.wallet = e.wallet /\ d.version = e.version => d = e)
    => transactions[TransactionKey(e)].event = e

\* The step that p is about to take waits for a lock that q holds.
WaitsFor(p, q) ==
  /\ p # q
  /\ \/ tx[p].pc = "save" /\ HoldsWallet(q, tx[p].event.wallet)
     \/ tx[p].pc = "upsert" /\ HoldsMovement(q, MovementOf(tx[p].event))

\* No group of transactions waits for each other: each takes its locks in the
\* order inbox, wallet, movement, although a transfer's two sides come from
\* different wallets and meet at one movement.
NoDeadlock ==
  \A group \in (SUBSET Projectors) \ {{}} :
    \E p \in group : \A q \in group : ~WaitsFor(p, q)
=============================================================================
