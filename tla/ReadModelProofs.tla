--------------------------- MODULE ReadModelProofs ---------------------------
(***************************************************************************)
(* Proofs, for any log of events and any number of projectors, of the      *)
(* safety properties of the projection, and of what is built on it: the    *)
(* ledger checker, which reads its tables while projectors commit; replay, *)
(* which rebuilds them with the live service stopped or going on; and the  *)
(* checker run after a replay.                                             *)
(***************************************************************************)
EXTENDS LedgerChecker, Replay, FiniteSetTheorems, TLAPS

Sums == INSTANCE SetSums WITH Value <- AmountOf

(* The projection: its inductive invariant. *)

\* A movement row is what the handlers derive from some of its entries.
BuiltFrom(entries, row) ==
  \E seen \in SUBSET entries : seen # {} /\ row = BuildMovement(seen)

\* The committed row of a movement is missing exactly as long as its entries.
RowsAreBuilt ==
  \A m \in MovementIds :
    IF EntriesOf(ledger, m) = {} THEN movements[m] = NoRow
    ELSE BuiltFrom(EntriesOf(ledger, m), movements[m])

\* The row a transaction is about to write reflects its own entry and entries
\* that are committed by then.
OwnRowIsBuilt(p) ==
  LET e == tx[p].event
  IN  BuiltFrom(EntriesOf(ledger, MovementOf(e)) \cup {e}, tx[p].row)

TransactionsAreOpen ==
  \A p \in Projectors :
    /\ tx[p].pc # "idle" => tx[p].event \in Events
    /\ tx[p].pc \in {"entries", "upsert", "validate"} =>
         MovementOf(tx[p].event) # NoMovement
    /\ tx[p].pc \in {"upsert", "validate", "commit"}
       /\ MovementOf(tx[p].event) # NoMovement => OwnRowIsBuilt(p)

IInv ==
  /\ TypeOK
  /\ IsFiniteSet(ledger)
  /\ TransactionsCoverLedger
  /\ RowsAreBuilt
  /\ TransactionsAreOpen

USE EventsAssumption
-----------------------------------------------------------------------------
(* Totals. *)

\* Total is the sum SetSums speaks of, and finiteness is the same notion.
LEMMA TotalIsSum == \A entries : Total(entries) = Sums!Sum(entries)
BY DEF Total, MapThenSumSet, MapThenFoldSet,
       Sums!Sum, Sums!MapThenSumSet, Sums!MapThenFoldSet

\* SetSums speaks of the same finite sets.
LEMMA FiniteIsFinite == \A S : IsFiniteSet(S) <=> Sums!IsFiniteSet(S)
BY DEF IsFiniteSet, Sums!IsFiniteSet

\* A total is a natural number, no smaller over more entries.
LEMMA TotalGrows ==
  ASSUME NEW entries \in SUBSET Events, IsFiniteSet(entries),
         NEW part \in SUBSET entries
  PROVE  /\ Total(entries) \in Nat /\ Total(part) \in Nat
         /\ Total(part) <= Total(entries)
<1>1. \A e \in entries : AmountOf(e) \in Nat
  BY DEF AmountOf
<1>2. IsFiniteSet(part)
  BY FS_Subset
<1>3. \A e \in entries : AmountOf(e) \in Int
  BY <1>1
<1>4. Total(part) \in Int /\ Total(entries) \in Int
  BY <1>2, <1>3, Sums!SumIsInt, TotalIsSum, FiniteIsFinite
<1>5. Total(part) <= Total(entries) /\ 0 <= Total(part)
  BY <1>1, Sums!SumMonotonic, TotalIsSum, FiniteIsFinite
<1> QED BY <1>4, <1>5
-----------------------------------------------------------------------------
(* Movement rows. *)

\* A row built from entries has the shape of its table.
LEMMA BuildMovementType ==
  ASSUME NEW entries \in SUBSET Events, IsFiniteSet(entries)
  PROVE  BuildMovement(entries) \in Rows
<1>1. Total(Debits(entries)) \in Nat /\ Total(CreditEntries(entries)) \in Nat
  <2>1. Debits(entries) \in SUBSET entries /\ CreditEntries(entries) \in SUBSET entries
    BY DEF Debits, CreditEntries
  <2> QED BY <2>1, TotalGrows
<1>2. Cardinality(entries) \in Nat
  BY FS_CardinalityType
<1>3. Sources(entries) \in SUBSET Wallets /\ Destinations(entries) \in SUBSET Wallets
  BY DEF Sources, Destinations
<1>4. TransferStatus(entries) \in {"PENDING", "COMPLETED", "INCONSISTENT"}
  BY DEF TransferStatus
<1> QED BY <1>1, <1>2, <1>3, <1>4 DEF BuildMovement, Rows

\* A missing wallet is a row.
LEMMA NoRowType == NoRow \in Rows
BY DEF NoRow, Rows

\* Two different members make a finite set have two elements or more.
LEMMA TwoMembers ==
  ASSUME NEW S, IsFiniteSet(S), NEW a \in S, NEW b \in S, a # b
  PROVE  Cardinality(S) > 1
<1>1. IsFiniteSet({a, b}) /\ Cardinality({a, b}) = 2
  <2>1. IsFiniteSet({a}) /\ Cardinality({a}) = 1
    BY FS_Singleton
  <2>2. /\ IsFiniteSet({a} \cup {b})
        /\ Cardinality({a} \cup {b}) = Cardinality({a}) + 1
    BY <2>1, FS_AddElement
  <2>3. {a, b} = {a} \cup {b}
    OBVIOUS
  <2> QED BY <2>1, <2>2, <2>3
<1>2. Cardinality({a, b}) <= Cardinality(S) /\ Cardinality(S) \in Nat
  BY FS_Subset, FS_CardinalityType
<1> QED BY <1>1, <1>2

\* Entries whose movement has two wallets are the sides of transfers.
LEMMA TwoWalletsIsTransfer ==
  ASSUME NEW e \in Events, Cardinality(MovementOf(e)[1]) = 2
  PROVE  IsTransfer(e)
<1>1. SUFFICES ASSUME ~ IsTransfer(e) PROVE FALSE
  OBVIOUS
<1>2. MovementOf(e)[1] = {} \/ MovementOf(e)[1] = {e.wallet}
  BY <1>1 DEF MovementOf, NoMovement
<1>3. Cardinality({}) = 0 /\ Cardinality({e.wallet}) = 1
  BY FS_EmptySet, FS_Singleton
<1> QED BY <1>2, <1>3

\* Finitely many sides of transfers name finitely many wallets.
LEMMA SidesAreFinite ==
  ASSUME NEW entries, IsFiniteSet(entries), \A e \in entries : IsTransfer(e)
  PROVE  IsFiniteSet(Sources(entries)) /\ IsFiniteSet(Destinations(entries))
<1> DEFINE f == [e \in entries |-> IF IsDebit(e) THEN e.wallet ELSE e.counterparty]
           g == [e \in entries |-> IF IsDebit(e) THEN e.counterparty ELSE e.wallet]
<1>1. f \in Surjection(entries, Sources(entries))
  BY DEF Surjection, Sources
<1>2. g \in Surjection(entries, Destinations(entries))
  BY DEF Surjection, Destinations
<1> HIDE DEF f, g
<1> QED BY <1>1, <1>2, FS_Surjection

\* A transfer's entries are COMPLETED only if they are a debit and the credit
\* that mirrors it.
LEMMA CompletedIsPair ==
  ASSUME NEW entries \in SUBSET Events, IsFiniteSet(entries),
         \A e \in entries : IsTransfer(e), TransferStatus(entries) = "COMPLETED"
  PROVE  \E d, e \in entries :
           /\ Debits(entries) = {d} /\ CreditEntries(entries) = {e}
           /\ d.wallet = e.counterparty /\ d.counterparty = e.wallet
<1>1. /\ Cardinality(Debits(entries)) = 1
      /\ Cardinality(CreditEntries(entries)) = 1
      /\ ~ SidesDisagree(entries)
  BY DEF TransferStatus
<1>2. IsFiniteSet(Debits(entries)) /\ IsFiniteSet(CreditEntries(entries))
  BY FS_Subset DEF Debits, CreditEntries
<1>3. PICK d : Debits(entries) = {d}
  BY <1>1, <1>2, FS_Singleton
<1>4. PICK e : CreditEntries(entries) = {e}
  BY <1>1, <1>2, FS_Singleton
<1>5. d \in entries /\ e \in entries /\ IsDebit(d) /\ ~ IsDebit(e)
  BY <1>3, <1>4 DEF Debits, CreditEntries
<1>6. IsFiniteSet(Sources(entries)) /\ IsFiniteSet(Destinations(entries))
  BY SidesAreFinite
<1>7. d.wallet = e.counterparty
  <2>1. d.wallet \in Sources(entries) /\ e.counterparty \in Sources(entries)
    BY <1>5 DEF Sources
  <2>2. ~ (Cardinality(Sources(entries)) > 1)
    BY <1>1 DEF SidesDisagree
  <2> QED BY <1>6, <2>1, <2>2, TwoMembers
<1>8. d.counterparty = e.wallet
  <2>1. d.counterparty \in Destinations(entries) /\ e.wallet \in Destinations(entries)
    BY <1>5 DEF Destinations
  <2>2. ~ (Cardinality(Destinations(entries)) > 1)
    BY <1>1 DEF SidesDisagree
  <2> QED BY <1>6, <2>1, <2>2, TwoMembers
<1> QED BY <1>3, <1>4, <1>5, <1>7, <1>8

\* So such a movement's row is COMPLETED only over both sides of a transfer.
LEMMA CompletedHasPair ==
  ASSUME NEW entries \in SUBSET Events, IsFiniteSet(entries), entries # {},
         NEW m, \A e \in entries : MovementOf(e) = m, Cardinality(m[1]) = 2,
         BuildMovement(entries).status = "COMPLETED"
  PROVE  \E d, e \in entries : IsDebit(d) /\ IsCounterpart(d, e)
<1>1. \A e \in entries : IsTransfer(e)
  BY TwoWalletsIsTransfer
<1>2. TransferStatus(entries) = "COMPLETED"
  BY <1>1 DEF BuildMovement
<1>3. PICK d \in entries, e \in entries :
        /\ Debits(entries) = {d} /\ CreditEntries(entries) = {e}
        /\ d.wallet = e.counterparty /\ d.counterparty = e.wallet
  BY <1>1, <1>2, CompletedIsPair
<1>4. IsDebit(d) /\ ~ IsDebit(e)
  BY <1>3 DEF Debits, CreditEntries
<1> QED BY <1>3, <1>4 DEF IsCounterpart

\* A row built from part of the entries does not run ahead of them.
LEMMA BuiltLags ==
  ASSUME NEW entries \in SUBSET Events, IsFiniteSet(entries), NEW row,
         BuiltFrom(entries, row)
  PROVE  /\ row.count <= Cardinality(entries)
         /\ row.debit <= Total(Debits(entries))
         /\ row.credit <= Total(CreditEntries(entries))
         /\ row.count > 0
<1>1. PICK seen \in SUBSET entries : seen # {} /\ row = BuildMovement(seen)
  BY DEF BuiltFrom
<1>2. /\ row.count = Cardinality(seen) /\ row.debit = Total(Debits(seen))
      /\ row.credit = Total(CreditEntries(seen))
  BY <1>1 DEF BuildMovement
<1>3. /\ IsFiniteSet(seen) /\ Cardinality(seen) \in Nat
      /\ Cardinality(seen) <= Cardinality(entries) /\ Cardinality(seen) # 0
  BY <1>1, FS_Subset, FS_CardinalityType, FS_EmptySet
<1>4. /\ Debits(entries) \in SUBSET Events /\ CreditEntries(entries) \in SUBSET Events
      /\ Debits(seen) \in SUBSET Debits(entries)
      /\ CreditEntries(seen) \in SUBSET CreditEntries(entries)
      /\ IsFiniteSet(Debits(entries)) /\ IsFiniteSet(CreditEntries(entries))
  BY <1>1, FS_Subset DEF Debits, CreditEntries
<1>5. /\ Total(Debits(seen)) <= Total(Debits(entries))
      /\ Total(CreditEntries(seen)) <= Total(CreditEntries(entries))
  BY <1>4, TotalGrows
<1> QED BY <1>2, <1>3, <1>5

\* What is built from entries is built from more of them.
LEMMA BuiltFromMore ==
  ASSUME NEW entries, NEW more, entries \subseteq more, NEW row,
         BuiltFrom(entries, row)
  PROVE  BuiltFrom(more, row)
BY DEF BuiltFrom
-----------------------------------------------------------------------------
(* Initially the invariant holds, and each statement keeps it. *)

\* A projector without a transaction has its type.
LEMMA ClosedType ==
  /\ Closed.pc = "idle" /\ Closed.event = NoEvent /\ Closed.balance \in Int
  /\ Closed.row \in Rows
  /\ Closed \in [pc : {"idle", "find", "save", "entries", "upsert", "validate", "commit"},
                 event : Events \cup {NoEvent}, balance : Int, row : Rows]
BY NoRowType DEF Closed

\* With empty tables the invariant holds.
LEMMA InitInvariant == Init => IInv
<1> SUFFICES ASSUME Init PROVE IInv
  OBVIOUS
<1> USE DEF Init
<1>1. TypeOK
  BY ClosedType, NoRowType DEF TypeOK
<1>2. IsFiniteSet(ledger)
  BY FS_EmptySet
<1>3. TransactionsCoverLedger
  BY DEF TransactionsCoverLedger
<1>4. RowsAreBuilt
  BY DEF RowsAreBuilt, EntriesOf
<1>5. TransactionsAreOpen
  BY ClosedType DEF TransactionsAreOpen
<1> QED BY <1>1, <1>2, <1>3, <1>4, <1>5 DEF IInv

Connections == [pc : {"idle", "find", "save", "entries", "upsert", "validate", "commit"},
                event : Events \cup {NoEvent}, balance : Int, row : Rows]

\* What the invariant says of one transaction.
Open(entries, t) ==
  /\ t.pc # "idle" => t.event \in Events
  /\ t.pc \in {"entries", "upsert", "validate"} => MovementOf(t.event) # NoMovement
  /\ t.pc \in {"upsert", "validate", "commit"} /\ MovementOf(t.event) # NoMovement =>
       BuiltFrom(EntriesOf(entries, MovementOf(t.event)) \cup {t.event}, t.row)

\* TransactionsAreOpen says of each projector what Open says of a record.
LEMMA OpenTransactions ==
  TransactionsAreOpen <=> \A p \in Projectors : Open(ledger, tx[p])
BY DEF TransactionsAreOpen, Open, OwnRowIsBuilt

\* A projector without a transaction asks nothing of the tables.
LEMMA IdleIsOpen == \A entries : Open(entries, Closed)
BY ClosedType DEF Open

\* An open transaction is a row of its own kind.
LEMMA ConnectionType ==
  ASSUME TypeOK, NEW p \in Projectors
  PROVE  tx[p] \in Connections
BY DEF TypeOK, Connections

\* r is in order with any entries that t is in order with, and that include the
\* ledger.
Follows(t, r) ==
  \A entries : ledger \subseteq entries /\ Open(entries, t) => Open(entries, r)

\* A statement that writes no table, and leaves its transaction in order.
Proceeds(p) ==
  \E r \in Connections : Proceed(p, r) /\ Follows(tx[p], r) /\ UNCHANGED tables

\* What every statement is taken under.
Ready(p) == TypeOK /\ IsFiniteSet(ledger) /\ Open(Events, tx[p])

\* Transactions that are in order with the ledger are ready.
LEMMA OpenIsReady ==
  ASSUME IInv
  PROVE  \A p \in Projectors : Ready(p) /\ Open(ledger, tx[p])
<1> SUFFICES ASSUME NEW p \in Projectors PROVE Ready(p) /\ Open(ledger, tx[p])
  OBVIOUS
<1>1. Open(ledger, tx[p]) /\ TypeOK /\ IsFiniteSet(ledger)
  BY OpenTransactions DEF IInv
<1>2. EntriesOf(ledger, MovementOf(tx[p].event)) \cup {tx[p].event}
        \subseteq EntriesOf(Events, MovementOf(tx[p].event)) \cup {tx[p].event}
  BY <1>1 DEF EntriesOf, TypeOK
<1>3. Open(Events, tx[p])
  BY <1>1, <1>2, BuiltFromMore DEF Open
<1> QED BY <1>1, <1>3 DEF Ready

\* An event is begun with nothing but its amount.
LEMMA BeginProceeds ==
  ASSUME NEW p \in Projectors, NEW e \in Events, Begin(p, e)
  PROVE  Proceeds(p)
<1> DEFINE first == IF e.type = "OPENING_BALANCE" THEN "save" ELSE "find"
           r == [Closed EXCEPT !.event = e, !.pc = first, !.balance = e.amount]
<1>1. first \in {"save", "find"} /\ e.amount \in Int
  OBVIOUS
<1>2. /\ r.event = e /\ r.pc \in {"save", "find"} /\ r.balance = e.amount
      /\ r \in Connections
  <2> HIDE DEF first
  <2> QED BY <1>1, ClosedType DEF Connections
<1>3. Proceed(p, r) /\ UNCHANGED tables
  BY DEF Begin
<1> HIDE DEF r
<1>4. Follows(tx[p], r)
  BY <1>2 DEF Follows, Open
<1> QED BY <1>2, <1>3, <1>4 DEF Proceeds

\* Ending a transaction without a commit leaves nothing behind.
LEMMA CloseProceeds ==
  ASSUME NEW p \in Projectors, Proceed(p, Closed), UNCHANGED tables
  PROVE  Proceeds(p)
<1>1. Closed \in Connections /\ Follows(tx[p], Closed)
  BY IdleIsOpen, ClosedType DEF Connections, Follows
<1> QED BY <1>1 DEF Proceeds

\* The new balance is an integer, and nothing else changes.
LEMMA FindWalletProceeds ==
  ASSUME NEW p \in Projectors, Ready(p), FindWallet(p)
  PROVE  Proceeds(p)
<1> DEFINE e == tx[p].event
           b == wallets[e.wallet].balance + (IF IsDebit(e) THEN -e.amount ELSE e.amount)
           r == [tx[p] EXCEPT !.pc = "save", !.balance = b]
<1>1. tx[p] \in Connections /\ Open(Events, tx[p]) /\ tx[p].pc = "find"
  BY ConnectionType DEF FindWallet, Ready
<1>2. e \in Events
  BY <1>1 DEF Open
<1>3. \/ Proceed(p, r) /\ UNCHANGED tables
      \/ Proceed(p, Closed) /\ UNCHANGED tables
  BY DEF FindWallet
<1>4. b \in Int
  <2>1. wallets[e.wallet].balance \in Int
    BY <1>2 DEF Ready, TypeOK
  <2>2. e.amount \in Int /\ -e.amount \in Int
    BY <1>2
  <2>3. (IF IsDebit(e) THEN -e.amount ELSE e.amount) \in Int
    BY <2>2
  <2> QED BY <2>1, <2>3
<1> HIDE DEF b
<1>5. r.pc = "save" /\ r.event = tx[p].event /\ r \in Connections
  BY <1>1, <1>4 DEF Connections
<1> HIDE DEF r
<1>6. Follows(tx[p], r)
  BY <1>1, <1>5 DEF Follows, Open
<1> QED BY <1>3, <1>5, <1>6, CloseProceeds DEF Proceeds

\* An opening of 0 has no movement: its transaction goes on to commit.
LEMMA SaveRowsProceeds ==
  ASSUME NEW p \in Projectors, Ready(p), SaveRows(p)
  PROVE  Proceeds(p)
<1> DEFINE r == [tx[p] EXCEPT !.pc = IF MovementOf(tx[p].event) = NoMovement
                                     THEN "commit" ELSE "entries"]
<1>1. tx[p] \in Connections /\ Open(Events, tx[p]) /\ tx[p].pc = "save"
  BY ConnectionType DEF SaveRows, Ready
<1>2. Proceed(p, r) /\ UNCHANGED tables
  BY DEF SaveRows
<1>3. /\ r.event = tx[p].event /\ r \in Connections
      /\ r.pc = IF MovementOf(tx[p].event) = NoMovement THEN "commit" ELSE "entries"
  BY <1>1 DEF Connections
<1> HIDE DEF r
<1>4. Follows(tx[p], r)
  BY <1>1, <1>3 DEF Follows, Open
<1> QED BY <1>2, <1>3, <1>4 DEF Proceeds

\* The row to be written is built from entries, its own among them.
LEMMA ReadEntriesProceeds ==
  ASSUME NEW p \in Projectors, Ready(p), ReadEntries(p)
  PROVE  Proceeds(p)
<1> DEFINE e == tx[p].event
           seen == EntriesOf(ledger, MovementOf(e)) \cup {e}
           row == BuildMovement(seen)
           r == [tx[p] EXCEPT !.pc = "upsert", !.row = row]
<1>1. tx[p] \in Connections /\ Open(Events, tx[p]) /\ tx[p].pc = "entries"
  BY ConnectionType DEF ReadEntries, Ready
<1>2. Proceed(p, r) /\ UNCHANGED tables
  BY DEF ReadEntries
<1>3. e \in Events /\ MovementOf(e) # NoMovement
  BY <1>1 DEF Open
<1>4. seen \in SUBSET Events /\ IsFiniteSet(seen) /\ seen # {}
  <2>1. ledger \in SUBSET Events /\ IsFiniteSet(ledger)
    BY DEF Ready, TypeOK
  <2>2. EntriesOf(ledger, MovementOf(e)) \in SUBSET ledger
    BY DEF EntriesOf
  <2> QED BY <1>3, <2>1, <2>2, FS_Subset, FS_AddElement
<1>5. row \in Rows /\ BuiltFrom(seen, row)
  BY <1>4, BuildMovementType DEF BuiltFrom
<1> HIDE DEF row
<1>6. r.pc = "upsert" /\ r.event = e /\ r.row = row /\ r \in Connections
  BY <1>1, <1>5 DEF Connections
<1> HIDE DEF r
<1>7. Follows(tx[p], r)
  <2>1. ASSUME NEW entries, ledger \subseteq entries
        PROVE  BuiltFrom(EntriesOf(entries, MovementOf(e)) \cup {e}, row)
    <3>1. seen \subseteq EntriesOf(entries, MovementOf(e)) \cup {e}
      BY <2>1 DEF EntriesOf
    <3> QED BY <1>5, <3>1, BuiltFromMore
  <2> QED BY <1>3, <1>6, <2>1 DEF Follows, Open
<1> QED BY <1>2, <1>6, <1>7 DEF Proceeds

\* The upsert and the validation keep what the transaction has prepared.
LEMMA UpsertMovementProceeds ==
  ASSUME NEW p \in Projectors, Ready(p), UpsertMovement(p)
  PROVE  Proceeds(p)
<1> DEFINE r == [tx[p] EXCEPT !.pc = "validate"]
<1>1. tx[p] \in Connections /\ Open(Events, tx[p]) /\ tx[p].pc = "upsert"
  BY ConnectionType DEF UpsertMovement, Ready
<1>2. Proceed(p, r) /\ UNCHANGED tables
  BY DEF UpsertMovement
<1>3. /\ r.pc = "validate" /\ r.event = tx[p].event /\ r.row = tx[p].row
      /\ r \in Connections
  BY <1>1 DEF Connections
<1> HIDE DEF r
<1>4. Follows(tx[p], r)
  BY <1>1, <1>3 DEF Follows, Open
<1> QED BY <1>2, <1>3, <1>4 DEF Proceeds

\* Validating a movement writes nothing.
LEMMA ValidateProceeds ==
  ASSUME NEW p \in Projectors, Ready(p), Validate(p)
  PROVE  Proceeds(p)
<1> DEFINE r == [tx[p] EXCEPT !.pc = "commit"]
<1>1. tx[p] \in Connections /\ Open(Events, tx[p]) /\ tx[p].pc = "validate"
  BY ConnectionType DEF Validate, Ready
<1>2. Proceed(p, r) /\ UNCHANGED tables
  BY DEF Validate
<1>3. /\ r.pc = "commit" /\ r.event = tx[p].event /\ r.row = tx[p].row
      /\ r \in Connections
  BY <1>1 DEF Connections
<1> HIDE DEF r
<1>4. Follows(tx[p], r)
  BY <1>1, <1>3 DEF Follows, Open
<1> QED BY <1>2, <1>3, <1>4 DEF Proceeds

\* Whatever a projector does, it leaves its transaction in order; only a commit
\* writes tables.
LEMMA ProjectShape ==
  ASSUME NEW p \in Projectors, Ready(p), Project(p)
  PROVE  Proceeds(p) \/ Commit(p)
<1>1. Rollback(p) => Proceeds(p)
  BY CloseProceeds DEF Rollback
<1> QED BY <1>1, BeginProceeds, FindWalletProceeds, SaveRowsProceeds,
           ReadEntriesProceeds, UpsertMovementProceeds, ValidateProceeds
        DEF Project, Statement

\* Types, and that there are finitely many entries, survive each statement.
LEMMA ProceedsType ==
  ASSUME TypeOK, NEW p \in Projectors, Proceeds(p)
  PROVE  TypeOK'
<1>1. PICK r \in Connections : Proceed(p, r) /\ UNCHANGED tables
  BY DEF Proceeds
<1>2. tx' = [tx EXCEPT ![p] = r] /\ UNCHANGED <<inbox, wallets, transactions, ledger, movements>>
  BY <1>1 DEF Proceed, tables
<1>3. tx' \in [Projectors -> Connections]
  BY <1>2 DEF TypeOK, Connections
<1> QED BY <1>2, <1>3 DEF TypeOK, Connections

\* A commit writes these rows.
CommitWrites(p, e, m) ==
  /\ inbox' = inbox \cup {e}
  /\ wallets' = [wallets EXCEPT ![e.wallet] = [open |-> TRUE, balance |-> tx[p].balance]]
  /\ transactions' = [transactions EXCEPT ![TransactionKey(e)] =
                        [event |-> e, balanceAfter |-> tx[p].balance]]
  /\ ledger' = ledger \cup {e}
  /\ movements' = IF m = NoMovement THEN movements
                  ELSE [movements EXCEPT ![m] = tx[p].row]
  /\ tx' = [tx EXCEPT ![p] = Closed]

\* A commit writes exactly the tables of its event.
LEMMA CommitEffect ==
  ASSUME NEW p \in Projectors, Ready(p), Commit(p)
  PROVE  /\ CommitWrites(p, tx[p].event, MovementOf(tx[p].event))
         /\ tx[p] \in Connections /\ tx[p].event \in Events /\ tx[p].pc = "commit"
<1>1. CommitWrites(p, tx[p].event, MovementOf(tx[p].event))
  BY DEF Commit, Proceed, CommitWrites
<1>2. tx[p] \in Connections /\ tx[p].pc = "commit"
  BY ConnectionType DEF Ready, Commit
<1>3. tx[p].event \in Events
  BY <1>2 DEF Ready, Open
<1> QED BY <1>1, <1>2, <1>3

\* A commit keeps the types of the tables.
LEMMA CommitType ==
  ASSUME NEW p \in Projectors, Ready(p), Commit(p)
  PROVE  TypeOK' /\ IsFiniteSet(ledger')
<1> DEFINE e == tx[p].event
           m == MovementOf(e)
<1>1. /\ CommitWrites(p, e, m)
      /\ tx[p] \in Connections /\ e \in Events
  BY CommitEffect
<1>2. tx[p].balance \in Int /\ tx[p].row \in Rows
  BY <1>1 DEF Connections
<1>3. TypeOK /\ IsFiniteSet(ledger)
  BY DEF Ready
<1> HIDE DEF e, m
<1> USE DEF CommitWrites
<1>4. tx' \in [Projectors -> Connections]
  BY <1>1, <1>3, ClosedType DEF TypeOK, Connections
<1>5. wallets' \in [Wallets -> [open : BOOLEAN, balance : Int]]
  BY <1>1, <1>2, <1>3 DEF TypeOK
<1>6. transactions' \in [TransactionKeys -> [event : Events \cup {NoEvent}, balanceAfter : Int]]
  BY <1>1, <1>2, <1>3 DEF TypeOK
<1>7. movements' \in [MovementIds -> Rows]
  BY <1>1, <1>2, <1>3 DEF TypeOK
<1>8. inbox' \subseteq Events /\ ledger' \subseteq Events
  BY <1>1, <1>3 DEF TypeOK
<1>9. IsFiniteSet(ledger')
  BY <1>1, <1>3, FS_AddElement
<1> QED BY <1>4, <1>5, <1>6, <1>7, <1>8, <1>9 DEF TypeOK, Connections

\* More entries leave every transaction in order, and so does a statement.
LEMMA OpenAfter ==
  ASSUME NEW p \in Projectors, Ready(p), Project(p),
         NEW entries, ledger \subseteq entries, Open(entries, tx[p]),
         NEW more, entries \subseteq more,
         NEW q \in Projectors, Open(entries, tx[q])
  PROVE  Open(more, tx'[q])
<1>1. DOMAIN tx = Projectors
  BY DEF Ready, TypeOK
<1>2. ASSUME NEW t, Open(entries, t)
      PROVE  Open(more, t)
  <2>1. EntriesOf(entries, MovementOf(t.event)) \cup {t.event}
          \subseteq EntriesOf(more, MovementOf(t.event)) \cup {t.event}
    BY DEF EntriesOf
  <2> QED BY <1>2, <2>1, BuiltFromMore DEF Open
<1>3. PICK r : tx' = [tx EXCEPT ![p] = r] /\ Open(entries, r)
  <2>1. CASE Proceeds(p)
    BY <2>1 DEF Proceeds, Proceed, Follows
  <2>2. CASE Commit(p)
    BY <2>2, IdleIsOpen DEF Commit, Proceed
  <2> QED BY <2>1, <2>2, ProjectShape
<1>4. Open(entries, tx'[q])
  BY <1>1, <1>3
<1> QED BY <1>2, <1>4

\* The committed rows after a commit are built from the committed entries.
LEMMA CommitInvariant ==
  ASSUME IInv, NEW p \in Projectors, Commit(p)
  PROVE  TransactionsCoverLedger' /\ RowsAreBuilt'
<1> DEFINE e == tx[p].event
           m == MovementOf(e)
<1>1. Ready(p) /\ Open(ledger, tx[p])
  BY OpenIsReady
<1>2. /\ CommitWrites(p, e, m) /\ e \in Events /\ tx[p].pc = "commit"
  BY <1>1, CommitEffect
<1>3. TypeOK /\ RowsAreBuilt /\ TransactionsCoverLedger
  BY DEF IInv
<1>4. m # NoMovement => m \in MovementIds
  BY <1>2 DEF MovementIds
<1>5. ledger' \subseteq Events
  BY <1>2, <1>3 DEF CommitWrites, TypeOK
<1> HIDE DEF e, m
<1> USE DEF CommitWrites
<1>6. TransactionsCoverLedger'
  <2>1. SUFFICES ASSUME NEW d \in ledger',
                        \A x \in Events : x.wallet = d.wallet /\ x.version = d.version => x = d
                 PROVE  transactions'[TransactionKey(d)].event = d
    BY DEF TransactionsCoverLedger
  <2>2. d \in Events /\ TransactionKey(d) \in TransactionKeys
    BY <1>5 DEF TransactionKeys
  <2>3. CASE d = e
    BY <1>2, <1>3, <2>2, <2>3 DEF TypeOK
  <2>4. CASE d # e
    <3>1. TransactionKey(d) # TransactionKey(e)
      BY <1>2, <2>1, <2>4 DEF TransactionKey
    <3>2. d \in ledger
      BY <1>2, <2>4
    <3> QED BY <1>2, <1>3, <2>1, <2>2, <3>1, <3>2 DEF TypeOK, TransactionsCoverLedger
  <2> QED BY <2>3, <2>4
<1>7. RowsAreBuilt'
  <2>1. SUFFICES ASSUME NEW n \in MovementIds
                 PROVE  IF EntriesOf(ledger', n) = {} THEN movements'[n] = NoRow
                        ELSE BuiltFrom(EntriesOf(ledger', n), movements'[n])
    BY DEF RowsAreBuilt
  <2>2. n # NoMovement
    BY DEF MovementIds
  <2>3. CASE n = m
    <3>1. movements'[n] = tx[p].row
      BY <1>2, <1>3, <2>2, <2>3 DEF TypeOK
    <3>2. EntriesOf(ledger', n) = EntriesOf(ledger, m) \cup {e}
      BY <1>2, <2>3 DEF EntriesOf, m
    <3>3. BuiltFrom(EntriesOf(ledger, m) \cup {e}, tx[p].row)
      BY <1>1, <1>2, <2>2, <2>3 DEF Open, m, e
    <3> QED BY <3>1, <3>2, <3>3
  <2>4. CASE n # m
    <3>1. EntriesOf(ledger', n) = EntriesOf(ledger, n)
      BY <1>2, <2>4 DEF EntriesOf, m
    <3>2. movements'[n] = movements[n]
      BY <1>2, <1>3, <1>4, <2>4 DEF TypeOK
    <3> QED BY <1>3, <3>1, <3>2 DEF RowsAreBuilt
  <2> QED BY <2>3, <2>4
<1> QED BY <1>6, <1>7

\* Every step of the projectors keeps the invariant.
LEMMA StepInvariant == IInv /\ [Next]_projectionVars => IInv'
<1>1. ASSUME IInv, NEW p \in Projectors, Project(p)
      PROVE  IInv'
  <2>1. Ready(p) /\ \A q \in Projectors : Open(ledger, tx[q])
    BY <1>1, OpenIsReady
  <2>2. \A q \in Projectors : Open(ledger', tx'[q])
    <3>1. ledger \subseteq ledger'
      BY <1>1, <2>1, ProjectShape, CommitEffect DEF Proceeds, tables, CommitWrites
    <3> QED BY <1>1, <2>1, <3>1, OpenAfter
  <2>3. TransactionsAreOpen'
    BY <2>2 DEF TransactionsAreOpen, Open, OwnRowIsBuilt
  <2>4. CASE Proceeds(p)
    <3>1. UNCHANGED <<inbox, wallets, transactions, ledger, movements>>
      BY <2>4 DEF Proceeds, tables
    <3>2. TypeOK'
      BY <1>1, <2>4, ProceedsType DEF IInv
    <3> QED BY <1>1, <2>3, <3>1, <3>2 DEF IInv, RowsAreBuilt, TransactionsCoverLedger
  <2>5. CASE Commit(p)
    BY <1>1, <2>1, <2>3, <2>5, CommitType, CommitInvariant DEF IInv
  <2> QED BY <1>1, <2>1, <2>4, <2>5, ProjectShape
<1>2. ASSUME IInv, UNCHANGED projectionVars
      PROVE  IInv'
  BY <1>2 DEF projectionVars, IInv, TypeOK, TransactionsCoverLedger, RowsAreBuilt,
              TransactionsAreOpen, OwnRowIsBuilt
<1> QED BY <1>1, <1>2 DEF Next

\* Whatever order the projectors' statements come in, and whichever of their
\* transactions roll back, the invariant holds.
THEOREM Invariance == Spec => []IInv
BY InitInvariant, StepInvariant, PTL DEF Spec
-----------------------------------------------------------------------------
(* What follows from it. *)

\* The invariant, of a state.
LEMMA InvariantIsCompleted == IInv => CompletedIsBalanced
<1> SUFFICES ASSUME IInv, NEW m \in MovementIds,
                    movements[m].status = "COMPLETED", Cardinality(m[1]) = 2
             PROVE  \E d, e \in EntriesOf(ledger, m) : IsDebit(d) /\ IsCounterpart(d, e)
  BY DEF CompletedIsBalanced
<1>1. movements[m] # NoRow
  BY DEF NoRow
<1>2. PICK seen \in SUBSET EntriesOf(ledger, m) :
        seen # {} /\ movements[m] = BuildMovement(seen)
  BY <1>1 DEF IInv, RowsAreBuilt, BuiltFrom
<1>3. seen \in SUBSET Events /\ IsFiniteSet(seen) /\ \A e \in seen : MovementOf(e) = m
  BY FS_Subset DEF IInv, TypeOK, EntriesOf
<1>4. \E d, e \in seen : IsDebit(d) /\ IsCounterpart(d, e)
  BY <1>2, <1>3, CompletedHasPair
<1> QED BY <1>4

\* A movement counts and sums no more than its entries in the ledger.
LEMMA InvariantIsLagging == IInv => MovementsLagAtMost
<1> SUFFICES ASSUME IInv, NEW m \in MovementIds
             PROVE  LET entries == EntriesOf(ledger, m)
                    IN  /\ movements[m].count <= Cardinality(entries)
                        /\ movements[m].debit <= Total(Debits(entries))
                        /\ movements[m].credit <= Total(CreditEntries(entries))
                        /\ entries # {} => movements[m].count > 0
  BY DEF MovementsLagAtMost
<1> DEFINE entries == EntriesOf(ledger, m)
<1>1. entries \in SUBSET Events /\ IsFiniteSet(entries)
  BY FS_Subset DEF IInv, TypeOK, EntriesOf
<1>2. CASE entries = {}
  <2>1. movements[m].count = 0 /\ movements[m].debit = 0 /\ movements[m].credit = 0
    BY <1>2 DEF IInv, RowsAreBuilt, NoRow
  <2>2. Cardinality(entries) \in Nat
    BY <1>1, FS_CardinalityType
  <2>3. Total(Debits(entries)) \in Nat /\ Total(CreditEntries(entries)) \in Nat
    <3>1. Debits(entries) \in SUBSET entries /\ CreditEntries(entries) \in SUBSET entries
      BY DEF Debits, CreditEntries
    <3> QED BY <1>1, <3>1, TotalGrows
  <2> QED BY <1>2, <2>1, <2>2, <2>3
<1>3. CASE entries # {}
  <2>1. BuiltFrom(entries, movements[m])
    BY <1>3 DEF IInv, RowsAreBuilt
  <2> QED BY <1>1, <2>1, BuiltLags
<1> QED BY <1>2, <1>3

\* Every table keeps the shape its definition gives it.
THEOREM TypeCorrectness == Spec => []TypeOK
<1>1. IInv => TypeOK
  BY DEF IInv
<1> QED BY <1>1, Invariance, PTL

\* A transfer shown as COMPLETED has both of its sides in the ledger.
THEOREM CompletedTransfers == Spec => []CompletedIsBalanced
BY InvariantIsCompleted, Invariance, PTL

\* No movement row runs ahead of its entries, and none is missing.
THEOREM MovementLag == Spec => []MovementsLagAtMost
BY InvariantIsLagging, Invariance, PTL

\* An entry whose version was not forked has its own transaction row.
THEOREM TransactionCoverage == Spec => []TransactionsCoverLedger
<1>1. IInv => TransactionsCoverLedger
  BY DEF IInv
<1> QED BY <1>1, Invariance, PTL

\* No group of projectors waits for each other: if one of them is past its last
\* lock, or waits for a movement, it waits for nobody in a group that waits.
LEMMA LocksAreOrdered == NoDeadlock
<1>1. SUFFICES ASSUME NEW group \in (SUBSET Projectors) \ {{}},
                      \A p \in group : \E q \in group : WaitsFor(p, q)
               PROVE  FALSE
  BY DEF NoDeadlock
<1>2. \A p \in group : tx[p].pc \in {"save", "upsert"}
  BY <1>1 DEF WaitsFor
<1>3. \A p, q \in group : ~ HoldsMovement(q, MovementOf(tx[p].event))
  BY <1>2 DEF HoldsMovement
<1>4. \A p \in group : tx[p].pc = "save"
  BY <1>1, <1>2, <1>3 DEF WaitsFor
<1>5. \A p, q \in group : ~ HoldsWallet(q, tx[p].event.wallet)
  BY <1>4 DEF HoldsWallet
<1> QED BY <1>1, <1>3, <1>5 DEF WaitsFor

\* Transactions never wait for each other in a circle.
THEOREM DeadlockFreedom == Spec => []NoDeadlock
<1>1. IInv => NoDeadlock
  BY LocksAreOrdered
<1> QED BY <1>1, Invariance, PTL
-----------------------------------------------------------------------------
(* One transaction at a time: what the handlers derive from the entries. *)

\* No entries total 0, and one more entry adds its amount.
LEMMA TotalOfNothing == Total({}) = 0
BY Sums!SumOfEmpty, TotalIsSum

\* A further event adds what it moves.
LEMMA TotalAfter ==
  ASSUME NEW entries \in SUBSET Events, IsFiniteSet(entries),
         NEW e \in Events, e \notin entries
  PROVE  Total(entries \cup {e}) = Total(entries) + e.amount
<1>1. \A d \in entries \cup {e} : AmountOf(d) \in Int
  BY DEF AmountOf
<1>2. Sums!Sum(entries \cup {e}) = Sums!Sum(entries) + AmountOf(e)
  BY <1>1, Sums!SumAdd, FiniteIsFinite
<1> QED BY <1>2, TotalIsSum DEF AmountOf

\* The balance of a wallet, derived from entries, and what an entry adds to it.
Balance(entries, w) ==
  LET own == {e \in entries : e.wallet = w}
  IN  Total(CreditEntries(own)) - Total(Debits(own))
Moved(e) == IF IsDebit(e) THEN -e.amount ELSE e.amount

\* Projecting an entry moves the derived balance of its wallet, and of no other.
LEMMA BalanceAfter ==
  ASSUME NEW entries \in SUBSET Events, IsFiniteSet(entries),
         NEW e \in Events, e \notin entries
  PROVE  /\ Balance(entries \cup {e}, e.wallet)
              = Balance(entries, e.wallet) + Moved(e)
         /\ \A w \in Wallets : w # e.wallet =>
              Balance(entries \cup {e}, w) = Balance(entries, w)
         /\ Balance(entries, e.wallet) \in Int
<1> DEFINE own == {d \in entries : d.wallet = e.wallet}
           new == {d \in entries \cup {e} : d.wallet = e.wallet}
<1>1. new = own \cup {e} /\ own \in SUBSET Events /\ IsFiniteSet(own) /\ e \notin own
  BY FS_Subset
<1>2. /\ CreditEntries(own) \in SUBSET own /\ Debits(own) \in SUBSET own
      /\ CreditEntries(own) \in SUBSET Events /\ Debits(own) \in SUBSET Events
      /\ IsFiniteSet(CreditEntries(own)) /\ IsFiniteSet(Debits(own))
  BY <1>1, FS_Subset DEF CreditEntries, Debits
<1>3. Total(CreditEntries(own)) \in Nat /\ Total(Debits(own)) \in Nat
  BY <1>1, <1>2, TotalGrows
<1>4. /\ Balance(entries, e.wallet) = Total(CreditEntries(own)) - Total(Debits(own))
      /\ Balance(entries \cup {e}, e.wallet)
           = Total(CreditEntries(new)) - Total(Debits(new))
  BY DEF Balance
<1>5. \A w \in Wallets : w # e.wallet =>
        Balance(entries \cup {e}, w) = Balance(entries, w)
  <2> TAKE w \in Wallets
  <2> HAVE w # e.wallet
  <2>1. {d \in entries \cup {e} : d.wallet = w} = {d \in entries : d.wallet = w}
    OBVIOUS
  <2> QED BY <2>1 DEF Balance
<1> HIDE DEF own, new
<1>6. CASE IsDebit(e)
  <2>1. CreditEntries(new) = CreditEntries(own) /\ Debits(new) = Debits(own) \cup {e}
    BY <1>1, <1>6 DEF CreditEntries, Debits
  <2>2. Total(Debits(new)) = Total(Debits(own)) + e.amount
    BY <1>1, <1>2, <2>1, TotalAfter
  <2>3. Moved(e) = -e.amount /\ e.amount \in Nat
    BY <1>6 DEF Moved
  <2>4. /\ Balance(entries \cup {e}, e.wallet)
             = Total(CreditEntries(own)) - (Total(Debits(own)) + e.amount)
        /\ Balance(entries, e.wallet) = Total(CreditEntries(own)) - Total(Debits(own))
    BY <1>4, <2>1, <2>2
  <2>5. /\ Balance(entries \cup {e}, e.wallet) = Balance(entries, e.wallet) + -e.amount
        /\ Balance(entries, e.wallet) \in Int
    <3> DEFINE c == Total(CreditEntries(own))  d == Total(Debits(own))
    <3>1. c \in Nat /\ d \in Nat
      BY <1>3
    <3>2. Balance(entries, e.wallet) = c - d
      BY <2>4
    <3>3. Balance(entries \cup {e}, e.wallet) = c - (d + e.amount)
      BY <2>4
    <3> HIDE DEF c, d
    <3> QED BY <2>3, <3>1, <3>2, <3>3
  <2> QED BY <1>5, <2>3, <2>5, Zenon
<1>7. CASE ~ IsDebit(e)
  <2>1. CreditEntries(new) = CreditEntries(own) \cup {e} /\ Debits(new) = Debits(own)
    BY <1>1, <1>7 DEF CreditEntries, Debits
  <2>2. Total(CreditEntries(new)) = Total(CreditEntries(own)) + e.amount
    BY <1>1, <1>2, <2>1, TotalAfter
  <2>3. Moved(e) = e.amount /\ e.amount \in Nat
    BY <1>7 DEF Moved
  <2>4. /\ Balance(entries \cup {e}, e.wallet)
             = (Total(CreditEntries(own)) + e.amount) - Total(Debits(own))
        /\ Balance(entries, e.wallet) = Total(CreditEntries(own)) - Total(Debits(own))
    BY <1>4, <2>1, <2>2
  <2>5. /\ Balance(entries \cup {e}, e.wallet) = Balance(entries, e.wallet) + e.amount
        /\ Balance(entries, e.wallet) \in Int
    <3> DEFINE c == Total(CreditEntries(own))  d == Total(Debits(own))
    <3>1. c \in Nat /\ d \in Nat
      BY <1>3
    <3>2. Balance(entries, e.wallet) = c - d
      BY <2>4
    <3>3. Balance(entries \cup {e}, e.wallet) = (c + e.amount) - d
      BY <2>4
    <3> HIDE DEF c, d
    <3> QED BY <2>3, <3>1, <3>2, <3>3
  <2> QED BY <1>5, <2>3, <2>5, Zenon
<1> QED BY <1>6, <1>7

\* A wallet without entries has the balance 0.
LEMMA BalanceOfNothing ==
  ASSUME NEW entries, NEW w, \A e \in entries : e.wallet # w
  PROVE  Balance(entries, w) = 0
<1> DEFINE own == {e \in entries : e.wallet = w}
<1>1. CreditEntries(own) = {} /\ Debits(own) = {}
  BY DEF CreditEntries, Debits
<1>2. Balance(entries, w) = Total(CreditEntries(own)) - Total(Debits(own))
  BY DEF Balance
<1> HIDE DEF own
<1> QED BY <1>1, <1>2, TotalOfNothing

\* The wallet's row is the one derived from the entries.
WalletIsDerived(entries, rows, w) ==
  IF rows[w].open
  THEN /\ rows[w].balance = Balance(entries, w)
       /\ \E e \in entries : e.wallet = w /\ e.type = "OPENING_BALANCE"
  ELSE \A e \in entries : e.wallet # w

\* Likewise the row of a movement.
MovementIsDerived(entries, rows, m) ==
  rows[m] = IF EntriesOf(entries, m) = {} THEN NoRow
            ELSE BuildMovement(EntriesOf(entries, m))

\* What a transaction is about to write is derived from the entries and its own.
Prepared(entries, rows, t) ==
  /\ t.pc # "idle" => t.event \notin entries
  /\ t.pc = "find" => t.event.type # "OPENING_BALANCE"
  /\ t.pc \notin {"idle", "find"} =>
       IF t.event.type = "OPENING_BALANCE" THEN t.balance = t.event.amount
       ELSE /\ rows[t.event.wallet].open
            /\ t.balance = rows[t.event.wallet].balance + Moved(t.event)
  /\ t.pc \in {"upsert", "validate", "commit"} /\ MovementOf(t.event) # NoMovement =>
       t.row = BuildMovement(EntriesOf(entries, MovementOf(t.event)) \cup {t.event})

\* A closed transaction is about to write nothing.
LEMMA IdleIsPrepared == \A entries, rows : Prepared(entries, rows, Closed)
BY ClosedType DEF Prepared

\* The balance that a transaction saves is derived from the entries it leaves.
LEMMA PreparedBalance ==
  ASSUME NEW entries \in SUBSET Events, IsFiniteSet(entries), NEW rows, NEW t,
         t.event \in Events, t.pc = "commit", Prepared(entries, rows, t),
         WalletIsDerived(entries, rows, t.event.wallet)
  PROVE  /\ t.balance = Balance(entries \cup {t.event}, t.event.wallet)
         /\ \E d \in entries \cup {t.event} :
              d.wallet = t.event.wallet /\ d.type = "OPENING_BALANCE"
<1> DEFINE e == t.event  w == e.wallet
<1>1. e \in Events /\ e \notin entries /\ w \in Wallets
  BY DEF Prepared
<1>2. /\ Balance(entries \cup {e}, w) = Balance(entries, w) + Moved(e)
      /\ Balance(entries, w) \in Int
  BY <1>1, BalanceAfter
<1>3. CASE e.type = "OPENING_BALANCE"
  <2>1. ~ rows[w].open
    <3>1. SUFFICES ASSUME rows[w].open PROVE FALSE
      OBVIOUS
    <3>2. PICK d \in entries : d.wallet = w /\ d.type = "OPENING_BALANCE"
      BY <3>1 DEF WalletIsDerived
    <3>3. d = e
      BY <1>1, <1>3, <3>2, OpeningsAssumption
    <3> QED BY <1>1, <3>3
  <2>2. Balance(entries, w) = 0
    <3>1. \A d \in entries : d.wallet # w
      BY <2>1 DEF WalletIsDerived
    <3> QED BY <3>1, BalanceOfNothing
  <2>3. Moved(e) = e.amount /\ e.amount \in Nat
    BY <1>1, <1>3 DEF Moved, IsDebit
  <2>4. t.balance = e.amount
    BY <1>3 DEF Prepared
  <2>5. t.balance = Balance(entries \cup {e}, w)
    <3> HIDE DEF e, w
    <3> QED BY <1>2, <2>2, <2>3, <2>4
  <2> QED BY <1>3, <2>5
<1>4. CASE e.type # "OPENING_BALANCE"
  <2>1. rows[w].open /\ t.balance = rows[w].balance + Moved(e)
    BY <1>4 DEF Prepared
  <2>2. /\ rows[w].balance = Balance(entries, w)
        /\ \E d \in entries : d.wallet = w /\ d.type = "OPENING_BALANCE"
    BY <2>1 DEF WalletIsDerived
  <2> QED BY <1>2, <2>1, <2>2
<1> QED BY <1>3, <1>4

\* A statement writes what it has prepared, so derived rows stay derived.
LEMMA WalletStaysDerived ==
  ASSUME NEW p \in Projectors, Ready(p), Project(p), Prepared(ledger, wallets, tx[p]),
         NEW w \in Wallets, WalletIsDerived(ledger, wallets, w)
  PROVE  WalletIsDerived(ledger', wallets', w)
<1>1. CASE Proceeds(p)
  BY <1>1 DEF Proceeds, tables
<1>2. CASE Commit(p)
  <2> DEFINE e == tx[p].event
  <2>1. /\ CommitWrites(p, e, MovementOf(e)) /\ e \in Events /\ tx[p].pc = "commit"
    BY <1>2, CommitEffect
  <2>2. /\ ledger \in SUBSET Events /\ IsFiniteSet(ledger) /\ e \notin ledger
        /\ DOMAIN wallets = Wallets /\ e.wallet \in Wallets
    BY <2>1 DEF Ready, TypeOK, Prepared
  <2>3. CASE w # e.wallet
    <3>1. wallets'[w] = wallets[w] /\ ledger' = ledger \cup {e}
      BY <2>1, <2>2, <2>3 DEF CommitWrites
    <3>2. Balance(ledger \cup {e}, w) = Balance(ledger, w)
      BY <2>1, <2>2, <2>3, BalanceAfter
    <3> HIDE DEF e
    <3> QED BY <2>3, <3>1, <3>2 DEF WalletIsDerived
  <2>4. CASE w = e.wallet
    <3>1. /\ wallets'[w].open /\ wallets'[w].balance = tx[p].balance
          /\ ledger' = ledger \cup {e}
      BY <2>1, <2>2, <2>4 DEF CommitWrites
    <3>2. WalletIsDerived(ledger, wallets, e.wallet)
      BY <2>4
    <3>3. /\ tx[p].balance = Balance(ledger \cup {e}, e.wallet)
          /\ \E d \in ledger \cup {e} : d.wallet = e.wallet /\ d.type = "OPENING_BALANCE"
      BY <2>1, <2>2, <3>2, PreparedBalance
    <3> HIDE DEF e
    <3> QED BY <2>4, <3>1, <3>3 DEF WalletIsDerived
  <2> QED BY <2>3, <2>4
<1> QED BY <1>1, <1>2, ProjectShape

\* A step of a projector whose transaction is prepared keeps movements derived.
LEMMA MovementStaysDerived ==
  ASSUME NEW p \in Projectors, Ready(p), Project(p), Prepared(ledger, wallets, tx[p]),
         NEW m \in MovementIds, MovementIsDerived(ledger, movements, m)
  PROVE  MovementIsDerived(ledger', movements', m)
<1>1. CASE Proceeds(p)
  BY <1>1 DEF Proceeds, tables
<1>2. CASE Commit(p)
  <2> DEFINE e == tx[p].event
             n == MovementOf(e)
  <2>1. /\ CommitWrites(p, e, n) /\ e \in Events /\ tx[p].pc = "commit"
        /\ DOMAIN movements = MovementIds /\ m # NoMovement
    BY <1>2, CommitEffect DEF Ready, TypeOK, MovementIds
  <2>2. ledger' = ledger \cup {e}
    BY <2>1 DEF CommitWrites
  <2>3. CASE m = n
    <3>1. movements'[m] = tx[p].row
      BY <2>1, <2>3 DEF CommitWrites
    <3>2. EntriesOf(ledger', m) = EntriesOf(ledger, n) \cup {e}
      BY <2>2, <2>3 DEF EntriesOf
    <3>3. tx[p].row = BuildMovement(EntriesOf(ledger, n) \cup {e})
      BY <2>1, <2>3 DEF Prepared
    <3> HIDE DEF e, n
    <3> QED BY <3>1, <3>2, <3>3 DEF MovementIsDerived
  <2>4. CASE m # n
    <3>1. EntriesOf(ledger', m) = EntriesOf(ledger, m)
      BY <2>2, <2>4 DEF EntriesOf
    <3>2. movements'[m] = movements[m]
      BY <2>1, <2>4 DEF CommitWrites
    <3> HIDE DEF e, n
    <3> QED BY <3>1, <3>2 DEF MovementIsDerived
  <2> QED BY <2>3, <2>4
<1> QED BY <1>1, <1>2, ProjectShape

\* Every statement prepares, from the tables, what its transaction will write.
LEMMA StaysPrepared ==
  ASSUME NEW p \in Projectors, Ready(p), Prepared(ledger, wallets, tx[p]),
         Statement(p) \/ Rollback(p) \/ \E e \in Events \ ledger : Begin(p, e)
  PROVE  Prepared(ledger', wallets', tx'[p])
<1> DEFINE t == tx[p]
<1>1. t \in Connections /\ Open(Events, t) /\ DOMAIN tx = Projectors
  BY ConnectionType DEF Ready, TypeOK
<1>2. ASSUME NEW r, Proceed(p, r), UNCHANGED tables, Prepared(ledger, wallets, r)
      PROVE  Prepared(ledger', wallets', tx'[p])
  <2>1. tx'[p] = r /\ ledger' = ledger /\ wallets' = wallets
    BY <1>1, <1>2 DEF Proceed, tables
  <2> QED BY <1>2, <2>1
<1>3. ASSUME NEW e \in Events \ ledger, Begin(p, e)
      PROVE  Prepared(ledger', wallets', tx'[p])
  <2> DEFINE first == IF e.type = "OPENING_BALANCE" THEN "save" ELSE "find"
             r == [Closed EXCEPT !.event = e, !.pc = first, !.balance = e.amount]
  <2>1. Proceed(p, r) /\ UNCHANGED tables /\ e \notin ledger
    BY <1>3 DEF Begin
  <2>2. /\ first \in {"save", "find"}
        /\ first = "save" <=> e.type = "OPENING_BALANCE"
    OBVIOUS
  <2>3. r.event = e /\ r.pc = first /\ r.balance = e.amount
    <3> HIDE DEF first
    <3> QED BY ClosedType DEF Connections
  <2> HIDE DEF r, first
  <2>4. Prepared(ledger, wallets, r)
    BY <2>1, <2>2, <2>3 DEF Prepared
  <2> QED BY <1>2, <2>1, <2>4
<1>4. CASE FindWallet(p)
  <2> DEFINE e == t.event
             b == wallets[e.wallet].balance + (IF IsDebit(e) THEN -e.amount ELSE e.amount)
             r == [t EXCEPT !.pc = "save", !.balance = b]
  <2>1. /\ t.pc = "find" /\ UNCHANGED tables
        /\ \/ wallets[e.wallet].open /\ Proceed(p, r)
           \/ Proceed(p, Closed)
    BY <1>4 DEF FindWallet
  <2>2. b = wallets[e.wallet].balance + Moved(e)
    BY DEF Moved
  <2> HIDE DEF b
  <2>3. r.pc = "save" /\ r.event = e /\ r.balance = b
    BY <1>1 DEF Connections
  <2> HIDE DEF r
  <2>4. CASE wallets[e.wallet].open /\ Proceed(p, r)
    <3>1. Prepared(ledger, wallets, r)
      BY <1>1, <2>1, <2>2, <2>3, <2>4 DEF Prepared
    <3> QED BY <2>1, <2>4, <3>1, <1>2
  <2>5. CASE Proceed(p, Closed)
    BY <2>1, <2>5, IdleIsPrepared, <1>2
  <2> QED BY <2>1, <2>4, <2>5
<1>5. CASE SaveRows(p)
  <2> DEFINE r == [t EXCEPT !.pc = IF MovementOf(t.event) = NoMovement
                                   THEN "commit" ELSE "entries"]
  <2>1. t.pc = "save" /\ UNCHANGED tables /\ Proceed(p, r)
    BY <1>5 DEF SaveRows
  <2>2. /\ r.event = t.event /\ r.balance = t.balance
        /\ r.pc = IF MovementOf(t.event) = NoMovement THEN "commit" ELSE "entries"
    BY <1>1 DEF Connections
  <2> HIDE DEF r
  <2>3. Prepared(ledger, wallets, r)
    BY <1>1, <2>1, <2>2 DEF Prepared
  <2> QED BY <2>1, <2>3, <1>2
<1>6. CASE ReadEntries(p)
  <2> DEFINE e == t.event
             row == BuildMovement(EntriesOf(ledger, MovementOf(e)) \cup {e})
             r == [t EXCEPT !.pc = "upsert", !.row = row]
  <2>1. t.pc = "entries" /\ UNCHANGED tables /\ Proceed(p, r)
    BY <1>6 DEF ReadEntries
  <2> HIDE DEF row
  <2>2. r.pc = "upsert" /\ r.event = t.event /\ r.balance = t.balance /\ r.row = row
    BY <1>1 DEF Connections
  <2> HIDE DEF r
  <2>3. Prepared(ledger, wallets, r)
    BY <1>1, <2>1, <2>2 DEF Prepared, row
  <2> QED BY <2>1, <2>3, <1>2
<1>7. CASE UpsertMovement(p)
  <2> DEFINE r == [t EXCEPT !.pc = "validate"]
  <2>1. t.pc = "upsert" /\ UNCHANGED tables /\ Proceed(p, r)
    BY <1>7 DEF UpsertMovement
  <2>2. r.pc = "validate" /\ r.event = t.event /\ r.balance = t.balance /\ r.row = t.row
    BY <1>1 DEF Connections
  <2> HIDE DEF r
  <2>3. Prepared(ledger, wallets, r)
    BY <1>1, <2>1, <2>2 DEF Prepared
  <2> QED BY <2>1, <2>3, <1>2
<1>8. CASE Validate(p)
  <2> DEFINE r == [t EXCEPT !.pc = "commit"]
  <2>1. t.pc = "validate" /\ UNCHANGED tables /\ Proceed(p, r)
    BY <1>8 DEF Validate
  <2>2. r.pc = "commit" /\ r.event = t.event /\ r.balance = t.balance /\ r.row = t.row
    BY <1>1 DEF Connections
  <2> HIDE DEF r
  <2>3. Prepared(ledger, wallets, r)
    BY <1>1, <2>1, <2>2 DEF Prepared
  <2> QED BY <2>1, <2>3, <1>2
<1>9. CASE Rollback(p)
  <2>1. Proceed(p, Closed) /\ UNCHANGED tables
    BY <1>9 DEF Rollback
  <2> QED BY <2>1, <1>2, IdleIsPrepared
<1>10. CASE Commit(p)
  <2>1. tx'[p] = Closed
    BY <1>1, <1>10 DEF Commit, Proceed
  <2> QED BY <2>1, IdleIsPrepared
<1> QED BY <1>3, <1>4, <1>5, <1>6, <1>7, <1>8, <1>9, <1>10 DEF Statement
-----------------------------------------------------------------------------
(* The ledger checker: its inductive invariant. *)

\* The checker's record has these fields.
CheckIsRecord ==
  check = [pc |-> check.pc, wallets |-> check.wallets,
           ledger |-> check.ledger, movements |-> check.movements]

\* Entries are never removed, and what was read after them has their rows.
CheckerIsBehind ==
  /\ check.pc \in {"movements", "report"} => check.ledger \subseteq ledger
  /\ check.pc = "report" =>
       \A m \in MovementIds :
         EntriesOf(check.ledger, m) # {} => m \in Stored(check.movements)

\* The stored rows are those derived from the entries.
Derived ==
  /\ \A w \in Wallets : WalletIsDerived(ledger, wallets, w)
  /\ \A m \in MovementIds : MovementIsDerived(ledger, movements, m)

\* They are, and at most one transaction is open, as long as transactions come
\* one at a time.
OpenOnes == {p \in Projectors : tx[p].pc # "idle"}

SerialIsDerived ==
  serial =>
    /\ \A p, q \in OpenOnes : p = q
    /\ Derived
    /\ \A p \in Projectors : Prepared(ledger, wallets, tx[p])

CheckInv ==
  /\ IInv
  /\ inbox = ledger
  /\ IsFiniteSet(OpenOnes)
  /\ CheckIsRecord
  /\ CheckerIsBehind
  /\ SerialIsDerived

-----------------------------------------------------------------------------
(* Initially the invariant holds, and each step keeps it. *)

\* A row with entries is stored.
LEMMA BuiltIsStored ==
  ASSUME NEW entries, NEW row, BuiltFrom(entries, row)
  PROVE  row.status # "none"
BY DEF BuiltFrom, BuildMovement, TransferStatus

\* Initially the tables are empty.
LEMMA CheckInitInvariant == CheckInit => CheckInv
<1> SUFFICES ASSUME CheckInit PROVE CheckInv
  OBVIOUS
<1> USE DEF CheckInit
<1>1. IInv
  BY InitInvariant
<1>2. inbox = ledger /\ ledger = {}
  BY DEF Init
<1>3. OpenOnes = {}
  BY ClosedType DEF OpenOnes, Init
<1>4. CheckIsRecord /\ CheckerIsBehind
  BY DEF NoCheck, CheckIsRecord, CheckerIsBehind
<1>5. Derived
  BY DEF Derived, WalletIsDerived, MovementIsDerived, Init, EntriesOf
<1>6. \A p \in Projectors : Prepared(ledger, wallets, tx[p])
  BY ClosedType DEF Prepared, Init
<1> QED BY <1>1, <1>2, <1>3, <1>4, <1>5, <1>6, FS_EmptySet DEF CheckInv, SerialIsDerived

\* The checker only reads.
LEMMA CheckStep ==
  ASSUME CheckInv, Check
  PROVE  CheckInv'
<1>1. UNCHANGED <<projectionVars, serial>>
  BY DEF Check, ReadWallets, ReadLedger, ReadMovements, Report
<1>2. UNCHANGED <<inbox, wallets, transactions, ledger, movements, tx>>
  BY <1>1 DEF projectionVars
<1>3. IInv'
  BY <1>1, StepInvariant DEF CheckInv
<1>4. (inbox = ledger)' /\ IsFiniteSet(OpenOnes)' /\ SerialIsDerived'
  BY <1>1, <1>2 DEF CheckInv, OpenOnes, SerialIsDerived, Derived
<1>5. CheckIsRecord' /\ CheckerIsBehind'
  <2> USE DEF CheckInv, CheckIsRecord, CheckerIsBehind
  <2>1. CASE ReadWallets
    BY <1>2, <2>1 DEF ReadWallets
  <2>2. CASE ReadLedger
    BY <1>2, <2>2 DEF ReadLedger
  <2>3. CASE ReadMovements
    <3>1. /\ check'.pc = "report" /\ check'.ledger = check.ledger
          /\ check'.movements = movements /\ check'.wallets = check.wallets
          /\ check.ledger \subseteq ledger
          /\ CheckIsRecord'
      BY <2>3 DEF ReadMovements
    <3>2. ASSUME NEW m \in MovementIds, EntriesOf(check.ledger, m) # {}
          PROVE  movements[m].status # "none"
      <4>1. EntriesOf(ledger, m) # {}
        BY <3>1, <3>2 DEF EntriesOf
      <4>2. BuiltFrom(EntriesOf(ledger, m), movements[m])
        BY <4>1 DEF IInv, RowsAreBuilt
      <4> QED BY <4>2, BuiltIsStored
    <3> QED BY <1>2, <3>1, <3>2 DEF Stored
  <2>4. CASE Report
    BY <2>4 DEF Report, NoCheck
  <2> QED BY <2>1, <2>2, <2>3, <2>4 DEF Check
<1> QED BY <1>3, <1>4, <1>5 DEF CheckInv

\* One transaction at a time, the stored rows stay those that are derived.
LEMMA SerialStatement ==
  ASSUME CheckInv, serial, NEW p \in Projectors, Project(p), OneOpen'
  PROVE  SerialIsDerived'
<1>1. Ready(p) /\ inbox = ledger /\ Prepared(ledger, wallets, tx[p]) /\ DOMAIN tx = Projectors
  BY OpenIsReady DEF CheckInv, IInv, TypeOK, SerialIsDerived
<1>2. \A q \in Projectors \ {p} : tx'[q] = tx[q]
  BY <1>1, ProjectShape, CommitEffect DEF Proceeds, Proceed, CommitWrites
<1>3. \A q, s \in OpenOnes' : q = s
  <2>1. IsFiniteSet(OpenOnes')
    <3>1. OpenOnes' \subseteq OpenOnes \cup {p}
      BY <1>2 DEF OpenOnes
    <3>2. IsFiniteSet(OpenOnes \cup {p})
      BY FS_AddElement DEF CheckInv
    <3> QED BY <3>1, <3>2, FS_Subset
  <2>2. ~ (Cardinality(OpenOnes') > 1)
    <3>1. Cardinality(OpenOnes') <= 1
      BY DEF OneOpen, OpenOnes
    <3>2. Cardinality(OpenOnes') \in Nat
      BY <2>1, FS_CardinalityType
    <3> QED BY <3>1, <3>2
  <2> QED BY <2>1, <2>2, TwoMembers
<1>4. Derived'
  BY <1>1, WalletStaysDerived, MovementStaysDerived DEF CheckInv, SerialIsDerived, Derived
<1>5. ASSUME NEW q \in Projectors
      PROVE  Prepared(ledger', wallets', tx'[q])
  <2>1. CASE q = p
    <3>1. Statement(p) \/ Rollback(p) \/ \E e \in Events \ ledger : Begin(p, e)
      BY <1>1 DEF Project, Begin
    <3> QED BY <1>1, <2>1, <3>1, StaysPrepared
  <2>2. CASE q # p /\ tx[q].pc = "idle"
    <3>1. tx'[q].pc = "idle"
      BY <1>2, <2>2
    <3> QED BY <3>1 DEF Prepared
  <2>3. CASE q # p /\ tx[q].pc # "idle"
    <3>1. tx[p].pc = "idle"
      BY <2>3 DEF CheckInv, SerialIsDerived, OpenOnes
    <3>2. tx'[p].pc # "idle" => FALSE
      BY <1>2, <1>3, <2>3 DEF OpenOnes
    <3>3. UNCHANGED tables
      BY <1>1, <3>1, ProjectShape DEF Proceeds, Commit
    <3> QED BY <1>2, <2>3, <3>3 DEF CheckInv, SerialIsDerived, tables
  <2> QED BY <2>1, <2>2, <2>3
<1> QED BY <1>3, <1>4, <1>5 DEF SerialIsDerived

\* A projector's statement keeps the invariant, whatever the checker has read.
LEMMA ProjectionStep ==
  ASSUME CheckInv, Projection
  PROVE  CheckInv'
<1>1. PICK p \in Projectors : Project(p)
  BY DEF Projection, Next
<1>2. check' = check /\ (serial' = (serial /\ OneOpen'))
  BY DEF Projection
<1>3. IInv'
  BY StepInvariant DEF CheckInv, Projection
<1>4. Ready(p)
  BY OpenIsReady DEF CheckInv
<1>5. /\ ledger \subseteq ledger' /\ (inbox = ledger)'
      /\ \A q \in Projectors \ {p} : tx'[q] = tx[q]
  <2>1. DOMAIN tx = Projectors
    BY <1>4 DEF Ready, TypeOK
  <2>2. CASE Proceeds(p)
    <3>1. PICK r : tx' = [tx EXCEPT ![p] = r] /\ inbox' = inbox /\ ledger' = ledger
      BY <2>2 DEF Proceeds, Proceed, tables
    <3> QED BY <2>1, <3>1 DEF CheckInv
  <2>3. CASE Commit(p)
    <3>1. /\ tx' = [tx EXCEPT ![p] = Closed]
          /\ inbox' = inbox \cup {tx[p].event} /\ ledger' = ledger \cup {tx[p].event}
      BY <1>4, <2>3, CommitEffect DEF CommitWrites
    <3> QED BY <2>1, <3>1 DEF CheckInv
  <2> QED BY <1>1, <1>4, <2>2, <2>3, ProjectShape
<1>6. IsFiniteSet(OpenOnes')
  <2>1. OpenOnes' \subseteq OpenOnes \cup {p}
    BY <1>5 DEF OpenOnes
  <2>2. IsFiniteSet(OpenOnes \cup {p})
    BY FS_AddElement DEF CheckInv
  <2> QED BY <2>1, <2>2, FS_Subset
<1>7. CheckIsRecord' /\ CheckerIsBehind'
  BY <1>2, <1>5 DEF CheckInv, CheckIsRecord, CheckerIsBehind
<1>8. SerialIsDerived'
  <2>1. CASE serial'
    BY <1>1, <1>2, <2>1, SerialStatement
  <2>2. CASE ~ serial'
    BY <2>2 DEF SerialIsDerived
  <2> QED BY <2>1, <2>2
<1> QED BY <1>3, <1>5, <1>6, <1>7, <1>8 DEF CheckInv

\* So does every step.
LEMMA CheckStepInvariant == CheckInv /\ [CheckNext]_checkerVars => CheckInv'
<1> SUFFICES ASSUME CheckInv, [CheckNext]_checkerVars PROVE CheckInv'
  OBVIOUS
<1>1. CASE Check
  BY <1>1, CheckStep
<1>2. CASE Projection
  BY <1>2, ProjectionStep
<1>3. CASE UNCHANGED checkerVars
  <2>1. UNCHANGED projectionVars /\ check' = check /\ serial' = serial
    BY <1>3 DEF checkerVars
  <2>2. UNCHANGED <<inbox, wallets, transactions, ledger, movements, tx>>
    BY <2>1 DEF projectionVars
  <2>3. IInv'
    BY <2>1, StepInvariant DEF CheckInv
  <2> QED BY <2>1, <2>2, <2>3
          DEF CheckInv, OpenOnes, CheckIsRecord, CheckerIsBehind, SerialIsDerived,
              Derived
<1> QED BY <1>1, <1>2, <1>3 DEF CheckNext

\* However the checker's reads fall between the projectors' statements, the
\* invariant holds.
THEOREM CheckInvariance == CheckSpec => []CheckInv
BY CheckInitInvariant, CheckStepInvariant, PTL DEF CheckSpec
-----------------------------------------------------------------------------
(* What follows from it. *)

\* Whatever commits between its reads, the checker reports no entry whose
\* movement row is only missing from what it read.
THEOREM NoFalseAlarm == CheckSpec => []NoFalseMissingMovement
<1>1. CheckInv => NoFalseMissingMovement
  BY DEF CheckInv, CheckerIsBehind, NoFalseMissingMovement
<1> QED BY <1>1, CheckInvariance, PTL

\* Derived rows, as the checker's comparisons see them.
LEMMA DerivedFacts ==
  ASSUME ledger \in SUBSET Events, IsFiniteSet(ledger), Derived
  PROVE  /\ \A w \in Wallets : wallets[w].open =>
              wallets[w].balance = LedgerBalance(ledger, w)
         /\ \A m \in MovementIds :
              LET group == EntriesOf(ledger, m)
              IN  /\ group \in SUBSET Events /\ IsFiniteSet(group)
                  /\ m \in Stored(movements) <=> group # {}
                  /\ m \in Stored(movements) => movements[m] = BuildMovement(group)
<1>1. ASSUME NEW m \in MovementIds
      PROVE  LET group == EntriesOf(ledger, m)
             IN  /\ group \in SUBSET Events /\ IsFiniteSet(group)
                 /\ m \in Stored(movements) <=> group # {}
                 /\ m \in Stored(movements) => movements[m] = BuildMovement(group)
  <2> DEFINE group == EntriesOf(ledger, m)
  <2>1. group \in SUBSET ledger /\ IsFiniteSet(group)
    BY FS_Subset DEF EntriesOf
  <2>2. movements[m] = IF group = {} THEN NoRow ELSE BuildMovement(group)
    BY DEF Derived, MovementIsDerived
  <2> HIDE DEF group
  <2>3. BuildMovement(group).status # "none"
    BY DEF BuildMovement, TransferStatus
  <2>4. NoRow.status = "none"
    BY DEF NoRow
  <2>5. m \in Stored(movements) <=> group # {}
    BY <2>2, <2>3, <2>4 DEF Stored
  <2>6. /\ group \in SUBSET Events /\ IsFiniteSet(group)
        /\ m \in Stored(movements) <=> group # {}
        /\ m \in Stored(movements) => movements[m] = BuildMovement(group)
    BY <2>1, <2>2, <2>5
  <2> QED BY <2>6 DEF group
<1>2. \A w \in Wallets : wallets[w].open => wallets[w].balance = LedgerBalance(ledger, w)
  BY DEF Derived, WalletIsDerived, Balance, LedgerBalance
<1> QED BY <1>1, <1>2

\* Derived rows and movements match the ledger.
LEMMA DerivedRows ==
  ASSUME ledger \in SUBSET Events, IsFiniteSet(ledger), Derived
  PROVE  /\ WalletMismatches(wallets, ledger) = {}
         /\ MovementIssues(ledger, movements) = {}
<1>1. WalletMismatches(wallets, ledger) = {}
  BY DerivedFacts DEF WalletMismatches
<1>2. ASSUME NEW m \in MovementIssues(ledger, movements)
      PROVE  FALSE
  <2> DEFINE group == EntriesOf(ledger, m)
  <2>1. m \in MovementIds
    BY <1>2 DEF MovementIssues, Stored
  <2>2. /\ m \in Stored(movements) <=> group # {}
        /\ m \in Stored(movements) => movements[m] = BuildMovement(group)
    BY <2>1, DerivedFacts
  <2>3. \/ m \in Stored(movements)
           /\ \/ group = {}
              \/ movements[m].debit # Total(Debits(group))
              \/ movements[m].credit # Total(CreditEntries(group))
              \/ movements[m].count # Cardinality(group)
        \/ m \notin Stored(movements) /\ group # {}
    BY <1>2 DEF MovementIssues
  <2> HIDE DEF group
  <2> QED BY <2>2, <2>3 DEF BuildMovement
<1> QED BY <1>1, <1>2

\* As long as transactions came one at a time, rows are derived.
LEMMA SerialRows ==
  ASSUME CheckInv, serial
  PROVE  ledger \in SUBSET Events /\ IsFiniteSet(ledger) /\ Derived
BY DEF CheckInv, IInv, TypeOK, SerialIsDerived

\* The stored rows are those that the checker and a rebuild derive from the
\* entries, as long as transactions come one at a time.
THEOREM SerialDerivation == CheckSpec => []SerialMatchesLedger
<1>1. ASSUME CheckInv, serial
      PROVE  \A m \in Stored(movements) :
               movements[m] = BuildMovement(EntriesOf(ledger, m))
  <2> TAKE m \in Stored(movements)
  <2>1. m \in MovementIds
    BY DEF Stored
  <2> QED BY <1>1, <2>1, SerialRows, DerivedFacts
<1>2. CheckInv => SerialMatchesLedger
  BY <1>1, SerialRows, DerivedRows DEF SerialMatchesLedger, BalancesMatchLedger
<1> QED BY <1>2, CheckInvariance, PTL

\* A pair in the checker's sense has a debit, and a credit that mirrors it.
LEMMA PairMembers ==
  ASSUME NEW group, IsFiniteSet(group), IsPair(group)
  PROVE  \E d, e : /\ d # e /\ group = {d, e}
                   /\ Debits(group) = {d} /\ CreditEntries(group) = {e}
                   /\ d.counterparty = e.wallet /\ e.counterparty = d.wallet
<1>1. IsFiniteSet(Debits(group)) /\ Cardinality(Debits(group)) = 1
  BY FS_Subset DEF Debits, IsPair
<1>2. PICK d : Debits(group) = {d}
  BY <1>1, FS_Singleton
<1>3. d \in group /\ IsDebit(d)
  BY <1>2 DEF Debits
<1>4. IsFiniteSet(group \ {d}) /\ Cardinality(group \ {d}) = 1
  BY <1>3, FS_RemoveElement DEF IsPair
<1>5. PICK e : group \ {d} = {e}
  BY <1>4, FS_Singleton
<1>6. e \in group /\ d # e /\ group = {d, e}
  BY <1>3, <1>5
<1>7. CreditEntries(group) = {e}
  BY <1>2, <1>6 DEF CreditEntries, Debits
<1> QED BY <1>2, <1>3, <1>6, <1>7 DEF IsPair

\* The total of one entry is its amount.
LEMMA TotalOfOne ==
  ASSUME NEW e \in Events
  PROVE  Total({e}) = e.amount
<1>1. Total({} \cup {e}) = Total({}) + e.amount
  <2>1. IsFiniteSet({}) /\ {} \in SUBSET Events /\ e \notin {}
    BY FS_EmptySet
  <2> QED BY <2>1, TotalAfter, Zenon
<1>2. {} \cup {e} = {e}
  OBVIOUS
<1>3. Total({e}) = 0 + e.amount
  BY <1>1, <1>2, TotalOfNothing, Zenon
<1>4. 0 + e.amount = e.amount
  OBVIOUS
<1> QED BY <1>3, <1>4, Zenon

\* For the entries of one movement between two wallets, what the checker takes
\* for a pair is what the projector takes for a complete transfer.
LEMMA PairIsCompleted ==
  ASSUME NEW group \in SUBSET Events, IsFiniteSet(group),
         NEW m, \A e \in group : MovementOf(e) = m /\ IsTransfer(e)
  PROVE  IsPair(group) <=> TransferStatus(group) = "COMPLETED"
<1>1. ASSUME IsPair(group)
      PROVE  TransferStatus(group) = "COMPLETED"
  <2>1. PICK d, e : /\ d # e /\ group = {d, e}
                    /\ Debits(group) = {d} /\ CreditEntries(group) = {e}
                    /\ d.counterparty = e.wallet /\ e.counterparty = d.wallet
    BY <1>1, PairMembers
  <2>2. d \in Events /\ e \in Events /\ d.amount = e.amount /\ IsDebit(d) /\ ~ IsDebit(e)
    <3>1. d \in group /\ e \in group
      BY <2>1
    <3>2. \A x \in group : m = <<{x.wallet, x.counterparty}, x.stamp, x.amount>>
      <4> TAKE x \in group
      <4>1. IsTransfer(x) /\ MovementOf(x) = m
        OBVIOUS
      <4> QED BY <4>1 DEF MovementOf, IsTransfer
    <3>3. d \in Debits(group) /\ e \in CreditEntries(group)
      BY <2>1
    <3> QED BY <3>1, <3>2, <3>3 DEF Debits, CreditEntries
  <2>3. Total(Debits(group)) = Total(CreditEntries(group))
    BY <2>1, <2>2, TotalOfOne
  <2>4. Sources(group) = {d.wallet} /\ Destinations(group) = {e.wallet}
    <3>1. IsTransfer(d) /\ IsTransfer(e)
      BY <2>1
    <3>2. {x \in group : IsTransfer(x) \/ IsDebit(x)} = {d, e}
      BY <2>1, <3>1
    <3>3. {x \in group : IsTransfer(x) \/ ~ IsDebit(x)} = {d, e}
      BY <2>1, <3>1
    <3> QED BY <2>1, <2>2, <3>2, <3>3 DEF Sources, Destinations
  <2>5. ~ SidesDisagree(group)
    <3>1. Cardinality(Sources(group)) = 1 /\ Cardinality(Destinations(group)) = 1
      BY <2>4, FS_Singleton
    <3> QED BY <3>1 DEF SidesDisagree
  <2>6. Cardinality(Debits(group)) = 1 /\ Cardinality(CreditEntries(group)) = 1
    BY <2>1, FS_Singleton
  <2>7. Cardinality(group) = 2
    BY <1>1 DEF IsPair
  <2> QED BY <2>3, <2>5, <2>6, <2>7 DEF TransferStatus
<1>2. ASSUME TransferStatus(group) = "COMPLETED"
      PROVE  IsPair(group)
  <2>1. PICK d \in group, e \in group :
          /\ Debits(group) = {d} /\ CreditEntries(group) = {e}
          /\ d.wallet = e.counterparty /\ d.counterparty = e.wallet
    BY <1>2, CompletedIsPair
  <2>2. IsDebit(d) /\ ~ IsDebit(e) /\ group = {d, e}
    <3>1. d \in Debits(group) /\ e \in CreditEntries(group)
      BY <2>1
    <3>2. \A x \in group : x \in Debits(group) \/ x \in CreditEntries(group)
      BY DEF Debits, CreditEntries
    <3> QED BY <2>1, <3>1, <3>2 DEF Debits, CreditEntries
  <2>3. d # e
    BY <2>2
  <2>4. Cardinality(group) = 2
    <3>1. Cardinality({d} \cup {e}) = Cardinality({d}) + 1
      BY <2>3, FS_Singleton, FS_AddElement
    <3>2. {d} \cup {e} = group /\ Cardinality({d}) = 1
      BY <2>2, FS_Singleton
    <3>3. Cardinality(group) = 1 + 1
      BY <3>1, <3>2, Zenon
    <3> QED BY <3>3
  <2>5. Cardinality(Debits(group)) = 1
    BY <2>1, FS_Singleton
  <2>6. \A x, y \in group : x # y => x.counterparty = y.wallet
    BY <2>1, <2>2
  <2> QED BY <2>4, <2>5, <2>6 DEF IsPair
<1> QED BY <1>1, <1>2

\* A movement of one wallet has one entry, of that wallet's own, and is complete.
LEMMA LonelyIsCompleted ==
  ASSUME NEW group \in SUBSET Events, group # {},
         NEW m, \A e \in group : MovementOf(e) = m, m # NoMovement,
         Cardinality(m[1]) # 2
  PROVE  BuildMovement(group).status = "COMPLETED"
<1>1. PICK e : e \in group
  OBVIOUS
<1>2. ASSUME NEW d \in group PROVE ~ IsTransfer(d)
  <2>1. SUFFICES ASSUME IsTransfer(d) PROVE FALSE
    OBVIOUS
  <2>2. d.wallet # d.counterparty
    BY <2>1, TransfersAssumption DEF IsTransfer
  <2>3. m[1] = {d.wallet, d.counterparty}
    BY <2>1 DEF MovementOf, IsTransfer
  <2>4. IsFiniteSet({d.wallet}) /\ Cardinality({d.wallet}) = 1
    BY FS_Singleton
  <2>5. Cardinality({d.wallet} \cup {d.counterparty}) = Cardinality({d.wallet}) + 1
    BY <2>2, <2>4, FS_AddElement
  <2>6. {d.wallet} \cup {d.counterparty} = m[1]
    BY <2>3
  <2>7. Cardinality(m[1]) = Cardinality({d.wallet}) + 1
    BY <2>5, <2>6, Zenon
  <2> QED BY <2>4, <2>7
<1>3. \A d \in group : MovementOf(d) = <<{d.wallet}, d.id, d.amount>>
  BY <1>2 DEF MovementOf
<1>4. group = {e}
  <2>1. ASSUME NEW d \in group PROVE d = e
    <3>1. <<{d.wallet}, d.id, d.amount>> = <<{e.wallet}, e.id, e.amount>>
      BY <1>1, <1>3
    <3>2. d.id = e.id
      BY <3>1
    <3>3. d \in Events /\ e \in Events
      BY <1>1
    <3> QED BY <3>2, <3>3, Zenon
  <2> QED BY <1>1, <2>1
<1>5. ~ IsTransfer(e)
  BY <1>1, <1>2
<1>6. /\ Sources(group) = IF IsDebit(e) THEN {e.wallet} ELSE {}
      /\ Destinations(group) = IF IsDebit(e) THEN {} ELSE {e.wallet}
  BY <1>4, <1>5 DEF Sources, Destinations
<1>7. ~ SidesDisagree(group)
  <2>1. /\ Cardinality(Sources(group)) \in {0, 1}
        /\ Cardinality(Destinations(group)) \in {0, 1}
    <3>1. Cardinality({e.wallet}) = 1 /\ Cardinality({}) = 0
      BY FS_Singleton, FS_EmptySet
    <3> QED BY <1>6, <3>1
  <2> QED BY <2>1 DEF SidesDisagree
<1> QED BY <1>2, <1>7 DEF BuildMovement

\* And the transfers the checker reports are those whose row is not COMPLETED.
LEMMA DerivedFailures ==
  ASSUME ledger \in SUBSET Events, IsFiniteSet(ledger), Derived
  PROVE  TransferIssues(ledger, movements) =
           {m \in Stored(movements) : movements[m].status # "COMPLETED"}
<1> SUFFICES ASSUME NEW m \in Stored(movements)
             PROVE  m \in TransferIssues(ledger, movements)
                      <=> movements[m].status # "COMPLETED"
  BY DEF TransferIssues
<1> DEFINE group == EntriesOf(ledger, m)
<1>1. m \in MovementIds /\ m # NoMovement
  BY DEF Stored, MovementIds
<1>2. /\ group \in SUBSET Events /\ IsFiniteSet(group) /\ group # {}
      /\ movements[m] = BuildMovement(group)
  BY <1>1, DerivedFacts
<1>3. \A e \in group : MovementOf(e) = m
  BY DEF EntriesOf
<1>4. m \in TransferIssues(ledger, movements) <=>
        /\ Cardinality(m[1]) = 2
        /\ \/ ~IsPair(group)
           \/ movements[m].sources = {} \/ movements[m].destinations = {}
  BY <1>2 DEF TransferIssues
<1> HIDE DEF group
<1>5. CASE Cardinality(m[1]) # 2
  BY <1>1, <1>2, <1>3, <1>4, <1>5, LonelyIsCompleted
<1>6. CASE Cardinality(m[1]) = 2
  <2>1. \A e \in group : IsTransfer(e)
    BY <1>2, <1>3, <1>6, TwoWalletsIsTransfer
  <2>2. movements[m].status = TransferStatus(group)
    BY <1>2, <2>1 DEF BuildMovement
  <2>3. movements[m].sources # {} /\ movements[m].destinations # {}
    BY <1>2, <2>1 DEF BuildMovement, Sources, Destinations
  <2>4. IsPair(group) <=> TransferStatus(group) = "COMPLETED"
    BY <1>2, <1>3, <2>1, PairIsCompleted
  <2> QED BY <1>4, <1>6, <2>2, <2>3, <2>4
<1> QED BY <1>5, <1>6

\* What a checker reads that is alone with the tables.
CurrentTables ==
  [NoCheck EXCEPT !.wallets = wallets, !.ledger = ledger, !.movements = movements]
Incomplete == {m \in Stored(movements) : movements[m].status # "COMPLETED"}

\* On derived tables it reports the movements not shown as COMPLETED.
LEMMA DerivedReport ==
  ASSUME ledger \in SUBSET Events, IsFiniteSet(ledger), Derived
  PROVE  Failures(CurrentTables) = Incomplete
<1> DEFINE c == CurrentTables
<1>1. c.wallets = wallets /\ c.ledger = ledger /\ c.movements = movements
  BY DEF CurrentTables, NoCheck
<1> HIDE DEF c
<1>2. Failures(c) = Incomplete
  BY <1>1, DerivedRows, DerivedFailures DEF Failures, Incomplete
<1> QED BY <1>2 DEF c

\* Between serial transactions the checker fails for exactly the movements that
\* are not shown as COMPLETED.
THEOREM StatusAgreement == CheckSpec => []StatusMatchesChecker
<1>1. CheckInv => StatusMatchesChecker
  BY SerialRows, DerivedReport DEF StatusMatchesChecker, CurrentTables, Incomplete
<1> QED BY <1>1, CheckInvariance, PTL

\* To the projectors the checker is invisible: what they do with a checker
\* running is a behaviour of Projection.
THEOREM CheckerOnlyReads == CheckSpec => Spec
<1>1. CheckInit => Init
  BY DEF CheckInit
<1>2. [CheckNext]_checkerVars => [Next]_projectionVars
  BY DEF CheckNext, Check, ReadWallets, ReadLedger, ReadMovements, Report,
         Projection, checkerVars
<1> QED BY <1>1, <1>2, PTL DEF CheckSpec, Spec
-----------------------------------------------------------------------------
(* Replay: its inductive invariant. *)

ScopedEvents == {e \in Events : InScope(replay.scope, e.wallet)}

\* The records have these fields; what a replay has still to do is in scope.
ReplayIsRecord ==
  /\ replay = [pc |-> replay.pc, scope |-> replay.scope, todo |-> replay.todo]
  /\ replay.todo \subseteq ScopedEvents
  /\ replay.pc # "stream" => tx[Replayer].pc = "idle"

\* What is in the inbox has its entry.  A transaction was in order with the
\* entries there were when it read them, a scoped reset may delete some since;
\* every movement row names a wallet, or a reset would miss it.
RowsNameWallets ==
  \A m \in MovementIds :
    movements[m] = NoRow \/ movements[m].sources \cup movements[m].destinations # {}
TablesAgree ==
  /\ TypeOK
  /\ IsFiniteSet(ledger)
  /\ inbox \subseteq ledger
  /\ \A p \in Projectors : Open(Events, tx[p])
  /\ RowsNameWallets

\* The DELETEs of a scoped reset.  Whoever is about to write an entry that has
\* been deleted has not written it, and waits.
ResetIsRecord ==
  /\ replay.scope # Everything
  /\ reset.statement \in 1 .. 6
  /\ reset = [statement |-> reset.statement, found |-> reset.found,
              deleted |-> reset.deleted]
  /\ DOMAIN reset.deleted = Tables
Deleted == reset.deleted["ledger_entries"]
DeletedAreUnwritten ==
  /\ \A e \in Deleted : InScope(replay.scope, e.wallet)
  /\ \A p \in Projectors :
       tx[p].event \in Deleted => tx[p].pc \in {"idle", "find", "save"}

\* The inbox is the last to be cleared: of each entry deleted before, a row in
\* the inbox is found and deleted.
InboxFollows ==
  /\ reset.statement = 5 => Deleted \cap inbox \subseteq reset.found
  /\ reset.statement = 6 => Deleted \cap inbox \subseteq reset.deleted["processed_events"]

\* With no live transaction the DELETEs leave nothing in scope.
DeletesAlone ==
  alone =>
    /\ Quiet
    /\ \A i \in 1 .. 5 :
         /\ i < reset.statement =>
              reset.deleted[Deletes[i]] = Selected(Deletes[i], replay.scope)
         /\ i = reset.statement => reset.found = Selected(Deletes[i], replay.scope)

ResetInv ==
  replay.pc = "delete" =>
    ResetIsRecord /\ DeletedAreUnwritten /\ InboxFollows /\ DeletesAlone

\* What the replay has passed is in the inbox, whoever projected it.
PassedIsProjected ==
  /\ replay.pc = "stream" => ScopedEvents \ replay.todo \subseteq inbox
  /\ replay.pc \in {"mark", "done"} => ScopedEvents \subseteq inbox

\* Once a full reset is through, no row of an older projection is left.
VersionIsFounded ==
  /\ outdated \subseteq ledger
  /\ version \in {"none", "current"} => outdated \subseteq unrecorded
  /\ replay.pc \in {"stream", "mark", "done"} /\ replay.scope = Everything =>
       outdated = {}

\* The balance after an event counts the entries up to the event's version.
HistoryIsDerived(entries, rows, w) ==
  \A e \in entries : e.wallet = w =>
    rows[TransactionKey(e)].balanceAfter =
      Balance({d \in entries : d.version <= e.version}, w)

\* Since the reset, rows in scope are those derived from the entries; each
\* wallet's events are projected in the order of their versions.
RebuiltAlone ==
  alone /\ replay.pc \in {"stream", "mark", "done"} =>
    /\ \A w \in Wallets : InScope(replay.scope, w) =>
         /\ WalletIsDerived(ledger, wallets, w)
         /\ HistoryIsDerived(ledger, transactions, w)
    /\ replay.scope = Everything =>
         \A m \in MovementIds : MovementIsDerived(ledger, movements, m)
    /\ \A e \in ledger : InScope(replay.scope, e.wallet) => e \in inbox
StreamedAlone ==
  alone /\ replay.pc = "stream" =>
    /\ Prepared(ledger, wallets, tx[Replayer])
    /\ tx[Replayer].pc # "idle" => IsNext(tx[Replayer].event)
    /\ \A d \in ledger, e \in replay.todo : d.wallet = e.wallet => d.version <= e.version

ReplayInv ==
  /\ ReplayIsRecord
  /\ TablesAgree
  /\ ResetInv
  /\ PassedIsProjected
  /\ VersionIsFounded
  /\ RebuiltAlone
  /\ StreamedAlone

USE ReplayAssumption
-----------------------------------------------------------------------------
(* The tables, under whichever projector's statement and under a reset. *)

\* A balance counts a wallet's own entries only.
LEMMA OwnEntriesCount ==
  ASSUME NEW A, NEW B, NEW w,
         {e \in A : e.wallet = w} = {e \in B : e.wallet = w}
  PROVE  Balance(A, w) = Balance(B, w)
BY DEF Balance

\* A row built from entries names a wallet.
LEMMA BuiltNamesWallets ==
  ASSUME NEW entries, NEW row, BuiltFrom(entries, row)
  PROVE  row.sources \cup row.destinations # {}
<1>1. PICK seen \in SUBSET entries : seen # {} /\ row = BuildMovement(seen)
  BY DEF BuiltFrom
<1>2. PICK e : e \in seen
  BY <1>1
<1>3. Sources(seen) \cup Destinations(seen) # {}
  <2>1. CASE IsDebit(e)
    <3>1. e.wallet \in Sources(seen)
      BY <1>2, <2>1 DEF Sources
    <3> QED BY <3>1
  <2>2. CASE ~ IsDebit(e)
    <3>1. e.wallet \in Destinations(seen)
      BY <1>2, <2>2 DEF Destinations
    <3> QED BY <3>1
  <2> QED BY <2>1, <2>2
<1> QED BY <1>1, <1>3 DEF BuildMovement

\* A projector's statement only adds to inbox and ledger.
LEMMA ProjectTables ==
  ASSUME TablesAgree, NEW p \in Projectors, Project(p)
  PROVE  TablesAgree' /\ ledger \subseteq ledger' /\ inbox \subseteq inbox'
<1>1. Ready(p) /\ ledger \subseteq Events
  BY DEF TablesAgree, Ready, TypeOK
<1>2. \A q \in Projectors : Open(Events, tx'[q])
  BY <1>1, OpenAfter DEF TablesAgree
<1>3. CASE Proceeds(p)
  <2>1. UNCHANGED <<inbox, wallets, transactions, ledger, movements>>
    BY <1>3 DEF Proceeds, tables
  <2>2. TypeOK'
    BY <1>3, ProceedsType DEF TablesAgree
  <2> QED BY <1>2, <2>1, <2>2 DEF TablesAgree, RowsNameWallets
<1>4. CASE Commit(p)
  <2> DEFINE e == tx[p].event
             m == MovementOf(e)
  <2>1. /\ CommitWrites(p, e, m) /\ tx[p].pc = "commit" /\ DOMAIN movements = MovementIds
        /\ Open(Events, tx[p])
    BY <1>1, <1>4, CommitEffect DEF TablesAgree, TypeOK
  <2>2. TypeOK' /\ IsFiniteSet(ledger')
    BY <1>1, <1>4, CommitType
  <2>3. (inbox \subseteq ledger)' /\ ledger \subseteq ledger' /\ inbox \subseteq inbox'
    BY <2>1 DEF CommitWrites, TablesAgree
  <2>4. ASSUME NEW n \in MovementIds
        PROVE  movements'[n] = NoRow \/ movements'[n].sources \cup movements'[n].destinations # {}
    <3>1. CASE m = NoMovement \/ n # m
      <4>1. movements'[n] = movements[n]
        BY <2>1, <3>1 DEF CommitWrites
      <4> QED BY <4>1 DEF TablesAgree, RowsNameWallets
    <3>2. CASE m # NoMovement /\ n = m
      <4>1. movements'[n] = tx[p].row
        BY <2>1, <3>2 DEF CommitWrites
      <4>2. BuiltFrom(EntriesOf(Events, m) \cup {e}, tx[p].row)
        BY <2>1, <3>2 DEF Open
      <4> QED BY <4>1, <4>2, BuiltNamesWallets
    <3> QED BY <3>1, <3>2
  <2> QED BY <1>2, <2>2, <2>3, <2>4 DEF TablesAgree, RowsNameWallets
<1> QED BY <1>1, <1>3, <1>4, ProjectShape

\* What the COMMIT of a reset keeps: no inbox row loses its entry.
LEMMA ResetTables ==
  ASSUME TablesAgree, NEW rows, Delete(rows),
         rows["ledger_entries"] \cap inbox \subseteq rows["processed_events"]
  PROVE  TablesAgree'
<1>1. /\ inbox' = inbox \ rows["processed_events"]
      /\ ledger' = ledger \ rows["ledger_entries"]
      /\ wallets' = [w \in Wallets |-> IF w \in rows["wallets"]
                       THEN [open |-> FALSE, balance |-> 0] ELSE wallets[w]]
      /\ transactions' = [k \in TransactionKeys |-> IF k \in rows["transactions"]
                            THEN [event |-> NoEvent, balanceAfter |-> 0]
                            ELSE transactions[k]]
      /\ movements' = [m \in MovementIds |->
                         IF m \in rows["ledger_movements"] THEN NoRow ELSE movements[m]]
      /\ tx' = tx
  BY DEF Delete
<1>2. TypeOK /\ IsFiniteSet(ledger) /\ inbox \subseteq ledger /\ RowsNameWallets
  BY DEF TablesAgree
<1>3. TypeOK'
  <2>1. wallets' \in [Wallets -> [open : BOOLEAN, balance : Int]]
    BY <1>1, <1>2 DEF TypeOK
  <2>2. transactions' \in [TransactionKeys -> [event : Events \cup {NoEvent}, balanceAfter : Int]]
    BY <1>1, <1>2 DEF TypeOK
  <2>3. movements' \in [MovementIds -> Rows]
    BY <1>1, <1>2, NoRowType DEF TypeOK
  <2> QED BY <1>1, <1>2, <2>1, <2>2, <2>3 DEF TypeOK
<1>4. IsFiniteSet(ledger') /\ (inbox \subseteq ledger)'
  BY <1>1, <1>2, FS_Subset
<1>5. \A p \in Projectors : Open(Events, tx'[p])
  BY <1>1 DEF TablesAgree
<1>6. RowsNameWallets'
  BY <1>1, <1>2 DEF RowsNameWallets
<1> QED BY <1>3, <1>4, <1>5, <1>6 DEF TablesAgree

\* The five tables, in the order of the DELETEs.
LEMMA DeletesAre ==
  /\ Deletes[1] = "ledger_entries" /\ Deletes[2] = "ledger_movements"
  /\ Deletes[3] = "transactions" /\ Deletes[4] = "wallets"
  /\ Deletes[5] = "processed_events"
  /\ DOMAIN Deletes = 1 .. 5 /\ \A i \in 1 .. 5 : Deletes[i] \in Tables
  /\ Tables = {"ledger_entries", "ledger_movements", "transactions", "wallets",
               "processed_events"}
BY DEF Deletes, Tables

\* What each of them deletes.
LEMMA SelectedRows ==
  ASSUME NEW scope
  PROVE  /\ Selected("ledger_entries", scope) = {e \in ledger : InScope(scope, e.wallet)}
         /\ Selected("ledger_movements", scope) =
              {m \in MovementIds : Cleared(scope, movements[m])}
         /\ Selected("wallets", scope) =
              {w \in Wallets : wallets[w].open /\ InScope(scope, w)}
         /\ Selected("processed_events", scope) = {e \in inbox : InScope(scope, e.wallet)}
BY DEF Selected, InboxRows
-----------------------------------------------------------------------------
(* The replay alone. *)

\* Events projected in the order of their versions leave the history derived.
LEMMA HistoryStaysDerived ==
  ASSUME NEW p \in Projectors, Ready(p), Project(p), Prepared(ledger, wallets, tx[p]),
         tx[p].pc # "idle" =>
           \A d \in ledger : d.wallet = tx[p].event.wallet => d.version <= tx[p].event.version,
         NEW w \in Wallets, WalletIsDerived(ledger, wallets, w),
         HistoryIsDerived(ledger, transactions, w)
  PROVE  HistoryIsDerived(ledger', transactions', w)
<1>1. CASE Proceeds(p)
  BY <1>1 DEF Proceeds, tables
<1>2. CASE Commit(p)
  <2> DEFINE e == tx[p].event
             upto(entries, v) == {d \in entries : d.version <= v}
  <2>1. /\ CommitWrites(p, e, MovementOf(e)) /\ e \in Events /\ tx[p].pc = "commit"
        /\ ledger \in SUBSET Events /\ IsFiniteSet(ledger)
        /\ DOMAIN transactions = TransactionKeys
    BY <1>2, CommitEffect DEF Ready, TypeOK
  <2>2. /\ ledger' = ledger \cup {e}
        /\ transactions' = [transactions EXCEPT ![TransactionKey(e)] =
                              [event |-> e, balanceAfter |-> tx[p].balance]]
        /\ \A d \in ledger : d.wallet = e.wallet => d.version <= e.version
    BY <2>1 DEF CommitWrites
  <2>3. w = e.wallet => tx[p].balance = Balance(ledger \cup {e}, e.wallet)
    <3>1. SUFFICES ASSUME w = e.wallet
                   PROVE  tx[p].balance = Balance(ledger \cup {e}, e.wallet)
      OBVIOUS
    <3>2. WalletIsDerived(ledger, wallets, e.wallet)
      BY <3>1
    <3> QED BY <2>1, <3>2, PreparedBalance
  <2> HIDE DEF e
  <2>4. ASSUME NEW d \in ledger', d.wallet = w
        PROVE  transactions'[TransactionKey(d)].balanceAfter = Balance(upto(ledger', d.version), w)
    <3>1. d \in Events /\ TransactionKey(d) \in TransactionKeys /\ e.version \in Nat /\ d.version \in Nat
      BY <2>1, <2>2 DEF TransactionKeys
    <3>2. CASE e.wallet = w /\ e.version = d.version
      <4>1. transactions'[TransactionKey(d)].balanceAfter = tx[p].balance
        <5>1. TransactionKey(d) = TransactionKey(e)
          BY <2>4, <3>2 DEF TransactionKey
        <5> QED BY <2>1, <2>2, <3>1, <5>1
      <4>2. \A x \in ledger \cup {e} : x.wallet = w => x.version <= d.version
        BY <2>2, <3>1, <3>2
      <4>3. Balance(upto(ledger', d.version), w) = Balance(ledger \cup {e}, w)
        <5>1. {x \in upto(ledger', d.version) : x.wallet = w} = {x \in ledger \cup {e} : x.wallet = w}
          BY <2>2, <4>2
        <5> QED BY <5>1, OwnEntriesCount
      <4> QED BY <2>3, <3>2, <4>1, <4>3
    <3>3. CASE ~ (e.wallet = w /\ e.version = d.version)
      <4>1. TransactionKey(d) # TransactionKey(e) /\ d # e
        BY <2>4, <3>3 DEF TransactionKey
      <4>2. d \in ledger /\ transactions'[TransactionKey(d)] = transactions[TransactionKey(d)]
        BY <2>1, <2>2, <3>1, <4>1
      <4>3. ~ (e.wallet = w /\ e.version <= d.version)
        BY <2>2, <2>4, <3>1, <3>3, <4>2
      <4>4. Balance(upto(ledger', d.version), w) = Balance(upto(ledger, d.version), w)
        <5>1. {x \in upto(ledger', d.version) : x.wallet = w}
                = {x \in upto(ledger, d.version) : x.wallet = w}
          BY <2>2, <4>3
        <5> QED BY <5>1, OwnEntriesCount
      <4> QED BY <2>4, <4>2, <4>4 DEF HistoryIsDerived
    <3> QED BY <3>2, <3>3
  <2> QED BY <2>4 DEF HistoryIsDerived
<1> QED BY <1>1, <1>2, ProjectShape

\* A statement of the replay, alone since the reset, leaves what it has rebuilt
\* derived from the entries.
LEMMA AloneStatement ==
  ASSUME ReplayInv, alone, replay.pc = "stream",
         Statement(Replayer) \/ \E e \in ScopedEvents \ inbox : Begin(Replayer, e)
  PROVE  /\ \A w \in Wallets : InScope(replay.scope, w) =>
              /\ WalletIsDerived(ledger', wallets', w)
              /\ HistoryIsDerived(ledger', transactions', w)
         /\ replay.scope = Everything =>
              \A m \in MovementIds : MovementIsDerived(ledger', movements', m)
         /\ \A e \in ledger' : InScope(replay.scope, e.wallet) => e \in inbox'
         /\ Prepared(ledger', wallets', tx'[Replayer])
<1>1. /\ Ready(Replayer) /\ Project(Replayer)
      /\ Prepared(ledger, wallets, tx[Replayer])
      /\ \A e \in ledger : InScope(replay.scope, e.wallet) => e \in inbox
  BY DEF ReplayInv, TablesAgree, Ready, StreamedAlone, RebuiltAlone, Project, ScopedEvents
<1>2. tx[Replayer].pc # "idle" =>
        \A d \in ledger : d.wallet = tx[Replayer].event.wallet =>
                            d.version <= tx[Replayer].event.version
  BY DEF ReplayInv, StreamedAlone, IsNext
<1>3. ASSUME NEW w \in Wallets, InScope(replay.scope, w)
      PROVE  /\ WalletIsDerived(ledger', wallets', w)
             /\ HistoryIsDerived(ledger', transactions', w)
  <2>1. WalletIsDerived(ledger, wallets, w) /\ HistoryIsDerived(ledger, transactions, w)
    BY <1>3 DEF ReplayInv, RebuiltAlone
  <2> QED BY <1>1, <1>2, <2>1, WalletStaysDerived, HistoryStaysDerived
<1>4. ASSUME NEW m \in MovementIds, replay.scope = Everything
      PROVE  MovementIsDerived(ledger', movements', m)
  <2>1. MovementIsDerived(ledger, movements, m)
    BY <1>4 DEF ReplayInv, RebuiltAlone
  <2> QED BY <1>1, <2>1, MovementStaysDerived
<1>5. Prepared(ledger', wallets', tx'[Replayer])
  <2>1. Statement(Replayer) \/ \E e \in Events \ ledger : Begin(Replayer, e)
    BY <1>1 DEF ScopedEvents
  <2> QED BY <1>1, <2>1, StaysPrepared
<1>6. \A e \in ledger' : InScope(replay.scope, e.wallet) => e \in inbox'
  BY <1>1, ProjectShape, CommitEffect DEF Proceeds, tables, CommitWrites
<1> QED BY <1>3, <1>4, <1>5, <1>6
-----------------------------------------------------------------------------
(* Initially the invariant holds, and each step keeps it. *)

\* The rows of wallets that were only opened are rows of the tables.
LEMMA OpenedTables ==
  ASSUME NEW rows \in SUBSET Events, IsFiniteSet(rows), OpenedBy(rows),
         tx = [p \in Projectors |-> Closed]
  PROVE  TablesAgree
<1>1. /\ inbox = rows /\ ledger = rows
      /\ wallets = [w \in Wallets |->
           [open    |-> \E e \in rows : e.wallet = w,
            balance |-> Total({e \in rows : e.wallet = w})]]
      /\ movements = [m \in MovementIds |->
           IF EntriesOf(rows, m) = {} THEN NoRow ELSE BuildMovement(EntriesOf(rows, m))]
  BY DEF OpenedBy
<1>2. wallets \in [Wallets -> [open : BOOLEAN, balance : Int]]
  <2>1. ASSUME NEW w \in Wallets
        PROVE  Total({e \in rows : e.wallet = w}) \in Int
    <3>1. {e \in rows : e.wallet = w} \in SUBSET rows
      OBVIOUS
    <3>2. Total({e \in rows : e.wallet = w}) \in Nat
      BY <3>1, TotalGrows
    <3> QED BY <3>2
  <2> QED BY <1>1, <2>1
<1>3. transactions \in [TransactionKeys -> [event : Events \cup {NoEvent}, balanceAfter : Int]]
  <2> DEFINE row(k) == IF \E e \in rows : TransactionKey(e) = k
                       THEN LET e == CHOOSE e \in rows : TransactionKey(e) = k
                            IN  [event |-> e, balanceAfter |-> e.amount]
                       ELSE [event |-> NoEvent, balanceAfter |-> 0]
  <2>1. transactions = [k \in TransactionKeys |-> row(k)]
    BY DEF OpenedBy
  <2>2. ASSUME NEW k
        PROVE  row(k) \in [event : Events \cup {NoEvent}, balanceAfter : Int]
    <3>1. CASE \E e \in rows : TransactionKey(e) = k
      <4> DEFINE e == CHOOSE e \in rows : TransactionKey(e) = k
      <4>1. e \in Events /\ row(k) = [event |-> e, balanceAfter |-> e.amount]
        BY <3>1
      <4>2. e.amount \in Int
        BY <4>1
      <4> QED BY <4>1, <4>2
    <3>2. CASE ~ \E e \in rows : TransactionKey(e) = k
      BY <3>2
    <3> QED BY <3>1, <3>2
  <2> HIDE DEF row
  <2> QED BY <2>1, <2>2
<1>4. ASSUME NEW m \in MovementIds
      PROVE  /\ movements[m] \in Rows
             /\ \/ movements[m] = NoRow
                \/ movements[m].sources \cup movements[m].destinations # {}
  <2> DEFINE group == EntriesOf(rows, m)
  <2>1. group \in SUBSET Events /\ IsFiniteSet(group)
    BY FS_Subset DEF EntriesOf
  <2>2. movements[m] = IF group = {} THEN NoRow ELSE BuildMovement(group)
    BY <1>1
  <2> HIDE DEF group
  <2>3. group # {} => BuiltFrom(group, BuildMovement(group))
    BY DEF BuiltFrom
  <2> QED BY <2>1, <2>2, <2>3, BuildMovementType, NoRowType, BuiltNamesWallets
<1>5. movements \in [MovementIds -> Rows]
  BY <1>1, <1>4
<1>6. TypeOK
  BY <1>1, <1>2, <1>3, <1>5, ClosedType DEF TypeOK
<1>7. \A p \in Projectors : Open(Events, tx[p])
  BY IdleIsOpen
<1> QED BY <1>1, <1>4, <1>6, <1>7 DEF TablesAgree, RowsNameWallets

\* Whether the tables start empty or opened by an older build.
LEMMA ReplayInitInvariant == ReplayInit => ReplayInv
<1> SUFFICES ASSUME ReplayInit PROVE ReplayInv
  OBVIOUS
<1>1. PICK rows \in {{}, Legacy} : OpenedBy(rows) /\ outdated = rows /\ unrecorded = rows
  BY DEF ReplayInit
<1>2. TablesAgree
  <2>1. rows \in SUBSET Events /\ IsFiniteSet(rows)
    BY FS_EmptySet
  <2>2. tx = [p \in Projectors |-> Closed]
    BY DEF ReplayInit
  <2> QED BY <1>1, <2>1, <2>2, OpenedTables
<1>3. replay.pc = "idle" /\ replay.todo = {} /\ ReplayIsRecord
  BY ClosedType DEF ReplayInit, NoReplay, ReplayIsRecord
<1>4. VersionIsFounded
  BY <1>1, <1>3 DEF VersionIsFounded, OpenedBy
<1> QED BY <1>2, <1>3, <1>4
        DEF ReplayInv, ResetInv, PassedIsProjected, RebuiltAlone, StreamedAlone

\* Steps outside a run, and the end of one, leave nothing to be kept.
LEMMA OutsideRun ==
  ASSUME TablesAgree', VersionIsFounded', ReplayIsRecord',
         replay'.pc \in {"idle", "reset"}
  PROVE  ReplayInv'
BY DEF ReplayInv, ResetInv, PassedIsProjected, RebuiltAlone, StreamedAlone

\* So do steps that write no table: the record of the version, and a start.
LEMMA VersionSteps ==
  ASSUME ReplayInv, CheckStartup \/ Upgrade
  PROVE  ReplayInv'
<1>1. /\ UNCHANGED <<inbox, wallets, transactions, ledger, movements, tx, replay>>
      /\ replay.pc = "idle"
  BY DEF CheckStartup, Upgrade, projectionVars, run
<1>2. TablesAgree' /\ ReplayIsRecord'
  BY <1>1 DEF ReplayInv, TablesAgree, TypeOK, RowsNameWallets, ReplayIsRecord, ScopedEvents
<1>3. VersionIsFounded'
  BY <1>1 DEF ReplayInv, VersionIsFounded, CheckStartup, Upgrade, history
<1> QED BY <1>1, <1>2, <1>3, OutsideRun

\* A replay starts with the reset of its scope ahead of it.
LEMMA StartStep ==
  ASSUME ReplayInv, NEW scope \in Scopes, Start(scope)
  PROVE  ReplayInv'
<1>1. /\ UNCHANGED <<inbox, wallets, transactions, ledger, movements, tx>>
      /\ UNCHANGED <<version, outdated, unrecorded, alone>>
      /\ replay.pc = "idle" /\ replay' = [pc |-> "reset", scope |-> scope, todo |-> {}]
  BY DEF Start, projectionVars, history, NoReplay
<1>2. TablesAgree'
  BY <1>1 DEF ReplayInv, TablesAgree, TypeOK, RowsNameWallets
<1>3. ReplayIsRecord'
  BY <1>1 DEF ReplayInv, ReplayIsRecord
<1>4. VersionIsFounded'
  BY <1>1 DEF ReplayInv, VersionIsFounded
<1> QED BY <1>1, <1>2, <1>3, <1>4, OutsideRun

\* The COMMIT of a reset starts the stream.  If no live transaction was open, no
\* row is left in scope, so there is nothing underived in it.
LEMMA ResetEnds ==
  ASSUME ReplayInv, NEW rows, Delete(rows),
         rows["ledger_entries"] \cap inbox \subseteq rows["processed_events"],
         replay.scope = Everything => ledger \subseteq rows["ledger_entries"],
         alone' => Quiet /\ \A table \in Tables : rows[table] = Selected(table, replay.scope)
  PROVE  ReplayInv'
<1> DEFINE scope == replay.scope
<1>1. TablesAgree'
  BY ResetTables DEF ReplayInv
<1>2. /\ ledger' = ledger \ rows["ledger_entries"]
      /\ outdated' = outdated \ rows["ledger_entries"]
      /\ unrecorded' = unrecorded \ rows["ledger_entries"]
      /\ wallets' = [w \in Wallets |-> IF w \in rows["wallets"]
                       THEN [open |-> FALSE, balance |-> 0] ELSE wallets[w]]
      /\ movements' = [m \in MovementIds |->
                         IF m \in rows["ledger_movements"] THEN NoRow ELSE movements[m]]
      /\ replay' = [replay EXCEPT !.pc = "stream",
                      !.todo = {e \in Events : InScope(replay.scope, e.wallet)}]
      /\ version' = version /\ tx' = tx
  BY DEF Delete
<1>3. replay' = [pc |-> "stream", scope |-> scope,
                 todo |-> {e \in Events : InScope(scope, e.wallet)}]
  BY <1>2 DEF ReplayInv, ReplayIsRecord
<1>4. replay'.pc = "stream" /\ replay'.scope = scope /\ replay'.todo = ScopedEvents'
  BY <1>3 DEF ScopedEvents
<1>5. ReplayIsRecord' /\ PassedIsProjected' /\ ResetInv'
  BY <1>3, <1>4 DEF ReplayIsRecord, PassedIsProjected, ResetInv
<1>6. VersionIsFounded'
  BY <1>2, <1>4 DEF ReplayInv, VersionIsFounded
<1>7. ASSUME alone'
      PROVE  /\ ledger' = {e \in ledger : ~InScope(scope, e.wallet)}
             /\ \A w \in Wallets : InScope(scope, w) => ~wallets'[w].open
             /\ scope = Everything => \A m \in MovementIds : movements'[m] = NoRow
             /\ tx'[Replayer].pc = "idle"
  <2>1. /\ rows["ledger_entries"] = {e \in ledger : InScope(scope, e.wallet)}
        /\ rows["ledger_movements"] = {m \in MovementIds : Cleared(scope, movements[m])}
        /\ rows["wallets"] = {w \in Wallets : wallets[w].open /\ InScope(scope, w)}
    BY <1>7, DeletesAre, SelectedRows
  <2>2. ASSUME NEW m \in MovementIds, scope = Everything
        PROVE  movements'[m] = NoRow
    <3>1. Cleared(scope, movements[m]) \/ movements[m] = NoRow
      BY <2>2 DEF Cleared, InScope, ReplayInv, TablesAgree, RowsNameWallets
    <3> QED BY <1>2, <2>1, <3>1
  <2>3. ASSUME NEW w \in Wallets, InScope(scope, w)
        PROVE  ~wallets'[w].open
    <3>1. w \in rows["wallets"] \/ ~wallets[w].open
      BY <2>1, <2>3
    <3> QED BY <1>2, <3>1
  <2>4. tx'[Replayer].pc = "idle"
    BY <1>2, <1>7 DEF Quiet
  <2> QED BY <1>2, <2>1, <2>2, <2>3, <2>4
<1> HIDE DEF scope
<1>8. RebuiltAlone'
  <2> SUFFICES ASSUME alone' PROVE RebuiltAlone'
    BY DEF RebuiltAlone
  <2>1. ASSUME NEW w \in Wallets, InScope(scope, w)
        PROVE  /\ WalletIsDerived(ledger', wallets', w)
               /\ HistoryIsDerived(ledger', transactions', w)
    <3>1. ~wallets'[w].open /\ \A e \in ledger' : e.wallet # w
      BY <1>7, <2>1
    <3> QED BY <3>1 DEF WalletIsDerived, HistoryIsDerived
  <2>2. ASSUME scope = Everything, NEW m \in MovementIds
        PROVE  MovementIsDerived(ledger', movements', m)
    <3>1. EntriesOf(ledger', m) = {} /\ movements'[m] = NoRow
      BY <1>7, <2>2 DEF EntriesOf, InScope
    <3> QED BY <3>1 DEF MovementIsDerived
  <2>3. \A e \in ledger' : ~InScope(scope, e.wallet)
    BY <1>7
  <2> QED BY <1>4, <2>1, <2>2, <2>3 DEF RebuiltAlone
<1>9. StreamedAlone'
  <2> SUFFICES ASSUME alone' PROVE StreamedAlone'
    BY DEF StreamedAlone
  <2>1. Prepared(ledger', wallets', tx'[Replayer]) /\ tx'[Replayer].pc = "idle"
    BY <1>7 DEF Prepared
  <2>2. ASSUME NEW d \in ledger', NEW e \in replay'.todo
        PROVE  d.wallet # e.wallet
    BY <1>3, <1>7, <2>2
  <2> QED BY <2>1, <2>2 DEF StreamedAlone
<1> QED BY <1>1, <1>5, <1>6, <1>8, <1>9 DEF ReplayInv

\* A full reset truncates the tables.
LEMMA TruncateStep ==
  ASSUME ReplayInv, Truncate
  PROVE  ReplayInv'
<1> DEFINE rows == [table \in Tables |-> Selected(table, Everything)]
<1>1. replay.scope = Everything /\ Quiet /\ Delete(rows)
  BY DEF Truncate
<1>2. \A table \in Tables : rows[table] = Selected(table, Everything)
  OBVIOUS
<1> HIDE DEF rows
<1>3. rows["ledger_entries"] = ledger /\ rows["processed_events"] = inbox
  <2>1. /\ rows["ledger_entries"] = {e \in ledger : InScope(Everything, e.wallet)}
        /\ rows["processed_events"] = {e \in inbox : InScope(Everything, e.wallet)}
    BY <1>2, DeletesAre, SelectedRows
  <2> QED BY <2>1 DEF InScope
<1>4. rows["ledger_entries"] \cap inbox \subseteq rows["processed_events"]
  BY <1>3
<1>5. /\ replay.scope = Everything => ledger \subseteq rows["ledger_entries"]
      /\ \A table \in Tables : rows[table] = Selected(table, replay.scope)
  BY <1>1, <1>2, <1>3
<1> QED BY <1>1, <1>4, <1>5, ResetEnds

\* What is selected depends on the tables only.
LEMMA SelectedStays ==
  ASSUME UNCHANGED projectionVars, replay'.scope = replay.scope
  PROVE  \A i \in 1 .. 5 :
           Selected(Deletes[i], replay.scope)' = Selected(Deletes[i], replay.scope)
BY DEF projectionVars, Selected, InboxRows, Cleared, Deletes

\* The first DELETE begins with nothing deleted.
LEMMA DeleteBeginsStep ==
  ASSUME ReplayInv, DeleteBegins
  PROVE  ReplayInv'
<1>1. /\ UNCHANGED <<inbox, wallets, transactions, ledger, movements, tx>>
      /\ UNCHANGED <<version, outdated, unrecorded>> /\ UNCHANGED projectionVars
      /\ replay.pc = "reset" /\ replay.scope # Everything /\ alone' = Quiet
  BY DEF DeleteBegins, projectionVars
<1>2. replay' = [pc |-> "delete", scope |-> replay.scope, todo |-> replay.todo]
  BY DEF DeleteBegins, ReplayInv, ReplayIsRecord
<1>3. /\ replay'.pc = "delete" /\ replay'.scope = replay.scope
      /\ replay'.todo = replay.todo /\ ScopedEvents' = ScopedEvents
  BY <1>2 DEF ScopedEvents
<1>4. TablesAgree' /\ ReplayIsRecord' /\ VersionIsFounded'
  BY <1>1, <1>2, <1>3 DEF ReplayInv, TablesAgree, TypeOK, RowsNameWallets, ReplayIsRecord,
                          VersionIsFounded
<1>5. reset' = [statement |-> 1, found |-> Selected(Deletes[1], replay.scope),
                deleted |-> [table \in Tables |-> {}]]
  <2>1. Found(1) = Selected(Deletes[1], replay.scope)
    BY DEF Found, Deletes
  <2>2. reset' = [NoReset EXCEPT !.statement = 1, !.found = Found(1)]
    BY DEF DeleteBegins
  <2> QED BY <2>1, <2>2 DEF NoReset
<1>6. ResetIsRecord'
  BY <1>1, <1>3, <1>5 DEF ResetIsRecord
<1>7. Deleted' = {}
  BY <1>5, DeletesAre DEF Deleted
<1>8. DeletedAreUnwritten' /\ InboxFollows'
  BY <1>5, <1>7 DEF DeletedAreUnwritten, InboxFollows
<1>9. DeletesAlone'
  <2>1. \A i \in 1 .. 5 : ~(i < 1) /\ (i = 1 => reset'.found = Selected(Deletes[i], replay.scope))
    BY <1>5
  <2>2. \A i \in 1 .. 5 :
          Selected(Deletes[i], replay.scope)' = Selected(Deletes[i], replay.scope)
    BY <1>1, <1>3, SelectedStays
  <2>3. reset'.statement = 1 /\ Quiet' = Quiet
    BY <1>1, <1>5 DEF Quiet
  <2> QED BY <1>1, <2>1, <2>2, <2>3 DEF DeletesAlone
<1> QED BY <1>3, <1>4, <1>6, <1>8, <1>9
        DEF ReplayInv, ResetInv, PassedIsProjected, RebuiltAlone, StreamedAlone

\* A DELETE waits for those who have written its rows, the next one begins.
LEMMA DeleteRowsStep ==
  ASSUME ReplayInv, DeleteRows
  PROVE  ReplayInv'
<1> DEFINE n == reset.statement
           table == Deletes[n]
           gone == reset.found \cap Selected(table, replay.scope)
<1>1. /\ UNCHANGED <<inbox, wallets, transactions, ledger, movements, tx>>
      /\ UNCHANGED <<version, outdated, unrecorded, alone, replay>>
      /\ UNCHANGED projectionVars
      /\ replay.pc = "delete" /\ n \in 1 .. 5
      /\ \A p \in Projectors, row \in reset.found : ~HoldsRow(p, table, row)
  BY DeletesAre DEF DeleteRows, projectionVars, history
<1>2. reset' = [statement |-> n + 1, found |-> Found(n + 1),
                deleted   |-> [reset.deleted EXCEPT ![table] = gone]]
  BY DEF DeleteRows
<1>3. ResetIsRecord /\ DeletedAreUnwritten /\ InboxFollows /\ DeletesAlone
  BY <1>1 DEF ReplayInv, ResetInv
<1>4. table \in Tables /\ DOMAIN reset.deleted = Tables
  BY <1>1, <1>3, DeletesAre DEF ResetIsRecord
<1>5. TablesAgree' /\ ReplayIsRecord' /\ VersionIsFounded'
  BY <1>1 DEF ReplayInv, TablesAgree, TypeOK, RowsNameWallets, ReplayIsRecord,
              VersionIsFounded, ScopedEvents
<1> HIDE DEF n, gone
<1>6. /\ reset'.statement = n + 1 /\ reset'.found = Found(n + 1)
      /\ reset'.deleted = [reset.deleted EXCEPT ![table] = gone]
  BY <1>2
<1>7. /\ reset'.deleted[table] = gone /\ DOMAIN reset'.deleted = Tables
      /\ \A t \in Tables : t # table => reset'.deleted[t] = reset.deleted[t]
  BY <1>4, <1>6
<1>8. ResetIsRecord'
  BY <1>1, <1>2, <1>3, <1>6, <1>7 DEF ResetIsRecord
<1>9. /\ n = 1 => Deleted' = gone
      /\ n # 1 => Deleted' = Deleted
  <2>1. n # 1 => table # "ledger_entries"
    BY <1>1, DeletesAre DEF n
  <2>2. n = 1 => table = "ledger_entries"
    BY DeletesAre DEF n
  <2> QED BY <1>7, <2>1, <2>2, DeletesAre DEF Deleted
<1>10. n = 1 => gone = reset.found \cap {e \in ledger : InScope(replay.scope, e.wallet)}
  BY DeletesAre, SelectedRows DEF gone, n
<1>11. DeletedAreUnwritten'
  <2>1. CASE n = 1
    <3>1. \A e \in Deleted' : e \in reset.found /\ InScope(replay.scope, e.wallet)
      BY <1>9, <1>10, <2>1
    <3>2. ASSUME NEW p \in Projectors, tx[p].event \in Deleted'
          PROVE  tx[p].pc \in {"idle", "find", "save"}
      <4>1. ~HoldsRow(p, "ledger_entries", tx[p].event)
        BY <1>1, <2>1, <3>1, <3>2, DeletesAre DEF n
      <4>2. RowOf("ledger_entries", tx[p].event) = tx[p].event
        BY DEF RowOf
      <4>3. LockedAt("ledger_entries") = {"entries", "upsert", "validate", "commit"}
        BY DEF LockedAt
      <4>4. tx[p] \in Connections
        BY ConnectionType DEF ReplayInv, TablesAgree
      <4> QED BY <4>1, <4>2, <4>3, <4>4 DEF HoldsRow, Connections
    <3> QED BY <1>1, <3>1, <3>2 DEF DeletedAreUnwritten
  <2>2. CASE n # 1
    BY <1>1, <1>3, <1>9, <2>2 DEF DeletedAreUnwritten
  <2> QED BY <2>1, <2>2
<1>12. InboxFollows'
  <2>1. ASSUME n = 4
        PROVE  Deleted' \cap inbox \subseteq Found(5)
    <3>1. Found(5) = {e \in inbox : InScope(replay.scope, e.wallet)}
      BY DeletesAre, SelectedRows DEF Found
    <3> QED BY <1>3, <1>9, <2>1, <3>1 DEF DeletedAreUnwritten
  <2>2. ASSUME n = 5
        PROVE  Deleted' \cap inbox \subseteq reset'.deleted["processed_events"]
    <3>1. gone = reset.found \cap {e \in inbox : InScope(replay.scope, e.wallet)}
      BY <2>2, DeletesAre, SelectedRows DEF gone, n
    <3>2. reset'.deleted["processed_events"] = gone
      BY <1>7, <2>2, DeletesAre DEF n
    <3>3. Deleted \cap inbox \subseteq reset.found
      BY <1>3, <2>2 DEF InboxFollows, n
    <3> QED BY <1>3, <1>9, <2>2, <3>1, <3>2, <3>3 DEF DeletedAreUnwritten
  <2>3. n \in 1 .. 5 /\ inbox' = inbox
    BY <1>1 DEF n
  <2>4. /\ n + 1 = 5 => n = 4
        /\ n + 1 = 6 => n = 5
    BY <2>3
  <2> QED BY <1>6, <2>1, <2>2, <2>3, <2>4 DEF InboxFollows
<1>13. DeletesAlone'
  <2> SUFFICES ASSUME alone PROVE DeletesAlone'
    BY <1>1 DEF DeletesAlone
  <2>1. Quiet' /\ n \in 1 .. 5
    BY <1>1, <1>3 DEF DeletesAlone, Quiet, n
  <2>2. gone = Selected(table, replay.scope)
    BY <1>1, <1>3 DEF DeletesAlone, gone, n
  <2>3. ASSUME NEW i \in 1 .. 5
        PROVE  /\ i < n + 1 => reset'.deleted[Deletes[i]] = Selected(Deletes[i], replay.scope)
               /\ i = n + 1 => reset'.found = Selected(Deletes[i], replay.scope)
    <3>1. Deletes[i] \in Tables
      BY DeletesAre
    <3>2. i < n => reset.deleted[Deletes[i]] = Selected(Deletes[i], replay.scope)
      BY <1>3 DEF DeletesAlone, n
    <3>3. i < n + 1 => i < n \/ i = n
      BY <2>1
    <3>4. i < n + 1 => reset'.deleted[Deletes[i]] = Selected(Deletes[i], replay.scope)
      BY <1>7, <2>2, <3>1, <3>2, <3>3
    <3>5. i = n + 1 => reset'.found = Selected(Deletes[i], replay.scope)
      BY <1>6, DeletesAre DEF Found
    <3> QED BY <3>4, <3>5
  <2>4. \A i \in 1 .. 5 :
          Selected(Deletes[i], replay.scope)' = Selected(Deletes[i], replay.scope)
    BY <1>1, SelectedStays
  <2> QED BY <1>6, <2>1, <2>3, <2>4 DEF DeletesAlone
<1> QED BY <1>1, <1>5, <1>8, <1>11, <1>12, <1>13
        DEF ReplayInv, ResetInv, PassedIsProjected, RebuiltAlone, StreamedAlone

\* What the DELETEs have found and locked is gone at once.
LEMMA DeletesCommitStep ==
  ASSUME ReplayInv, DeletesCommit
  PROVE  ReplayInv'
<1>1. /\ replay.pc = "delete" /\ Delete(reset.deleted) /\ alone' = alone
      /\ ~(reset.statement \in 1 .. 5)
  BY DeletesAre DEF DeletesCommit
<1>2. ResetIsRecord /\ InboxFollows /\ DeletesAlone
  BY <1>1 DEF ReplayInv, ResetInv
<1>3. reset.statement = 6 /\ replay.scope # Everything
  BY <1>1, <1>2 DEF ResetIsRecord
<1>4. reset.deleted["ledger_entries"] \cap inbox \subseteq reset.deleted["processed_events"]
  BY <1>2, <1>3 DEF InboxFollows, Deleted
<1>5. ASSUME alone, NEW table \in Tables
      PROVE  reset.deleted[table] = Selected(table, replay.scope)
  <2>1. PICK i \in 1 .. 5 : table = Deletes[i]
    BY DeletesAre
  <2> QED BY <1>2, <1>3, <1>5, <2>1 DEF DeletesAlone
<1>6. alone => Quiet
  BY <1>2 DEF DeletesAlone
<1> QED BY <1>1, <1>3, <1>4, <1>5, <1>6, ResetEnds

\* A statement keeps its transaction's event, or ends the transaction.
LEMMA StatementEvent ==
  ASSUME TypeOK, NEW p \in Projectors, Statement(p)
  PROVE  /\ tx[p].pc # "idle"
         /\ tx'[p].pc = "idle" \/ tx'[p].event = tx[p].event
         /\ \/ ledger' = ledger
            \/ ledger' = ledger \cup {tx[p].event} /\ tx'[p].pc = "idle"
<1>1. tx[p] \in Connections /\ DOMAIN tx = Projectors
  BY ConnectionType DEF TypeOK
<1>2. CASE FindWallet(p)
  <2> DEFINE e == tx[p].event
             b == wallets[e.wallet].balance + (IF IsDebit(e) THEN -e.amount ELSE e.amount)
             r == [tx[p] EXCEPT !.pc = "save", !.balance = b]
  <2>1. /\ tx[p].pc = "find" /\ ledger' = ledger
        /\ tx' = [tx EXCEPT ![p] = r] \/ tx' = [tx EXCEPT ![p] = Closed]
    BY <1>2 DEF FindWallet, Proceed, tables
  <2> HIDE DEF b
  <2>2. r.event = tx[p].event
    BY <1>1 DEF Connections
  <2> HIDE DEF r
  <2> QED BY <1>1, <2>1, <2>2, ClosedType
<1>3. CASE SaveRows(p)
  <2> DEFINE r == [tx[p] EXCEPT !.pc = IF MovementOf(tx[p].event) = NoMovement
                                     THEN "commit" ELSE "entries"]
  <2>1. tx' = [tx EXCEPT ![p] = r] /\ tx[p].pc = "save" /\ ledger' = ledger
    BY <1>3 DEF SaveRows, Proceed, tables
  <2>2. r.event = tx[p].event
    BY <1>1 DEF Connections
  <2> HIDE DEF r
  <2> QED BY <1>1, <2>1, <2>2
<1>4. CASE ReadEntries(p)
  BY <1>1, <1>4 DEF ReadEntries, Proceed, tables, Connections
<1>5. CASE UpsertMovement(p)
  BY <1>1, <1>5 DEF UpsertMovement, Proceed, tables, Connections
<1>6. CASE Validate(p)
  BY <1>1, <1>6 DEF Validate, Proceed, tables, Connections
<1>7. CASE Commit(p)
  BY <1>1, <1>7, ClosedType DEF Commit, Proceed
<1> QED BY <1>2, <1>3, <1>4, <1>5, <1>6, <1>7 DEF Statement

\* A projector's step touches its own transaction; it begins with the wallet
\* still to be saved, and adds to the inbox only what it has written.
LEMMA ProjectPositions ==
  ASSUME TablesAgree, NEW p \in Projectors, Project(p)
  PROVE  /\ \A q \in Projectors : q # p => tx'[q] = tx[q]
         /\ tx[p].pc \in {"idle", "find"} => tx'[p].pc \in {"idle", "find", "save"}
         /\ tx[p].pc # "idle" /\ tx'[p].pc # "idle" => tx'[p].event = tx[p].event
         /\ inbox' = inbox \/ (inbox' = inbox \cup {tx[p].event} /\ tx[p].pc = "commit")
<1>1. Ready(p) /\ DOMAIN tx = Projectors /\ tx[p] \in Connections
  BY ConnectionType DEF TablesAgree, Ready, TypeOK
<1>2. PICK after : tx' = [tx EXCEPT ![p] = after]
  BY <1>1, ProjectShape DEF Proceeds, Proceed, Commit
<1>3. inbox' = inbox \/ (inbox' = inbox \cup {tx[p].event} /\ tx[p].pc = "commit")
  BY <1>1, ProjectShape DEF Proceeds, tables, Commit
<1>4. CASE Statement(p)
  <2>1. TypeOK
    BY DEF TablesAgree
  <2>2. tx[p].pc # "idle" /\ (tx'[p].pc = "idle" \/ tx'[p].event = tx[p].event)
    BY <1>4, <2>1, StatementEvent
  <2>3. tx[p].pc = "find" => tx'[p].pc \in {"idle", "save"}
    <3> SUFFICES ASSUME tx[p].pc = "find" PROVE tx'[p].pc \in {"idle", "save"}
      OBVIOUS
    <3> DEFINE e == tx[p].event
               b == wallets[e.wallet].balance + (IF IsDebit(e) THEN -e.amount ELSE e.amount)
               saved == [tx[p] EXCEPT !.pc = "save", !.balance = b]
    <3>1. tx' = [tx EXCEPT ![p] = saved] \/ tx' = [tx EXCEPT ![p] = Closed]
      BY <1>4 DEF Statement, FindWallet, SaveRows, ReadEntries, UpsertMovement, Validate,
                  Commit, Proceed
    <3> HIDE DEF b
    <3>2. saved.pc = "save"
      BY <1>1 DEF Connections
    <3> HIDE DEF saved
    <3> QED BY <1>1, <3>1, <3>2, ClosedType
  <2> QED BY <1>1, <1>2, <1>3, <2>2, <2>3
<1>5. CASE Rollback(p)
  <2>1. tx'[p] = Closed
    BY <1>1, <1>5 DEF Rollback, Proceed
  <2> QED BY <1>1, <1>2, <1>3, <2>1, ClosedType
<1>6. ASSUME NEW e \in Events, Begin(p, e)
      PROVE  tx[p].pc = "idle" /\ tx'[p].pc \in {"find", "save"}
  <2> DEFINE first == IF e.type = "OPENING_BALANCE" THEN "save" ELSE "find"
             r == [Closed EXCEPT !.event = e, !.pc = first, !.balance = e.amount]
  <2>1. tx[p].pc = "idle" /\ tx' = [tx EXCEPT ![p] = r]
    BY <1>6 DEF Begin, Proceed
  <2>2. first \in {"save", "find"}
    OBVIOUS
  <2>3. r.pc = first
    <3> HIDE DEF first
    <3> QED BY DEF Closed
  <2> HIDE DEF r, first
  <2> QED BY <1>1, <2>1, <2>2, <2>3
<1> QED BY <1>1, <1>2, <1>3, <1>4, <1>5, <1>6 DEF Project

\* The live service adds entries, and ends the replay's being alone.  It waits
\* with the rows that a scoped reset has deleted and not committed.
LEMMA LiveStep ==
  ASSUME ReplayInv, Live
  PROVE  ReplayInv'
<1>1. PICK p \in Projectors \ {Replayer} :
        Project(p) /\ (IsBlocked(p) => tx'[p].pc = "idle")
  BY DEF Live
<1>2. UNCHANGED <<replay, runs, reset, version, outdated, unrecorded>> /\ alone' = FALSE
  BY DEF Live, run
<1>3. TablesAgree' /\ ledger \subseteq ledger' /\ inbox \subseteq inbox'
  BY <1>1, ProjectTables DEF ReplayInv
<1>4. /\ \A q \in Projectors : q # p => tx'[q] = tx[q]
      /\ tx[p].pc \in {"idle", "find"} => tx'[p].pc \in {"idle", "find", "save"}
      /\ tx[p].pc # "idle" /\ tx'[p].pc # "idle" => tx'[p].event = tx[p].event
      /\ inbox' = inbox \/ (inbox' = inbox \cup {tx[p].event} /\ tx[p].pc = "commit")
  BY <1>1, ProjectPositions DEF ReplayInv
<1>5. ReplayIsRecord' /\ PassedIsProjected' /\ VersionIsFounded'
  BY <1>1, <1>2, <1>3, <1>4
     DEF ReplayInv, ReplayIsRecord, PassedIsProjected, VersionIsFounded, ScopedEvents
<1>6. ASSUME replay.pc = "delete"
      PROVE  ResetIsRecord' /\ DeletedAreUnwritten' /\ InboxFollows' /\ DeletesAlone'
  <2>1. ResetIsRecord /\ DeletedAreUnwritten /\ InboxFollows
    BY <1>6 DEF ReplayInv, ResetInv
  <2>2. ResetIsRecord' /\ DeletesAlone' /\ Deleted' = Deleted
    BY <1>2, <2>1 DEF ResetIsRecord, DeletesAlone, Deleted
  <2>3. ASSUME tx'[p].event \in Deleted, tx'[p].pc # "idle"
        PROVE  tx'[p].pc \in {"find", "save"}
    <3>1. CASE tx[p].pc \in {"idle", "find"}
      BY <1>4, <2>3, <3>1
    <3>2. CASE tx[p].pc \notin {"idle", "find"}
      <4>1. tx[p].event \in Deleted
        BY <1>4, <2>3, <3>2
      <4>2. tx[p].pc = "save"
        BY <2>1, <3>2, <4>1 DEF DeletedAreUnwritten
      <4>3. RowOf("ledger_entries", tx[p].event) \in Deleted /\ WrittenAt("ledger_entries") = "save"
        BY <4>1 DEF RowOf, WrittenAt
      <4>4. IsBlocked(p)
        BY <4>2, <4>3, DeletesAre DEF IsBlocked, Deleted
      <4> QED BY <1>1, <2>3, <4>4
    <3> QED BY <3>1, <3>2
  <2>4. DeletedAreUnwritten'
    BY <1>2, <1>4, <2>1, <2>2, <2>3 DEF DeletedAreUnwritten
  <2>5. Deleted \cap inbox' = Deleted \cap inbox
    BY <1>1, <1>4, <2>1 DEF DeletedAreUnwritten
  <2>6. InboxFollows'
    BY <1>2, <2>1, <2>2, <2>5 DEF InboxFollows
  <2> QED BY <2>2, <2>4, <2>6
<1> QED BY <1>2, <1>3, <1>5, <1>6 DEF ReplayInv, ResetInv, RebuiltAlone, StreamedAlone

\* An event that the inbox has is passed over; any other is begun.
LEMMA DispatchStep ==
  ASSUME ReplayInv, NEW e \in Events, Dispatch(e)
  PROVE  ReplayInv'
<1>1. /\ replay.pc = "stream" /\ IsNext(e) /\ tx[Replayer].pc = "idle"
      /\ UNCHANGED <<version, outdated, unrecorded, alone>>
  BY DEF Dispatch, history
<1>2. CASE e \in inbox
  <2>1. /\ replay' = [replay EXCEPT !.todo = @ \ {e}]
        /\ UNCHANGED <<inbox, wallets, transactions, ledger, movements, tx>>
    BY <1>2 DEF Dispatch, projectionVars
  <2>2. replay' = [pc |-> "stream", scope |-> replay.scope, todo |-> replay.todo \ {e}]
    BY <1>1, <2>1 DEF ReplayInv, ReplayIsRecord
  <2>3. /\ replay'.pc = "stream" /\ replay'.scope = replay.scope
        /\ replay'.todo = replay.todo \ {e} /\ ScopedEvents' = ScopedEvents
        /\ ReplayIsRecord'
    BY <2>2 DEF ReplayInv, ReplayIsRecord, ScopedEvents
  <2>4. TablesAgree'
    BY <2>1 DEF ReplayInv, TablesAgree, TypeOK, RowsNameWallets
  <2>5. PassedIsProjected' /\ ResetInv'
    BY <1>1, <1>2, <2>1, <2>3 DEF ReplayInv, PassedIsProjected, ResetInv
  <2>6. VersionIsFounded' /\ RebuiltAlone'
    BY <1>1, <2>1, <2>3 DEF ReplayInv, VersionIsFounded, RebuiltAlone
  <2>7. StreamedAlone'
    BY <1>1, <2>1, <2>3 DEF ReplayInv, StreamedAlone
  <2> QED BY <2>3, <2>4, <2>5, <2>6, <2>7 DEF ReplayInv
<1>3. CASE e \notin inbox
  <2>1. Begin(Replayer, e) /\ replay' = replay
    BY <1>3 DEF Dispatch
  <2>2. Project(Replayer)
    BY <2>1 DEF Project
  <2>3. TablesAgree' /\ ledger' = ledger /\ inbox' = inbox
    BY <2>1, <2>2, ProjectTables DEF ReplayInv, Begin, tables
  <2>4. ReplayIsRecord' /\ PassedIsProjected' /\ VersionIsFounded' /\ ResetInv'
    BY <1>1, <2>1, <2>3 DEF ReplayInv, ReplayIsRecord, PassedIsProjected, VersionIsFounded,
                            ScopedEvents, ResetInv
  <2>5. \E x \in ScopedEvents \ inbox : Begin(Replayer, x)
    BY <1>1, <1>3, <2>1 DEF IsNext, ReplayInv, ReplayIsRecord
  <2>6. RebuiltAlone'
    BY <1>1, <2>1, <2>5, AloneStatement DEF RebuiltAlone
  <2>7. tx'[Replayer].event = e
    <3>1. DOMAIN tx = Projectors
      BY DEF ReplayInv, TablesAgree, TypeOK
    <3> QED BY <2>1, <3>1, ClosedType DEF Begin, Proceed, Closed
  <2>8. alone => Prepared(ledger', wallets', tx'[Replayer])
    BY <1>1, <2>5, AloneStatement
  <2>9. IsNext(e)'
    BY <1>1, <2>1 DEF IsNext, Precedes
  <2>10. StreamedAlone'
    BY <1>1, <2>1, <2>3, <2>7, <2>8, <2>9 DEF ReplayInv, StreamedAlone, IsNext
  <2> QED BY <2>3, <2>4, <2>6, <2>10 DEF ReplayInv
<1> QED BY <1>2, <1>3

\* The handler's statements pass an event, end the replay or go on with it.
LEMMA HandleStep ==
  ASSUME ReplayInv, Handle
  PROVE  ReplayInv'
<1> DEFINE e == tx[Replayer].event
<1>1. /\ replay.pc = "stream" /\ Statement(Replayer) /\ Project(Replayer)
      /\ UNCHANGED <<version, outdated, unrecorded, alone>>
  BY DEF Handle, history, Project
<1>2. TablesAgree' /\ ledger \subseteq ledger' /\ inbox \subseteq inbox'
  BY <1>1, ProjectTables DEF ReplayInv
<1>3. /\ tx[Replayer].pc # "idle"
      /\ tx'[Replayer].pc = "idle" \/ tx'[Replayer].event = e
      /\ ledger' = ledger \/ (ledger' = ledger \cup {e} /\ tx'[Replayer].pc = "idle")
  <2>1. TypeOK /\ Statement(Replayer) /\ Replayer \in Projectors
    BY <1>1 DEF ReplayInv, TablesAgree
  <2> QED BY <2>1, StatementEvent
<1>4. alone => Prepared(ledger', wallets', tx'[Replayer])
  BY <1>1, AloneStatement
<1> HIDE DEF e
<1>5. CASE replay' = replay /\ tx'[Replayer].pc # "idle"
  <2>1. ReplayIsRecord' /\ PassedIsProjected' /\ VersionIsFounded' /\ ResetInv'
    BY <1>1, <1>2, <1>5 DEF ReplayInv, ReplayIsRecord, PassedIsProjected, VersionIsFounded,
                            ScopedEvents, ResetInv
  <2>2. RebuiltAlone'
    BY <1>1, <1>5, AloneStatement DEF RebuiltAlone
  <2>3. tx'[Replayer].event = e /\ ledger' = ledger
    BY <1>3, <1>5
  <2>4. alone => IsNext(e)'
    <3>1. alone => IsNext(e)
      BY <1>1, <1>3 DEF ReplayInv, StreamedAlone, e
    <3>2. e' = e
      BY <1>5, <2>3 DEF e
    <3> QED BY <1>5, <3>1, <3>2 DEF IsNext, Precedes
  <2>5. StreamedAlone'
    BY <1>1, <1>4, <1>5, <2>3, <2>4 DEF ReplayInv, StreamedAlone, e
  <2> QED BY <1>2, <2>1, <2>2, <2>5 DEF ReplayInv
<1>6. CASE /\ replay' = [replay EXCEPT !.todo = @ \ {e}]
           /\ tx'[Replayer].pc = "idle" /\ e \in inbox'
  <2>1. replay' = [pc |-> "stream", scope |-> replay.scope, todo |-> replay.todo \ {e}]
    BY <1>1, <1>6 DEF ReplayInv, ReplayIsRecord
  <2>2. /\ replay'.pc = "stream" /\ replay'.scope = replay.scope
        /\ replay'.todo = replay.todo \ {e} /\ ScopedEvents' = ScopedEvents
        /\ ReplayIsRecord'
    BY <2>1 DEF ReplayInv, ReplayIsRecord, ScopedEvents
  <2>3. PassedIsProjected' /\ VersionIsFounded' /\ ResetInv'
    BY <1>1, <1>2, <1>6, <2>2 DEF ReplayInv, PassedIsProjected, VersionIsFounded, ResetInv
  <2>4. RebuiltAlone'
    BY <1>1, <2>2, AloneStatement DEF RebuiltAlone
  <2>5. ASSUME alone, NEW d \in ledger', NEW x \in replay'.todo, d.wallet = x.wallet
        PROVE  d.version <= x.version
    <3>1. x \in replay.todo /\ x \in Events
      BY <2>2, <2>5 DEF ReplayInv, ReplayIsRecord, ScopedEvents
    <3>2. CASE d \in ledger
      BY <1>1, <2>5, <3>1, <3>2 DEF ReplayInv, StreamedAlone
    <3>3. CASE d = e
      <4>1. IsNext(e)
        BY <1>1, <1>3, <2>5 DEF ReplayInv, StreamedAlone, e
      <4>2. ~ Precedes(x, e) /\ e \in Events
        BY <3>1, <4>1 DEF IsNext, ReplayInv, ReplayIsRecord, ScopedEvents
      <4>3. ~ (x.version < e.version) /\ x.version \in Nat /\ e.version \in Nat
        BY <2>5, <3>1, <3>3, <4>2 DEF Precedes
      <4> QED BY <3>3, <4>3
    <3> QED BY <1>3, <2>5, <3>2, <3>3
  <2>6. StreamedAlone'
    BY <1>1, <1>4, <1>6, <2>2, <2>5 DEF StreamedAlone
  <2> QED BY <1>2, <2>2, <2>3, <2>4, <2>6 DEF ReplayInv
<1>7. CASE replay' = NoReplay /\ tx'[Replayer].pc = "idle"
  <2>1. replay'.pc = "idle" /\ ReplayIsRecord'
    BY <1>7 DEF NoReplay, ReplayIsRecord
  <2>2. VersionIsFounded'
    BY <1>1, <1>2, <2>1 DEF ReplayInv, VersionIsFounded
  <2> QED BY <1>2, <2>1, <2>2, OutsideRun
<1>8. \/ replay' = replay /\ tx'[Replayer].pc # "idle"
      \/ /\ replay' = [replay EXCEPT !.todo = @ \ {e}]
         /\ tx'[Replayer].pc = "idle" /\ e \in inbox'
      \/ replay' = NoReplay /\ tx'[Replayer].pc = "idle"
  BY DEF Handle, e
<1> QED BY <1>5, <1>6, <1>7, <1>8

\* Through the stream, and to the end, the tables stay as they are; the record
\* of the version is written when nothing outdated is left.
LEMMA EndSteps ==
  ASSUME ReplayInv, Streamed \/ MarkReplayComplete
  PROVE  ReplayInv'
<1>1. UNCHANGED <<inbox, wallets, transactions, ledger, movements, tx>>
      /\ UNCHANGED <<outdated, unrecorded, alone>>
  BY DEF Streamed, MarkReplayComplete, projectionVars, history
<1>2. /\ replay' = [pc |-> replay'.pc, scope |-> replay.scope, todo |-> replay.todo]
      /\ \/ /\ replay.pc = "stream" /\ replay.todo = {} /\ replay'.pc = "mark"
            /\ tx[Replayer].pc = "idle"
         \/ replay.pc = "mark" /\ replay'.pc = "done"
  BY DEF Streamed, MarkReplayComplete, ReplayInv, ReplayIsRecord
<1>3. /\ replay'.scope = replay.scope /\ replay'.todo = replay.todo
      /\ ScopedEvents' = ScopedEvents /\ ReplayIsRecord'
  BY <1>1, <1>2 DEF ReplayInv, ReplayIsRecord, ScopedEvents
<1>4. TablesAgree'
  BY <1>1 DEF ReplayInv, TablesAgree, TypeOK, RowsNameWallets
<1>5. PassedIsProjected' /\ ResetInv'
  BY <1>1, <1>2, <1>3 DEF ReplayInv, PassedIsProjected, ResetInv
<1>6. VersionIsFounded'
  BY <1>1, <1>2, <1>3 DEF ReplayInv, VersionIsFounded, Streamed, MarkReplayComplete, history
<1>7. RebuiltAlone' /\ StreamedAlone'
  BY <1>1, <1>2, <1>3 DEF ReplayInv, RebuiltAlone, StreamedAlone
<1> QED BY <1>3, <1>4, <1>5, <1>6, <1>7 DEF ReplayInv

\* A replay that ends leaves the tables as they are.
LEMMA ExitStep ==
  ASSUME ReplayInv, Exit
  PROVE  ReplayInv'
<1>1. /\ UNCHANGED <<inbox, wallets, transactions, ledger, movements, tx>>
      /\ UNCHANGED <<version, outdated, unrecorded, alone>> /\ replay' = NoReplay
  BY DEF Exit, projectionVars, history
<1>2. replay'.pc = "idle" /\ ReplayIsRecord'
  BY <1>1 DEF NoReplay, ReplayIsRecord, ReplayInv, Exit
<1>3. TablesAgree' /\ VersionIsFounded'
  BY <1>1, <1>2 DEF ReplayInv, TablesAgree, TypeOK, RowsNameWallets, VersionIsFounded
<1> QED BY <1>2, <1>3, OutsideRun

\* A replay that fails leaves its transaction rolled back.
LEMMA FailsStep ==
  ASSUME ReplayInv, Fails
  PROVE  ReplayInv'
<1>1. /\ UNCHANGED <<inbox, wallets, transactions, ledger, movements>>
      /\ UNCHANGED <<version, outdated, unrecorded, alone>> /\ replay' = NoReplay
      /\ Proceed(Replayer, Closed) /\ UNCHANGED tables
  BY DEF Fails, tables, history, Proceed
<1>2. replay'.pc = "idle" /\ ReplayIsRecord'
  <2>1. DOMAIN tx = Projectors
    BY DEF ReplayInv, TablesAgree, TypeOK
  <2> QED BY <1>1, <2>1, ClosedType DEF NoReplay, ReplayIsRecord, Proceed
<1>3. TablesAgree'
  <2>1. TypeOK'
    BY <1>1, CloseProceeds, ProceedsType DEF ReplayInv, TablesAgree
  <2>2. \A q \in Projectors : Open(Events, tx'[q])
    <3>1. DOMAIN tx = Projectors
      BY DEF ReplayInv, TablesAgree, TypeOK
    <3> QED BY <1>1, <3>1, IdleIsOpen DEF ReplayInv, TablesAgree, Proceed
  <2> QED BY <1>1, <2>1, <2>2 DEF ReplayInv, TablesAgree, RowsNameWallets
<1>4. VersionIsFounded'
  BY <1>1, <1>2 DEF ReplayInv, VersionIsFounded
<1> QED BY <1>2, <1>3, <1>4, OutsideRun

\* Every step of replays, projectors and restarts keeps the invariant.
LEMMA ReplayStepInvariant == ReplayInv /\ [ReplayNext]_replayVars => ReplayInv'
<1> SUFFICES ASSUME ReplayInv, [ReplayNext]_replayVars PROVE ReplayInv'
  OBVIOUS
<1>1. CASE CheckStartup \/ Upgrade
  BY <1>1, VersionSteps
<1>2. CASE Replaying
  BY <1>2, StartStep, TruncateStep, DeleteBeginsStep, DeleteRowsStep, DeletesCommitStep,
     DispatchStep, HandleStep, EndSteps, ExitStep, FailsStep DEF Replaying
<1>3. CASE Live
  BY <1>3, LiveStep
<1>4. CASE UNCHANGED replayVars
  <2>1. UNCHANGED <<inbox, wallets, transactions, ledger, movements, tx>>
    BY <1>4 DEF replayVars, projectionVars
  <2>2. UNCHANGED <<replay, reset, version, outdated, unrecorded, alone>>
    BY <1>4 DEF replayVars, run, history
  <2>3. TablesAgree' /\ ReplayIsRecord' /\ PassedIsProjected' /\ VersionIsFounded'
    BY <2>1, <2>2 DEF ReplayInv, TablesAgree, TypeOK, RowsNameWallets, ReplayIsRecord,
                      PassedIsProjected, VersionIsFounded, ScopedEvents
  <2>4. RebuiltAlone' /\ StreamedAlone'
    BY <2>1, <2>2 DEF ReplayInv, RebuiltAlone, StreamedAlone, IsNext, Precedes
  <2>5. ResetInv'
    <3>1. replay'.scope = replay.scope /\ UNCHANGED projectionVars
      BY <2>1, <2>2 DEF projectionVars
    <3>2. \A i \in 1 .. 5 :
            Selected(Deletes[i], replay.scope)' = Selected(Deletes[i], replay.scope)
      BY <3>1, SelectedStays
    <3>3. replay.pc = "delete" =>
            ResetIsRecord' /\ DeletedAreUnwritten' /\ InboxFollows' /\ DeletesAlone'
      BY <2>1, <2>2, <3>2 DEF ReplayInv, ResetInv, ResetIsRecord, DeletedAreUnwritten, Deleted,
                              InboxFollows, DeletesAlone, Quiet
    <3> QED BY <2>2, <3>3 DEF ResetInv
  <2> QED BY <2>3, <2>4, <2>5 DEF ReplayInv
<1> QED BY <1>1, <1>2, <1>3, <1>4 DEF ReplayNext

\* Wherever a replay is stopped, and whatever the live service projects while
\* it runs, the invariant holds.
THEOREM ReplayInvariance == ReplaySpec => []ReplayInv
BY ReplayInitInvariant, ReplayStepInvariant, PTL DEF ReplaySpec
-----------------------------------------------------------------------------
(* What follows from it. *)

\* A replay that reports success has left no stored event of its scope out,
\* also when the live service projects meanwhile.
THEOREM ReplayCompleteness == ReplaySpec => []ReplayIsComplete
<1>1. ReplayInv => ReplayIsComplete
  BY DEF ReplayInv, TablesAgree, PassedIsProjected, ReplayIsComplete, ScopedEvents
<1> QED BY <1>1, ReplayInvariance, PTL

\* A current version never covers rows that an older projection wrote, except
\* those from before there was a record.
THEOREM VersionHonesty == ReplaySpec => []VersionIsEarned
<1>1. ReplayInv => VersionIsEarned
  BY DEF ReplayInv, VersionIsFounded, VersionIsEarned
<1> QED BY <1>1, ReplayInvariance, PTL

\* A wallet in scope of a replay that was alone has its balance, and its balance
\* history in the order of its stream.
LEMMA RebuiltWallet ==
  ASSUME ReplayInv, replay.pc = "done", alone,
         NEW w \in Wallets, InScope(replay.scope, w)
  PROVE  /\ wallets[w] = [open |-> TRUE, balance |-> BalanceOf(w)]
         /\ \A e \in Events : e.wallet = w =>
              transactions[TransactionKey(e)].balanceAfter =
                LET upto == {d \in Events : d.wallet = w /\ d.version <= e.version}
                IN  Total(CreditEntries(upto)) - Total(Debits(upto))
<1>1. /\ WalletIsDerived(ledger, wallets, w) /\ HistoryIsDerived(ledger, transactions, w)
      /\ ScopedEvents \subseteq ledger
      /\ wallets \in [Wallets -> [open : BOOLEAN, balance : Int]]
      /\ ledger \subseteq Events
  BY DEF ReplayInv, RebuiltAlone, PassedIsProjected, TablesAgree, TypeOK
<1>2. \A e \in Events : e.wallet = w => e \in ledger
  BY <1>1 DEF ScopedEvents
<1>3. wallets[w].open /\ wallets[w].balance = Balance(ledger, w)
  <2>1. \E e \in ledger : e.wallet = w
    BY <1>2, StreamsAssumption
  <2> QED BY <1>1, <2>1 DEF WalletIsDerived
<1>4. Balance(ledger, w) = BalanceOf(w)
  <2>1. {e \in ledger : e.wallet = w} = {e \in Events : e.wallet = w}
    BY <1>1, <1>2
  <2> QED BY <2>1 DEF Balance, BalanceOf
<1>5. wallets[w] = [open |-> TRUE, balance |-> BalanceOf(w)]
  BY <1>1, <1>3, <1>4
<1>6. ASSUME NEW e \in Events, e.wallet = w
      PROVE  transactions[TransactionKey(e)].balanceAfter =
               LET upto == {d \in Events : d.wallet = w /\ d.version <= e.version}
               IN  Total(CreditEntries(upto)) - Total(Debits(upto))
  <2>1. transactions[TransactionKey(e)].balanceAfter =
          Balance({d \in ledger : d.version <= e.version}, w)
    BY <1>1, <1>2, <1>6 DEF HistoryIsDerived
  <2>2. {x \in {d \in ledger : d.version <= e.version} : x.wallet = w}
          = {d \in Events : d.wallet = w /\ d.version <= e.version}
    BY <1>1, <1>2
  <2> QED BY <2>1, <2>2 DEF Balance
<1> QED BY <1>5, <1>6

\* Whatever live projection, earlier replays and failures left behind, a replay
\* that is alone rebuilds the wallets of its scope.
THEOREM WalletsAreRebuilt == ReplaySpec => []ReplayRebuildsWallets
<1>1. ReplayInv => ReplayRebuildsWallets
  BY RebuiltWallet DEF ReplayRebuildsWallets
<1> QED BY <1>1, ReplayInvariance, PTL

\* A full replay that is alone rebuilds every movement from the whole log.
THEOREM MovementsAreRebuilt == ReplaySpec => []FullReplayRebuildsMovements
<1>1. ASSUME ReplayInv, replay.pc = "done", alone, replay.scope = Everything,
             NEW m \in MovementIds
      PROVE  movements[m] = BuildMovement(EntriesOf(Events, m))
  <2>1. MovementIsDerived(ledger, movements, m)
    BY <1>1 DEF ReplayInv, RebuiltAlone
  <2>2. EntriesOf(ledger, m) = EntriesOf(Events, m)
    <3>1. Events \subseteq ledger /\ ledger \subseteq Events
      BY <1>1 DEF ReplayInv, PassedIsProjected, ScopedEvents, InScope, TablesAgree, TypeOK
    <3> QED BY <3>1 DEF EntriesOf
  <2>3. EntriesOf(Events, m) # {}
    BY DEF EntriesOf, MovementIds
  <2> QED BY <2>1, <2>2, <2>3 DEF MovementIsDerived
<1>2. ReplayInv => FullReplayRebuildsMovements
  BY <1>1 DEF FullReplayRebuildsMovements
<1> QED BY <1>2, ReplayInvariance, PTL
-----------------------------------------------------------------------------
(* The checker after a replay. *)

\* The ledger of a full replay that was alone has every movement's entries.
LEMMA RebuiltIsDerived ==
  ASSUME ReplayInv, replay.pc = "done", alone, replay.scope = Everything
  PROVE  /\ ledger \in SUBSET Events /\ IsFiniteSet(ledger) /\ Derived
<1>1. ledger \in SUBSET Events /\ IsFiniteSet(ledger)
  BY DEF ReplayInv, TablesAgree, TypeOK
<1>2. Derived
  BY DEF ReplayInv, RebuiltAlone, Derived, InScope
<1> QED BY <1>1, <1>2

\* wallet-query --replay, and then --check-ledger: after a full replay that
\* nothing overlapped the checker reports the transfers that the events leave
\* incomplete, and nothing else, whatever the tables held before.
RebuiltPassesCheck ==
  replay.pc = "done" /\ alone /\ replay.scope = Everything =>
    Failures(CurrentTables) = Incomplete

\* A replay leaves nothing for the checker to find but what the events lack.
THEOREM RebuiltReport == ReplaySpec => []RebuiltPassesCheck
<1>1. ReplayInv => RebuiltPassesCheck
  BY RebuiltIsDerived, DerivedReport DEF RebuiltPassesCheck
<1> QED BY <1>1, ReplayInvariance, PTL
=============================================================================
