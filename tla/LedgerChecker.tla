---------------------------- MODULE LedgerChecker ----------------------------
(***************************************************************************)
(* The ledger consistency checker of wallet-query (--check-ledger): three  *)
(* SELECTs with no transaction around them, and a report computed from     *)
(* what they returned, while projectors may be committing.                 *)
(***************************************************************************)
EXTENDS Projection

VARIABLES
  check,   \* the checker: its position and what it has read so far
  serial   \* history: no two transactions have been open at a time

checkerVars == <<projectionVars, check, serial>>

\* Per-wallet sums of the entries, against the stored balances.
LedgerBalance(entries, w) ==
  LET own == {e \in entries : e.wallet = w}
  IN  Total(CreditEntries(own)) - Total(Debits(own))
WalletMismatches(rows, entries) ==
  {w \in Wallets : rows[w].open /\ rows[w].balance # LedgerBalance(entries, w)}

Stored(rows) == {m \in MovementIds : rows[m].status # "none"}

\* Stored totals and counts against the linked entries; rows with no entries,
\* and entries with no row.
MovementIssues(entries, rows) ==
  {m \in Stored(rows) :
     LET group == EntriesOf(entries, m)
     IN  \/ group = {}
         \/ rows[m].debit # Total(Debits(group))
         \/ rows[m].credit # Total(CreditEntries(group))
         \/ rows[m].count # Cardinality(group)}
  \cup {m \in MovementIds \ Stored(rows) : EntriesOf(entries, m) # {}}

IsPair(group) ==
  /\ Cardinality(group) = 2
  /\ Cardinality(Debits(group)) = 1
  /\ \A d, e \in group : d # e => d.counterparty = e.wallet

\* Transfers without exactly one debit and one credit that mirror each other.
TransferIssues(entries, rows) ==
  {m \in Stored(rows) :
     LET group == EntriesOf(entries, m)
     IN  /\ group # {} /\ Cardinality(m[1]) = 2
         /\ \/ ~IsPair(group)
            \/ rows[m].sources = {} \/ rows[m].destinations = {}}

Failures(c) ==
  WalletMismatches(c.wallets, c.ledger) \cup MovementIssues(c.ledger, c.movements)
  \cup TransferIssues(c.ledger, c.movements)

NoCheck == [pc |-> "wallets", wallets |-> <<>>, ledger |-> {}, movements |-> <<>>]

CheckInit == Init /\ check = NoCheck /\ serial = TRUE

ReadWallets ==
  /\ check.pc = "wallets"
  /\ check' = [check EXCEPT !.pc = "entries", !.wallets = wallets]
  /\ UNCHANGED <<projectionVars, serial>>

ReadLedger ==
  /\ check.pc = "entries"
  /\ check' = [check EXCEPT !.pc = "movements", !.ledger = ledger]
  /\ UNCHANGED <<projectionVars, serial>>

ReadMovements ==
  /\ check.pc = "movements"
  /\ check' = [check EXCEPT !.pc = "report", !.movements = movements]
  /\ UNCHANGED <<projectionVars, serial>>

\* The report is printed and the process exits.
Report ==
  /\ check.pc = "report"
  /\ check' = NoCheck
  /\ UNCHANGED <<projectionVars, serial>>

\* Mutant of Check: movements are read before entries.
BugMovementsFirst ==
  \/ ReadWallets
  \/ /\ check.pc = "entries"
     /\ check' = [check EXCEPT !.pc = "movements", !.movements = movements]
     /\ UNCHANGED <<projectionVars, serial>>
  \/ /\ check.pc = "movements"
     /\ check' = [check EXCEPT !.pc = "report", !.ledger = ledger]
     /\ UNCHANGED <<projectionVars, serial>>
  \/ Report
Check == ReadWallets \/ ReadLedger \/ ReadMovements \/ Report

OneOpen == Cardinality({p \in Projectors : tx[p].pc # "idle"}) <= 1

Projection == Next /\ UNCHANGED check /\ serial' = (serial /\ OneOpen')

CheckNext == Check \/ Projection

CheckSpec == CheckInit /\ [][CheckNext]_checkerVars
-----------------------------------------------------------------------------
\* README.md: the checker compares "wallet stored balances vs balances derived
\* from ledger_entries".
BalancesMatchLedger == WalletMismatches(wallets, ledger) = {}

\* As long as transactions come one at a time, in whatever order events are
\* projected and rolled back, the stored rows are those that the checker, and a
\* rebuild, derive from the entries.
SerialMatchesLedger ==
  serial =>
    /\ BalancesMatchLedger
    /\ MovementIssues(ledger, movements) = {}
    /\ \A m \in Stored(movements) :
         movements[m] = BuildMovement(EntriesOf(ledger, m))

\* Run between two of them, the checker fails for exactly the transfers that are
\* not shown as COMPLETED: two separate algorithms agree on what a complete
\* transfer is, colliding movement ids included.
StatusMatchesChecker ==
  serial =>
    Failures([NoCheck EXCEPT !.wallets = wallets, !.ledger = ledger,
                             !.movements = movements]) =
      {m \in Stored(movements) : movements[m].status # "COMPLETED"}

\* Movements are read after entries: although projectors commit in between, the
\* checker never reports, wrongly, an entry whose movement row is missing.
NoFalseMissingMovement ==
  check.pc = "report" =>
    \A m \in MovementIds :
      EntriesOf(check.ledger, m) # {} => m \in Stored(check.movements)
=============================================================================
