------------------------------- MODULE Replay -------------------------------
(***************************************************************************)
(* Rebuilding the read model: wallet-query --replay [--aggregate], and the *)
(* projection version that says whether a rebuild is due.                  *)
(*                                                                         *)
(* A replay resets the tables in scope in one transaction, then streams    *)
(* the stored events through the projection handlers, one at a time.  It   *)
(* is a process of its own: the Replayer among the Projectors.  The live   *)
(* service may be stopped meanwhile, or go on projecting.                  *)
(*                                                                         *)
(* The reset of one aggregate is a DELETE per table.  Under READ COMMITTED *)
(* each finds the rows committed when it begins, and waits for the         *)
(* transactions that have written one of them; it does not see what they   *)
(* insert, nor what is committed later.  Rows it has deleted are locked    *)
(* until the reset commits.                                                *)
(***************************************************************************)
EXTENDS Projection

CONSTANTS
  Replayer,   \* the replay process
  Rank,       \* the order of the aggregate identifiers
  Legacy,     \* events projected by a build that kept no projection version
  MaxRuns     \* bound: replays started

ASSUME ReplayAssumption ==
  /\ Replayer \in Projectors /\ Rank \in [Wallets -> Nat]
  /\ Legacy \subseteq {e \in Events : e.type = "OPENING_BALANCE"}
  /\ IsFiniteSet(Legacy)
  /\ MaxRuns \in Nat

\* A wallet is known by its stream, which has at least its opening.
ASSUME StreamsAssumption == \A w \in Wallets : \E e \in Events : e.wallet = w

VARIABLES
  replay,     \* the running replay
  runs,       \* the replays started so far
  reset,      \* the transaction of its scoped reset
  version,    \* the record in projection_versions, against the code's
  outdated,   \* history: events whose rows an older projection wrote
  unrecorded, \* history: those written before there was a record
  alone       \* history: no live transaction was open since the reset began

history == <<outdated, unrecorded, alone>>
run == <<replay, reset, runs>>
replayVars == <<projectionVars, run, version, history>>

Everything == "ALL"
Scopes == Wallets \cup {Everything}
NoReplay == [pc |-> "idle", scope |-> Everything, todo |-> {}]

Tables ==
  {"ledger_entries", "ledger_movements", "transactions", "wallets", "processed_events"}

\* The DELETE that is running, the rows it has found, and those already deleted.
NoReset == [statement |-> 0, found |-> {}, deleted |-> [t \in Tables |-> {}]]

InScope(scope, w) == scope \in {Everything, w}

\* The rows of wallets that were opened and not used since.
OpenedBy(rows) ==
  /\ inbox = rows /\ ledger = rows
  /\ wallets = [w \in Wallets |->
       [open    |-> \E e \in rows : e.wallet = w,
        balance |-> Total({e \in rows : e.wallet = w})]]
  /\ transactions = [k \in TransactionKeys |->
       IF \E e \in rows : TransactionKey(e) = k
       THEN LET e == CHOOSE e \in rows : TransactionKey(e) = k
            IN  [event |-> e, balanceAfter |-> e.amount]
       ELSE [event |-> NoEvent, balanceAfter |-> 0]]
  /\ movements = [m \in MovementIds |->
       IF EntriesOf(rows, m) = {} THEN NoRow ELSE BuildMovement(EntriesOf(rows, m))]

ReplayInit ==
  /\ \E rows \in {{}, Legacy} :
       OpenedBy(rows) /\ outdated = rows /\ unrecorded = rows
  /\ tx = [p \in Projectors |-> Closed]
  /\ replay = NoReplay /\ reset = NoReset /\ runs = 0 /\ version = "none" /\ alone = FALSE

Quiet == \A p \in Projectors : tx[p].pc = "idle"

\* CheckStartup: a missing record is initialised, a mismatch only logged.
CheckStartup ==
  /\ replay.pc = "idle"
  /\ version = "none"
  /\ version' = "current"
  /\ UNCHANGED <<projectionVars, run, history>>

\* A build with a higher projection version is deployed.
Upgrade ==
  /\ replay.pc = "idle" /\ Quiet
  /\ version = "current"
  /\ version' = "old"
  /\ outdated' = ledger /\ unrecorded' = {}
  /\ UNCHANGED <<projectionVars, run, alone>>

Start(scope) ==
  /\ replay.pc = "idle"
  /\ version # "none"
  /\ runs < MaxRuns /\ runs' = runs + 1
  /\ replay' = [NoReplay EXCEPT !.pc = "reset", !.scope = scope]
  /\ UNCHANGED <<projectionVars, reset, version, history>>

(* resetReadModel. *)

Cleared(scope, row) ==
  \E w \in row.sources \cup row.destinations : InScope(scope, w)

\* Mutant of InboxRows: processed_events is not part of the reset.
BugInboxKept(scope) == {}
\* The inbox is cleared too, or the handlers would skip what they have seen.
InboxRows(scope) == {e \in inbox : InScope(scope, e.wallet)}

\* The committed rows in scope.
Selected(table, scope) ==
  CASE table = "ledger_entries" -> {e \in ledger : InScope(scope, e.wallet)}
    [] table = "ledger_movements" ->
         {m \in MovementIds : Cleared(scope, movements[m])}
    [] table = "transactions" ->
         {k \in TransactionKeys : transactions[k].event # NoEvent /\ InScope(scope, k[1])}
    [] table = "wallets" -> {w \in Wallets : wallets[w].open /\ InScope(scope, w)}
    [] table = "processed_events" -> InboxRows(scope)

\* The row of each table that projecting e writes, and when it is locked.
RowOf(table, e) ==
  CASE table = "ledger_movements" -> MovementOf(e)
    [] table = "transactions" -> TransactionKey(e)
    [] table = "wallets" -> e.wallet
    [] OTHER -> e
WrittenAt(table) == IF table = "ledger_movements" THEN "upsert" ELSE "save"
LockedAt(table) ==
  IF table = "ledger_movements" THEN {"validate", "commit"}
  ELSE {"entries", "upsert", "validate", "commit"}
HoldsRow(p, table, row) ==
  tx[p].pc \in LockedAt(table) /\ RowOf(table, tx[p].event) = row

\* p is about to write a row that the reset has deleted and not committed.
IsBlocked(p) ==
  \E table \in Tables : /\ tx[p].pc = WrittenAt(table)
                        /\ RowOf(table, tx[p].event) \in reset.deleted[table]

\* The COMMIT of the reset.
Delete(rows) ==
  /\ inbox' = inbox \ rows["processed_events"]
  /\ ledger' = ledger \ rows["ledger_entries"]
  /\ outdated' = outdated \ rows["ledger_entries"]
  /\ unrecorded' = unrecorded \ rows["ledger_entries"]
  /\ wallets' = [w \in Wallets |-> IF w \in rows["wallets"]
                   THEN [open |-> FALSE, balance |-> 0] ELSE wallets[w]]
  /\ transactions' = [k \in TransactionKeys |-> IF k \in rows["transactions"]
                        THEN [event |-> NoEvent, balanceAfter |-> 0]
                        ELSE transactions[k]]
  /\ movements' = [m \in MovementIds |->
                     IF m \in rows["ledger_movements"] THEN NoRow ELSE movements[m]]
  /\ replay' = [replay EXCEPT !.pc = "stream",
                  !.todo = {e \in Events : InScope(replay.scope, e.wallet)}]
  /\ UNCHANGED <<tx, runs, version>>

\* TRUNCATE waits for every transaction that has begun, and none begins while
\* it runs.
Truncate ==
  /\ replay.pc = "reset" /\ replay.scope = Everything
  /\ Quiet
  /\ Delete([table \in Tables |-> Selected(table, Everything)])
  /\ alone' = TRUE
  /\ UNCHANGED reset

\* Mutant of Deletes: the inbox is cleared first.
BugInboxFirst ==
  <<"processed_events", "ledger_entries", "ledger_movements", "transactions", "wallets">>
Deletes ==
  <<"ledger_entries", "ledger_movements", "transactions", "wallets", "processed_events">>

\* The n-th DELETE begins: it finds what is committed now.
Found(n) ==
  IF n \in DOMAIN Deletes THEN Selected(Deletes[n], replay.scope) ELSE {}

DeleteBegins ==
  /\ replay.pc = "reset" /\ replay.scope # Everything
  /\ replay' = [replay EXCEPT !.pc = "delete"]
  /\ reset' = [NoReset EXCEPT !.statement = 1, !.found = Found(1)]
  /\ alone' = Quiet
  /\ UNCHANGED <<projectionVars, runs, version, outdated, unrecorded>>

\* A DELETE ends with its rows locked, checked again, and the next begins; what
\* is locked nobody writes, so that it might have been locked before.
DeleteRows ==
  LET table == Deletes[reset.statement]
  IN  /\ replay.pc = "delete" /\ reset.statement \in DOMAIN Deletes
      /\ \A p \in Projectors, row \in reset.found : ~HoldsRow(p, table, row)
      /\ reset' = [statement |-> reset.statement + 1,
                   found     |-> Found(reset.statement + 1),
                   deleted   |-> [reset.deleted EXCEPT ![table] =
                                    reset.found \cap Selected(table, replay.scope)]]
      /\ UNCHANGED <<projectionVars, replay, runs, version, history>>

DeletesCommit ==
  /\ replay.pc = "delete" /\ reset.statement \notin DOMAIN Deletes
  /\ Delete(reset.deleted)
  /\ reset' = NoReset
  /\ UNCHANGED alone

\* StreamEvents sorts by aggregate, version and _id.
Precedes(d, e) ==
  \/ Rank[d.wallet] < Rank[e.wallet]
  \/ d.wallet = e.wallet /\ d.version < e.version
  \/ d.wallet = e.wallet /\ d.version = e.version /\ d.id < e.id

IsNext(e) == e \in replay.todo /\ \A d \in replay.todo : ~Precedes(d, e)

\* dispatch; applyIdempotent skips what the inbox has.
Dispatch(e) ==
  /\ replay.pc = "stream"
  /\ IsNext(e)
  /\ tx[Replayer].pc = "idle"
  /\ IF e \in inbox
     THEN /\ replay' = [replay EXCEPT !.todo = @ \ {e}]
          /\ UNCHANGED projectionVars
     ELSE Begin(Replayer, e) /\ UNCHANGED replay
  /\ UNCHANGED <<reset, runs, version, history>>

\* The handler goes on; its error ends the replay.
Handle ==
  /\ replay.pc = "stream"
  /\ Statement(Replayer)
  /\ replay' = IF tx'[Replayer].pc # "idle" THEN replay
               ELSE IF tx[Replayer].event \in inbox'
               THEN [replay EXCEPT !.todo = @ \ {tx[Replayer].event}]
               ELSE NoReplay
  /\ UNCHANGED <<reset, runs, version, history>>

Streamed ==
  /\ replay.pc = "stream"
  /\ replay.todo = {} /\ tx[Replayer].pc = "idle"
  /\ replay' = [replay EXCEPT !.pc = "mark"]
  /\ UNCHANGED <<projectionVars, reset, runs, version, history>>

\* Mutant of MarkReplayComplete: the scope is not looked at.
BugScopedMarks ==
  /\ replay.pc = "mark"
  /\ version' = "current"
  /\ replay' = [replay EXCEPT !.pc = "done"]
  /\ UNCHANGED <<projectionVars, reset, runs, history>>
\* MarkReplayComplete, after a full replay only.
MarkReplayComplete ==
  /\ replay.pc = "mark"
  /\ version' = IF replay.scope = Everything THEN "current" ELSE version
  /\ replay' = [replay EXCEPT !.pc = "done"]
  /\ UNCHANGED <<projectionVars, reset, runs, history>>

Exit ==
  /\ replay.pc = "done"
  /\ replay' = NoReplay
  /\ UNCHANGED <<projectionVars, reset, runs, version, history>>

\* Mutant of Fails: an event that cannot be projected is logged and skipped.
BugErrorSkipped ==
  /\ replay.pc \in {"reset", "delete", "stream", "mark"}
  /\ replay' = IF replay.pc # "stream" THEN NoReplay
               ELSE [replay EXCEPT !.todo = @ \ {tx[Replayer].event}]
  /\ tx' = [tx EXCEPT ![Replayer] = Closed] /\ reset' = NoReset
  /\ UNCHANGED <<tables, runs, version, history>>
\* A database error, or the process is killed, at any point of the run.
Fails ==
  /\ replay.pc \in {"reset", "delete", "stream", "mark"}
  /\ replay' = NoReplay
  /\ tx' = [tx EXCEPT ![Replayer] = Closed] /\ reset' = NoReset
  /\ UNCHANGED <<tables, runs, version, history>>

Replaying ==
  \/ \E scope \in Scopes : Start(scope)
  \/ Truncate
  \/ DeleteBegins
  \/ DeleteRows
  \/ DeletesCommit
  \/ \E e \in Events : Dispatch(e)
  \/ Handle
  \/ Streamed
  \/ MarkReplayComplete
  \/ Exit
  \/ Fails

\* The live service projects, in any order, between replays and during them.  A
\* statement that waits for the reset, and is waited for by it, is a deadlock,
\* which PostgreSQL ends with the rollback of either.
Live ==
  /\ version # "none"
  /\ \E p \in Projectors \ {Replayer} :
       Project(p) /\ (IsBlocked(p) => tx'[p].pc = "idle")
  /\ alone' = FALSE
  /\ UNCHANGED <<run, version, outdated, unrecorded>>

ReplayNext == CheckStartup \/ Upgrade \/ Replaying \/ Live

ReplaySpec == ReplayInit /\ [][ReplayNext]_replayVars
-----------------------------------------------------------------------------
BalanceOf(w) ==
  LET own == {e \in Events : e.wallet = w}
  IN  Total(CreditEntries(own)) - Total(Debits(own))

\* README.md: "Running replay multiple times is safe -- each run resets the
\* target scope": whatever live projection, earlier replays and failures left
\* behind, a replay that no live transaction overlaps leaves each wallet in
\* scope with its balance and the balance history in stream order.
ReplayRebuildsWallets ==
  replay.pc = "done" /\ alone => \A w \in Wallets : InScope(replay.scope, w) =>
    /\ wallets[w] = [open |-> TRUE, balance |-> BalanceOf(w)]
    /\ \A e \in Events : e.wallet = w =>
         transactions[TransactionKey(e)].balanceAfter =
           LET upto == {d \in Events : d.wallet = w /\ d.version <= e.version}
           IN  Total(CreditEntries(upto)) - Total(Debits(upto))

\* Likewise the movements of a full replay are those of the complete ledger.
FullReplayRebuildsMovements ==
  replay.pc = "done" /\ alone /\ replay.scope = Everything =>
    \A m \in MovementIds : movements[m] = BuildMovement(EntriesOf(Events, m))

\* Also while the live service projects into the tables being rebuilt, a replay
\* that reports success has left no stored event of its scope out: each is in
\* the inbox, which keeps it from being projected again, and in the ledger.
ReplayIsComplete ==
  replay.pc \in {"mark", "done"} =>
    {e \in Events : InScope(replay.scope, e.wallet)} \subseteq inbox \cap ledger

\* README.md: "After a successful full replay, wallet-query updates
\* projection_versions to the current code-defined projection version", and a
\* scoped one does not: a current version never covers rows an older projection
\* wrote, also when a replay fails halfway -- except for rows from before there
\* was a record, which the first start takes for current.
VersionIsEarned == version = "current" => outdated \subseteq unrecorded

-----------------------------------------------------------------------------
\* replay.go: "Aggregate-scoped replay: delete only rows belonging to that
\* aggregate."  A transfer's movement row belongs to both its wallets; it is
\* deleted with either, and comes back only if that wallet has its side of the
\* transfer in the event store.
ScopedReplayKeepsMovements ==
  replay.pc = "done" => \A e \in ledger :
    MovementOf(e) # NoMovement => movements[MovementOf(e)].status # "none"
=============================================================================
