# A verification of go-cqrs-es in TLA+

go-cqrs-es is a wallet system split in two services. `wallet-cmd` turns commands into
events in MongoDB and publishes them to Kafka through an outbox; `wallet-query` projects
them into PostgreSQL and answers queries. This directory models the parts where the two
services, their databases and their failures interact, checks small instances with TLC, and
proves with TLAPS, for every instance, the safety properties of the write service, the
consumer group, the projection, the ledger checker, replay, the event codec across
deployments and the listings. Paths below are relative to `src/`.

## 1. The system

| Component | State | Operations | Talks to |
|---|---|---|---|
| Command handling (`wallet-cmd/application`, `domain`, `api`) | one aggregate per request, in memory | create, credit, debit, transfer | event store, by calls |
| Event store and snapshots (`wallet-cmd/infrastructure/event_*`) | `eventStore`, `snapshots` (MongoDB) | load, check, insert, snapshot | MongoDB |
| Outbox (`outbox_publisher.go`, `kafka_producer.go`) | `publishStatus`, `attempts` of each document | drain: find, produce, mark, record a failure | MongoDB, Kafka |
| Consumer and dead letters (`kafka_consumer.go`, `dead_letter_*`) | offsets and assignment of the consumer group, `dead_letter_events` | fetch, dispatch, retry, dead-letter, commit; reprocess | Kafka, projection |
| Projection (`event_handler.go`) | `processed_events`, `wallets`, `transactions`, `ledger_entries`, `ledger_movements` (PostgreSQL) | project one event, in one transaction | PostgreSQL |
| Ledger checker (`ledger_checker.go`) | none; three reads | report | PostgreSQL |
| Replay and versions (`replay.go`, `projection_version.go`) | `projection_versions` | reset and stream, all or one aggregate | MongoDB, projection |
| Event codec (`cqrs-core/events`) | a registry per build; the schema version on documents, envelopes and dead letters | register, decode, upcast, stamp | all of the above |
| Query API (`wallet-query/api`, `query_handler.go`, `repository.go`) | none; the client's walk through a listing | listings page by page, lookups by id | PostgreSQL |
| Configuration, metrics, frontend | none that matters here | | |

What makes each correct, and what makes that hard:

- **Event store.** Versions of a wallet have no gap, acknowledged commands are durable, no
  snapshot disagrees with the events it stands for, money leaves a wallet before it arrives
  in another. Hard: the version check and the insert are two database calls, a transfer is
  two saves, an insert may time out after it happened, snapshots are written afterwards.
- **Outbox.** What is marked was sent, in the order of each wallet, and everything is sent in
  the end. Hard: produce and mark are two calls; a batch is stale as soon as it is read.
- **Consumer.** No message is committed before it is projected or dead-lettered; nothing
  blocks a partition; a resolved dead letter has been projected. Hard: redelivery after every
  kind of crash, members that go on with a partition they have lost, and operators
  reprocessing what the consumers are handling.
- **Projection.** Balances, transactions, entries and movements agree. Hard: READ COMMITTED
  transactions of several callers, and a transfer's movement row built by both its sides.
- **Checker.** It reports real inconsistencies only. Hard: its reads are not a snapshot.
- **Replay.** A completed replay gives the read model of the event store. Hard: it may stop
  anywhere, the live service may go on, and a scoped one shares movement rows with wallets
  it does not touch.
- **Codec.** Every build hands an event to its handlers in the shape of its own structs,
  whoever wrote, sent or dead-lettered it. Hard: the two services are upgraded and rolled
  back separately, JSON and BSON keep the version in different places, and a build that
  cannot decode must not lose the event.
- **Listings.** A walk over all pages returns every row once. Hard: OFFSET counts rows anew
  for each page, while projection, reprocessing and replay insert, move and remove them.

`PROJECT.json` lists the hazards line by line with the properties that would catch them.

## 2. The modules

    EventStore --+
                 +-- WriteSide            Projection --+-- LedgerChecker
    Outbox ------+                                     +-- Replay
         +-- OutboxFeed -- EventFeed
                                          Codec ---------- SchemaEvolution
    Consumer                              Listing

Each has an `MC...` module with the small instances (`OutboxFeed` and `Outbox` share
`MCOutbox`). The proof modules follow the same lines: `EventStoreProofs`, which
`WriteSideProofs` extends; `OutboxProofs`; `ConsumerProofs`; `ReadModelProofs` (the
projection, the checker, replay, and one after the other); `SchemaEvolutionProofs`; and
`ListingProofs`. `SetSums` has what they need of sums over finite sets. Definitions named
`Bug...` are mutants: plausible mistakes in the definition that follows them, each of which
breaks the property it is paired with in `PROJECT.json`.

**EventStore** (`command_handler.go`, `wallet_aggregate.go`, `event_store*.go`,
`event_sourcing_handler.go`). `worker[k]` is a request goroutine: its position, its command
and the aggregates it has loaded. One action per MongoDB round trip: `LoadSnapshot`,
`LoadEvents`, `Check`, the driver drawing the ObjectID (`Stamp`), `InsertPersisted` or
`InsertFailed` (which may leave the document), `SaveSnapshot`; the decisions of the domain
(`Accepted`) are taken when the last aggregate is loaded. An aggregate is the version and the
set of events folded into it, so that `Balance` follows and two aggregates that saw different
events differ. Owners, times, references and float rounding are abstracted.

**Outbox** (`outbox_publisher.go`). `Insert` stands for the writers: one at a time per
wallet, next version, a larger `_id` than any of that wallet (WriteSide replaces this by the
real writers). The publisher is `Find`, `Produce` or `ProduceFails` (the broker may have the
message), `Record`, `Mark` or `MarkFails` (the mark may be there), `Restart`. **EventFeed** is
what readers of the topic are promised; **OutboxFeed** maps the topic, read per key without
repetitions of the last event, to it.

**WriteSide** (`wallet-cmd/main.go`) puts both over one `store`: every insertion comes from a
command goroutine, and a restart kills goroutines and publisher together.

**Consumer** (`kafka_consumer.go`, `dead_letter_*.go`, `event_envelope.go`). `Log` is the
fixed content of the topic, duplicates and undecodable messages included. `reader[c]` is the
consume loop of group member c. A projection is a transaction of two steps: `Begin`, up to its
read of the wallet's row, and `Apply`, which saves the row and commits; so that transactions
of members and operators overlap as READ COMMITTED lets them, and lose updates. It may be
rolled back, or be committed with the answer lost. A run that fails ends in a new
reader, and the group shares out the partitions anew (`Reassign`), each to be read from its
committed offset; a member's session may also expire by itself (`Rebalance`). A member that
still holds a message of a partition it has lost goes on with it, and its commit may be
accepted, which can take an offset back, or refused. `operator[o]` is one HTTP or
command-line reprocessing run: load the row, dispatch it, update its status.

**Projection** (`event_handler.go`). The same projection, opened up: one action per SQL
statement that another transaction can interfere with, row locks held to the end. Reads do
not lock and do not wait. Tables hold committed rows; what an open transaction has written
follows from its event and position. `MovementOf` hashes the fields `transferMovementID`
does, so transfers with equal metadata collide. `BuildMovement` is the aggregation of entries
to a movement row and its status.

**LedgerChecker** adds the three reads and the comparisons. Its history variable `serial`
says that no two transactions have been open at a time, which separates what concurrency
breaks from what the algorithms get right.

**Replay** adds `--replay`: the reset, events in stream order through the same projection
steps, the version record, failures anywhere; and the life of
`projection_versions` across deployments, rows of builds that kept no record included
(`unrecorded`). The replay is one of the projectors, and the live service may go on beside
it; `alone` records whether it did. A full reset is one TRUNCATE, which waits for every open
transaction. A scoped one is five DELETEs in the code's order, `reset` being where it is: each
finds the rows committed when it begins (`Found`), waits only for transactions that have
written one of those (`HoldsRow`), and keeps what it deletes locked until the reset commits
(`IsBlocked`). What live transactions insert, or commit between two DELETEs, it does not see.

**Codec** (`cqrs-core/events/codec.go`, `registry.go`) is the codec as operators: a build is
its current version and the versions it has upcasters from, a payload the version it was
written in and the upcasters run on it since. `DecodeJSONEvent` and `DecodeBSONEvent` differ
in one point that matters: `BaseEventData` is embedded without an inline tag, so in BSON its
schema version is in a subdocument and not where `upcastDocument` reads and writes it.

**SchemaEvolution** has the two services (de)coding with their own builds: `Save`,
`FindPendingOutbox`, `Publish`, `Consume`, `Reprocess`, and deployments in any order, back
and forth. One document that does not decode blocks its whole batch, and its wallet's
commands. Failures are cut down to the two that let two builds decode one message.

**Listing** (`queries.go`, the controllers, `query_handler.go`, the repositories) has one
client walking the pages of one listing: normalisation, LIMIT pageSize+1 and OFFSET, the
extra row behind `hasMore`, 204 for an empty page. `listing` says whether ORDER BY has a
second column and what else may happen to rows between two pages; `ambiguous` records that a
page was cut out of rows that ORDER BY leaves tied. A row may change any number of times
during a walk; `changed` counts the changes by kind and keeps the rows that arrived or moved.

## 3. Runs

Bounds are in the cfg files. All runs together take about ten minutes.

| Run | Instance | Shows |
|---|---|---|
| `EventStore_race` | 2 wallets, 2 goroutines, 4 commands, amounts -1 and 1, snapshot every 2 events (851k states) | What holds although the check is not atomic: no version gaps; the source of a transfer pays before, or without, the destination receiving; acknowledged events stay; loads are exact and never fold an event twice, unless the wallet has been forked; no wallet becomes unwritable; an overdraft needs a fork |
| `EventStore_SnapshotMatchesReplay` (violation) | 1 wallet | Two requests write the same version, and a snapshot at it hides the sibling |
| `Outbox_feed` | 3 wallets, 2 partitions, 3 events, batches of 2, 2 faults (57k) | Marked is sent, order per wallet, no event skipped; everything is published; the outbox implements EventFeed, fairness included |
| `WriteSide` | 2 open wallets in 2 partitions, 2 goroutines, 2 transfers, 1 fault (167k) | A wallet's topic order is its stream order unless requests raced on it; both events of an acknowledged transfer reach the topic |
| `Consumer` | 2 members, 2 partitions, 5 messages, 2 attempts, 1 reprocessing run, 2 faults (90k) | Nothing committed is lost; resolved means projected; a balance counts no event twice, and every one in the inbox unless transactions on the wallet overlapped; every message is handled in the end; retried dead letters that can be projected are resolved |
| `LedgerChecker_concurrent` | 2 projectors, two colliding transfers and a forked version in any order, the checker at any time (403k) | COMPLETED transfers have both sides; movement rows lag but never run ahead; transactions cover the ledger; no cycle of waiting transactions; no false missing row; and, as long as transactions come one at a time, rows are those a rebuild derives and the checker fails for exactly the transfers not shown as COMPLETED |
| `LedgerChecker_BalancesMatchLedger` (violation) | 2 projectors | A lost balance update |
| `Replay_safety` | 2 replays and a live projector, a transfer and half of a colliding one back, rows of an older build (2.8M) | A replay that succeeds leaves every event of its scope in inbox and ledger, whatever the live service commits, between the DELETEs too; if it had the tables to itself, wallets, histories and movements are what the events say, whatever was there before; the version record is current only if no recorded older rows remain |
| `Replay_ScopedReplayKeepsMovements` (violation) | a transfer whose second save failed | A scoped replay loses the other wallet's movement row |
| `SchemaEvolution` | builds at versions 1, 2, 3 and 3 with a gap in its upcasters, 2 wallets, a legacy event and a new one, 2 deployments besides the final upgrades, 1 fault | Handlers and readers of the store get every event in the shape of their build, unless it was upcast on its way to the topic; all events are projected once both services are upgraded |
| `SchemaEvolution_ReplaySeesWhatLiveSees` (violation) | the same | The publisher's upcast is repeated by the consumer |
| `Listing` | 4 rows, 2 values of the sort column, 3 kinds of listing, page sizes 2 and 3, 3 changes of the same row or of several (340k) | A walk misses at most one unmoved row each time a row leaves or moves, repeats at most one each time one arrives or moves, and is exact otherwise; an announced page is there unless rows left |

*Why the bounds are enough.* Every hazard of this code is a race of two actors on one row or
a failure between two steps: two goroutines, members, projectors or services and two wallets
give all of them, and four commands are enough for a create, two racing writes, and a command
after the fork that loads across a snapshot. `WriteSide` starts where both wallets are open
and their first events published, a state the service reaches, and spends its commands on two
transfers, each of which both saves on two wallets and may race the other. A batch of two
with three events makes batches full, partial and stale. In `Consumer` one partition has a
wallet's creation, credit and debit, so that a dead-lettered creation fails its successors,
and the other what cannot be decoded or read at all. Three schema versions make a chain of
two upcasters, which can run in part, twice or with a gap. Two replays (`MaxRuns`) let a
scoped and a full one follow each other, after failures too; one of them beside one live
transaction passes through every position of the DELETEs. Four rows make a walk of two or
three pages, and three changes take one row to the front, back and to the front again.
Faults are bounded by `MaxFaults`, which also bounds rebalances and repetitions; two are enough for a failure during the recovery from one. Amounts only matter by sign and by
comparison with a balance.

*Deadlock* is not checked: with commands, events or messages used up the services rest. That
no transactions wait for each other is the invariant `NoDeadlock`.

## 4. Fairness

- `Outbox!FairSpec`, `WriteSide!PublisherTicks`: weak fairness of the publisher's next step. The ticker
  restarts `drain` every interval for as long as the process lives, and no step waits for
  another goroutine. Writers, faults and restarts are not fair, and faults are finite.
- `Consumer!FairSpec`: weak fairness of each member's consume loop, which `run` restarts
  after every error. `OperatedSpec` adds operators who finish what they began and keep
  retrying dead letters that are pending; strong fairness there, as an operator busy with one
  row is not free for another.
- `SchemaEvolution!FairSpec`: the publisher ticks and the consumer loops as above; both
  services end up with the newest build, and pending dead letters are retried.

## 5. Proofs

Each proof module has an inductive invariant, a lemma per action that the action keeps it,
and theorems that what the runs check follows. All the invariants were checked by TLC on
the instances of section 3 before they were proved. The theorems hold for any wallets,
amounts, requests, members, projectors, logs, bounds and numbers of faults that satisfy the
assumptions of section 7.

**`EventStoreProofs`**: every property of `EventStore_race`. None of them is inductive,
since each depends on what goroutines are about to insert. `IInv` states what holds of any
set of documents (no gaps, `Dense`; transfers funded, `FundedIn`; acknowledgements durable,
`DurableIn`; no overdrawn prefix of an unforked stream, `Solvent`) and relates to it what is
kept outside of the store: every snapshot and every aggregate in the hands of a goroutine was
`LoadedFrom` the store, at a version that exists, with events that exist, and with all of
them unless the stream is forked. A request on its way to an insertion is `Decided`: its
command was accepted on the aggregate it holds. `NoOverdraft` is where these meet: if the new
event leaves its stream unforked, then the aggregate's version is still the last one, the
aggregate is the whole stream, and the balance the debit was checked against is the
stream's. If the stream is forked by the insertion, the property says nothing of it any
more, which is the race `EventStore_SnapshotMatchesReplay` shows.

**`OutboxProofs`**: `TypeCorrect`, `NothingLost` (`PublishedIsInTopic`), `OrderPreserved`
(`PerAggregateOrder`) and `NothingSkipped` (`NoEventSkipped`), with one writer per wallet.
Order in the topic depends on what the publisher may send next, and so on how old its batch
is. `IInv` says so in six parts: `_id` and version order a wallet's documents alike
(`IdsInOrder`); only stored documents are marked or sent (`MarkedIsStored`,
`TopicIsStored`); the batch, with what is marked, is closed under predecessors
(`BatchIsOldest`), and stays so because a failure drops the rest of the batch; a message's
predecessors are marked (`PredecessorsPublished`); and between Produce and MarkPublished the
broker has the head (`HeadIsProduced`).
`OutboxImplementsFeed` is the safety part of `ImplementsFeed`: `Spec => Feed!Spec`, step by
step. `FeedInv` adds that the versions of a stream are 0, 1, 2, ... (`StreamsAreDense`) and
that a reader has got them up to the highest in the partition (`ReaderIsInStep`). A message
is then his last version once more, a stutter, or the next: not an earlier one, by
`PerAggregateOrder`, nor a later one, since its predecessors are marked and so in the topic.
What a reader has got is a recursive function of the log; `FedOfAppend` says what one more
message adds to it, after `Solvable` and `Unique` have shown by a least counterexample that
the function exists and depends on the log alone.

**`WriteSideProofs`**: `OrderOnUnforkedStreams` (`OrderUnlessForked`), the same with the real
writers, and `ProcessImplementsEventStore`: every behaviour of the process, with its
publisher and its restarts, is one of EventStore, so that all of the above holds of it. Here
`IdsInOrder` is not given: goroutines draw ObjectIDs before they insert, in any order.
`StampInv` shows that on a stream that ends up unforked ids follow versions, because a
goroutine that inserts version v+1 drew its id after it had loaded version v (`Drawn`). The
`_id` order of a wallet matters only as long as its stream is unforked, so that `BatchInv`
and `TopicInv` are implications; `UnforkedBefore` carries them over an insertion.

**`ConsumerProofs`**: `ConsumerTypeCorrect`, `NoMessageIsLost` (`CommittedIsHandled`),
`ResolvedMeansProjected` (`ResolvedIsProjected`) and `BalancesCountOnce`
(`BalanceCountsInboxOnce`). `CommittedIsHandled` needs to know what may be committed next, and
by whom. `IInv` has three prefixes: everything up to a committed offset is handled
(`CommittedPrefix`); so is everything before the message a loop has in hand, whether or not
the loop still owns the partition, and the message itself once the loop is about to commit it
(`InHandPrefix`); and what the present owner has read is handled or, for the last message, in
its hands (`PositionPrefix`). That is why a commit by a member that has lost the partition
does no harm: it commits a handled prefix, if a shorter one. `ResolvedIsProjected` holds
because the operator's row and its message have the same key (`OperatorsHoldRows`,
`RowsHavePlaces`), though the row may have been replaced in between, and a key stands for one
event id (`KeyFacts`).
`BalanceInv` says of each open transaction what `Apply` will make of the balance it has read:
that of events which were in the inbox when it began, and of its own, which is not there yet
(no two have one id, as the second waits). If another transaction on the wallet commits in
between, its event is missing from the balance written, but none is counted twice; if none
has overlapped, nothing is missing. A wallet has a row exactly if its creation is in the
inbox; it is always counted, because a wallet is created once and a credit or a debit needs
the row.

**`ReadModelProofs`**, of the projection: `TypeCorrectness`, `CompletedTransfers` (`CompletedIsBalanced`),
`MovementLag` (`MovementsLagAtMost`), `TransactionCoverage` (`TransactionsCoverLedger`) and
`DeadlockFreedom` (`NoDeadlock`), for any number of concurrent projectors. A stored movement
row may be stale, but it is always `BuiltFrom` some non-empty part of the entries it has now,
and the row that a transaction is about to write is so from its own entry and the committed
ones (`OwnRowIsBuilt`); entries are never removed, so that staleness does no harm.
`NoDeadlock` follows from which locks each statement finds held (`LocksAreOrdered`): in a
group that waits, nobody holds a movement row, so everybody waits for a wallet row, and
nobody who waits for one holds one.

**`ReadModelProofs`**, of the checker: `NoFalseAlarm` (`NoFalseMissingMovement`), `SerialDerivation`
(`SerialMatchesLedger`), `StatusAgreement` (`StatusMatchesChecker`) and `CheckerOnlyReads`: a
projection with a checker beside it implements the projection. The checker reads entries
before movements, and a row exists as long as its entries do (`CheckerIsBehind`); the other
order is the mutant that breaks it. As long as transactions come one at a time, the tables
are those derived from the entries and the open transaction is `Prepared` to keep them so.

**`ReadModelProofs`**, of replay: `ReplayCompleteness`, `VersionHonesty`, `WalletsAreRebuilt` and
`MovementsAreRebuilt`, the four properties of `Replay_safety`. What the replay has passed is
in the inbox, whoever projected it (`PassedIsProjected`), and what is in the inbox has its
entry in the ledger (`TablesAgree`). The second is what a scoped reset could break, as its
DELETEs see different moments: it does not, because the inbox is the last to be cleared.
An event whose entry the first DELETE has deleted is, if it is in the inbox, found by the
last and deleted there too (`InboxFollows`); if it is not, nobody can commit it as long as
the deleted entry is locked (`DeletedAreUnwritten`, kept by `IsBlocked`); and an event that is
committed after the first DELETE began keeps its entry, whatever becomes of its inbox row.
With the inbox cleared first, the mutant, such an event loses its entry and keeps its inbox
row. A replay that is alone keeps the tables of its scope derived from the entries projected
so far, whatever they held before the reset (`DeletesAlone`, `RebuiltAlone`), because events
come in stream order (`StreamedAlone`): the balance a transaction row shows counts the entries
up to its version. `RebuiltReport` puts the two together: `--check-ledger` after a full replay
that was alone reports exactly the movements that the events leave incomplete, whatever the
tables held before.

**`SchemaEvolutionProofs`**: `EvolutionTypeCorrect` and `ShapesAreExact` (`ShapeIsExact`), for
any builds, gaps in their upcasters included. What a handler gets depends on what the
publisher held when its process was replaced, what was sent twice, and what a row recorded.
`IInv` follows an event through these places: a document is as it was written (`Fresh`); what
the publisher has in hand, and each message, has run the steps up to the version a consumer
will take it for, unless it was stamped and upcast on the way (`BatchIsSendable`,
`TopicIsSendable`); a dead letter is a message of the topic and stands for the same version
(`RowsAreMessages`). `UpcastingIsExact` is the fact about the codec that these rest on.

**`ListingProofs`**: `ListingTypes` (`TypeOK`), `ExactWalks` (`WalkIsExactUpToChanges`) and
`AnnouncedPages` (`AnnouncedPageIsThere`), for any number of rows, page size and number of
changes, of one row or of many. A walk is followed by its `Boundary`, the number of rows it has behind it, and each
row by its `Rank`, the number of rows before it: the rows of a page are those whose rank is
between two boundaries (if none are tied), and the boundary passes them as it counts them, so
that a page alters neither the rows `Missed` behind the boundary nor those `Repeated`. A
change moves the rank of every other row by one at most, and two rows cannot have one rank,
so that at most one row crosses the boundary each way: it is missed if it comes to be behind
the boundary without having been returned, and repeated if it was returned and comes ahead
again. `Repeated` counts the repetition then, before the page that returns the row;
`WalkIsExactUpToChanges` is not inductive because it only counts it afterwards. A row that
arrives makes no row missed, and one that leaves makes none repeated, which is what the
bounds of `WalkIsExactUpToChanges` say.

**`SetSums`**: balances and totals are sums over finite sets, defined by recursive functions
that CHOOSE the next element. That the choice does not matter is an induction on the size of
the set, which is done on a least counterexample, as the induction theorems of the library
take an operator. `SumRemove` and `SumAdd` are what the other modules use.

*Model-checked only.* Liveness, which needs fairness (`EventuallyPublished`,
`AckedIsPublished`, `EverythingIsHandled`, `DeadLettersAreRepaired`,
`EverythingIsProjected`, and the fairness of EventFeed, which `ImplementsFeed` adds to what
`OutboxImplementsFeed` proves). Every invariant that a passing run checks is proved.

## 6. Where the code and its documents disagree

Four runs are expected to fail; `PROJECT.json` quotes the sentences.

- The version check does not prevent conflicting writes, and snapshots then differ from a
  full replay. A unique index on (aggregateIdentifier, version) would prevent both. The same
  race takes the topic out of a wallet's stream order, which is the exception in
  `OrderUnlessForked`.
- Concurrent projection, which needs only a dead letter being reprocessed beside the live
  consumer, or a member that has lost its partition, loses balance updates. It also leaves
  finished transfers PENDING, which is why `SerialMatchesLedger` and `StatusMatchesChecker`
  speak of transactions that come one at a time. A locking read of the wallet and of the
  movement would prevent both.
- A scoped replay deletes movement rows that are not only its own.
- An event that waits in the outbox while `wallet-cmd` is upgraded is upcast by the publisher
  and again by the consumer, as its own version stays the old one; replay upcasts it once.
  Latent as long as every event type is at version 1.

## 7. Assumptions, and what is not modelled

- The assumptions on constants, all named in the modules, state what the code establishes
  elsewhere. Of the projection's events: identifiers are unique, a wallet has one opening
  (`OpeningsAssumption`: NewWallet draws a new identifier), a transfer has two different
  wallets (`TransfersAssumption`: TransferTo refuses others), and a wallet to replay has a
  stream (`StreamsAssumption`). Of the consumer's log: an event id stands for one message
  (`IdsAssumption`: the outbox sends a document as it is stored, perhaps twice), and a wallet
  has one creation (`CreationsAssumption`). A table has finitely many rows
  (`RowsAssumption`). The rest are types and positive bounds.
- A MongoDB or PostgreSQL call takes effect at one instant; PostgreSQL runs at its default
  READ COMMITTED, and gives tied rows in any order. ObjectIDs grow with the time they are
  drawn, across restarts too.
- The broker keeps the last offset committed; it may accept or refuse the commit of a member
  that has lost the partition.
- `wallet-cmd` is one process, and one replay runs at a time, possibly beside the live
  service of the same build. A live service of an older build beside a replay of a newer one
  is not modelled. A transaction that waits for a row which the reset has deleted, and is
  waited for by it, is rolled back by PostgreSQL's deadlock detection, or the reset is.
- In `Consumer` the members and the reprocessing runs are different callers
  (`CallersAssumption`); which of a transaction's statements fails or waits is left to
  `Projection`.
- The BSON driver's default for an embedded struct without an inline tag is a subdocument.
- What an upcaster does to the fields is left out; the repository registers none.
- Amounts are integers; float rounding and the checker's tolerance are left out. So is its
  global debit/credit issue (`ledger_checker.go:242`): without external money flow all entries
  are of transfers, and totals that differ then differ in some movement, which is reported.
- Not modelled: the lookups by id and the validation of filters (one SELECT each, no state of
  their own), overflow of `(page-1)*pageSize`, configuration, metrics, HTTP details, and the
  frontend, none of which has state the services depend on.

## 8. Plan

Done, the core of the system first: EventStore; Outbox with EventFeed; WriteSide; Consumer;
Projection; LedgerChecker; Replay; Codec with SchemaEvolution; Listing; then the proofs of
the safety properties of all of them, and of the two refinements. Next:

1. `Pipeline`: WriteSide, Consumer and Projection end to end, against an abstract account
   specification (every acknowledged command is in every balance in the end).
