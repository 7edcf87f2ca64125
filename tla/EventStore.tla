----------------------------- MODULE EventStore -----------------------------
(***************************************************************************)
(* The write side of the wallet service: command handlers that rehydrate a *)
(* wallet aggregate from MongoDB, decide, and append the decided events.   *)
(*                                                                         *)
(* Every HTTP request runs on a goroutine of its own, so several Workers   *)
(* execute these handlers at once.  Each worker step is one round trip to  *)
(* MongoDB; whatever the handler computes locally between two round trips  *)
(* belongs to the step before it.                                          *)
(*                                                                         *)
(* The fields of an aggregate (owner, currency, balance) are a function of *)
(* the events folded into it, so an aggregate, and a snapshot of one, is   *)
(* the version it carries and the set of events it reflects.               *)
(***************************************************************************)
EXTENDS Integers, FiniteSets, FiniteSetsExt

CONSTANTS
  Wallets,            \* aggregate identifiers (UUIDs drawn by the controller)
  Workers,            \* goroutines serving commands
  Currency,           \* the currency each wallet is created with
  Amounts,            \* amounts a client may send, legal or not
  SnapshotThreshold,  \* snapshotThreshold, 50 in the code
  MaxCommands         \* bound: commands received in a behaviour

ASSUME CurrencyAssumption == DOMAIN Currency = Wallets
ASSUME AmountsAssumption == Amounts \subseteq Int
ASSUME ThresholdAssumption == SnapshotThreshold \in Nat \ {0}

VARIABLES
  store,      \* documents of the eventStore collection
  snapshots,  \* documents of the snapshots collection, by wallet
  worker,     \* what each goroutine is doing
  nextId,     \* next ObjectID the MongoDB driver hands out
  issued,     \* commands received so far
  acked       \* commands answered with success

esVars == <<store, snapshots, worker, nextId, issued, acked>>
-----------------------------------------------------------------------------
(* Events and aggregates. *)

TransactionType ==
  {"OPENING_BALANCE", "CREDIT", "DEBIT", "TRANSFER_IN", "TRANSFER_OUT"}

Credits == {"OPENING_BALANCE", "CREDIT", "TRANSFER_IN"}

Signed(e) == IF e.type \in Credits THEN e.amount ELSE -e.amount

\* The balance the Apply... methods leave after these events, in any order.
Balance(events) == MapThenSumSet(Signed, events)

Stream(w) == {e \in store : e.aggregate = w}
\* Mutant of EventsAfter: $gte for $gt.
BugIncludesBase(w, v) == {e \in Stream(w) : e.version >= v}

EventsAfter(w, v) == {e \in Stream(w) : e.version > v}

\* e.Version of the last document of a stream sorted by version is v.
LastVersionIs(stream, v) ==
  /\ \E e \in stream : e.version = v
  /\ \A e \in stream : e.version <= v

NewAggregate == [version |-> -1, events |-> {}]
-----------------------------------------------------------------------------
(* Commands and the goroutines that serve them. *)

Kinds == {"create", "credit", "debit", "transfer"}
Sides == {"source", "destination"}

NoCommand == [n |-> 0, kind |-> "none"]

Idle == [pc   |-> "idle", cmd |-> NoCommand, side |-> "source", id |-> 0,
         agg  |-> [s \in Sides |-> NewAggregate]]

\* The wallet a command reads and writes on each side.
WalletOf(cmd, side) == IF side = "source" THEN cmd.wallet ELSE cmd.dest
Target(k) == WalletOf(worker[k].cmd, worker[k].side)
Aggregate(k) == worker[k].agg[worker[k].side]

EventType(cmd, side) ==
  CASE cmd.kind = "create"   -> "OPENING_BALANCE"
    [] cmd.kind = "credit"   -> "CREDIT"
    [] cmd.kind = "debit"    -> "DEBIT"
    [] cmd.kind = "transfer" -> IF side = "source" THEN "TRANSFER_OUT"
                                                   ELSE "TRANSFER_IN"

\* Mutants of Document: version++ forgotten, and the destination of a transfer
\* numbered on from the source.
BugNotIncremented(k) ==
  [id        |-> worker[k].id,
   aggregate |-> Target(k),
   version   |-> Aggregate(k).version,
   type      |-> EventType(worker[k].cmd, worker[k].side),
   amount    |-> worker[k].cmd.amount,
   command   |-> worker[k].cmd.n]
BugNumberedFromSource(k) ==
  [BugNotIncremented(k) EXCEPT !.version = worker[k].agg["source"].version + 1]

\* The document SaveEvents builds for the one uncommitted change.
Document(k) ==
  [id        |-> worker[k].id,
   aggregate |-> Target(k),
   version   |-> Aggregate(k).version + 1,
   type      |-> EventType(worker[k].cmd, worker[k].side),
   amount    |-> worker[k].cmd.amount,
   command   |-> worker[k].cmd.n]

CreditAccepted(cmd) == cmd.amount > 0
\* Mutant of DebitAccepted: the funds are not looked at.
BugOverdraft(cmd, source) == cmd.amount > 0
DebitAccepted(cmd, source) ==
  cmd.amount > 0 /\ cmd.amount <= Balance(source.events)

\* TransferTo: distinct wallets, one currency, then debit and credit.
TransferAccepted(cmd, source) ==
  /\ cmd.wallet # cmd.dest
  /\ Currency[cmd.wallet] = Currency[cmd.dest]
  /\ DebitAccepted(cmd, source)

Accepted(cmd, source) ==
  \/ cmd.kind = "credit"   /\ CreditAccepted(cmd)
  \/ cmd.kind = "debit"    /\ DebitAccepted(cmd, source)
  \/ cmd.kind = "transfer" /\ TransferAccepted(cmd, source)
-----------------------------------------------------------------------------
Init ==
  /\ store = {}
  /\ snapshots = [w \in Wallets |-> NewAggregate]
  /\ worker = [k \in Workers |-> Idle]
  /\ nextId = 1
  /\ issued = 0
  /\ acked = {}

Become(k, r) == worker' = [worker EXCEPT ![k] = r]

\* The handler returns an error: the client gets no success.
Fail(k) == Become(k, Idle) /\ UNCHANGED acked

\* The controller draws a UUID no wallet has had.
Fresh(w) ==
  /\ Stream(w) = {}
  /\ \A k \in Workers : worker[k].cmd.kind = "create" => worker[k].cmd.wallet # w

ReceiveCreate(k, w, amount) ==
  /\ worker[k].pc = "idle"
  /\ issued < MaxCommands
  /\ Fresh(w)
  /\ issued' = issued + 1
  /\ LET cmd == [n |-> issued + 1, kind |-> "create",
                 wallet |-> w, dest |-> w, amount |-> amount]
     IN  IF amount >= 0
         THEN Become(k, [Idle EXCEPT !.pc = "check", !.cmd = cmd])
         ELSE Become(k, Idle)
  /\ UNCHANGED <<store, snapshots, nextId, acked>>

Receive(k, kind, w, d, amount) ==
  /\ worker[k].pc = "idle"
  /\ issued < MaxCommands
  /\ kind # "transfer" => d = w
  /\ issued' = issued + 1
  /\ LET cmd == [n |-> issued + 1, kind |-> kind,
                 wallet |-> w, dest |-> d, amount |-> amount]
     IN  Become(k, [Idle EXCEPT !.pc = "loadSnapshot", !.cmd = cmd])
  /\ UNCHANGED <<store, snapshots, nextId, acked>>

\* Mutant of LoadSnapshot: the version is restored, the state is not.
BugStateNotRestored(k) ==
  /\ worker[k].pc = "loadSnapshot"
  /\ Become(k, [worker[k] EXCEPT !.pc = "loadEvents",
       !.agg[worker[k].side].version = snapshots[Target(k)].version])
  /\ UNCHANGED <<store, snapshots, nextId, issued, acked>>

\* GetByID, first read: the latest snapshot; none, or an error, means a full
\* replay from an empty aggregate.
LoadSnapshot(k) ==
  /\ worker[k].pc = "loadSnapshot"
  /\ \E base \in {snapshots[Target(k)], NewAggregate} :
       Become(k, [worker[k] EXCEPT !.pc = "loadEvents",
                                   !.agg[worker[k].side] = base])
  /\ UNCHANGED <<store, snapshots, nextId, issued, acked>>

\* Mutant of AfterLoad: the destination of a transfer is saved first.
BugDestinationFirst(r) ==
  IF r.cmd.kind = "transfer" /\ r.side = "source"
  THEN [r EXCEPT !.pc = "loadSnapshot", !.side = "destination"]
  ELSE IF Accepted(r.cmd, r.agg["source"])
  THEN [r EXCEPT !.pc = "check"]
  ELSE Idle

\* What the handler does once an aggregate is loaded: load the destination of
\* a transfer, or take the decision on what it has loaded.
AfterLoad(r) ==
  IF r.cmd.kind = "transfer" /\ r.side = "source"
  THEN [r EXCEPT !.pc = "loadSnapshot", !.side = "destination"]
  ELSE IF Accepted(r.cmd, r.agg["source"])
  THEN [r EXCEPT !.pc = "check", !.side = "source"]
  ELSE Idle

\* GetByID, second read: the events after the base version, folded in.
LoadEvents(k) ==
  /\ worker[k].pc = "loadEvents"
  /\ LET base == Aggregate(k)
         new  == EventsAfter(Target(k), base.version)
     IN \/ /\ \/ base.version >= 0 /\ new = {} /\ Become(k, AfterLoad(worker[k]))
              \/ \E v \in {e.version : e \in new} :
                   /\ LastVersionIs(new, v)
                   /\ Become(k, AfterLoad([worker[k] EXCEPT
                        !.agg[worker[k].side] =
                          [version |-> v, events |-> base.events \cup new]]))
           /\ UNCHANGED acked
        \/ Fail(k)              \* ErrWalletNotFound, or MongoDB fails
  /\ UNCHANGED <<store, snapshots, nextId, issued>>

\* The test of SaveEvents: the stream still ends at the loaded version.
VersionMatches(k) ==
  LET expected == Aggregate(k).version
  IN  expected # -1 => LastVersionIs(Stream(Target(k)), expected)

Check(k) ==
  /\ worker[k].pc = "check"
  /\ \/ /\ VersionMatches(k)
        /\ Become(k, [worker[k] EXCEPT !.pc = "stamp"])
        /\ UNCHANGED acked
     \/ Fail(k)                 \* ErrConcurrency, or MongoDB fails
  /\ UNCHANGED <<store, snapshots, nextId, issued>>

\* InsertOne: the driver draws the ObjectID before it sends the document.
Stamp(k) ==
  /\ worker[k].pc = "stamp"
  /\ Become(k, [worker[k] EXCEPT !.pc = "insert", !.id = nextId])
  /\ nextId' = nextId + 1
  /\ UNCHANGED <<store, snapshots, issued, acked>>

\* After Save(aggregate) returns: the other half of a transfer, or success.
Continue(k, r) ==
  IF r.cmd.kind = "transfer" /\ r.side = "source"
  THEN /\ Become(k, [r EXCEPT !.pc = "check", !.side = "destination", !.id = 0])
       /\ UNCHANGED acked
  ELSE /\ Become(k, Idle)
       /\ acked' = acked \cup {r.cmd}

SnapshotDue(version) == (version + 1) % SnapshotThreshold = 0

InsertPersisted(k) ==
  LET doc   == Document(k)
      saved == [version |-> doc.version,
                events  |-> Aggregate(k).events \cup {doc}]
      r     == [worker[k] EXCEPT !.agg[worker[k].side] = saved]
  IN  /\ worker[k].pc = "insert"
      /\ store' = store \cup {doc}
      /\ IF SnapshotDue(doc.version)
         THEN Become(k, [r EXCEPT !.pc = "snapshot"]) /\ UNCHANGED acked
         ELSE Continue(k, r)
      /\ UNCHANGED <<snapshots, nextId, issued>>

\* Mutants of InsertFailed: the error is dropped, and it is noticed only after
\* the snapshot was taken.
BugErrorDropped(k) ==
  /\ worker[k].pc = "insert"
  /\ Continue(k, worker[k])
  /\ UNCHANGED <<store, snapshots, nextId, issued>>
BugSnapshotAnyway(k) ==
  LET doc   == Document(k)
      saved == [version |-> doc.version,
                events  |-> Aggregate(k).events \cup {doc}]
  IN  /\ worker[k].pc = "insert"
      /\ SnapshotDue(doc.version)
      /\ Become(k, [worker[k] EXCEPT !.pc = "snapshot",
                                     !.agg[worker[k].side] = saved])
      /\ UNCHANGED <<store, snapshots, nextId, issued, acked>>

\* InsertOne reports an error; after a timeout the write may still be there.
InsertFailed(k) ==
  /\ worker[k].pc = "insert"
  /\ \/ UNCHANGED store
     \/ store' = store \cup {Document(k)}
  /\ Fail(k)
  /\ UNCHANGED <<snapshots, nextId, issued>>

\* SaveSnapshotIfDue: an unconditional upsert whose error is only logged.
SaveSnapshot(k) ==
  /\ worker[k].pc = "snapshot"
  /\ \/ snapshots' = [snapshots EXCEPT ![Target(k)] = Aggregate(k)]
     \/ UNCHANGED snapshots
  /\ Continue(k, worker[k])
  /\ UNCHANGED <<store, nextId, issued>>

\* The process dies with every request it was serving.
Crash ==
  /\ \E k \in Workers : worker[k].pc # "idle"
  /\ worker' = [k \in Workers |-> Idle]
  /\ UNCHANGED <<store, snapshots, nextId, issued, acked>>

Step(k) ==
  \/ LoadSnapshot(k)
  \/ LoadEvents(k)
  \/ Check(k)
  \/ Stamp(k)
  \/ InsertPersisted(k)
  \/ InsertFailed(k)
  \/ SaveSnapshot(k)

Handle ==
  \/ \E k \in Workers, w \in Wallets, amount \in Amounts :
       \/ ReceiveCreate(k, w, amount)
       \/ \E d \in Wallets, kind \in Kinds \ {"create"} :
            Receive(k, kind, w, d, amount)
  \/ \E k \in Workers : Step(k)

Next == Handle \/ Crash

Spec == Init /\ [][Next]_esVars
-----------------------------------------------------------------------------
(* What the write side keeps, whatever the interleaving. *)

Commands ==
  [n : Nat, kind : Kinds, wallet : Wallets, dest : Wallets, amount : Amounts]
Docs ==
  [id : Nat, aggregate : Wallets, version : Nat, type : TransactionType,
   amount : Amounts, command : Nat]
Aggregates == [version : Nat \cup {-1}, events : SUBSET Docs]
PCs == {"idle", "loadSnapshot", "loadEvents", "check", "stamp", "insert",
        "snapshot"}

\* Every variable has the shape the Go types give it.
TypeOK ==
  /\ store \subseteq Docs
  /\ snapshots \in [Wallets -> Aggregates]
  /\ worker \in [Workers -> [pc : PCs, cmd : Commands \cup {NoCommand},
                             side : Sides, id : Nat,
                             agg : [Sides -> Aggregates]]]
  /\ nextId \in Nat
  /\ issued \in Nat
  /\ acked \subseteq Commands

\* A stream has every version from 0 to its last one.  SaveEvents numbers an
\* event from a version it saw at the end of the stream, and streams never
\* shrink, so no race can leave a hole that a replay would skip over.
NoGaps ==
  \A e \in store : \A v \in 0 .. (e.version - 1) :
    \E d \in Stream(e.aggregate) : d.version = v

\* TransferFunds saves the source before the destination: money arriving from
\* a transfer has left the source, by the same command and amount, even when
\* handlers race, MongoDB fails or the process dies between the two saves.
TransfersAreFunded ==
  \A e \in store : e.type = "TRANSFER_IN" =>
    \E d \in store : /\ d.type = "TRANSFER_OUT"
                     /\ d.command = e.command
                     /\ d.amount = e.amount
                     /\ d.aggregate # e.aggregate

\* The event a command writes for a side.
Wrote(cmd, side) ==
  \E e \in Stream(WalletOf(cmd, side)) :
    /\ e.command = cmd.n
    /\ e.type = EventType(cmd, side)
    /\ e.amount = cmd.amount

\* A success answered by a handler is never lost: both halves of a transfer,
\* and the one event of any other command, are in the store.
AckedIsDurable ==
  \A cmd \in acked :
    /\ Wrote(cmd, "source")
    /\ cmd.kind = "transfer" => Wrote(cmd, "destination")

Prefix(w, v) == {e \in Stream(w) : e.version <= v}

\* No two events of w carry the same version, up to version v.
Unforked(w, v) ==
  \A d, e \in Prefix(w, v) : d.version = e.version => d = e

\* What an aggregate in memory or in a snapshot must be: the fold of the
\* stream up to its version.
Exact(w, agg) == agg.events = Prefix(w, agg.version)

\* Where no optimistic-concurrency race was lost, a snapshot stands for the
\* full replay up to its version, although snapshots are upserted
\* unconditionally and may go back to an older version; so does every aggregate
\* a handler works on, whichever snapshot and events its two separate reads of
\* MongoDB returned.
RehydrationIsExact ==
  /\ \A w \in Wallets :
       Unforked(w, snapshots[w].version) => Exact(w, snapshots[w])
  /\ \A k \in Workers : worker[k].pc # "idle" => \A side \in Sides :
       LET w   == WalletOf(worker[k].cmd, side)
           agg == worker[k].agg[side]
       IN  Unforked(w, agg.version) => Exact(w, agg)

\* A replay on top of a snapshot, or of an aggregate restored from one, never
\* folds an event in a second time (a credit counted twice), forks or not.
NothingFoldedTwice ==
  /\ \A w \in Wallets :
       EventsAfter(w, snapshots[w].version) \cap snapshots[w].events = {}
  /\ \A k \in Workers : worker[k].pc = "loadEvents" =>
       EventsAfter(Target(k), Aggregate(k).version) \cap Aggregate(k).events = {}

\* A snapshot is never ahead of its stream: GetByID takes its version as the
\* aggregate's when no later event exists, and SaveEvents would then refuse
\* every later command on the wallet.
NoWalletWedged ==
  \A w \in Wallets : snapshots[w].version >= 0 =>
    \E e \in Stream(w) : e.version = snapshots[w].version

\* As long as a stream has no fork, no prefix of it is overdrawn: the debit
\* check made on the loaded aggregate still holds when the event is inserted.
NoOverdraftUnlessForked ==
  \A w \in Wallets : \A e \in Stream(w) :
    Unforked(w, e.version) => Balance(Prefix(w, e.version)) >= 0

-----------------------------------------------------------------------------
(* What the documentation says, and the code does not keep. *)

\* README.md: "the final aggregate must always match what a full replay would
\* have produced."  An aggregate GetByID would load now, from the snapshot.
LoadedNow(w) ==
  snapshots[w].events \cup EventsAfter(w, snapshots[w].version)
SnapshotMatchesReplay ==
  \A w \in Wallets : snapshots[w].version >= 0 => LoadedNow(w) = Stream(w)
=============================================================================
