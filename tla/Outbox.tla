------------------------------- MODULE Outbox -------------------------------
(***************************************************************************)
(* The transactional outbox: the OutboxPublisher goroutine of wallet-cmd,  *)
(* which polls the eventStore collection for PENDING documents, writes     *)
(* them to Kafka and flips them to PUBLISHED.                              *)
(*                                                                         *)
(* Two remote calls per document, Produce and MarkPublished, each of which *)
(* may fail with or without having taken effect; the process may die       *)
(* between any two calls.  Faults are counted and bounded.                 *)
(*                                                                         *)
(* The publisher's actions use of a document its id, aggregate and version *)
(* only.  Insert is the environment when the publisher is checked alone:   *)
(* one writer at a time per wallet, so ids follow versions within a wallet *)
(* and arrive in that order, while between wallets a document with a low   *)
(* id may arrive late.  WriteSide replaces it with the command handlers.   *)
(***************************************************************************)
EXTENDS Integers, Sequences, FiniteSets, SequencesExt

CONSTANTS
  Wallets,
  Partitions,    \* of the WalletEvents topic
  PartitionOf,   \* kafka.Hash of the message key, the aggregate id
  BatchSize,     \* batchSize, 100 in the code
  MaxEvents,     \* bound: documents inserted
  MaxFaults      \* bound: failed calls and crashes

ASSUME PartitionAssumption == PartitionOf \in [Wallets -> Partitions]
ASSUME BatchAssumption == BatchSize \in Nat \ {0}
ASSUME BoundsAssumption == MaxEvents \in Nat /\ MaxFaults \in Nat

VARIABLES
  store,      \* documents of the eventStore collection
  published,  \* ids of the documents whose publishStatus is PUBLISHED
  attempts,   \* the attempts field of each document
  topic,      \* the log of each partition
  publisher,  \* the drain loop: its position and the rest of its batch
  faults      \* failures so far

outboxVars == <<published, attempts, topic, publisher, faults>>
vars == <<store, published, attempts, topic, publisher, faults>>

Ids == 1 .. MaxEvents
Docs == [id : Ids, aggregate : Wallets, version : 0 .. MaxEvents]

Waiting == [pc |-> "waiting", batch |-> {}]
-----------------------------------------------------------------------------
OutboxInit ==
  /\ published = {}
  /\ attempts = [i \in Ids |-> 0]
  /\ topic = [p \in Partitions |-> <<>>]
  /\ publisher = Waiting
  /\ faults = 0

Init == store = {} /\ OutboxInit

Insert(w, id) ==
  LET stream == {d \in store : d.aggregate = w}
  IN  /\ \A d \in store : d.id # id
      /\ \A d \in stream : d.id < id
      /\ \E v \in 0 .. MaxEvents :
           /\ \A u \in 0 .. MaxEvents :
                (u < v) <=> (\E d \in stream : d.version = u)
           /\ store' = store \cup {[id |-> id, aggregate |-> w, version |-> v]}
      /\ UNCHANGED outboxVars

\* Mutant of Pending: an entry that failed once is not selected again.
BugNeverRetried == {d \in store : d.id \notin published /\ attempts[d.id] = 0}

Pending == {d \in store : d.id \notin published}

\* The first BatchSize documents of Pending sorted by _id.
IsOldestPending(batch) ==
  /\ Cardinality(batch) <= BatchSize
  /\ Cardinality(batch) = BatchSize \/ batch = Pending
  /\ \A d \in batch, e \in Pending \ batch : d.id < e.id

\* FindPendingOutbox, on a tick or after a full batch; an empty result and an
\* error leave the publisher waiting for the next tick.
Find ==
  /\ publisher.pc = "waiting"
  /\ \E batch \in SUBSET Pending :
       /\ batch # {}
       /\ IsOldestPending(batch)
       /\ publisher' = [pc |-> "produce", batch |-> batch]
  /\ UNCHANGED <<store, published, attempts, topic, faults>>

\* Mutant of IsHead: the batch is worked through from its end.
BugNewestFirst(d) ==
  d \in publisher.batch /\ \A e \in publisher.batch : e.id <= d.id

\* The entry the batch loop is at: batches are sorted by _id.
IsHead(d) == d \in publisher.batch /\ \A e \in publisher.batch : d.id <= e.id

Send(d) ==
  topic' = [topic EXCEPT ![PartitionOf[d.aggregate]] = Append(@, d)]

Produce ==
  /\ publisher.pc = "produce"
  /\ \E d \in publisher.batch : IsHead(d) /\ Send(d)
  /\ publisher' = [publisher EXCEPT !.pc = "mark"]
  /\ UNCHANGED <<store, published, attempts, faults>>

Fault == faults < MaxFaults /\ faults' = faults + 1

\* Mutant of ProduceFails: its error is ignored.
BugErrorIgnored ==
  /\ publisher.pc = "produce"
  /\ Fault
  /\ publisher' = [publisher EXCEPT !.pc = "mark"]
  /\ UNCHANGED <<store, published, attempts, topic>>

\* WriteMessages reports an error, after a timeout even if the broker wrote.
ProduceFails ==
  /\ publisher.pc = "produce"
  /\ Fault
  /\ \/ UNCHANGED topic
     \/ \E d \in publisher.batch : IsHead(d) /\ Send(d)
  /\ publisher' = [publisher EXCEPT !.pc = "record"]
  /\ UNCHANGED <<store, published, attempts>>

\* Mutants of Record: the loop goes on with the next entry, and the attempts
\* are counted down.
BugContinuesBatch ==
  /\ publisher.pc = "record"
  /\ \E d \in publisher.batch :
       /\ IsHead(d)
       /\ publisher' = IF publisher.batch = {d} THEN Waiting
                       ELSE [pc |-> "produce", batch |-> publisher.batch \ {d}]
  /\ UNCHANGED <<store, published, attempts, topic, faults>>
BugCountsDown ==
  /\ publisher.pc = "record"
  /\ \E d \in publisher.batch :
       IsHead(d) /\ attempts' = [attempts EXCEPT ![d.id] = @ - 1]
  /\ publisher' = Waiting
  /\ UNCHANGED <<store, published, topic, faults>>

\* RecordPublishFailure, whose own error is only logged; drain returns.
Record ==
  /\ publisher.pc = "record"
  /\ \/ UNCHANGED attempts
     \/ \E d \in publisher.batch :
          IsHead(d) /\ attempts' = [attempts EXCEPT ![d.id] = @ + 1]
  /\ publisher' = Waiting
  /\ UNCHANGED <<store, published, topic, faults>>

\* MarkPublished, then the next entry of the batch.
Mark ==
  /\ publisher.pc = "mark"
  /\ \E d \in publisher.batch :
       /\ IsHead(d)
       /\ published' = published \cup {d.id}
       /\ publisher' = IF publisher.batch = {d} THEN Waiting
                       ELSE [pc |-> "produce", batch |-> publisher.batch \ {d}]
  /\ UNCHANGED <<store, attempts, topic, faults>>

\* MarkPublished reports an error, with or without effect; drain returns.
MarkFails ==
  /\ publisher.pc = "mark"
  /\ Fault
  /\ \/ UNCHANGED published
     \/ \E d \in publisher.batch : IsHead(d) /\ published' = published \cup {d.id}
  /\ publisher' = Waiting
  /\ UNCHANGED <<store, attempts, topic>>

\* The process dies and is started again.
Restart ==
  /\ publisher.pc # "waiting"
  /\ Fault
  /\ publisher' = Waiting
  /\ UNCHANGED <<store, published, attempts, topic>>

Publish ==
  \/ Find
  \/ Produce
  \/ ProduceFails
  \/ Record
  \/ Mark
  \/ MarkFails

OutboxNext == Publish \/ Restart

Next ==
  \/ \E w \in Wallets, id \in Ids : Insert(w, id)
  \/ OutboxNext

Spec == Init /\ [][Next]_vars

\* The ticker fires for as long as the process lives, and it is restarted.
FairSpec == Spec /\ WF_vars(Publish)
-----------------------------------------------------------------------------
\* Every variable has the shape the Go types give it.
TypeOK ==
  /\ store \subseteq Docs
  /\ published \subseteq Ids
  /\ attempts \in [Ids -> Nat]
  /\ topic \in [Partitions -> Seq(Docs)]
  /\ publisher \in [pc : {"waiting", "produce", "mark", "record"},
                    batch : SUBSET Docs]
  /\ faults \in 0 .. MaxFaults

InTopic(d) ==
  \E i \in 1 .. Len(topic[PartitionOf[d.aggregate]]) :
    topic[PartitionOf[d.aggregate]][i] = d

\* An entry is PUBLISHED only once Kafka has it: whatever fails or dies
\* between Produce and MarkPublished, no event is taken for sent and lost.
PublishedIsInTopic == \A d \in store : d.id \in published => InTopic(d)

\* README.md: "because the publisher aborts a batch at the first failure,
\* per-aggregate ordering is preserved": along a partition, the versions of a
\* wallet never go down, redeliveries included.
PerAggregateOrder ==
  \A p \in Partitions : \A i, j \in 1 .. Len(topic[p]) :
    /\ i < j
    /\ topic[p][i].aggregate = topic[p][j].aggregate
    => topic[p][i].version <= topic[p][j].version

\* No event reaches a reader before all its predecessors in the stream.
NoEventSkipped ==
  \A p \in Partitions : \A j \in 1 .. Len(topic[p]) : \A d \in store :
    /\ d.aggregate = topic[p][j].aggregate
    /\ d.version < topic[p][j].version
    => \E i \in 1 .. j : topic[p][i] = d

\* README.md: "the events are durable and guaranteed to be published
\* eventually": once MongoDB and Kafka stop failing, every stored event is.
EventuallyPublished ==
  \A id \in Ids : (\E d \in store : d.id = id) ~> (id \in published)
=============================================================================
