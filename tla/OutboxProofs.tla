---------------------------- MODULE OutboxProofs ----------------------------
(***************************************************************************)
(* Proofs, for any number of wallets, partitions, events and faults, of    *)
(* the safety properties of Outbox, and that it implements EventFeed.      *)
(***************************************************************************)
EXTENDS OutboxFeed, FiniteSetTheorems, WellFoundedInduction, TLAPS

(* The inductive invariant. *)

\* _id identifies a document, and within a wallet it follows the version.
IdsInOrder ==
  /\ \A d, e \in store : d.id = e.id => d = e
  /\ \A d, e \in store : d.aggregate = e.aggregate =>
       (d.id < e.id <=> d.version < e.version)

\* Only stored documents are marked.
MarkedIsStored == \A i \in published : \E d \in store : d.id = i

\* What the publisher holds is stored, not yet marked, and together with what
\* is marked it contains every predecessor of each of its documents.
BatchIsOldest ==
  /\ publisher.batch \subseteq store
  /\ \A b \in publisher.batch : b.id \notin published
  /\ \A b \in publisher.batch, d \in store :
       d.aggregate = b.aggregate /\ d.id < b.id =>
         d.id \in published \/ d \in publisher.batch

\* Messages are stored documents, on the partition their key hashes to.
TopicIsStored ==
  \A p \in Partitions : \A i \in 1 .. Len(topic[p]) :
    /\ topic[p][i] \in store
    /\ PartitionOf[topic[p][i].aggregate] = p

\* What precedes a message in its wallet has been marked.
PredecessorsPublished ==
  \A p \in Partitions : \A i \in 1 .. Len(topic[p]) : \A d \in store :
    d.aggregate = topic[p][i].aggregate /\ d.id < topic[p][i].id =>
      d.id \in published

\* Between Produce and MarkPublished the broker has the head of the batch.
HeadIsProduced ==
  publisher.pc = "mark" => \A d \in publisher.batch : IsHead(d) => InTopic(d)

IInv ==
  /\ TypeOK
  /\ IdsInOrder
  /\ MarkedIsStored
  /\ BatchIsOldest
  /\ TopicIsStored
  /\ PredecessorsPublished
  /\ HeadIsProduced
  /\ PublishedIsInTopic
  /\ PerAggregateOrder

USE PartitionAssumption, BatchAssumption, BoundsAssumption
-----------------------------------------------------------------------------
(* The invariant holds initially and is kept by each action. *)

\* With an empty collection and topic the invariant holds.
LEMMA InitInvariant == Init => IInv
BY DEF Init, OutboxInit, IInv, TypeOK, IdsInOrder, MarkedIsStored, BatchIsOldest,
       TopicIsStored, PredecessorsPublished, HeadIsProduced, PublishedIsInTopic,
       PerAggregateOrder, Waiting, Ids, Docs

\* A new event comes last in its wallet, behind all that is in the batch or
\* sent.
LEMMA InsertInvariant ==
  ASSUME IInv, NEW w \in Wallets, NEW id \in Ids, Insert(w, id)
  PROVE  IInv'
<1>1. PICK v \in 0 .. MaxEvents :
        /\ \A u \in 0 .. MaxEvents :
             (u < v) <=> (\E d \in {d \in store : d.aggregate = w} : d.version = u)
        /\ store' = store \cup {[id |-> id, aggregate |-> w, version |-> v]}
  BY DEF Insert
<1> DEFINE new == [id |-> id, aggregate |-> w, version |-> v]
<1>2. /\ new \in Docs
      /\ new.aggregate = w
      /\ new.id \in Int /\ new.version \in Int
      /\ store' = store \cup {new}
  BY <1>1 DEF Docs, Ids
<1>3. \A d \in store : d.id \in Int /\ d.version \in Int
  BY DEF IInv, TypeOK, Docs, Ids
<1>4. /\ \A d \in store : d.id # new.id
      /\ \A d \in store : d.aggregate = w => d.id < new.id /\ d.version < new.version
  <2>1. \A d \in store : d.id # id /\ (d.aggregate = w => d.id < id)
    BY DEF Insert
  <2>2. \A d \in store : d.aggregate = w => d.version < v
    BY <1>1 DEF IInv, TypeOK, Docs
  <2> QED BY <2>1, <2>2
<1>5. UNCHANGED outboxVars
  BY DEF Insert
<1> HIDE DEF new
<1>6. TypeOK'
  BY <1>2, <1>5 DEF IInv, TypeOK, outboxVars
<1>7. IdsInOrder'
  BY <1>2, <1>3, <1>4 DEF IInv, IdsInOrder
<1>8. MarkedIsStored'
  BY <1>2, <1>5 DEF IInv, MarkedIsStored, outboxVars
<1>9. BatchIsOldest'
  BY <1>2, <1>3, <1>4, <1>5 DEF IInv, BatchIsOldest, outboxVars
<1>10. TopicIsStored'
  BY <1>2, <1>5 DEF IInv, TopicIsStored, outboxVars
<1>11. PredecessorsPublished'
  BY <1>2, <1>3, <1>4, <1>5 DEF IInv, PredecessorsPublished, TopicIsStored, outboxVars
<1>12. HeadIsProduced'
  BY <1>5 DEF IInv, HeadIsProduced, IsHead, InTopic, outboxVars
<1>13. PublishedIsInTopic'
  BY <1>2, <1>4, <1>5
     DEF IInv, MarkedIsStored, PublishedIsInTopic, InTopic, outboxVars
<1>14. PerAggregateOrder'
  BY <1>5 DEF IInv, PerAggregateOrder, outboxVars
<1> QED
  BY <1>6, <1>7, <1>8, <1>9, <1>10, <1>11, <1>12, <1>13, <1>14 DEF IInv

\* Sending the head of the batch, whatever becomes of the publisher.
LEMMA SendInvariant ==
  ASSUME IInv, NEW h \in publisher.batch, IsHead(h), Send(h),
         UNCHANGED <<store, published>>
  PROVE  /\ topic' \in [Partitions -> Seq(Docs)]
         /\ TopicIsStored'
         /\ PredecessorsPublished'
         /\ PublishedIsInTopic'
         /\ PerAggregateOrder'
         /\ InTopic(h)'
<1> DEFINE q == PartitionOf[h.aggregate]
<1>1. /\ h \in store /\ h \in Docs /\ q \in Partitions
      /\ topic \in [Partitions -> Seq(Docs)]
      /\ topic[q] \in Seq(Docs)
  BY DEF IInv, BatchIsOldest, TypeOK, Docs
<1>2. /\ topic' \in [Partitions -> Seq(Docs)]
      /\ topic'[q] = Append(topic[q], h)
      /\ \A p \in Partitions : p # q => topic'[p] = topic[p]
  BY <1>1 DEF Send
<1>3. /\ Len(topic'[q]) = Len(topic[q]) + 1
      /\ \A i \in 1 .. Len(topic[q]) : topic'[q][i] = topic[q][i]
      /\ topic'[q][Len(topic[q]) + 1] = h
  BY <1>1, <1>2
<1>4. \A p \in Partitions : \A i \in 1 .. Len(topic'[p]) :
        \/ i \in 1 .. Len(topic[p]) /\ topic'[p][i] = topic[p][i]
        \/ p = q /\ i = Len(topic[q]) + 1 /\ topic'[p][i] = h
  <2> SUFFICES ASSUME NEW p \in Partitions, NEW i \in 1 .. Len(topic'[p])
               PROVE  \/ i \in 1 .. Len(topic[p]) /\ topic'[p][i] = topic[p][i]
                      \/ p = q /\ i = Len(topic[q]) + 1 /\ topic'[p][i] = h
    OBVIOUS
  <2>1. CASE p = q
    <3>1. Len(topic[q]) \in Nat
      BY <1>1
    <3>2. i \in 1 .. Len(topic[q]) \/ i = Len(topic[q]) + 1
      BY <3>1, <2>1, <1>3
    <3> QED
      BY <3>2, <2>1, <1>3
  <2>2. CASE p # q
    BY <2>2, <1>2
  <2> QED
    BY <2>1, <2>2
<1>5. TopicIsStored'
  BY <1>1, <1>4 DEF IInv, TopicIsStored
<1>6. \A d \in store : d.aggregate = h.aggregate /\ d.id < h.id => d.id \in published
  <2>1. \A d \in store : d.id \in Int
    BY DEF IInv, TypeOK, Docs, Ids
  <2>2. \A d \in publisher.batch : ~(d.id < h.id)
    BY <2>1, <1>1 DEF IsHead, IInv, BatchIsOldest
  <2> QED
    BY <2>2 DEF IInv, BatchIsOldest
<1>7. PredecessorsPublished'
  BY <1>4, <1>6 DEF IInv, PredecessorsPublished
<1>8. \A d \in store : InTopic(d) => InTopic(d)'
  <2> SUFFICES ASSUME NEW d \in store,
                      NEW i \in 1 .. Len(topic[PartitionOf[d.aggregate]]),
                      topic[PartitionOf[d.aggregate]][i] = d
               PROVE  InTopic(d)'
    BY <1>2 DEF InTopic
  <2> DEFINE p == PartitionOf[d.aggregate]
  <2>1. p \in Partitions
    BY DEF IInv, TypeOK, Docs
  <2>2. i \in 1 .. Len(topic'[p]) /\ topic'[p][i] = d
    <3>1. CASE p = q
      <4>1. Len(topic[q]) \in Nat
        BY <1>1
      <4> QED
        BY <4>1, <3>1, <1>3
    <3>2. CASE p # q
      BY <3>2, <2>1, <1>2
    <3> QED
      BY <3>1, <3>2
  <2> QED
    BY <2>2 DEF InTopic
<1>9. PublishedIsInTopic'
  BY <1>8 DEF IInv, PublishedIsInTopic
<1>10. \A i \in 1 .. Len(topic[q]) :
         topic[q][i].aggregate = h.aggregate => topic[q][i].version <= h.version
  <2> SUFFICES ASSUME NEW i \in 1 .. Len(topic[q]),
                      topic[q][i].aggregate = h.aggregate,
                      h.version < topic[q][i].version
               PROVE  FALSE
    BY <1>1 DEF IInv, TopicIsStored, TypeOK, Docs
  <2>1. h.id < topic[q][i].id
    BY <1>1 DEF IInv, TopicIsStored, IdsInOrder
  <2>2. h.id \in published
    BY <2>1, <1>1 DEF IInv, PredecessorsPublished
  <2> QED
    BY <2>2 DEF IInv, BatchIsOldest
<1>11. h.version <= h.version
  BY <1>1 DEF Docs
<1>12. PerAggregateOrder'
  <2> SUFFICES ASSUME NEW p \in Partitions,
                      NEW i \in 1 .. Len(topic'[p]), NEW j \in 1 .. Len(topic'[p]),
                      i < j, topic'[p][i].aggregate = topic'[p][j].aggregate
               PROVE  topic'[p][i].version <= topic'[p][j].version
    BY DEF PerAggregateOrder
  <2>1. CASE j \in 1 .. Len(topic[p])
    <3>1. i \in 1 .. Len(topic[p])
      BY <2>1
    <3>2. topic'[p][i] = topic[p][i] /\ topic'[p][j] = topic[p][j]
      BY <3>1, <2>1, <1>2, <1>3
    <3> QED
      BY <3>1, <3>2, <2>1 DEF IInv, PerAggregateOrder
  <2>2. CASE p = q /\ j = Len(topic[q]) + 1 /\ topic'[p][j] = h
    <3>1. i \in 1 .. Len(topic[q]) /\ topic'[q][i] = topic[q][i]
      BY <2>2, <1>1, <1>3
    <3> QED
      BY <3>1, <2>2, <1>10
  <2> QED
    BY <2>1, <2>2, <1>4
<1>13. InTopic(h)'
  BY <1>1, <1>2, <1>3 DEF InTopic
<1> QED
  BY <1>2, <1>5, <1>7, <1>9, <1>12, <1>13

\* A batch of the oldest pending entries leaves no predecessor behind.
LEMMA FindInvariant == IInv /\ Find => IInv'
<1> SUFFICES ASSUME IInv, Find PROVE IInv'
  OBVIOUS
<1>1. PICK batch \in SUBSET Pending :
        IsOldestPending(batch) /\ publisher' = [pc |-> "produce", batch |-> batch]
  BY DEF Find
<1>2. UNCHANGED <<store, published, attempts, topic, faults>>
  BY DEF Find
<1>3. publisher'.pc = "produce" /\ publisher'.batch = batch
  BY <1>1
<1>4. TypeOK'
  BY <1>1, <1>2 DEF IInv, TypeOK, Pending
<1>5. BatchIsOldest'
  <2> SUFFICES ASSUME NEW b \in batch, NEW d \in store,
                      d.aggregate = b.aggregate, d.id < b.id,
                      d.id \notin published
               PROVE  d \in batch
    BY <1>1, <1>2, <1>3 DEF BatchIsOldest, Pending
  <2>1. CASE d \notin batch
    <3>1. b.id < d.id
      BY <2>1, <1>1 DEF IsOldestPending, Pending
    <3> QED
      BY <3>1, <1>1 DEF IInv, TypeOK, Docs, Ids, Pending
  <2> QED BY <2>1
<1>6. HeadIsProduced'
  BY <1>3 DEF HeadIsProduced
<1> QED
  BY <1>2, <1>4, <1>5, <1>6
     DEF IInv, IdsInOrder, MarkedIsStored, TopicIsStored, PredecessorsPublished,
         PublishedIsInTopic, InTopic, PerAggregateOrder

\* The broker gets the head, whose predecessors have been marked.
LEMMA ProduceInvariant == IInv /\ Produce => IInv'
<1> SUFFICES ASSUME IInv, Produce PROVE IInv'
  OBVIOUS
<1>1. PICK h \in publisher.batch : IsHead(h) /\ Send(h)
  BY DEF Produce
<1>2. /\ publisher' = [publisher EXCEPT !.pc = "mark"]
      /\ UNCHANGED <<store, published, attempts, faults>>
  BY DEF Produce
<1>3. publisher'.batch = publisher.batch
  BY <1>2 DEF IInv, TypeOK
<1>4. /\ topic' \in [Partitions -> Seq(Docs)]
      /\ TopicIsStored' /\ PredecessorsPublished'
      /\ PublishedIsInTopic' /\ PerAggregateOrder' /\ InTopic(h)'
  BY <1>1, <1>2, SendInvariant
<1>5. TypeOK'
  BY <1>2, <1>4 DEF IInv, TypeOK
<1>6. \A d \in publisher.batch : IsHead(d) => d = h
  BY <1>1 DEF IsHead, IInv, BatchIsOldest, IdsInOrder, TypeOK, Docs, Ids
<1>7. HeadIsProduced'
  BY <1>3, <1>4, <1>6 DEF HeadIsProduced, IsHead
<1> QED
  BY <1>2, <1>3, <1>4, <1>5, <1>7 DEF IInv, IdsInOrder, MarkedIsStored, BatchIsOldest

\* So it does when an error is reported, if it gets it at all.
LEMMA ProduceFailsInvariant == IInv /\ ProduceFails => IInv'
<1> SUFFICES ASSUME IInv, ProduceFails PROVE IInv'
  OBVIOUS
<1>1. /\ publisher' = [publisher EXCEPT !.pc = "record"]
      /\ UNCHANGED <<store, published, attempts>>
      /\ faults < MaxFaults /\ faults' = faults + 1
  BY DEF ProduceFails, Fault
<1>2. publisher'.batch = publisher.batch /\ publisher'.pc = "record"
  BY <1>1 DEF IInv, TypeOK
<1>3. /\ topic' \in [Partitions -> Seq(Docs)]
      /\ TopicIsStored' /\ PredecessorsPublished'
      /\ PublishedIsInTopic' /\ PerAggregateOrder'
  <2>1. CASE UNCHANGED topic
    BY <2>1, <1>1 DEF IInv, TypeOK, TopicIsStored, PredecessorsPublished,
                      PublishedIsInTopic, InTopic, PerAggregateOrder
  <2>2. CASE \E d \in publisher.batch : IsHead(d) /\ Send(d)
    BY <2>2, <1>1, SendInvariant
  <2> QED
    BY <2>1, <2>2 DEF ProduceFails
<1>4. TypeOK'
  <2>1. faults' \in 0 .. MaxFaults
    BY <1>1 DEF IInv, TypeOK
  <2> QED
    BY <2>1, <1>1, <1>3 DEF IInv, TypeOK
<1> QED
  BY <1>1, <1>2, <1>3, <1>4
     DEF IInv, IdsInOrder, MarkedIsStored, BatchIsOldest, HeadIsProduced

\* The steps that only give the batch back: nothing else but counters changes.
LEMMA BackToWaiting ==
  ASSUME IInv, publisher' = Waiting, UNCHANGED <<store, published, topic>>,
         attempts' \in [Ids -> Nat], faults' \in 0 .. MaxFaults
  PROVE  IInv'
<1>1. publisher'.pc = "waiting" /\ publisher'.batch = {}
  BY DEF Waiting
<1>2. TypeOK'
  BY DEF IInv, TypeOK, Waiting
<1> QED
  BY <1>1, <1>2
     DEF IInv, IdsInOrder, MarkedIsStored, BatchIsOldest, TopicIsStored,
         PredecessorsPublished, HeadIsProduced, PublishedIsInTopic, InTopic,
         PerAggregateOrder

\* Counting a failed attempt gives the batch back.
LEMMA RecordInvariant == IInv /\ Record => IInv'
<1> SUFFICES ASSUME IInv, Record PROVE IInv'
  OBVIOUS
<1>1. publisher' = Waiting /\ UNCHANGED <<store, published, topic, faults>>
  BY DEF Record
<1>2. attempts' \in [Ids -> Nat]
  <2>1. \A d \in publisher.batch : d.id \in Ids
    BY DEF IInv, TypeOK, Docs
  <2> QED
    BY <2>1 DEF Record, IInv, TypeOK
<1>3. faults' \in 0 .. MaxFaults
  BY <1>1 DEF IInv, TypeOK
<1> QED
  BY <1>1, <1>2, <1>3, BackToWaiting

\* A restart forgets the batch and nothing else.
LEMMA RestartInvariant == IInv /\ Restart => IInv'
<1> SUFFICES ASSUME IInv, Restart PROVE IInv'
  OBVIOUS
<1>1. publisher' = Waiting /\ UNCHANGED <<store, published, attempts, topic>>
  BY DEF Restart
<1>2. faults' \in 0 .. MaxFaults
  BY DEF Restart, Fault, IInv, TypeOK
<1>3. attempts' \in [Ids -> Nat]
  BY <1>1 DEF IInv, TypeOK
<1> QED
  BY <1>1, <1>2, <1>3, BackToWaiting

\* Marking the head of the batch, when the broker has it.
LEMMA MarkHead ==
  ASSUME IInv, publisher.pc = "mark", NEW h \in publisher.batch, IsHead(h),
         published' = published \cup {h.id},
         UNCHANGED <<store, attempts, topic>>, faults' \in 0 .. MaxFaults,
         \/ publisher' = Waiting
         \/ publisher' = [pc |-> "produce", batch |-> publisher.batch \ {h}]
  PROVE  IInv'
<1>1. /\ h \in store /\ h.id \in Ids
      /\ InTopic(h)
  BY DEF IInv, BatchIsOldest, HeadIsProduced, TypeOK, Docs
<1>2. /\ publisher'.batch \subseteq publisher.batch \ {h}
      /\ publisher'.pc \in {"waiting", "produce"}
      /\ publisher'.batch = {} \/ publisher'.batch = publisher.batch \ {h}
  BY DEF Waiting
<1>3. TypeOK'
  BY <1>1 DEF IInv, TypeOK, Waiting
<1>4. MarkedIsStored'
  BY <1>1 DEF IInv, MarkedIsStored
<1>5. BatchIsOldest'
  BY <1>1, <1>2 DEF IInv, BatchIsOldest, IdsInOrder
<1>6. HeadIsProduced'
  BY <1>2 DEF HeadIsProduced
<1>7. PublishedIsInTopic'
  BY <1>1 DEF IInv, PublishedIsInTopic, IdsInOrder, InTopic
<1>8. IdsInOrder' /\ TopicIsStored' /\ PredecessorsPublished' /\ PerAggregateOrder'
  BY DEF IInv, IdsInOrder, TopicIsStored, PredecessorsPublished, PerAggregateOrder
<1> QED
  BY <1>3, <1>4, <1>5, <1>6, <1>7, <1>8 DEF IInv

\* What is marked is in the topic.
LEMMA MarkInvariant == IInv /\ Mark => IInv'
<1> SUFFICES ASSUME IInv, Mark PROVE IInv'
  OBVIOUS
<1>1. faults' \in 0 .. MaxFaults
  BY DEF Mark, IInv, TypeOK
<1> QED
  BY <1>1, MarkHead DEF Mark

\* So it is when an error is reported, if it is marked at all.
LEMMA MarkFailsInvariant == IInv /\ MarkFails => IInv'
<1> SUFFICES ASSUME IInv, MarkFails PROVE IInv'
  OBVIOUS
<1>1. /\ publisher.pc = "mark" /\ publisher' = Waiting
      /\ UNCHANGED <<store, attempts, topic>>
  BY DEF MarkFails
<1>2. faults' \in 0 .. MaxFaults
  BY DEF MarkFails, Fault, IInv, TypeOK
<1>3. CASE UNCHANGED published
  <2>1. attempts' \in [Ids -> Nat]
    BY <1>1 DEF IInv, TypeOK
  <2> QED
    BY <1>1, <1>2, <1>3, <2>1, BackToWaiting
<1>4. CASE \E d \in publisher.batch : IsHead(d) /\ published' = published \cup {d.id}
  BY <1>1, <1>2, <1>4, MarkHead
<1> QED
  BY <1>3, <1>4 DEF MarkFails

\* Every step of writers and publisher keeps the invariant.
LEMMA NextInvariant == IInv /\ [Next]_vars => IInv'
<1> SUFFICES ASSUME IInv, [Next]_vars PROVE IInv'
  OBVIOUS
<1>1. ASSUME NEW w \in Wallets, NEW id \in Ids, Insert(w, id) PROVE IInv'
  BY <1>1, InsertInvariant
<1>2. CASE UNCHANGED vars
  BY <1>2 DEF vars, IInv, TypeOK, IdsInOrder, MarkedIsStored, BatchIsOldest,
              TopicIsStored, PredecessorsPublished, HeadIsProduced, IsHead,
              PublishedIsInTopic, InTopic, PerAggregateOrder
<1> QED
  BY <1>1, <1>2, FindInvariant, ProduceInvariant, ProduceFailsInvariant,
     RecordInvariant, MarkInvariant, MarkFailsInvariant, RestartInvariant
     DEF Next, OutboxNext, Publish

-----------------------------------------------------------------------------
(* The theorems. *)

\* The invariant holds in every reachable state.
THEOREM Invariance == Spec => []IInv
<1>1. Init => IInv
  BY InitInvariant
<1>2. IInv /\ [Next]_vars => IInv'
  BY NextInvariant
<1> QED
  BY <1>1, <1>2, PTL DEF Spec

\* The variables keep their types.
THEOREM TypeCorrect == Spec => []TypeOK
<1>1. IInv => TypeOK
  BY DEF IInv
<1> QED
  BY <1>1, Invariance, PTL

\* No event is taken for sent without being in Kafka.
THEOREM NothingLost == Spec => []PublishedIsInTopic
<1>1. IInv => PublishedIsInTopic
  BY DEF IInv
<1> QED
  BY <1>1, Invariance, PTL

\* The events of a wallet reach its partition in stream order, even when
\* some are sent again.
THEOREM OrderPreserved == Spec => []PerAggregateOrder
<1>1. IInv => PerAggregateOrder
  BY DEF IInv
<1> QED
  BY <1>1, Invariance, PTL

\* Every message comes after all its predecessors in its wallet's stream.
THEOREM NothingSkipped == Spec => []NoEventSkipped
<1>1. IInv => NoEventSkipped
  <2> SUFFICES ASSUME IInv,
                      NEW p \in Partitions, NEW j \in 1 .. Len(topic[p]),
                      NEW d \in store, d.aggregate = topic[p][j].aggregate,
                      d.version < topic[p][j].version
               PROVE  \E i \in 1 .. j : topic[p][i] = d
    BY DEF NoEventSkipped
  <2>1. topic[p][j] \in store /\ PartitionOf[d.aggregate] = p
    BY DEF IInv, TopicIsStored
  <2>2. d.id \in published
    BY <2>1 DEF IInv, IdsInOrder, PredecessorsPublished
  <2>3. PICK i \in 1 .. Len(topic[p]) : topic[p][i] = d
    BY <2>1, <2>2 DEF IInv, PublishedIsInTopic, InTopic
  <2>4. ~(j < i)
    <3>1. d.version \in Int /\ topic[p][j].version \in Int
      BY <2>1 DEF IInv, TypeOK, Docs
    <3> QED
      BY <3>1, <2>3 DEF IInv, PerAggregateOrder
  <2> QED
    BY <2>3, <2>4
<1> QED
  BY <1>1, Invariance, PTL
-----------------------------------------------------------------------------
(* The readers' view.  Fed is a recursive function: that it exists, and what *)
(* a message appended to the log adds to it, has to be shown first.          *)

\* A set of naturals that holds the successor of each of its members up to n
\* and 0 goes up to n.
LEMMA UpTo ==
  ASSUME NEW n \in Nat, NEW T, 0 \in T,
         \A m \in 0 .. n : m + 1 \in 0 .. n /\ m \in T => m + 1 \in T
  PROVE  0 .. n \subseteq T
<1> DEFINE Missing == (0 .. n) \ T
<1> SUFFICES ASSUME Missing # {} PROVE FALSE
  OBVIOUS
<1> DEFINE Less == {p \in Nat \X Nat : p[1] < p[2]}
<1>1. PICK m \in Missing : \A k \in Missing : ~ (<<k, m>> \in Less)
  <2>1. Missing \subseteq Nat
    OBVIOUS
  <2>2. IsWellFoundedOn(Less, Nat)
    BY NatLessThanWellFounded DEF OpToRel
  <2> HIDE DEF Missing, Less
  <2> QED BY <2>1, <2>2, WFMin
<1>2. \A k \in Missing : ~ (k < m)
  <2> SUFFICES ASSUME NEW k \in Missing, k < m PROVE FALSE
    OBVIOUS
  <2>1. <<k, m>> \in Nat \X Nat /\ <<k, m>>[1] < <<k, m>>[2]
    OBVIOUS
  <2> QED BY <2>1, <1>1
<1>3. m # 0 /\ m \in 0 .. n
  BY <1>1
<1>4. m - 1 \notin Missing
  BY <1>2, <1>3
<1>5. m - 1 \in T
  BY <1>3, <1>4
<1> QED BY <1>3, <1>5

Solves(f, log, w) ==
  f = [n \in 0 .. Len(log) |->
         IF n = 0 THEN <<>> ELSE AfterMessage(f[n - 1], log[n], w)]

\* Two solutions agree as far as their logs do.
LEMMA Unique ==
  ASSUME NEW log, NEW more, NEW w, NEW f, NEW g, Solves(f, log, w), Solves(g, more, w),
         Len(log) \in Nat, Len(more) \in Nat, Len(log) <= Len(more),
         \A i \in 1 .. Len(log) : more[i] = log[i]
  PROVE  \A n \in 0 .. Len(log) : g[n] = f[n]
<1> DEFINE T == {n \in 0 .. Len(log) : g[n] = f[n]}
<1>1. 0 \in T
  <2>1. 0 \in 0 .. Len(log) /\ 0 \in 0 .. Len(more)
    OBVIOUS
  <2>2. f[0] = <<>> /\ g[0] = <<>>
    BY <2>1 DEF Solves
  <2> QED BY <2>1, <2>2
<1>2. \A m \in 0 .. Len(log) : m + 1 \in 0 .. Len(log) /\ m \in T => m + 1 \in T
  <2> SUFFICES ASSUME NEW m \in 0 .. Len(log), m + 1 \in 0 .. Len(log), g[m] = f[m]
               PROVE  g[m + 1] = f[m + 1]
    OBVIOUS
  <2>1. f[m + 1] = AfterMessage(f[m], log[m + 1], w)
    BY DEF Solves
  <2>2. g[m + 1] = AfterMessage(g[m], more[m + 1], w)
    BY DEF Solves
  <2>3. more[m + 1] = log[m + 1]
    OBVIOUS
  <2> QED BY <2>1, <2>2, <2>3
<1> HIDE DEF T
<1>3. 0 .. Len(log) \subseteq T
  BY <1>1, <1>2, UpTo
<1> QED BY <1>3 DEF T

\* The equation has a solution for every log.
LEMMA Solvable ==
  ASSUME NEW log, NEW w, Len(log) \in Nat
  PROVE  \E f : Solves(f, log, w)
<1> DEFINE Step(f, k) ==
       f = [n \in 0 .. k |-> IF n = 0 THEN <<>> ELSE AfterMessage(f[n - 1], log[n], w)]
<1> DEFINE T == {k \in 0 .. Len(log) : \E f : Step(f, k)}
<1>1. 0 \in T
  <2> DEFINE f == [n \in 0 .. 0 |-> <<>>]
  <2>1. Step(f, 0)
    OBVIOUS
  <2>2. 0 \in 0 .. Len(log)
    OBVIOUS
  <2> HIDE DEF Step
  <2> QED BY <2>1, <2>2
<1>2. \A m \in 0 .. Len(log) : m + 1 \in 0 .. Len(log) /\ m \in T => m + 1 \in T
  <2> SUFFICES ASSUME NEW m \in 0 .. Len(log), m + 1 \in 0 .. Len(log), NEW f, Step(f, m)
               PROVE  \E g : Step(g, m + 1)
    OBVIOUS
  <2> DEFINE g == [n \in 0 .. m + 1 |->
                     IF n = m + 1 THEN AfterMessage(f[m], log[m + 1], w) ELSE f[n]]
  <2>1. \A n \in 0 .. m + 1 :
          g[n] = IF n = 0 THEN <<>> ELSE AfterMessage(g[n - 1], log[n], w)
    OBVIOUS
  <2>2. Step(g, m + 1)
    BY <2>1
  <2> QED BY <2>2
<1>3. 0 .. Len(log) \subseteq T
  <2> HIDE DEF T
  <2> QED BY <1>1, <1>2, UpTo
<1>4. PICK f : Step(f, Len(log))
  BY <1>3
<1> QED BY <1>4 DEF Solves

\* Nothing has been read of an empty log.
LEMMA FedOfEmpty == \A w : Fed(<<>>, w) = <<>>
<1> SUFFICES ASSUME NEW w PROVE Fed(<<>>, w) = <<>>
  OBVIOUS
<1>1. PICK f : Solves(f, <<>>, w)
  BY Solvable
<1> DEFINE c == CHOOSE g : Solves(g, <<>>, w)
<1>2. Solves(c, <<>>, w)
  BY <1>1
<1>3. Fed(<<>>, w) = c[Len(<<>>)]
  BY DEF Fed, Solves
<1> HIDE DEF c
<1> QED BY <1>2, <1>3 DEF Solves

\* A message appended to the log is read after all the others.
LEMMA FedOfAppend ==
  ASSUME NEW S, NEW log \in Seq(S), NEW d \in S, NEW w
  PROVE  Fed(Append(log, d), w) = AfterMessage(Fed(log, w), d, w)
<1> DEFINE more == Append(log, d)
<1> DEFINE c == CHOOSE f : Solves(f, log, w)
<1> DEFINE e == CHOOSE f : Solves(f, more, w)
<1>1. /\ Len(log) \in Nat /\ Len(more) = Len(log) + 1
      /\ \A i \in 1 .. Len(log) : more[i] = log[i]
      /\ more[Len(log) + 1] = d
  OBVIOUS
<1>2. Solves(c, log, w) /\ Fed(log, w) = c[Len(log)]
  <2>1. \E f : Solves(f, log, w)
    BY <1>1, Solvable
  <2>2. Fed(log, w) = c[Len(log)]
    BY DEF Fed, Solves
  <2> QED BY <2>1, <2>2
<1>3. Solves(e, more, w) /\ Fed(more, w) = e[Len(more)]
  <2> HIDE DEF more
  <2>1. \E f : Solves(f, more, w)
    <3>1. Len(more) \in Nat
      BY <1>1
    <3> QED BY <3>1, Solvable
  <2>2. Fed(more, w) = e[Len(more)]
    BY DEF Fed, Solves
  <2> QED BY <2>1, <2>2
<1> HIDE DEF more, c, e
<1>4. e[Len(log)] = c[Len(log)]
  BY <1>1, <1>2, <1>3, Unique
<1>5. e[Len(log) + 1] = AfterMessage(e[Len(log)], d, w)
  BY <1>1, <1>3 DEF Solves
<1> QED BY <1>1, <1>2, <1>3, <1>4, <1>5 DEF more

-----------------------------------------------------------------------------
(* The refinement of EventFeed. *)

Stream(w) == {d \in store : d.aggregate = w}

\* The versions of a wallet's stream are 0, 1, 2, ... with none missing.
StreamsAreDense ==
  \A w \in Wallets :
    /\ IsFiniteSet(Stream(w))
    /\ \A d \in Stream(w) : d.version < Cardinality(Stream(w))
    /\ \A v \in 0 .. Cardinality(Stream(w)) - 1 :
         \E d \in Stream(w) : d.version = v

\* got is 0, 1, 2, ... up to the highest version of w in log.
InStep(got, log, w) ==
  /\ got \in Seq(Nat)
  /\ \A i \in 1 .. Len(got) : got[i] = i - 1
  /\ \A i \in 1 .. Len(log) :
       log[i].aggregate = w => log[i].version \in 0 .. Len(got) - 1
  /\ got # <<>> =>
       \E i \in 1 .. Len(log) :
         log[i].aggregate = w /\ log[i].version = Len(got) - 1

\* A reader of a wallet has got all there is of it in its partition.
ReaderIsInStep ==
  \A w \in Wallets : InStep(FedVersions(w), topic[PartitionOf[w]], w)

FeedInv == IInv /\ StreamsAreDense /\ ReaderIsInStep

\* A message of another wallet, or the last version once more.
LEMMA NothingNew ==
  ASSUME NEW S, NEW log \in Seq(S), NEW d \in S, NEW w, NEW got, InStep(got, log, w),
         d.aggregate # w \/ (got # <<>> /\ d.version = Len(got) - 1)
  PROVE  AfterMessage(got, d, w) = got /\ InStep(got, Append(log, d), w)
<1> DEFINE more == Append(log, d)
<1>1. /\ got \in Seq(Nat) /\ Len(got) \in Nat
      /\ got # <<>> => Len(got) \in 1 .. Len(got)
      /\ \A i \in 1 .. Len(got) : got[i] = i - 1
  BY DEF InStep
<1>2. got # <<>> => Last(got) = Len(got) - 1
  BY <1>1 DEF Last
<1>3. AfterMessage(got, d, w) = got
  BY <1>2 DEF AfterMessage
<1>4. /\ \A i \in 1 .. Len(log) : i \in 1 .. Len(more) /\ more[i] = log[i]
      /\ \A i \in 1 .. Len(more) : i \in 1 .. Len(log) \/ more[i] = d
  OBVIOUS
<1> HIDE DEF more
<1>5. d.aggregate = w => d.version \in 0 .. Len(got) - 1
  BY <1>1
<1>6. InStep(got, more, w)
  BY <1>4, <1>5 DEF InStep
<1> QED BY <1>3, <1>6 DEF more

\* The next version of the wallet.
LEMMA NextVersion ==
  ASSUME NEW S, NEW log \in Seq(S), NEW d \in S, NEW w, NEW got, InStep(got, log, w),
         d.aggregate = w, d.version = Len(got)
  PROVE  /\ AfterMessage(got, d, w) = Append(got, Len(got))
         /\ InStep(Append(got, Len(got)), Append(log, d), w)
<1> DEFINE more == Append(log, d)
<1> DEFINE k == Len(got)
<1> DEFINE next == Append(got, k)
<1>1. /\ got \in Seq(Nat) /\ k \in Nat
      /\ got # <<>> => k \in 1 .. k
      /\ \A i \in 1 .. k : got[i] = i - 1
  BY DEF InStep
<1>2. got # <<>> => Last(got) # k
  BY <1>1 DEF Last
<1>3. AfterMessage(got, d, w) = next
  BY <1>2 DEF AfterMessage
<1>4. /\ \A i \in 1 .. Len(log) : i \in 1 .. Len(more) /\ more[i] = log[i]
      /\ \A i \in 1 .. Len(more) : i \in 1 .. Len(log) \/ more[i] = d
      /\ Len(log) + 1 \in 1 .. Len(more) /\ more[Len(log) + 1] = d
  OBVIOUS
<1>5. /\ next \in Seq(Nat) /\ Len(next) = k + 1
      /\ \A i \in 1 .. k + 1 : next[i] = i - 1
  BY <1>1
<1>6. \A i \in 1 .. Len(more) :
        more[i].aggregate = w => more[i].version \in 0 .. k
  <2>1. \A i \in 1 .. Len(log) :
          log[i].aggregate = w => log[i].version \in 0 .. k - 1
    BY DEF InStep
  <2> HIDE DEF more, k, next
  <2>2. d.version \in 0 .. k
    BY <1>1 DEF k
  <2> QED BY <1>1, <1>4, <2>1, <2>2
<1>7. \E i \in 1 .. Len(more) : more[i].aggregate = w /\ more[i].version = (k + 1) - 1
  <2>1. d.version = (k + 1) - 1
    BY <1>1
  <2> HIDE DEF more, k
  <2> QED BY <1>4, <2>1
<1>8. InStep(next, more, w)
  <2> HIDE DEF more, k, next
  <2>1. (k + 1) - 1 = k
    BY <1>1
  <2> QED BY <1>5, <1>6, <1>7, <2>1 DEF InStep
<1> QED BY <1>3, <1>8

\* In the empty collection and topic nothing is stored and nothing read.
LEMMA FeedInit == Init => FeedInv /\ Feed!Init
<1> SUFFICES ASSUME Init PROVE FeedInv /\ Feed!Init
  OBVIOUS
<1>1. IInv
  BY InitInvariant
<1>2. \A w \in Wallets : Stream(w) = {} /\ topic[PartitionOf[w]] = <<>>
  BY DEF Init, OutboxInit, Stream
<1>3. \A w \in Wallets : FedVersions(w) = <<>>
  BY <1>2, FedOfEmpty DEF FedVersions
<1>4. \A w \in Wallets : IsFiniteSet(Stream(w)) /\ Cardinality(Stream(w)) = 0
  BY <1>2, FS_EmptySet
<1>5. StreamsAreDense
  BY <1>2, <1>4 DEF StreamsAreDense
<1>6. ReaderIsInStep
  <2>1. \A w : InStep(<<>>, <<>>, w)
    BY DEF InStep
  <2> QED BY <1>2, <1>3, <2>1 DEF ReaderIsInStep
<1>7. Feed!Init
  BY <1>3, <1>4 DEF Feed!Init, Stream
<1> QED BY <1>1, <1>5, <1>6, <1>7 DEF FeedInv

\* A document inserted gets the next version of its stream.
LEMMA InsertFeeds ==
  ASSUME FeedInv, NEW w \in Wallets, NEW id \in Ids, Insert(w, id)
  PROVE  StreamsAreDense' /\ ReaderIsInStep' /\ Feed!Store(w)
<1> DEFINE n == Cardinality(Stream(w))
<1>1. PICK v \in 0 .. MaxEvents :
        /\ \A u \in 0 .. MaxEvents : (u < v) <=> (\E d \in Stream(w) : d.version = u)
        /\ store' = store \cup {[id |-> id, aggregate |-> w, version |-> v]}
  BY DEF Insert, Stream
<1> DEFINE new == [id |-> id, aggregate |-> w, version |-> v]
<1>2. /\ IsFiniteSet(Stream(w)) /\ n \in Nat
      /\ \A d \in Stream(w) : d.version < n
      /\ \A u \in 0 .. n - 1 : \E d \in Stream(w) : d.version = u
  BY FS_CardinalityType DEF FeedInv, StreamsAreDense
<1>3. v = n
  <2> HIDE DEF n
  <2>1. CASE v < n
    <3>1. v \in 0 .. n - 1
      BY <2>1, <1>2
    <3> QED BY <3>1, <1>1, <1>2
  <2>2. CASE n < v
    <3>1. n \in 0 .. MaxEvents
      BY <2>2, <1>2
    <3>2. PICK d \in Stream(w) : d.version = n
      BY <3>1, <2>2, <1>1
    <3> QED BY <3>2, <1>2
  <2> QED BY <2>1, <2>2, <1>2
<1>4. /\ new.aggregate = w /\ new.version = n /\ new \notin store
      /\ store' = store \cup {new}
  BY <1>1, <1>3 DEF Insert
<1> HIDE DEF new, n
<1>5. /\ Stream(w)' = Stream(w) \cup {new}
      /\ \A x \in Wallets : x # w => Stream(x)' = Stream(x)
  BY <1>4 DEF Stream
<1>6. IsFiniteSet(Stream(w)') /\ Cardinality(Stream(w)') = n + 1
  <2>1. new \notin Stream(w)
    BY <1>4 DEF Stream
  <2> QED BY <2>1, <1>2, <1>5, FS_AddElement DEF n
<1>7. StreamsAreDense'
  <2> SUFFICES ASSUME NEW x \in Wallets
               PROVE  /\ IsFiniteSet(Stream(x)')
                      /\ \A d \in Stream(x)' : d.version < Cardinality(Stream(x)')
                      /\ \A u \in 0 .. Cardinality(Stream(x)') - 1 :
                           \E d \in Stream(x)' : d.version = u
    BY DEF StreamsAreDense
  <2>1. CASE x # w
    BY <2>1, <1>5 DEF FeedInv, StreamsAreDense
  <2>2. CASE x = w
    <3>1. \A d \in Stream(w) : d.version \in Int
      BY DEF FeedInv, IInv, TypeOK, Docs, Stream
    <3>2. \A d \in Stream(w)' : d.version < n + 1
      BY <3>1, <1>2, <1>4, <1>5
    <3>3. \A u \in 0 .. n : \E d \in Stream(w)' : d.version = u
      BY <1>2, <1>4, <1>5
    <3> QED BY <2>2, <3>2, <3>3, <1>2, <1>6
  <2> QED BY <2>1, <2>2
<1>8. topic' = topic /\ \A x \in Wallets : FedVersions(x)' = FedVersions(x)
  BY DEF Insert, outboxVars, FedVersions
<1>9. ReaderIsInStep'
  <2> SUFFICES ASSUME NEW x \in Wallets
               PROVE  InStep(FedVersions(x)', topic'[PartitionOf[x]], x)
    BY DEF ReaderIsInStep, InStep
  <2> QED BY <1>8 DEF FeedInv, ReaderIsInStep
<1>10. \A x \in Wallets :
         Cardinality(Stream(x)') = IF x = w THEN Cardinality(Stream(x)) + 1
                                            ELSE Cardinality(Stream(x))
  BY <1>5, <1>6 DEF n
<1>11. Feed!Store(w)
  BY <1>8, <1>10 DEF Feed!Store, Stream
<1> QED BY <1>7, <1>9, <1>11

\* A message is, for the reader of its wallet, either the last version once
\* more or the next; for the others it is nothing.
LEMMA SendFeeds ==
  ASSUME FeedInv, NEW h \in publisher.batch, IsHead(h), Send(h),
         UNCHANGED <<store, published>>
  PROVE  /\ StreamsAreDense' /\ ReaderIsInStep'
         /\ \/ Feed!Feed(h.aggregate)
            \/ \A w \in Wallets : FedVersions(w)' = FedVersions(w)
<1> DEFINE a == h.aggregate
<1> DEFINE q == PartitionOf[a]
<1> DEFINE k == Len(FedVersions(a))
<1>1. /\ h \in store /\ h \in Docs /\ a \in Wallets /\ q \in Partitions
      /\ h.version \in Nat
      /\ topic[q] \in Seq(Docs) /\ Len(topic[q]) \in Nat
      /\ topic \in [Partitions -> Seq(Docs)]
  <2>1. /\ store \subseteq Docs /\ topic \in [Partitions -> Seq(Docs)]
        /\ publisher.batch \subseteq store
    BY DEF FeedInv, IInv, BatchIsOldest, TypeOK
  <2>2. h \in store /\ h \in Docs
    BY <2>1
  <2>3. a \in Wallets /\ h.version \in Nat
    BY <2>2 DEF Docs
  <2>4. q \in Partitions
    BY <2>3
  <2>5. topic[q] \in Seq(Docs) /\ Len(topic[q]) \in Nat
    <3> HIDE DEF q
    <3> QED BY <2>1, <2>4
  <2> QED BY <2>1, <2>2, <2>3, <2>4, <2>5
<1>2. /\ topic'[q] = Append(topic[q], h)
      /\ \A p \in Partitions : p # q => topic'[p] = topic[p]
  BY <1>1 DEF Send
<1>3. /\ Len(topic'[q]) = Len(topic[q]) + 1
      /\ \A i \in 1 .. Len(topic[q]) : topic'[q][i] = topic[q][i]
      /\ topic'[q][Len(topic[q]) + 1] = h
  BY <1>1, <1>2
<1>4. StreamsAreDense'
  BY DEF FeedInv, StreamsAreDense, Stream
<1>5. /\ InStep(FedVersions(a), topic[q], a)
      /\ k \in Nat
      /\ \A i \in 1 .. Len(topic[q]) :
           topic[q][i].aggregate = a => topic[q][i].version < k
      /\ FedVersions(a) # <<>> =>
           \E i \in 1 .. Len(topic[q]) :
             topic[q][i].aggregate = a /\ topic[q][i].version = k - 1
      /\ FedVersions(a) = <<>> => k = 0
  <2>1. InStep(FedVersions(a), topic[q], a)
    BY <1>1 DEF FeedInv, ReaderIsInStep
  <2>2. FedVersions(a) \in Seq(Nat)
    BY <2>1 DEF InStep
  <2>3. k \in Nat /\ (FedVersions(a) = <<>> => k = 0)
    BY <2>2
  <2>4. /\ \A i \in 1 .. Len(topic[q]) :
             topic[q][i].aggregate = a => topic[q][i].version \in 0 .. k - 1
        /\ FedVersions(a) # <<>> =>
             \E i \in 1 .. Len(topic[q]) :
               topic[q][i].aggregate = a /\ topic[q][i].version = k - 1
    BY <2>1 DEF InStep
  <2> HIDE DEF k, q
  <2> QED BY <2>1, <2>3, <2>4
<1>6. /\ TopicIsStored' /\ PredecessorsPublished' /\ PerAggregateOrder'
  BY SendInvariant DEF FeedInv
<1>7. FedVersions(a) # <<>> => k - 1 <= h.version
  <2> SUFFICES ASSUME FedVersions(a) # <<>> PROVE k - 1 <= h.version
    OBVIOUS
  <2>1. PICK i \in 1 .. Len(topic[q]) :
          topic[q][i].aggregate = a /\ topic[q][i].version = k - 1
    BY <1>5
  <2> DEFINE last == Len(topic[q]) + 1
  <2>2. /\ i \in 1 .. Len(topic'[q]) /\ last \in 1 .. Len(topic'[q]) /\ i < last
        /\ topic'[q][i] = topic[q][i] /\ topic'[q][last] = h
    <3> HIDE DEF q
    <3> QED BY <1>1, <1>3
  <2> HIDE DEF last
  <2>3. topic'[q][i].version <= topic'[q][last].version
    BY <2>1, <2>2, <1>1, <1>6 DEF PerAggregateOrder
  <2> QED BY <2>1, <2>2, <2>3
<1>8. h.version <= k
  <2> SUFFICES ASSUME k < h.version PROVE FALSE
    BY <1>1, <1>5
  <2>1. h \in Stream(a) /\ h.version < Cardinality(Stream(a))
    BY <1>1 DEF FeedInv, StreamsAreDense, Stream
  <2>2. Cardinality(Stream(a)) \in Nat
    BY <1>1, FS_CardinalityType DEF FeedInv, StreamsAreDense
  <2>3. k \in 0 .. Cardinality(Stream(a)) - 1
    <3> HIDE DEF k
    <3> QED BY <2>1, <2>2, <1>1, <1>5
  <2>4. PICK e \in Stream(a) : e.version = k
    BY <2>3, <1>1 DEF FeedInv, StreamsAreDense
  <2>5. e \in store /\ e.aggregate = a /\ e.id < h.id
    BY <2>4, <1>1 DEF Stream, FeedInv, IInv, IdsInOrder
  <2>6. e.id \in published
    <3>1. Len(topic[q]) + 1 \in 1 .. Len(topic'[q])
      <4> HIDE DEF q
      <4> QED BY <1>1, <1>3
    <3> QED BY <3>1, <2>5, <1>1, <1>3, <1>6 DEF PredecessorsPublished
  <2>7. PICK i \in 1 .. Len(topic[q]) : topic[q][i] = e
    BY <2>5, <2>6 DEF FeedInv, IInv, PublishedIsInTopic, InTopic
  <2>8. e.version < k
    BY <2>5, <2>7, <1>5
  <2> QED BY <2>4, <2>8, <1>5
<1>9. \A w \in Wallets :
        FedVersions(w)' = IF w = a THEN AfterMessage(FedVersions(a), h, a)
                                   ELSE FedVersions(w)
  <2> SUFFICES ASSUME NEW w \in Wallets
               PROVE  FedVersions(w)' = IF w = a THEN AfterMessage(FedVersions(a), h, a)
                                                 ELSE FedVersions(w)
    OBVIOUS
  <2>1. CASE PartitionOf[w] = q
    <3>1. FedVersions(w)' = AfterMessage(FedVersions(w), h, w)
      BY <2>1, <1>1, <1>2, FedOfAppend DEF FedVersions
    <3> QED BY <3>1 DEF AfterMessage
  <2>2. CASE PartitionOf[w] # q
    <3>1. topic'[PartitionOf[w]] = topic[PartitionOf[w]]
      BY <2>2, <1>2
    <3> QED BY <3>1, <2>2 DEF FedVersions
  <2> QED BY <2>1, <2>2
<1>10. \/ FedVersions(a) # <<>> /\ h.version = k - 1
       \/ h.version = k
  <2>1. h.version \in Int /\ k \in Int
    BY <1>1, <1>5
  <2> HIDE DEF k
  <2> QED BY <2>1, <1>1, <1>5, <1>7, <1>8
<1>11. \A w \in Wallets : w # a =>
         InStep(FedVersions(w)', topic'[PartitionOf[w]], w)
  <2> SUFFICES ASSUME NEW w \in Wallets, w # a
               PROVE  InStep(FedVersions(w), topic'[PartitionOf[w]], w)
    BY <1>9
  <2>1. InStep(FedVersions(w), topic[PartitionOf[w]], w)
    BY DEF FeedInv, ReaderIsInStep
  <2>2. CASE PartitionOf[w] = q
    <3>1. /\ topic[q] \in Seq(Docs) /\ h \in Docs
          /\ InStep(FedVersions(w), topic[q], w)
          /\ topic'[q] = Append(topic[q], h)
      BY <2>1, <2>2, <1>1, <1>2
    <3> HIDE DEF q
    <3> QED BY <3>1, <2>2, NothingNew
  <2>3. CASE PartitionOf[w] # q
    BY <2>1, <2>3, <1>2
  <2> QED BY <2>2, <2>3
<1>12. CASE FedVersions(a) # <<>> /\ h.version = k - 1
  <2>1. /\ AfterMessage(FedVersions(a), h, a) = FedVersions(a)
        /\ InStep(FedVersions(a), topic'[q], a)
    <3>1. /\ topic[q] \in Seq(Docs) /\ h \in Docs
          /\ InStep(FedVersions(a), topic[q], a)
          /\ topic'[q] = Append(topic[q], h)
      BY <1>1, <1>2, <1>5
    <3> HIDE DEF q
    <3> QED BY <3>1, <1>12, NothingNew
  <2>2. \A w \in Wallets : FedVersions(w)' = FedVersions(w)
    BY <2>1, <1>9
  <2>3. ReaderIsInStep'
    BY <2>1, <2>2, <1>1, <1>11 DEF ReaderIsInStep, InStep
  <2> QED BY <1>4, <2>2, <2>3
<1>13. CASE h.version = k
  <2>1. /\ AfterMessage(FedVersions(a), h, a) = Append(FedVersions(a), k)
        /\ InStep(Append(FedVersions(a), k), topic'[q], a)
    <3>1. /\ topic[q] \in Seq(Docs) /\ h \in Docs
          /\ InStep(FedVersions(a), topic[q], a)
          /\ topic'[q] = Append(topic[q], h)
      BY <1>1, <1>2, <1>5
    <3> HIDE DEF q
    <3> QED BY <3>1, <1>13, NextVersion
  <2>2. /\ FedVersions(a)' = Append(FedVersions(a), k)
        /\ \A w \in Wallets : w # a => FedVersions(w)' = FedVersions(w)
    BY <2>1, <1>1, <1>9
  <2>3. Feed!Feed(a)
    <3>1. h \in Stream(a)
      BY <1>1 DEF Stream
    <3>2. k < Cardinality(Stream(a))
      <4> HIDE DEF k
      <4> QED BY <3>1, <1>1, <1>13 DEF FeedInv, StreamsAreDense
    <3> QED BY <3>2, <2>2, <1>1 DEF Feed!Feed, Stream
  <2>4. ReaderIsInStep'
    BY <2>1, <2>2, <1>1, <1>11 DEF ReaderIsInStep, InStep
  <2> QED BY <1>4, <2>3, <2>4
<1> QED BY <1>10, <1>12, <1>13

\* Everything else is a stutter for the readers.
LEMMA QuietStep ==
  ASSUME FeedInv, UNCHANGED <<store, topic>>
  PROVE  StreamsAreDense' /\ ReaderIsInStep' /\ UNCHANGED Feed!feedVars
<1>1. \A w : Stream(w)' = Stream(w) /\ FedVersions(w)' = FedVersions(w)
  BY DEF Stream, FedVersions
<1>2. StreamsAreDense'
  BY DEF FeedInv, StreamsAreDense, Stream
<1>3. ReaderIsInStep'
  BY <1>1 DEF FeedInv, ReaderIsInStep, InStep
<1>4. UNCHANGED Feed!feedVars
  BY <1>1 DEF Feed!feedVars
<1> QED BY <1>2, <1>3, <1>4

\* Sending is a step of the feed or a stutter.
LEMMA SendIsFeedStep ==
  ASSUME FeedInv, NEW h \in publisher.batch, IsHead(h), Send(h),
         UNCHANGED <<store, published>>
  PROVE  StreamsAreDense' /\ ReaderIsInStep' /\ [Feed!Next]_(Feed!feedVars)
<1>1. h.aggregate \in Wallets
  BY DEF FeedInv, IInv, TypeOK, Docs
<1>2. CASE Feed!Feed(h.aggregate)
  BY <1>1, <1>2, SendFeeds DEF Feed!Next
<1>3. CASE \A w \in Wallets : FedVersions(w)' = FedVersions(w)
  <2>1. UNCHANGED Feed!feedVars
    BY <1>3 DEF Feed!feedVars
  <2> QED BY <2>1, SendFeeds
<1> QED BY <1>2, <1>3, SendFeeds

\* Every step of writers and publisher is a step of the feed or a stutter.
LEMMA FeedStep ==
  FeedInv /\ [Next]_vars => FeedInv' /\ [Feed!Next]_(Feed!feedVars)
<1> SUFFICES ASSUME FeedInv, [Next]_vars
             PROVE  StreamsAreDense' /\ ReaderIsInStep' /\ [Feed!Next]_(Feed!feedVars)
  BY NextInvariant DEF FeedInv
<1>1. ASSUME NEW w \in Wallets, NEW id \in Ids, Insert(w, id)
      PROVE  StreamsAreDense' /\ ReaderIsInStep' /\ [Feed!Next]_(Feed!feedVars)
  BY <1>1, InsertFeeds DEF Feed!Next
<1>2. CASE Produce
  BY <1>2, SendIsFeedStep DEF Produce
<1>3. CASE ProduceFails /\ ~ UNCHANGED topic
  BY <1>3, SendIsFeedStep DEF ProduceFails
<1>4. CASE UNCHANGED <<store, topic>>
  BY <1>4, QuietStep
<1>5. Find \/ Record \/ Mark \/ MarkFails \/ Restart \/ UNCHANGED vars
        => UNCHANGED <<store, topic>>
  BY DEF Find, Record, Mark, MarkFails, Restart, vars
<1>6. ProduceFails /\ UNCHANGED topic => UNCHANGED <<store, topic>>
  BY DEF ProduceFails
<1> QED
  BY <1>1, <1>2, <1>3, <1>4, <1>5, <1>6 DEF Next, OutboxNext, Publish

\* Whatever fails or dies, the outbox implements the safety part of the feed.
THEOREM OutboxImplementsFeed == Spec => Feed!Spec
<1>1. Init => FeedInv /\ Feed!Init
  BY FeedInit
<1>2. FeedInv /\ [Next]_vars => FeedInv' /\ [Feed!Next]_(Feed!feedVars)
  BY FeedStep
<1> QED
  BY <1>1, <1>2, PTL DEF Spec, Feed!Spec
=============================================================================
