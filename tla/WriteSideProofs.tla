--------------------------- MODULE WriteSideProofs ---------------------------
(***************************************************************************)
(* Proofs, for any number of handlers, wallets, commands and faults, that  *)
(* a stream no race has forked reaches its partition in version order,     *)
(* although the publisher sorts by _id and the handlers draw the ids; and  *)
(* that the process as a whole does to the event store what EventStore     *)
(* says, so that the theorems of EventStoreProofs hold of it.              *)
(***************************************************************************)
EXTENDS WriteSide, EventStoreProofs

(* The inductive invariant. *)

\* No race has forked the stream of w.
UnforkedStream(docs, w) ==
  \A d, e \in StreamIn(docs, w) : d.version = e.version => d = e

IdsFollowVersions(docs, w) ==
  \A d, e \in StreamIn(docs, w) : d.version < e.version => d.id < e.id

\* The id drawn by a request that inserts: later than those of the events its
\* aggregate was loaded from.
Drawn(docs, r) ==
  LET w == WalletOf(r.cmd, r.side)
  IN  UnforkedStream(docs, w) =>
        \A e \in StreamIn(docs, w) : e.version <= r.agg[r.side].version => e.id < r.id

\* ObjectIDs are unique and grow, and follow the versions where nothing forked.
StampInv ==
  /\ \A d \in store : d.id < nextId
  /\ \A d, e \in store : d.id = e.id => d = e
  /\ \A k \in Workers : worker[k].pc = "insert" =>
       /\ worker[k].id < nextId
       /\ \A d \in store : d.id # worker[k].id
       /\ Drawn(store, worker[k])
  /\ \A j, k \in Workers :
       worker[j].pc = "insert" /\ worker[k].pc = "insert" /\ worker[j].id = worker[k].id
         => j = k
  /\ \A w \in Wallets : UnforkedStream(store, w) => IdsFollowVersions(store, w)

PublisherType ==
  /\ topic \in [Partitions -> Seq(Docs)]
  /\ publisher \in [pc : {"waiting", "produce", "mark", "record"}, batch : SUBSET Docs]

\* The publisher's batch is stored, not yet marked, and with what is marked
\* holds every predecessor of each of its documents.
BatchInv ==
  /\ publisher.batch \subseteq store
  /\ \A b \in publisher.batch : b.id \notin published
  /\ \A b \in publisher.batch : UnforkedStream(store, b.aggregate) =>
       \A d \in StreamIn(store, b.aggregate) :
         d.id < b.id => d.id \in published \/ d \in publisher.batch

\* A message is a stored document whose predecessors have all been marked.
Settled(d) ==
  /\ d \in store
  /\ UnforkedStream(store, d.aggregate) =>
       \A e \in StreamIn(store, d.aggregate) : e.id < d.id => e.id \in published

TopicInv == \A p \in Partitions : \A i \in 1 .. Len(topic[p]) : Settled(topic[p][i])

IdleWorkers == \A k \in Workers : worker[k].pc = "idle" => worker[k] = Idle

WriteInv ==
  /\ IInv
  /\ IdleWorkers
  /\ StampInv
  /\ PublisherType
  /\ BatchInv
  /\ TopicInv
  /\ OrderUnlessForked
-----------------------------------------------------------------------------
(* Streams and insertions. *)

\* What holds of an unforked stream held of it before the insertion.
LEMMA UnforkedBefore ==
  ASSUME NEW docs, NEW doc, NEW w, UnforkedStream(docs \cup {doc}, w)
  PROVE  UnforkedStream(docs, w)
BY DEF UnforkedStream, StreamIn

\* A document that forks nothing is the last of its stream.
LEMMA InsertGoesLast ==
  ASSUME NEW docs \in SUBSET Docs, Dense(docs), NEW doc \in Docs, doc \notin docs,
         UnforkedStream(docs \cup {doc}, doc.aggregate),
         NEW e \in StreamIn(docs, doc.aggregate)
  PROVE  e.version < doc.version
<1>1. /\ e \in docs /\ e \in Docs /\ e.aggregate = doc.aggregate
      /\ e.version \in Nat /\ doc.version \in Nat
  BY DEF StreamIn, Docs
<1>2. \A d \in StreamIn(docs, doc.aggregate) : d.version # doc.version
  BY DEF UnforkedStream, StreamIn
<1>3. ASSUME doc.version < e.version PROVE FALSE
  <2>1. doc.version \in 0 .. (e.version - 1)
    BY <1>1, <1>3
  <2>2. PICK d \in StreamIn(docs, doc.aggregate) : d.version = doc.version
    BY <1>1, <2>1 DEF Dense
  <2> QED BY <1>2, <2>2
<1> QED BY <1>1, <1>2, <1>3

\* A document with a new id, drawn after those its request has read, keeps the
\* ids of an unforked stream in version order.
LEMMA InsertKeepsIdsInOrder ==
  ASSUME NEW docs \in SUBSET Docs, Dense(docs),
         \A w \in Wallets : UnforkedStream(docs, w) => IdsFollowVersions(docs, w),
         NEW doc \in Docs, doc \notin docs,
         UnforkedStream(docs, doc.aggregate) =>
           \A e \in StreamIn(docs, doc.aggregate) : e.version < doc.version => e.id < doc.id,
         NEW w \in Wallets, UnforkedStream(docs \cup {doc}, w)
  PROVE  IdsFollowVersions(docs \cup {doc}, w)
<1>1. UnforkedStream(docs, w) /\ IdsFollowVersions(docs, w)
  BY UnforkedBefore
<1> SUFFICES ASSUME NEW d \in StreamIn(docs \cup {doc}, w),
                    NEW e \in StreamIn(docs \cup {doc}, w), d.version < e.version
             PROVE  d.id < e.id
  BY DEF IdsFollowVersions
<1>2. d.version \in Nat /\ e.version \in Nat
  BY DEF StreamIn, Docs
<1>3. CASE d \in docs /\ e \in docs
  BY <1>1, <1>3 DEF IdsFollowVersions, StreamIn
<1>4. CASE d \in docs /\ e = doc
  <2>1. d \in StreamIn(docs, doc.aggregate) /\ doc.aggregate = w
    BY <1>4 DEF StreamIn
  <2> QED BY <1>1, <1>4, <2>1
<1>5. CASE d = doc
  <2>1. doc.aggregate = w /\ e \in StreamIn(docs, doc.aggregate)
    BY <1>2, <1>5 DEF StreamIn
  <2>2. e.version < doc.version
    BY <2>1, InsertGoesLast
  <2> QED BY <1>2, <1>5, <2>2
<1> QED BY <1>3, <1>4, <1>5 DEF StreamIn

\* What another request has read stays before the id it has drawn.
LEMMA InsertKeepsDrawn ==
  ASSUME NEW docs \in SUBSET Docs, Dense(docs), NEW doc \in Docs, doc \notin docs,
         NEW r \in Requests,
         LoadedFrom(docs, WalletOf(r.cmd, r.side), r.agg[r.side]), Drawn(docs, r)
  PROVE  Drawn(docs \cup {doc}, r)
<1> DEFINE w == WalletOf(r.cmd, r.side)
           agg == r.agg[r.side]
<1> SUFFICES ASSUME UnforkedStream(docs \cup {doc}, w),
                    NEW e \in StreamIn(docs \cup {doc}, w), e.version <= agg.version
             PROVE  e.id < r.id
  BY DEF Drawn
<1>1. UnforkedStream(docs, w)
  BY UnforkedBefore
<1>2. agg.version \in Nat \cup {-1}
  BY DEF Requests, Aggregates
<1>3. CASE e \in docs
  BY <1>1, <1>3 DEF Drawn, StreamIn
<1>4. CASE e = doc
  <2>1. doc.aggregate = w /\ doc.version \in Nat
    BY <1>4 DEF StreamIn, Docs
  <2>2. agg.version >= 0
    BY <1>2, <1>4, <2>1
  <2>3. PICK d \in StreamIn(docs, w) : d.version = agg.version
    BY <2>2 DEF LoadedFrom
  <2>4. d.version < doc.version
    BY <2>1, <2>3, InsertGoesLast
  <2> QED BY <1>2, <1>4, <2>1, <2>3, <2>4
<1> QED BY <1>3, <1>4 DEF StreamIn
-----------------------------------------------------------------------------
(* What a step of the handlers is to the ids and to the publisher. *)

\* It goes to another place, draws an id, or inserts its document.
Moves(k) ==
  /\ worker'[k].pc # "insert"
  /\ UNCHANGED <<store, nextId>>
Draws(k) ==
  /\ worker'[k].pc = "insert" /\ worker'[k].id = nextId
  /\ worker'[k].cmd = worker[k].cmd /\ worker'[k].side = worker[k].side
  /\ worker'[k].agg = worker[k].agg
  /\ nextId' = nextId + 1
  /\ UNCHANGED store
Inserts(k) ==
  /\ worker[k].pc = "insert" /\ worker'[k].pc # "insert"
  /\ store' = store \cup {Document(k)}
  /\ UNCHANGED nextId

Alone(k) ==
  /\ \A j \in Workers \ {k} : worker'[j] = worker[j]
  /\ worker'[k].pc = "idle" => worker'[k] = Idle

\* Become gives one goroutine another record and leaves the rest.
LEMMA BecomeIs ==
  ASSUME IInv, NEW k \in Workers, NEW r, Become(k, r)
  PROVE  worker'[k] = r /\ \A j \in Workers \ {k} : worker'[j] = worker[j]
BY DEF IInv, TypeOK, Become

\* A goroutine without a request is idle.
LEMMA IdlePc == Idle.pc = "idle"
BY DEF Idle

\* A request that fails is over.
LEMMA FailIs ==
  ASSUME IInv, NEW k \in Workers, Fail(k)
  PROVE  Alone(k) /\ worker'[k].pc = "idle"
BY BecomeIs, IdlePc DEF Fail, Alone

\* A request becomes one at a place other than the insertion.
LEMMA BecomeMoves ==
  ASSUME IInv, NEW k \in Workers, NEW r, Become(k, r), r.pc # "insert",
         r.pc = "idle" => r = Idle
  PROVE  Alone(k) /\ worker'[k].pc # "insert"
BY BecomeIs DEF Alone

\* After a save the request goes on to its other side, or is over.
LEMMA ContinueMoves ==
  ASSUME IInv, NEW k \in Workers, NEW r \in Requests, Continue(k, r)
  PROVE  Alone(k) /\ worker'[k].pc # "insert"
<1>1. CASE r.cmd.kind = "transfer" /\ r.side = "source"
  <2> DEFINE q == [r EXCEPT !.pc = "check", !.side = "destination", !.id = 0]
  <2>1. q.pc = "check" /\ Become(k, q)
    BY <1>1 DEF Requests, Continue
  <2> HIDE DEF q
  <2> QED BY <2>1, BecomeMoves
<1>2. CASE ~ (r.cmd.kind = "transfer" /\ r.side = "source")
  BY <1>2, BecomeMoves, IdlePc DEF Continue
<1> QED BY <1>1, <1>2

\* After a load it goes on loading, or to the decision, or is over.
LEMMA AfterLoadMoves ==
  ASSUME IInv, NEW k \in Workers, NEW r \in Requests, Become(k, AfterLoad(r))
  PROVE  Alone(k) /\ worker'[k].pc # "insert"
<1>1. CASE r.cmd.kind = "transfer" /\ r.side = "source"
  <2> DEFINE q == [r EXCEPT !.pc = "loadSnapshot", !.side = "destination"]
  <2>1. q.pc = "loadSnapshot" /\ Become(k, q)
    BY <1>1 DEF Requests, AfterLoad
  <2> HIDE DEF q
  <2> QED BY <2>1, BecomeMoves
<1>2. CASE ~ (r.cmd.kind = "transfer" /\ r.side = "source") /\ Accepted(r.cmd, r.agg["source"])
  <2> DEFINE q == [r EXCEPT !.pc = "check", !.side = "source"]
  <2>1. q.pc = "check" /\ Become(k, q)
    BY <1>2 DEF Requests, AfterLoad
  <2> HIDE DEF q
  <2> QED BY <2>1, BecomeMoves
<1>3. CASE ~ (r.cmd.kind = "transfer" /\ r.side = "source") /\ ~ Accepted(r.cmd, r.agg["source"])
  <2>1. Become(k, Idle)
    BY <1>3 DEF AfterLoad
  <2> QED BY <2>1, BecomeMoves, IdlePc
<1> QED BY <1>1, <1>2, <1>3

\* A command received stores nothing.
LEMMA ReceiveMoves ==
  ASSUME IInv, NEW k \in Workers, NEW w \in Wallets, NEW amount \in Amounts,
         \/ ReceiveCreate(k, w, amount)
         \/ \E d \in Wallets, kind \in Kinds \ {"create"} : Receive(k, kind, w, d, amount)
  PROVE  Alone(k) /\ Moves(k)
<1>1. UNCHANGED <<store, nextId>>
  BY DEF ReceiveCreate, Receive
<1>2. CASE Become(k, Idle)
  BY <1>1, <1>2, BecomeMoves, IdlePc DEF Moves
<1>3. CASE \E pc \in {"check", "loadSnapshot"} : \E cmd : Become(k, Started(pc, cmd))
  <2>1. PICK pc \in {"check", "loadSnapshot"} :
          \E cmd : Become(k, Started(pc, cmd))
    BY <1>3
  <2>2. PICK cmd : Become(k, Started(pc, cmd))
    BY <2>1
  <2>3. Started(pc, cmd).pc = pc
    BY DEF Started, Idle
  <2> QED BY <1>1, <2>2, <2>3, BecomeMoves DEF Moves
<1>4. ReceiveCreate(k, w, amount) =>
        Become(k, Idle) \/ \E cmd : Become(k, Started("check", cmd))
  BY DEF ReceiveCreate, Started
<1>5. \A d \in Wallets, kind \in Kinds : Receive(k, kind, w, d, amount) =>
        \E cmd : Become(k, Started("loadSnapshot", cmd))
  BY DEF Receive, Started
<1> QED BY <1>2, <1>3, <1>4, <1>5

\* Each step of a request is one of the three.
LEMMA StepMoves ==
  ASSUME IInv, NEW k \in Workers, Step(k)
  PROVE  Alone(k) /\ (Moves(k) \/ Draws(k) \/ Inserts(k))
<1>1. worker[k] \in Requests
  BY WorkerType
<1>2. CASE LoadSnapshot(k)
  <2>1. PICK base \in {snapshots[Target(k)], NewAggregate} :
          Become(k, [worker[k] EXCEPT !.pc = "loadEvents", !.agg[worker[k].side] = base])
    BY <1>2 DEF LoadSnapshot
  <2> DEFINE r == [worker[k] EXCEPT !.pc = "loadEvents", !.agg[worker[k].side] = base]
  <2>2. r.pc = "loadEvents" /\ Become(k, r)
    BY <1>1, <2>1 DEF Requests
  <2> HIDE DEF r
  <2> QED BY <1>2, <2>2, BecomeMoves DEF LoadSnapshot, Moves
<1>3. CASE LoadEvents(k)
  <2> DEFINE base == Aggregate(k)
             new == EventsAfter(Target(k), base.version)
             agg(v) == [version |-> v, events |-> base.events \cup new]
  <2>1. \/ Become(k, AfterLoad(worker[k]))
        \/ \E v \in {e.version : e \in new} :
             /\ LastVersionIs(new, v)
             /\ Become(k, AfterLoad([worker[k] EXCEPT !.agg[worker[k].side] = agg(v)]))
        \/ Fail(k)
    BY <1>3 DEF LoadEvents
  <2>2. UNCHANGED <<store, nextId>>
    BY <1>3 DEF LoadEvents
  <2>3. CASE Become(k, AfterLoad(worker[k]))
    BY <1>1, <2>2, <2>3, AfterLoadMoves DEF Moves
  <2>4. ASSUME NEW v \in {e.version : e \in new}, LastVersionIs(new, v),
               Become(k, AfterLoad([worker[k] EXCEPT !.agg[worker[k].side] = agg(v)]))
        PROVE  Alone(k) /\ Moves(k)
    <3>1. agg(v) \in Aggregates
      <4>1. base \in Aggregates /\ worker[k].pc = "loadEvents"
        BY <1>3, TargetType DEF LoadEvents
      <4>2. new \in SUBSET Docs
        BY DEF IInv, TypeOK, EventsAfter, Stream
      <4>3. v \in Nat
        BY <4>2 DEF Docs
      <4> HIDE DEF base, new
      <4> QED BY <4>1, <4>2, <4>3 DEF Aggregates
    <3> DEFINE r == [worker[k] EXCEPT !.agg[worker[k].side] = agg(v)]
    <3>2. r \in Requests
      <4> HIDE DEF agg
      <4> QED BY <1>1, <3>1 DEF Requests
    <3>3. Become(k, AfterLoad(r))
      BY <2>4
    <3> HIDE DEF r
    <3> QED BY <2>2, <3>2, <3>3, AfterLoadMoves DEF Moves
  <2>5. CASE Fail(k)
    BY <2>2, <2>5, FailIs DEF Moves
  <2> QED BY <2>1, <2>3, <2>4, <2>5
<1>4. CASE Check(k)
  <2> DEFINE r == [worker[k] EXCEPT !.pc = "stamp"]
  <2>1. r.pc = "stamp"
    BY <1>1 DEF Requests
  <2>2. Become(k, r) \/ Fail(k)
    BY <1>4 DEF Check
  <2> HIDE DEF r
  <2> QED BY <1>4, <2>1, <2>2, BecomeMoves, FailIs DEF Check, Moves
<1>5. CASE Stamp(k)
  <2> DEFINE r == [worker[k] EXCEPT !.pc = "insert", !.id = nextId]
  <2>1. /\ r.pc = "insert" /\ r.id = nextId /\ r.cmd = worker[k].cmd
        /\ r.side = worker[k].side /\ r.agg = worker[k].agg
    BY <1>1 DEF Requests
  <2>2. Become(k, r) /\ nextId' = nextId + 1 /\ UNCHANGED store
    BY <1>5 DEF Stamp
  <2> HIDE DEF r
  <2> QED BY <2>1, <2>2, BecomeIs DEF Draws, Alone
<1>6. CASE InsertPersisted(k)
  <2> DEFINE doc == Document(k)
             saved == [version |-> doc.version, events |-> Aggregate(k).events \cup {doc}]
             r == [worker[k] EXCEPT !.agg[worker[k].side] = saved]
             q == [r EXCEPT !.pc = "snapshot"]
  <2>1. worker[k].pc = "insert" /\ store' = store \cup {doc} /\ UNCHANGED nextId
    BY <1>6 DEF InsertPersisted
  <2>2. Become(k, q) \/ Continue(k, r)
    BY <1>6 DEF InsertPersisted
  <2>3. r \in Requests /\ q.pc = "snapshot"
    <3>1. r \in Requests
      BY <2>1, InsertedIsSane
    <3> HIDE DEF r
    <3> QED BY <3>1 DEF Requests
  <2> HIDE DEF r, q
  <2> QED BY <2>1, <2>2, <2>3, BecomeMoves, ContinueMoves DEF Inserts
<1>7. CASE InsertFailed(k)
  BY <1>7, FailIs DEF InsertFailed, Moves, Inserts
<1>8. CASE SaveSnapshot(k)
  BY <1>1, <1>8, ContinueMoves DEF SaveSnapshot, Moves
<1> QED BY <1>2, <1>3, <1>4, <1>5, <1>6, <1>7, <1>8 DEF Step

\* So does any step of the handlers, for the one that takes it.
LEMMA HandleMoves ==
  ASSUME IInv, Handle
  PROVE  \E k \in Workers : Alone(k) /\ (Moves(k) \/ Draws(k) \/ Inserts(k))
<1>1. CASE \E k \in Workers : Step(k)
  BY <1>1, StepMoves
<1>2. CASE \E k \in Workers, w \in Wallets, amount \in Amounts :
             \/ ReceiveCreate(k, w, amount)
             \/ \E d \in Wallets, kind \in Kinds \ {"create"} : Receive(k, kind, w, d, amount)
  BY <1>2, ReceiveMoves
<1> QED BY <1>1, <1>2 DEF Handle
-----------------------------------------------------------------------------
(* The handlers' steps keep the invariant. *)

\* A goroutine starts without a request, and ends a request as it began.
LEMMA AloneKeepsIdle ==
  ASSUME IdleWorkers, NEW k \in Workers, Alone(k)
  PROVE  IdleWorkers'
BY DEF IdleWorkers, Alone

\* A step of a handler that stores nothing.
LEMMA MovesKeepsStamps ==
  ASSUME IInv, StampInv, NEW k \in Workers, Alone(k), Moves(k)
  PROVE  StampInv'
BY DEF StampInv, Moves, Alone

\* The id drawn is later than every other, so than those of the events read.
LEMMA DrawsKeepsStamps ==
  ASSUME IInv, StampInv, NEW k \in Workers, Alone(k), Draws(k)
  PROVE  StampInv'
<1> USE DEF StampInv
<1>1. /\ nextId \in Nat /\ nextId' = nextId + 1 /\ store' = store
      /\ \A d \in store : d.id \in Nat
      /\ \A j \in Workers : worker[j].id \in Nat
  BY WorkerType DEF Draws, IInv, TypeOK, Docs, Requests
<1>2. /\ worker'[k].pc = "insert" /\ worker'[k].id = nextId
      /\ \A j \in Workers : j # k => worker'[j] = worker[j]
  BY DEF Draws, Alone
<1>3. Drawn(store, worker'[k])
  BY <1>1, <1>2 DEF Drawn, StreamIn
<1>4. \A d \in store : d.id < nextId'
  BY <1>1
<1>5. ASSUME NEW j \in Workers, worker'[j].pc = "insert"
      PROVE  /\ worker'[j].id < nextId' /\ Drawn(store, worker'[j])
             /\ \A d \in store : d.id # worker'[j].id
  <2>1. CASE j = k
    BY <1>1, <1>2, <1>3, <2>1
  <2>2. CASE j # k
    <3>1. worker'[j] = worker[j]
      BY <1>2, <2>2
    <3>2. worker[j].pc = "insert" /\ worker[j].id \in Nat
      BY <1>1, <1>5, <3>1
    <3>3. worker[j].id < nextId
      BY <3>2
    <3> QED BY <1>1, <3>1, <3>2, <3>3
  <2> QED BY <2>1, <2>2
<1>6. ASSUME NEW i \in Workers, NEW j \in Workers, worker'[i].pc = "insert",
             worker'[j].pc = "insert", worker'[i].id = worker'[j].id
      PROVE  i = j
  <2>1. \A h \in Workers : h # k /\ worker'[h].pc = "insert" =>
          worker'[h] = worker[h] /\ worker[h].id < nextId
    BY <1>2
  <2> QED BY <1>1, <1>2, <1>6, <2>1
<1>7. \A w \in Wallets : UnforkedStream(store', w) => IdsFollowVersions(store', w)
  BY <1>1
<1> QED BY <1>1, <1>4, <1>5, <1>6, <1>7

\* What is known of the document a request inserts.
LEMMA Inserted ==
  ASSUME IInv, StampInv, NEW k \in Workers, worker[k].pc = "insert"
  PROVE  LET doc == Document(k)
         IN  /\ doc \in Docs /\ doc \notin store /\ doc.aggregate = Target(k)
             /\ doc.id = worker[k].id /\ doc.id < nextId
             /\ \A d \in store : d.id # doc.id
             /\ UnforkedStream(store, doc.aggregate) =>
                  \A e \in StreamIn(store, doc.aggregate) :
                    e.version < doc.version => e.id < doc.id
<1> DEFINE doc == Document(k)
<1>1. /\ doc \in Docs /\ doc.aggregate = Target(k)
      /\ doc.version = Aggregate(k).version + 1
  BY DocumentType
<1>2. doc.id = worker[k].id
  BY DEF Document
<1>3. doc.id < nextId /\ (\A d \in store : d.id # doc.id) /\ Drawn(store, worker[k])
  BY <1>2 DEF StampInv
<1> HIDE DEF doc
<1>4. doc \notin store
  BY <1>3
<1>5. ASSUME UnforkedStream(store, doc.aggregate),
             NEW e \in StreamIn(store, doc.aggregate), e.version < doc.version
      PROVE  e.id < doc.id
  <2>1. e.version \in Nat /\ Aggregate(k).version \in Int
    <3>1. e \in Docs
      BY DEF IInv, TypeOK, StreamIn
    <3>2. Aggregate(k) \in Aggregates
      BY TargetType
    <3> QED BY <3>1, <3>2 DEF Docs, Aggregates
  <2>2. e.version <= Aggregate(k).version
    BY <1>1, <1>5, <2>1
  <2> QED BY <1>1, <1>2, <1>3, <1>5, <2>2 DEF Drawn, Target, Aggregate
<1> QED BY <1>1, <1>2, <1>3, <1>4, <1>5 DEF doc

\* The document inserted takes its id out of flight.
LEMMA InsertsKeepsStamps ==
  ASSUME IInv, StampInv, NEW k \in Workers, Alone(k), Inserts(k)
  PROVE  StampInv'
<1> DEFINE doc == Document(k)
<1>1. /\ worker[k].pc = "insert" /\ worker'[k].pc # "insert"
      /\ store' = store \cup {doc} /\ nextId' = nextId
      /\ \A j \in Workers : j # k => worker'[j] = worker[j]
  BY DEF Inserts, Alone
<1>2. /\ doc \in Docs /\ doc \notin store
      /\ doc.id = worker[k].id /\ doc.id < nextId
      /\ \A d \in store : d.id # doc.id
      /\ UnforkedStream(store, doc.aggregate) =>
           \A e \in StreamIn(store, doc.aggregate) :
             e.version < doc.version => e.id < doc.id
  BY <1>1, Inserted
<1>3. store \in SUBSET Docs /\ Dense(store)
  BY DEF IInv, TypeOK
<1> HIDE DEF doc
<1>4. /\ \A d \in store' : d.id < nextId'
      /\ \A d, e \in store' : d.id = e.id => d = e
  BY <1>1, <1>2 DEF StampInv
<1>5. ASSUME NEW j \in Workers, worker'[j].pc = "insert"
      PROVE  /\ worker'[j].id < nextId' /\ Drawn(store', worker'[j])
             /\ \A d \in store' : d.id # worker'[j].id
  <2>1. j # k /\ worker'[j] = worker[j] /\ worker[j].pc = "insert"
    BY <1>1, <1>5
  <2>2. worker[j].id # doc.id
    BY <1>1, <1>2, <2>1 DEF StampInv
  <2>3. Drawn(store', worker[j])
    <3>1. worker[j] \in Requests /\ Sane(store, worker[j])
      BY WorkerType
    <3>2. LoadedFrom(store, WalletOf(worker[j].cmd, worker[j].side),
                     worker[j].agg[worker[j].side])
      BY <2>1, <3>1 DEF Sane, Requests
    <3> QED BY <1>1, <1>2, <1>3, <2>1, <3>1, <3>2, InsertKeepsDrawn DEF StampInv
  <2> QED BY <1>1, <2>1, <2>2, <2>3 DEF StampInv
<1>6. \A i, j \in Workers :
        worker'[i].pc = "insert" /\ worker'[j].pc = "insert" /\ worker'[i].id = worker'[j].id
          => i = j
  BY <1>1 DEF StampInv
<1>7. \A w \in Wallets : UnforkedStream(store', w) => IdsFollowVersions(store', w)
  BY <1>1, <1>2, <1>3, InsertKeepsIdsInOrder DEF StampInv
<1> QED BY <1>4, <1>5, <1>6, <1>7 DEF StampInv

\* An insertion puts nothing in front of what the publisher has read or sent.
LEMMA NothingBefore ==
  ASSUME IInv, StampInv, NEW k \in Workers, Alone(k), Inserts(k), StampInv',
         NEW b \in store, UnforkedStream(store', b.aggregate)
  PROVE  /\ UnforkedStream(store, b.aggregate)
         /\ \A d \in StreamIn(store', b.aggregate) :
              d.id < b.id => d \in StreamIn(store, b.aggregate)
<1> DEFINE doc == Document(k)
<1>1. worker[k].pc = "insert" /\ store' = store \cup {doc}
  BY DEF Inserts
<1>2. doc \in Docs /\ doc \notin store
  BY <1>1, Inserted
<1>3. store \in SUBSET Docs /\ Dense(store)
  BY DEF IInv, TypeOK
<1> HIDE DEF doc
<1>4. UnforkedStream(store, b.aggregate)
  BY <1>1, UnforkedBefore
<1>5. ASSUME doc.aggregate = b.aggregate PROVE ~ (doc.id < b.id)
  <2>1. b \in StreamIn(store, doc.aggregate)
    BY <1>5 DEF StreamIn
  <2>2. b.version < doc.version
    BY <1>1, <1>2, <1>3, <1>5, <2>1, InsertGoesLast
  <2>3. b.aggregate \in Wallets /\ b.id \in Nat /\ doc.id \in Nat
    BY <1>2, <1>3 DEF Docs
  <2>4. b.id < doc.id
    BY <1>1, <1>5, <2>2, <2>3 DEF StampInv, IdsFollowVersions, StreamIn
  <2> QED BY <2>3, <2>4
<1> QED BY <1>1, <1>4, <1>5 DEF StreamIn

\* So the publisher's part of the invariant outlives every step of a handler.
LEMMA HandleKeepsOutbox ==
  ASSUME WriteInv, NEW k \in Workers, Alone(k), StampInv',
         (Moves(k) \/ Draws(k)) \/ Inserts(k),
         UNCHANGED <<published, topic, publisher>>
  PROVE  PublisherType' /\ BatchInv' /\ TopicInv' /\ OrderUnlessForked'
<1> USE DEF WriteInv
<1>1. PublisherType'
  BY DEF PublisherType
<1>2. CASE store' = store
  BY <1>1, <1>2 DEF BatchInv, TopicInv, Settled, OrderUnlessForked, Stream
<1>3. CASE Inserts(k)
  <2>1. \A b \in store : UnforkedStream(store', b.aggregate) =>
          /\ UnforkedStream(store, b.aggregate)
          /\ \A d \in StreamIn(store', b.aggregate) :
               d.id < b.id => d \in StreamIn(store, b.aggregate)
    BY <1>3, NothingBefore
  <2>2. store \subseteq store'
    BY <1>3 DEF Inserts
  <2>3. BatchInv'
    <3>1. publisher.batch \subseteq store' /\ \A b \in publisher.batch : b.id \notin published
      BY <2>2 DEF BatchInv
    <3>2. ASSUME NEW b \in publisher.batch, UnforkedStream(store', b.aggregate),
                 NEW d \in StreamIn(store', b.aggregate), d.id < b.id
          PROVE  d.id \in published \/ d \in publisher.batch
      <4>1. b \in store
        BY DEF BatchInv
      <4>2. UnforkedStream(store, b.aggregate) /\ d \in StreamIn(store, b.aggregate)
        BY <2>1, <3>2, <4>1
      <4> QED BY <3>2, <4>2 DEF BatchInv
    <3> QED BY <3>1, <3>2 DEF BatchInv
  <2>4. ASSUME NEW m, Settled(m) PROVE Settled(m)'
    <3>1. m \in store /\ m \in store'
      BY <2>2, <2>4 DEF Settled
    <3>2. ASSUME UnforkedStream(store', m.aggregate),
                 NEW e \in StreamIn(store', m.aggregate), e.id < m.id
          PROVE  e.id \in published
      <4>1. UnforkedStream(store, m.aggregate) /\ e \in StreamIn(store, m.aggregate)
        BY <2>1, <3>1, <3>2
      <4> QED BY <2>4, <3>2, <4>1 DEF Settled
    <3> QED BY <3>1, <3>2 DEF Settled
  <2>5. TopicInv'
    BY <2>4 DEF TopicInv
  <2>6. OrderUnlessForked'
    BY <2>2 DEF OrderUnlessForked, Stream
  <2> QED BY <1>1, <2>3, <2>5, <2>6
<1> QED BY <1>2, <1>3 DEF Moves, Draws

\* Handlers keep the invariant.
LEMMA HandleCommandInvariant ==
  ASSUME WriteInv, HandleCommand
  PROVE  WriteInv'
<1> USE DEF WriteInv
<1>1. Handle /\ UNCHANGED <<published, topic, publisher>>
  BY DEF HandleCommand
<1>2. IInv'
  BY <1>1, StepInvariant DEF Next
<1>3. PICK k \in Workers : Alone(k) /\ (Moves(k) \/ Draws(k) \/ Inserts(k))
  BY <1>1, HandleMoves
<1>4. StampInv'
  BY <1>3, MovesKeepsStamps, DrawsKeepsStamps, InsertsKeepsStamps
<1>5. PublisherType' /\ BatchInv' /\ TopicInv' /\ OrderUnlessForked'
  BY <1>1, <1>3, <1>4, HandleKeepsOutbox
<1> QED BY <1>2, <1>3, <1>4, <1>5, AloneKeepsIdle
-----------------------------------------------------------------------------
(* The publisher's steps keep the invariant. *)

\* The publisher leaves the event store and its handlers alone.
LEMMA PublisherOnly ==
  ASSUME WriteInv, UNCHANGED <<store, handlerVars>>
  PROVE  IInv' /\ IdleWorkers' /\ StampInv'
<1>1. UNCHANGED <<store, snapshots, worker, nextId, issued, acked>>
  BY DEF handlerVars
<1>2. IInv'
  BY <1>1, StepInvariant DEF WriteInv, esVars
<1>3. IdleWorkers' /\ StampInv'
  BY <1>1 DEF WriteInv, IdleWorkers, StampInv
<1> QED BY <1>2, <1>3

\* Sending the head of the batch.
LEMMA SendKeepsTopic ==
  ASSUME WriteInv, NEW h \in publisher.batch, O!IsHead(h), O!Send(h),
         UNCHANGED <<store, published>>
  PROVE  topic' \in [Partitions -> Seq(Docs)] /\ TopicInv' /\ OrderUnlessForked'
<1> USE DEF WriteInv
<1> DEFINE q == PartitionOf[h.aggregate]
<1>1. /\ h \in store /\ h \in Docs /\ h.id \notin published
      /\ \A d \in store : d \in Docs
  BY DEF BatchInv, IInv, TypeOK
<1>2. topic \in [Partitions -> Seq(Docs)]
  BY DEF PublisherType
<1>3. topic' = [topic EXCEPT ![q] = Append(topic[q], h)]
  BY DEF O!Send
<1> HIDE DEF q
<1>4. topic' \in [Partitions -> Seq(Docs)]
  <2>1. q \in Partitions => Append(topic[q], h) \in Seq(Docs)
    BY <1>1, <1>2
  <2> QED BY <1>2, <1>3, <2>1
<1>5. \A p \in Partitions : \A i \in 1 .. Len(topic'[p]) :
        \/ i \in 1 .. Len(topic[p]) /\ topic'[p][i] = topic[p][i]
        \/ p = q /\ i = Len(topic[q]) + 1 /\ topic'[p][i] = h
  <2> TAKE p \in Partitions
  <2> TAKE i \in 1 .. Len(topic'[p])
  <2>1. topic[p] \in Seq(Docs) /\ Len(topic[p]) \in Nat
    BY <1>2
  <2>2. CASE p = q
    <3>1. topic'[p] = Append(topic[p], h)
      BY <1>2, <1>3, <2>2
    <3> QED BY <2>1, <2>2, <3>1
  <2>3. CASE p # q
    BY <1>2, <1>3, <2>3
  <2> QED BY <2>2, <2>3
<1>6. Settled(h)
  <2>1. ASSUME UnforkedStream(store, h.aggregate),
               NEW e \in StreamIn(store, h.aggregate), e.id < h.id
        PROVE  e.id \in published
    <3>1. e \notin publisher.batch
      <4>1. e.id \in Nat /\ h.id \in Nat
        BY <1>1 DEF StreamIn, Docs
      <4> QED BY <2>1, <4>1 DEF O!IsHead
    <3> QED BY <2>1, <3>1 DEF BatchInv
  <2> QED BY <1>1, <2>1 DEF Settled
<1>7. \A d : Settled(d) => Settled(d)'
  BY DEF Settled
<1>8. TopicInv'
  BY <1>5, <1>6, <1>7 DEF TopicInv
<1>9. ASSUME NEW m, Settled(m), m.aggregate = h.aggregate,
             UnforkedStream(store, h.aggregate)
      PROVE  m.version <= h.version
  <2>1. /\ m \in store /\ m.version \in Nat /\ h.version \in Nat
        /\ h.aggregate \in Wallets
    BY <1>1, <1>9 DEF Settled, Docs
  <2>2. ASSUME h.version < m.version PROVE FALSE
    <3>1. h.id < m.id
      BY <1>1, <1>9, <2>1, <2>2 DEF StampInv, IdsFollowVersions, StreamIn
    <3>2. h.id \in published
      BY <1>1, <1>9, <3>1 DEF Settled, StreamIn
    <3> QED BY <1>1, <3>2
  <2> QED BY <2>1, <2>2
<1>10. OrderUnlessForked'
  <2> SUFFICES ASSUME NEW p \in Partitions,
                      NEW i \in 1 .. Len(topic'[p]), NEW j \in 1 .. Len(topic'[p]),
                      i < j, topic'[p][i].aggregate = topic'[p][j].aggregate,
                      UnforkedStream(store, topic'[p][i].aggregate)
               PROVE  topic'[p][i].version <= topic'[p][j].version
    BY DEF OrderUnlessForked, UnforkedStream, StreamIn, Stream
  <2>1. Len(topic[p]) \in Nat
    BY <1>2
  <2>2. CASE j \in 1 .. Len(topic[p]) /\ topic'[p][j] = topic[p][j]
    <3>1. i \in 1 .. Len(topic[p]) /\ i # Len(topic[p]) + 1
      BY <2>1, <2>2
    <3>2. topic'[p][i] = topic[p][i]
      BY <1>5, <3>1
    <3>3. UnforkedStream(store, topic[p][i].aggregate)
      BY <3>2
    <3>4. \A d, e \in Stream(topic[p][i].aggregate) : d.version = e.version => d = e
      BY <3>3 DEF UnforkedStream, StreamIn, Stream
    <3> QED BY <2>2, <3>1, <3>2, <3>4 DEF OrderUnlessForked
  <2>3. CASE p = q /\ j = Len(topic[q]) + 1 /\ topic'[p][j] = h
    <3>1. i \in 1 .. Len(topic[p]) /\ topic'[p][i] = topic[p][i]
      BY <1>5, <2>1, <2>3
    <3>2. Settled(topic[p][i])
      BY <3>1 DEF TopicInv
    <3> QED BY <1>9, <2>3, <3>1, <3>2
  <2> QED BY <1>5, <2>2, <2>3
<1> QED BY <1>4, <1>8, <1>10

\* A step that does not send: the batch may be given back, or its head marked.
LEMMA TopicStays ==
  ASSUME WriteInv, UNCHANGED <<store, topic>>, published \subseteq published'
  PROVE  TopicInv' /\ OrderUnlessForked'
BY DEF WriteInv, TopicInv, Settled, OrderUnlessForked, Stream

\* A publisher that waits holds nothing.
LEMMA WaitingIsInOrder ==
  ASSUME WriteInv, publisher' = O!Waiting, topic' \in [Partitions -> Seq(Docs)]
  PROVE  PublisherType' /\ BatchInv'
BY DEF O!Waiting, PublisherType, BatchInv

\* The head of the batch is marked, and the rest is gone on with or given up.
LEMMA MarkKeepsBatch ==
  ASSUME WriteInv, NEW h \in publisher.batch, published' = published \cup {h.id},
         UNCHANGED <<store, topic>>,
         \/ publisher' = O!Waiting
         \/ publisher' = [pc |-> "produce", batch |-> publisher.batch \ {h}]
  PROVE  PublisherType' /\ BatchInv'
<1> USE DEF WriteInv
<1>1. topic' \in [Partitions -> Seq(Docs)] /\ publisher.batch \in SUBSET Docs
  BY DEF PublisherType
<1>2. CASE publisher' = O!Waiting
  BY <1>1, <1>2, WaitingIsInOrder
<1>3. CASE publisher' = [pc |-> "produce", batch |-> publisher.batch \ {h}]
  <2>1. PublisherType' /\ publisher'.batch = publisher.batch \ {h}
    BY <1>1, <1>3 DEF PublisherType
  <2>2. \A b \in publisher'.batch : b \in publisher.batch /\ b \in store /\ b.id # h.id
    BY <2>1 DEF BatchInv, StampInv
  <2>3. BatchInv'
    BY <2>1, <2>2 DEF BatchInv
  <2> QED BY <2>1, <2>3
<1> QED BY <1>2, <1>3

\* A call whose outcome only moves the publisher keeps its batch.
LEMMA BatchStays ==
  ASSUME WriteInv, UNCHANGED <<store, published>>,
         NEW pc \in {"mark", "record"}, publisher' = [publisher EXCEPT !.pc = pc],
         topic' \in [Partitions -> Seq(Docs)]
  PROVE  PublisherType' /\ BatchInv'
<1>1. publisher \in [pc : {"waiting", "produce", "mark", "record"}, batch : SUBSET Docs]
  BY DEF WriteInv, PublisherType
<1>2. publisher'.batch = publisher.batch /\ PublisherType'
  BY <1>1 DEF PublisherType
<1> QED BY <1>2 DEF WriteInv, BatchInv

\* A batch of the oldest pending entries leaves no predecessor behind.
LEMMA FindKeepsBatch ==
  ASSUME WriteInv, O!Find
  PROVE  PublisherType' /\ BatchInv' /\ TopicInv' /\ OrderUnlessForked'
<1> USE DEF WriteInv
<1>1. PICK batch \in SUBSET O!Pending :
        O!IsOldestPending(batch) /\ publisher' = [pc |-> "produce", batch |-> batch]
  BY DEF O!Find
<1>2. UNCHANGED <<store, published, topic>>
  BY DEF O!Find
<1>3. /\ batch \subseteq store /\ (\A b \in batch : b.id \notin published)
      /\ publisher'.batch = batch /\ store \subseteq Docs
  BY <1>1 DEF O!Pending, IInv, TypeOK
<1>4. PublisherType'
  BY <1>1, <1>2, <1>3 DEF PublisherType
<1>5. ASSUME NEW b \in batch, NEW d \in StreamIn(store, b.aggregate), d.id < b.id,
             d.id \notin published
      PROVE  d \in batch
  <2>1. d \in O!Pending /\ d.id \in Nat /\ b.id \in Nat
    BY <1>3, <1>5 DEF O!Pending, StreamIn, Docs
  <2>2. d \notin batch => b.id < d.id
    BY <1>1, <2>1 DEF O!IsOldestPending
  <2> QED BY <1>5, <2>1, <2>2
<1>6. BatchInv'
  BY <1>2, <1>3, <1>5 DEF BatchInv
<1> QED BY <1>2, <1>4, <1>6, TopicStays

\* The publisher keeps the invariant.
LEMMA PublishInvariant ==
  ASSUME WriteInv, PublishEvents
  PROVE  WriteInv'
<1> USE DEF WriteInv
<1>1. O!Publish /\ UNCHANGED <<store, handlerVars>>
  BY DEF PublishEvents, O!Publish, O!Find, O!Produce, O!ProduceFails, O!Record,
         O!Mark, O!MarkFails
<1>2. IInv' /\ IdleWorkers' /\ StampInv'
  BY <1>1, PublisherOnly
<1>3. store' = store /\ topic \in [Partitions -> Seq(Docs)]
  BY <1>1 DEF PublisherType
<1>4. CASE O!Find
  BY <1>2, <1>4, FindKeepsBatch
<1>5. CASE O!Produce
  <2>1. PICK h \in publisher.batch : O!IsHead(h) /\ O!Send(h)
    BY <1>5 DEF O!Produce
  <2>2. publisher' = [publisher EXCEPT !.pc = "mark"] /\ UNCHANGED published
    BY <1>5 DEF O!Produce
  <2>3. topic' \in [Partitions -> Seq(Docs)] /\ TopicInv' /\ OrderUnlessForked'
    BY <1>3, <2>1, <2>2, SendKeepsTopic
  <2> QED BY <1>2, <1>3, <2>2, <2>3, BatchStays
<1>6. CASE O!ProduceFails
  <2>1. publisher' = [publisher EXCEPT !.pc = "record"] /\ UNCHANGED published
    BY <1>6 DEF O!ProduceFails
  <2>2. topic' \in [Partitions -> Seq(Docs)] /\ TopicInv' /\ OrderUnlessForked'
    <3>1. CASE UNCHANGED topic
      BY <1>3, <2>1, <3>1, TopicStays
    <3>2. CASE \E d \in publisher.batch : O!IsHead(d) /\ O!Send(d)
      BY <1>3, <2>1, <3>2, SendKeepsTopic
    <3> QED BY <1>6, <3>1, <3>2 DEF O!ProduceFails
  <2> QED BY <1>2, <1>3, <2>1, <2>2, BatchStays
<1>7. CASE O!Record
  <2>1. publisher' = O!Waiting /\ UNCHANGED <<published, topic>>
    BY <1>7 DEF O!Record
  <2> QED BY <1>2, <1>3, <2>1, TopicStays, WaitingIsInOrder
<1>8. CASE O!Mark \/ (O!MarkFails /\ ~ UNCHANGED published)
  <2>1. PICK h \in publisher.batch :
          /\ published' = published \cup {h.id}
          /\ \/ publisher' = O!Waiting
             \/ publisher' = [pc |-> "produce", batch |-> publisher.batch \ {h}]
    BY <1>8 DEF O!Mark, O!MarkFails
  <2>2. UNCHANGED topic
    BY <1>8 DEF O!Mark, O!MarkFails
  <2> QED BY <1>2, <1>3, <2>1, <2>2, MarkKeepsBatch, TopicStays
<1>9. CASE O!MarkFails /\ UNCHANGED published
  <2>1. publisher' = O!Waiting /\ UNCHANGED topic
    BY <1>9 DEF O!MarkFails
  <2> QED BY <1>2, <1>3, <1>9, <2>1, TopicStays, WaitingIsInOrder
<1> QED BY <1>1, <1>4, <1>5, <1>6, <1>7, <1>8, <1>9 DEF O!Publish

\* A restart of the process: to the event store a crash, or nothing.
LEMMA RestartIsCrash ==
  ASSUME IInv, IdleWorkers, Restart
  PROVE  [Crash]_esVars
<1>1. worker' = [k \in Workers |-> Idle] /\ UNCHANGED <<store, snapshots, nextId, issued, acked>>
  BY DEF Restart
<1>2. CASE \E k \in Workers : worker[k].pc # "idle"
  BY <1>1, <1>2 DEF Crash
<1>3. CASE \A k \in Workers : worker[k].pc = "idle"
  <2>1. \A k \in Workers : worker[k] = Idle
    BY <1>3 DEF IdleWorkers
  <2>2. worker' = worker
    BY <1>1, <2>1 DEF IInv, TypeOK
  <2> QED BY <1>1, <2>2 DEF esVars
<1> QED BY <1>2, <1>3

\* A restart keeps it: ids in flight and the batch are forgotten.
LEMMA RestartInvariant ==
  ASSUME WriteInv, Restart
  PROVE  WriteInv'
<1> USE DEF WriteInv
<1>1. /\ worker' = [k \in Workers |-> Idle] /\ publisher' = O!Waiting
      /\ UNCHANGED <<store, nextId, published, topic>>
  BY DEF Restart
<1>2. IInv'
  BY RestartIsCrash, StepInvariant DEF Next
<1>3. \A k \in Workers : worker'[k] = Idle /\ worker'[k].pc = "idle"
  BY <1>1, IdlePc
<1>4. IdleWorkers'
  BY <1>3 DEF IdleWorkers
<1>5. StampInv'
  BY <1>1, <1>3 DEF StampInv
<1>6. topic' \in [Partitions -> Seq(Docs)]
  BY <1>1 DEF PublisherType
<1> QED BY <1>1, <1>2, <1>4, <1>5, <1>6, TopicStays, WaitingIsInOrder
-----------------------------------------------------------------------------
(* The theorems. *)

\* With an empty store and topic the invariant holds.
LEMMA WriteInitInvariant == WriteInit => WriteInv
<1> SUFFICES ASSUME WriteInit PROVE WriteInv
  OBVIOUS
<1>1. /\ store = {} /\ worker = [k \in Workers |-> Idle]
      /\ topic = [p \in Partitions |-> <<>>] /\ publisher = O!Waiting
  BY DEF WriteInit, Init, O!OutboxInit
<1>2. IInv
  BY InitInvariant DEF WriteInit
<1>3. IdleWorkers /\ StampInv
  BY <1>1, IdlePc DEF IdleWorkers, StampInv, IdsFollowVersions, StreamIn
<1>4. PublisherType /\ BatchInv
  BY <1>1 DEF O!Waiting, PublisherType, BatchInv
<1>5. TopicInv /\ OrderUnlessForked
  BY <1>1 DEF TopicInv, OrderUnlessForked
<1> QED BY <1>2, <1>3, <1>4, <1>5 DEF WriteInv

\* Every step of the process keeps it.
LEMMA WriteStepInvariant == WriteInv /\ [WriteNext]_vars => WriteInv'
<1> SUFFICES ASSUME WriteInv, [WriteNext]_vars PROVE WriteInv'
  OBVIOUS
<1>1. CASE UNCHANGED vars
  <2>1. UNCHANGED <<store, handlerVars>> /\ UNCHANGED <<published, topic, publisher>>
    BY <1>1 DEF vars
  <2>2. IInv' /\ IdleWorkers' /\ StampInv'
    BY <2>1, PublisherOnly
  <2>3. PublisherType' /\ BatchInv' /\ TopicInv' /\ OrderUnlessForked'
    BY <2>1 DEF WriteInv, PublisherType, BatchInv, TopicInv, Settled,
                OrderUnlessForked, Stream
  <2> QED BY <2>2, <2>3 DEF WriteInv
<1> QED
  BY <1>1, HandleCommandInvariant, PublishInvariant, RestartInvariant DEF WriteNext

\* Whatever the handlers, the publisher, its failures and the restarts do.
THEOREM WriteInvariance == WriteSpec => []WriteInv
BY WriteInitInvariant, WriteStepInvariant, PTL DEF WriteSpec

\* The publisher sorts by _id and the handlers number by version: on a stream
\* that no race has forked, readers see the versions without a step back.
THEOREM OrderOnUnforkedStreams == WriteSpec => []OrderUnlessForked
<1>1. WriteInv => OrderUnlessForked
  BY DEF WriteInv
<1> QED BY <1>1, WriteInvariance, PTL

\* The publisher and the restarts of the process do nothing to the event store
\* that EventStore does not have: what is proved of it holds of the process.
THEOREM ProcessImplementsEventStore == WriteSpec => Spec
<1>1. WriteInit => Init
  BY DEF WriteInit
<1>2. WriteInv /\ [WriteNext]_vars => [Next]_esVars
  <2> SUFFICES ASSUME WriteInv, [WriteNext]_vars PROVE [Next]_esVars
    OBVIOUS
  <2>1. CASE HandleCommand
    BY <2>1 DEF HandleCommand, Next
  <2>2. CASE PublishEvents
    BY <2>2 DEF PublishEvents, handlerVars, esVars, O!Publish, O!Find, O!Produce,
                O!ProduceFails, O!Record, O!Mark, O!MarkFails
  <2>3. CASE Restart
    BY <2>3, RestartIsCrash DEF WriteInv, Next
  <2>4. CASE UNCHANGED vars
    BY <2>4 DEF vars, handlerVars, esVars
  <2> QED BY <2>1, <2>2, <2>3, <2>4 DEF WriteNext
<1> QED BY <1>1, <1>2, WriteInvariance, PTL DEF WriteSpec, Spec
=============================================================================
