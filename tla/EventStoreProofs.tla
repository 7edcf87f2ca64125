-------------------------- MODULE EventStoreProofs --------------------------
(***************************************************************************)
(* Proofs, for any number of wallets, workers, commands and amounts and    *)
(* any snapshot threshold, of the safety properties of EventStore.         *)
(*                                                                         *)
(* What an invariant says of the store is stated of any set of documents,  *)
(* so that the effect of an insertion is a fact about sets.                *)
(***************************************************************************)
EXTENDS EventStore, FiniteSetTheorems, TLAPS

Sums == INSTANCE SetSums WITH Value <- Signed

StreamIn(docs, w) == {e \in docs : e.aggregate = w}
PrefixIn(docs, w, v) == {e \in StreamIn(docs, w) : e.version <= v}
UnforkedIn(docs, w, v) ==
  \A d, e \in PrefixIn(docs, w, v) : d.version = e.version => d = e

\* Streams have no holes.
Dense(docs) ==
  \A e \in docs : \A v \in 0 .. (e.version - 1) :
    \E d \in StreamIn(docs, e.aggregate) : d.version = v

\* An aggregate of w was loaded from these documents: its version is one of
\* the stream's, what it has folded is of the stream and not later than that,
\* and without a fork it is all of that.
LoadedFrom(docs, w, agg) ==
  /\ agg.version >= 0 => \E e \in StreamIn(docs, w) : e.version = agg.version
  /\ \A e \in agg.events : e \in StreamIn(docs, w) /\ e.version <= agg.version
  /\ UnforkedIn(docs, w, agg.version) =>
       agg.events = PrefixIn(docs, w, agg.version)

\* No prefix of an unforked stream is overdrawn.
Solvent(docs) ==
  \A e \in docs : UnforkedIn(docs, e.aggregate, e.version) =>
    Balance(PrefixIn(docs, e.aggregate, e.version)) >= 0

WroteIn(docs, cmd, side) ==
  \E e \in StreamIn(docs, WalletOf(cmd, side)) :
    /\ e.command = cmd.n
    /\ e.type = EventType(cmd, side)
    /\ e.amount = cmd.amount

FundedIn(docs) ==
  \A e \in docs : e.type = "TRANSFER_IN" =>
    \E d \in docs : /\ d.type = "TRANSFER_OUT"
                    /\ d.command = e.command
                    /\ d.amount = e.amount
                    /\ d.aggregate # e.aggregate

DurableIn(docs, cmds) ==
  \A cmd \in cmds :
    /\ WroteIn(docs, cmd, "source")
    /\ cmd.kind = "transfer" => WroteIn(docs, cmd, "destination")

\* From the decision to the end of a request: what the command may do is
\* decided, and what the request has saved so far is in the store.
Saving == {"check", "stamp", "insert", "snapshot"}
Decided(docs, r) ==
  /\ IF r.cmd.kind = "create" THEN r.cmd.amount >= 0 ELSE r.cmd.amount > 0
  /\ r.cmd.kind = "transfer" => r.cmd.wallet # r.cmd.dest
  /\ r.cmd.kind \in {"debit", "transfer"} /\ r.side = "source" /\ r.pc # "snapshot" =>
       r.cmd.amount <= Balance(r.agg["source"].events)
  /\ r.side = "destination" => WroteIn(docs, r.cmd, "source")
  /\ r.pc = "snapshot" => WroteIn(docs, r.cmd, r.side)

\* A request in the hands of a goroutine.
Sane(docs, r) ==
  r.pc # "idle" =>
    /\ r.cmd \in Commands
    /\ r.side = "destination" => r.cmd.kind = "transfer"
    /\ \A side \in Sides : LoadedFrom(docs, WalletOf(r.cmd, side), r.agg[side])
    /\ r.pc \in Saving => Decided(docs, r)

IInv ==
  /\ TypeOK
  /\ IsFiniteSet(store)
  /\ Dense(store)
  /\ Solvent(store)
  /\ FundedIn(store)
  /\ DurableIn(store, acked)
  /\ \A w \in Wallets : LoadedFrom(store, w, snapshots[w])
  /\ \A k \in Workers : Sane(store, worker[k])
USE AmountsAssumption
-----------------------------------------------------------------------------
(* Balances. *)

\* Balance is the sum SetSums speaks of, and finiteness is the same notion.
LEMMA BalanceIsSum == \A events : Balance(events) = Sums!Sum(events)
BY DEF Balance, MapThenSumSet, MapThenFoldSet,
       Sums!Sum, Sums!MapThenSumSet, Sums!MapThenFoldSet

\* SetSums speaks of the same finite sets.
LEMMA FiniteIsFinite == \A S : IsFiniteSet(S) <=> Sums!IsFiniteSet(S)
BY DEF IsFiniteSet, Sums!IsFiniteSet

\* Every document moves a whole amount.
LEMMA SignedIsInt == \A d \in Docs : Signed(d) \in Int
<1> TAKE d \in Docs
<1>1. d.amount \in Int
  BY DEF Docs
<1>2. -d.amount \in Int
  BY <1>1
<1>3. Signed(d) = d.amount \/ Signed(d) = -d.amount
  BY DEF Signed
<1> QED BY <1>1, <1>2, <1>3

\* The balance of a new wallet is 0, every balance is a whole amount, and a
\* further event changes it by what the event moves.
LEMMA BalanceOfNothing == Balance({}) = 0
BY Sums!SumOfEmpty, BalanceIsSum

\* A balance is whole.
LEMMA BalanceIsInt ==
  ASSUME NEW events \in SUBSET Docs, IsFiniteSet(events)
  PROVE  Balance(events) \in Int
<1>1. \A d \in events : Signed(d) \in Int
  BY SignedIsInt
<1> QED BY <1>1, Sums!SumIsInt, BalanceIsSum, FiniteIsFinite

\* A further event changes the balance by what it moves.
LEMMA BalanceAfter ==
  ASSUME NEW events \in SUBSET Docs, IsFiniteSet(events),
         NEW doc \in Docs, doc \notin events
  PROVE  Balance(events \cup {doc}) = Balance(events) + Signed(doc)
<1>1. \A d \in events \cup {doc} : Signed(d) \in Int
  BY SignedIsInt
<1> QED BY <1>1, Sums!SumAdd, BalanceIsSum, FiniteIsFinite
-----------------------------------------------------------------------------
(* The insertion of one document, numbered on from a loaded aggregate. *)

\* It leaves no hole.
LEMMA InsertKeepsDense ==
  ASSUME NEW docs \in SUBSET Docs, Dense(docs),
         NEW w \in Wallets, NEW agg \in Aggregates, LoadedFrom(docs, w, agg),
         NEW doc \in Docs, doc.aggregate = w, doc.version = agg.version + 1
  PROVE  Dense(docs \cup {doc})
<1> USE DEF Docs, Aggregates
<1>1. SUFFICES ASSUME NEW e \in docs \cup {doc}, NEW v \in 0 .. (e.version - 1)
               PROVE  \E d \in StreamIn(docs \cup {doc}, e.aggregate) : d.version = v
  BY DEF Dense
<1>2. CASE e \in docs
  BY <1>2 DEF Dense, StreamIn
<1>3. CASE e = doc
  <2>1. v \in Nat /\ v <= agg.version
    BY <1>3
  <2>2. PICK d \in StreamIn(docs, w) : d.version = agg.version
    BY <2>1 DEF LoadedFrom
  <2>3. CASE v = agg.version
    BY <1>3, <2>2, <2>3 DEF StreamIn
  <2>4. CASE v # agg.version
    <3>1. d \in docs /\ d.aggregate = w /\ v \in 0 .. (d.version - 1)
      BY <2>1, <2>2, <2>4 DEF StreamIn
    <3> QED BY <1>3, <3>1 DEF Dense, StreamIn
  <2> QED BY <2>3, <2>4
<1> QED BY <1>2, <1>3

\* A version at or before the end of a stream is taken, so a new document with
\* that version forks the stream from there on.
LEMMA LateInsertForks ==
  ASSUME NEW docs \in SUBSET Docs, Dense(docs), NEW doc \in Docs, doc \notin docs,
         NEW e \in StreamIn(docs, doc.aggregate), doc.version <= e.version,
         NEW v \in Int, e.version <= v
  PROVE  ~ UnforkedIn(docs \cup {doc}, doc.aggregate, v)
<1> USE DEF Docs
<1>1. PICK d \in StreamIn(docs, doc.aggregate) : d.version = doc.version
  <2>1. CASE doc.version = e.version
    BY <2>1
  <2>2. CASE doc.version # e.version
    <3>1. e \in docs /\ e.aggregate = doc.aggregate /\ doc.version \in 0 .. (e.version - 1)
      BY <2>2 DEF StreamIn
    <3> QED BY <3>1 DEF Dense
  <2> QED BY <2>1, <2>2
<1>2. /\ d \in PrefixIn(docs \cup {doc}, doc.aggregate, v)
      /\ doc \in PrefixIn(docs \cup {doc}, doc.aggregate, v)
      /\ d # doc
  BY <1>1 DEF StreamIn, PrefixIn
<1> QED BY <1>1, <1>2 DEF UnforkedIn

\* Every aggregate loaded before stays loaded.
LEMMA InsertKeepsLoaded ==
  ASSUME NEW docs \in SUBSET Docs, Dense(docs), NEW doc \in Docs,
         NEW w \in Wallets, NEW agg \in Aggregates, LoadedFrom(docs, w, agg)
  PROVE  LoadedFrom(docs \cup {doc}, w, agg)
<1> USE DEF Docs, Aggregates
<1>1. CASE doc \in docs
  <2>1. docs \cup {doc} = docs
    BY <1>1
  <2> QED BY <2>1
<1>2. CASE doc \notin docs
  <2>1. agg.version >= 0 =>
          \E e \in StreamIn(docs \cup {doc}, w) : e.version = agg.version
    BY DEF LoadedFrom, StreamIn
  <2>2. \A e \in agg.events : e \in StreamIn(docs \cup {doc}, w) /\ e.version <= agg.version
    BY DEF LoadedFrom, StreamIn
  <2>3. ASSUME UnforkedIn(docs \cup {doc}, w, agg.version)
        PROVE  agg.events = PrefixIn(docs \cup {doc}, w, agg.version)
    <3>1. CASE doc.aggregate = w /\ doc.version <= agg.version
      <4>1. PICK e \in StreamIn(docs, w) : e.version = agg.version
        BY <3>1 DEF LoadedFrom
      <4>2. e.version \in Int /\ agg.version \in Int
        BY <4>1 DEF StreamIn
      <4>3. ~ UnforkedIn(docs \cup {doc}, doc.aggregate, agg.version)
        <5>1. /\ e \in StreamIn(docs, doc.aggregate)
              /\ doc.version <= e.version /\ e.version <= agg.version
          BY <3>1, <4>1, <4>2
        <5> QED BY <1>2, <4>2, <5>1, LateInsertForks
      <4> QED BY <2>3, <3>1, <4>3
    <3>2. CASE ~ (doc.aggregate = w /\ doc.version <= agg.version)
      <4>1. PrefixIn(docs \cup {doc}, w, agg.version) = PrefixIn(docs, w, agg.version)
        BY <3>2 DEF PrefixIn, StreamIn
      <4> QED BY <2>3, <4>1 DEF LoadedFrom, UnforkedIn
    <3> QED BY <3>1, <3>2
  <2> QED BY <2>1, <2>2, <2>3 DEF LoadedFrom
<1> QED BY <1>1, <1>2

\* The aggregate that was saved reflects its document.
LEMMA InsertLoads ==
  ASSUME NEW docs \in SUBSET Docs, Dense(docs),
         NEW w \in Wallets, NEW agg \in Aggregates, LoadedFrom(docs, w, agg),
         NEW doc \in Docs, doc.aggregate = w, doc.version = agg.version + 1
  PROVE  LoadedFrom(docs \cup {doc}, w,
                    [version |-> doc.version, events |-> agg.events \cup {doc}])
<1> USE DEF Docs, Aggregates
<1> DEFINE new == docs \cup {doc}
<1>1. doc \in StreamIn(new, w)
  BY DEF StreamIn
<1>2. \A e \in agg.events \cup {doc} : e \in StreamIn(new, w) /\ e.version <= doc.version
  BY <1>1 DEF LoadedFrom, StreamIn
<1>3. ASSUME UnforkedIn(new, w, doc.version)
      PROVE  agg.events \cup {doc} = PrefixIn(new, w, doc.version)
  <2>1. PrefixIn(docs, w, agg.version) \subseteq PrefixIn(new, w, doc.version)
    BY DEF PrefixIn, StreamIn
  <2>2. UnforkedIn(docs, w, agg.version)
    BY <1>3, <2>1 DEF UnforkedIn
  <2>3. agg.events = PrefixIn(docs, w, agg.version)
    BY <2>2 DEF LoadedFrom
  <2>4. ASSUME NEW e \in PrefixIn(new, w, doc.version), e # doc
        PROVE  e \in PrefixIn(docs, w, agg.version)
    <3>1. doc \in PrefixIn(new, w, doc.version)
      BY <1>1 DEF PrefixIn
    <3>2. e.version # doc.version
      BY <1>3, <2>4, <3>1 DEF UnforkedIn
    <3> QED BY <2>4, <3>2 DEF PrefixIn, StreamIn
  <2>5. doc \in PrefixIn(new, w, doc.version)
    BY <1>1 DEF PrefixIn
  <2> QED BY <2>1, <2>3, <2>4, <2>5
<1> HIDE DEF new
<1>4. LoadedFrom(new, w, [version |-> doc.version, events |-> agg.events \cup {doc}])
  BY <1>1, <1>2, <1>3 DEF LoadedFrom
<1> QED BY <1>4 DEF new

\* A covered debit, or a credit, leaves no unforked stream overdrawn.
LEMMA InsertKeepsSolvent ==
  ASSUME NEW docs \in SUBSET Docs, IsFiniteSet(docs), Dense(docs), Solvent(docs),
         NEW w \in Wallets, NEW agg \in Aggregates, LoadedFrom(docs, w, agg),
         NEW doc \in Docs, doc.aggregate = w, doc.version = agg.version + 1,
         Signed(doc) >= 0 \/ Balance(agg.events) + Signed(doc) >= 0
  PROVE  Solvent(docs \cup {doc})
<1> USE DEF Docs, Aggregates
<1> DEFINE new == docs \cup {doc}
<1>1. CASE doc \in docs
  <2>1. docs \cup {doc} = docs
    BY <1>1
  <2> QED BY <2>1
<1>2. CASE doc \notin docs
  <2>1. SUFFICES ASSUME NEW e \in new, UnforkedIn(new, e.aggregate, e.version)
                 PROVE  Balance(PrefixIn(new, e.aggregate, e.version)) >= 0
    BY DEF Solvent
  <2>2. CASE e \in docs /\ (e.aggregate # w \/ e.version < doc.version)
    <3>1. PrefixIn(new, e.aggregate, e.version) = PrefixIn(docs, e.aggregate, e.version)
      BY <2>2 DEF PrefixIn, StreamIn
    <3>2. UnforkedIn(docs, e.aggregate, e.version)
      BY <2>1, <3>1 DEF UnforkedIn
    <3> QED BY <2>2, <3>1, <3>2 DEF Solvent
  <2>3. CASE e \in docs /\ ~ (e.aggregate # w \/ e.version < doc.version)
    <3>1. e \in StreamIn(docs, doc.aggregate) /\ doc.version <= e.version
      BY <2>3 DEF StreamIn
    <3>2. e.version \in Int /\ e.version <= e.version
      BY <2>3
    <3>3. ~ UnforkedIn(new, doc.aggregate, e.version)
      BY <1>2, <3>1, <3>2, LateInsertForks
    <3> QED BY <2>1, <2>3, <3>3
  <2>4. CASE e = doc
    <3>1. LoadedFrom(new, w, [version |-> doc.version, events |-> agg.events \cup {doc}])
      BY InsertLoads
    <3>2. agg.events \cup {doc} = PrefixIn(new, w, doc.version)
      BY <2>1, <2>4, <3>1 DEF LoadedFrom
    <3>3. agg.events \in SUBSET docs /\ doc \notin agg.events
      BY <1>2 DEF LoadedFrom, StreamIn
    <3>4. IsFiniteSet(agg.events)
      BY <3>3, FS_Subset
    <3>5. agg.events \in SUBSET Docs
      BY <3>3
    <3>6. Balance(agg.events \cup {doc}) = Balance(agg.events) + Signed(doc)
      BY <3>3, <3>4, <3>5, BalanceAfter
    <3>7. Balance(agg.events) \in Int /\ Signed(doc) \in Int
      BY <3>4, <3>5, BalanceIsInt, SignedIsInt
    <3>8. Balance(agg.events) >= 0
      <4>1. PrefixIn(docs, w, agg.version) \subseteq PrefixIn(new, w, doc.version)
        BY DEF PrefixIn, StreamIn
      <4>2. UnforkedIn(docs, w, agg.version)
        BY <2>1, <2>4, <4>1 DEF UnforkedIn
      <4>3. agg.events = PrefixIn(docs, w, agg.version)
        BY <4>2 DEF LoadedFrom
      <4>4. CASE agg.version >= 0
        <5>1. PICK d \in StreamIn(docs, w) : d.version = agg.version
          BY <4>4 DEF LoadedFrom
        <5>2. d \in docs /\ d.aggregate = w
          BY <5>1 DEF StreamIn
        <5> QED BY <4>2, <4>3, <5>1, <5>2 DEF Solvent
      <4>5. CASE ~ (agg.version >= 0)
        <5>1. agg.events = {}
          BY <4>5 DEF LoadedFrom, StreamIn
        <5> QED BY <5>1, BalanceOfNothing
      <4> QED BY <4>4, <4>5
    <3>9. Balance(agg.events) + Signed(doc) >= 0
      BY <3>7, <3>8
    <3> QED BY <2>4, <3>2, <3>6, <3>9
  <2> QED BY <2>2, <2>3, <2>4
<1> QED BY <1>1, <1>2
-----------------------------------------------------------------------------
(* Requests. *)

Requests == [pc : PCs, cmd : Commands \cup {NoCommand}, side : Sides, id : Nat,
             agg : [Sides -> Aggregates]]

\* What a request has written stays written.
LEMMA InsertKeepsWrites ==
  ASSUME NEW docs, NEW doc, NEW cmd, NEW side, WroteIn(docs, cmd, side)
  PROVE  WroteIn(docs \cup {doc}, cmd, side)
BY DEF WroteIn, StreamIn

\* Both wallets of a command are wallets.
LEMMA WalletOfType ==
  ASSUME NEW cmd \in Commands, NEW side \in Sides
  PROVE  WalletOf(cmd, side) \in Wallets
BY DEF Commands, WalletOf

\* A request under way is not disturbed by another one's insertion.
LEMMA InsertKeepsSane ==
  ASSUME NEW docs \in SUBSET Docs, Dense(docs), NEW doc \in Docs,
         NEW r \in Requests, Sane(docs, r)
  PROVE  Sane(docs \cup {doc}, r)
<1>1. SUFFICES ASSUME r.pc # "idle"
               PROVE  Sane(docs \cup {doc}, r)
  BY DEF Sane
<1>2. r.cmd \in Commands
  BY <1>1 DEF Sane
<1>3. ASSUME NEW side \in Sides
      PROVE  LoadedFrom(docs \cup {doc}, WalletOf(r.cmd, side), r.agg[side])
  <2>1. r.agg[side] \in Aggregates /\ WalletOf(r.cmd, side) \in Wallets
    BY <1>2, WalletOfType DEF Requests
  <2>2. LoadedFrom(docs, WalletOf(r.cmd, side), r.agg[side])
    BY <1>1 DEF Sane
  <2> QED BY <2>1, <2>2, InsertKeepsLoaded
<1>4. r.pc \in Saving => Decided(docs \cup {doc}, r)
  BY <1>1, InsertKeepsWrites DEF Sane, Decided
<1> QED BY <1>1, <1>2, <1>3, <1>4 DEF Sane

\* A goroutine without a request is in order.
LEMMA IdleIsSane == \A docs : Sane(docs, Idle)
BY DEF Sane, Idle

\* An aggregate without events is an aggregate.
LEMMA NewAggregateType == NewAggregate \in Aggregates
BY DEF NewAggregate, Aggregates

\* A goroutine without a request is a request record.
LEMMA IdleType == Idle \in Requests
BY NewAggregateType DEF Idle, Requests, PCs, Sides, NoCommand

\* An aggregate with no event is loaded from any stream.
LEMMA NewAggregateIsLoaded ==
  ASSUME NEW docs \in SUBSET Docs, NEW w
  PROVE  LoadedFrom(docs, w, NewAggregate)
BY DEF LoadedFrom, NewAggregate, PrefixIn, StreamIn, Docs

\* A goroutine that passes from one sane record to another, and touches no
\* database, keeps the invariant.
LEMMA BecomeKeepsInvariant ==
  ASSUME IInv, NEW k \in Workers, NEW r \in Requests, Sane(store, r),
         Become(k, r), nextId' \in Nat, issued' \in Nat,
         UNCHANGED <<store, snapshots, acked>>
  PROVE  IInv'
<1> USE DEF IInv
<1>1. worker \in [Workers -> Requests]
  BY DEF TypeOK, Requests
<1>2. worker' = [worker EXCEPT ![k] = r]
  BY DEF Become
<1>3. TypeOK'
  <2>1. worker' \in [Workers -> Requests]
    BY <1>1, <1>2
  <2> QED BY <2>1 DEF TypeOK, Requests
<1>4. \A j \in Workers : Sane(store, worker'[j])
  BY <1>1, <1>2
<1> QED BY <1>3, <1>4

\* What Continue does with a request whose side is saved: the destination of a
\* transfer is next, or everything the command writes is in the store.
LEMMA ContinueIsSane ==
  ASSUME NEW docs, NEW r \in Requests, r.cmd \in Commands,
         Sane(docs, [r EXCEPT !.pc = "snapshot"]),
         r.cmd.kind = "transfer", r.side = "source"
  PROVE  /\ [r EXCEPT !.pc = "check", !.side = "destination", !.id = 0] \in Requests
         /\ Sane(docs, [r EXCEPT !.pc = "check", !.side = "destination", !.id = 0])
<1> DEFINE s == [r EXCEPT !.pc = "snapshot"]
           q == [r EXCEPT !.pc = "check", !.side = "destination", !.id = 0]
<1>1. /\ s.pc = "snapshot" /\ s.cmd = r.cmd /\ s.side = "source" /\ s.agg = r.agg
      /\ q.pc = "check" /\ q.cmd = r.cmd /\ q.side = "destination" /\ q.agg = r.agg
      /\ q \in Requests
  BY DEF Requests, PCs, Sides
<1> HIDE DEF s, q
<1>2. Sane(docs, s)
  BY DEF s
<1>3. Decided(docs, s) /\ \A side \in Sides : LoadedFrom(docs, WalletOf(s.cmd, side), s.agg[side])
  BY <1>1, <1>2 DEF Sane, Saving
<1>4. Decided(docs, q)
  BY <1>1, <1>3 DEF Decided
<1>5. Sane(docs, q)
  BY <1>1, <1>3, <1>4 DEF Sane
<1> QED BY <1>1, <1>5 DEF q

\* When nothing is left to save, all the command writes is stored.
LEMMA CompletedIsDurable ==
  ASSUME NEW docs, NEW r \in Requests, r.cmd \in Commands,
         Sane(docs, [r EXCEPT !.pc = "snapshot"]),
         ~ (r.cmd.kind = "transfer" /\ r.side = "source")
  PROVE  DurableIn(docs, {r.cmd})
<1> DEFINE s == [r EXCEPT !.pc = "snapshot"]
<1>1. s.pc = "snapshot" /\ s.cmd = r.cmd /\ s.side = r.side /\ r.side \in Sides
  BY DEF Requests
<1> HIDE DEF s
<1>2. Sane(docs, s)
  BY DEF s
<1>3. Decided(docs, s) /\ (s.side = "destination" => s.cmd.kind = "transfer")
  BY <1>1, <1>2 DEF Sane, Saving
<1> QED BY <1>1, <1>3 DEF Decided, DurableIn, Sides

\* So Continue keeps the invariant, given the rest of the step.
LEMMA ContinueKeepsInvariant ==
  ASSUME TypeOK, \A j \in Workers : Sane(store', worker[j]),
         NEW k \in Workers, NEW r \in Requests, r.cmd \in Commands,
         Sane(store', [r EXCEPT !.pc = "snapshot"]), Continue(k, r),
         DurableIn(store', acked)
  PROVE  /\ worker' \in [Workers -> Requests]
         /\ acked' \subseteq Commands
         /\ DurableIn(store', acked')
         /\ \A j \in Workers : Sane(store', worker'[j])
<1>1. worker \in [Workers -> Requests] /\ acked \subseteq Commands
  BY DEF TypeOK, Requests
<1>2. CASE r.cmd.kind = "transfer" /\ r.side = "source"
  <2> DEFINE q == [r EXCEPT !.pc = "check", !.side = "destination", !.id = 0]
  <2>1. q \in Requests /\ Sane(store', q)
    BY <1>2, ContinueIsSane
  <2>2. worker' = [worker EXCEPT ![k] = q] /\ acked' = acked
    BY <1>2 DEF Continue, Become
  <2> HIDE DEF q
  <2> QED BY <1>1, <2>1, <2>2
<1>3. CASE ~ (r.cmd.kind = "transfer" /\ r.side = "source")
  <2>1. worker' = [worker EXCEPT ![k] = Idle] /\ acked' = acked \cup {r.cmd}
    BY <1>3 DEF Continue, Become
  <2>2. DurableIn(store', {r.cmd})
    BY <1>3, CompletedIsDurable
  <2>3. DurableIn(store', acked')
    BY <2>1, <2>2 DEF DurableIn
  <2> QED BY <1>1, <2>1, <2>3, IdleIsSane, IdleType
<1> QED BY <1>2, <1>3
-----------------------------------------------------------------------------
(* Initially the invariant holds, and each action keeps it. *)

\* With an empty store the invariant holds.
LEMMA InitInvariant == Init => IInv
<1> SUFFICES ASSUME Init PROVE IInv
  OBVIOUS
<1> USE DEF Init
<1>1. TypeOK
  BY NewAggregateType, IdleType DEF TypeOK, Requests
<1>2. IsFiniteSet(store)
  BY FS_EmptySet
<1>3. \A w \in Wallets : LoadedFrom(store, w, snapshots[w])
  BY NewAggregateIsLoaded
<1>4. \A k \in Workers : Sane(store, worker[k])
  BY IdleIsSane
<1> QED BY <1>1, <1>2, <1>3, <1>4 DEF IInv, Dense, Solvent, FundedIn, DurableIn

\* Facts about the goroutine that takes a step.
LEMMA WorkerType ==
  ASSUME IInv, NEW k \in Workers
  PROVE  worker[k] \in Requests /\ Sane(store, worker[k])
BY DEF IInv, TypeOK, Requests

\* The request under way works on a wallet, with an aggregate loaded from it.
LEMMA TargetType ==
  ASSUME IInv, NEW k \in Workers, worker[k].pc # "idle"
  PROVE  /\ worker[k].cmd \in Commands
         /\ Target(k) \in Wallets
         /\ Aggregate(k) \in Aggregates
         /\ LoadedFrom(store, Target(k), Aggregate(k))
<1>1. worker[k] \in Requests /\ Sane(store, worker[k])
  BY WorkerType
<1>2. worker[k].cmd \in Commands /\ worker[k].side \in Sides
  BY <1>1 DEF Sane, Requests
<1> QED BY <1>1, <1>2, WalletOfType DEF Sane, Requests, Target, Aggregate

\* A request that fails is simply over.
LEMMA FailKeepsInvariant ==
  ASSUME IInv, NEW k \in Workers, Fail(k), nextId' \in Nat, issued' \in Nat,
         UNCHANGED <<store, snapshots>>
  PROVE  IInv'
BY BecomeKeepsInvariant, IdleIsSane, IdleType DEF Fail

\* A request starts on the source with nothing loaded.
Started(pc, cmd) == [Idle EXCEPT !.pc = pc, !.cmd = cmd]

\* A request that starts has its command and nothing loaded.
LEMMA StartType ==
  ASSUME NEW pc \in PCs, NEW cmd \in Commands
  PROVE  LET r == Started(pc, cmd)
         IN  /\ r \in Requests /\ r.pc = pc /\ r.cmd = cmd /\ r.side = "source"
             /\ \A side \in Sides : r.agg[side] = NewAggregate
<1>1. Idle.side = "source" /\ Idle.agg = [s \in Sides |-> NewAggregate]
  BY DEF Idle
<1>2. Idle \in Requests
  BY IdleType
<1> QED BY <1>1, <1>2 DEF Requests, Started

\* A wallet is created under a fresh identifier, with no event yet.
LEMMA ReceiveCreateInvariant ==
  ASSUME IInv, NEW k \in Workers, NEW w \in Wallets, NEW amount \in Amounts,
         ReceiveCreate(k, w, amount)
  PROVE  IInv'
<1> DEFINE cmd == [n |-> issued + 1, kind |-> "create",
                   wallet |-> w, dest |-> w, amount |-> amount]
           r == Started("check", cmd)
<1>1. issued \in Nat /\ nextId \in Nat /\ store \in SUBSET Docs
  BY DEF IInv, TypeOK
<1>2. /\ nextId' \in Nat /\ issued' \in Nat
      /\ UNCHANGED <<store, snapshots, acked>>
  BY <1>1 DEF ReceiveCreate
<1>3. CASE amount >= 0
  <2>1. cmd \in Commands /\ cmd.kind = "create" /\ cmd.amount = amount
    BY <1>1 DEF Commands, Kinds
  <2> HIDE DEF cmd
  <2>2. /\ r.pc = "check" /\ r.cmd = cmd /\ r.side = "source"
        /\ \A side \in Sides : r.agg[side] = NewAggregate
        /\ r \in Requests
    <3>1. "check" \in PCs
      BY DEF PCs
    <3> QED BY <2>1, <3>1, StartType
  <2>4. Become(k, r)
    BY <1>3 DEF ReceiveCreate, Started, cmd
  <2> HIDE DEF r
  <2>5. Decided(store, r)
    BY <1>3, <2>1, <2>2 DEF Decided
  <2>6. Sane(store, r)
    BY <1>1, <2>1, <2>2, <2>5, NewAggregateIsLoaded DEF Sane
  <2> QED BY <1>2, <2>2, <2>4, <2>6, BecomeKeepsInvariant
<1>4. CASE ~ (amount >= 0)
  <2>1. Become(k, Idle)
    BY <1>4 DEF ReceiveCreate
  <2> QED BY <1>2, <2>1, BecomeKeepsInvariant, IdleIsSane, IdleType
<1> QED BY <1>3, <1>4

\* Any other command starts by loading.
LEMMA ReceiveInvariant ==
  ASSUME IInv, NEW k \in Workers, NEW kind \in Kinds \ {"create"},
         NEW w \in Wallets, NEW d \in Wallets, NEW amount \in Amounts,
         Receive(k, kind, w, d, amount)
  PROVE  IInv'
<1> DEFINE cmd == [n |-> issued + 1, kind |-> kind,
                   wallet |-> w, dest |-> d, amount |-> amount]
           r == Started("loadSnapshot", cmd)
<1>1. issued \in Nat /\ nextId \in Nat /\ store \in SUBSET Docs
  BY DEF IInv, TypeOK
<1>2. /\ nextId' \in Nat /\ issued' \in Nat
      /\ UNCHANGED <<store, snapshots, acked>>
  BY <1>1 DEF Receive
<1>3. cmd \in Commands
  BY <1>1 DEF Commands
<1> HIDE DEF cmd
<1>4. /\ r.pc = "loadSnapshot" /\ r.cmd = cmd /\ r.side = "source"
      /\ \A side \in Sides : r.agg[side] = NewAggregate
      /\ r \in Requests
  <2>1. "loadSnapshot" \in PCs
    BY DEF PCs
  <2> QED BY <1>3, <2>1, StartType
<1>5. Become(k, r)
  BY DEF Receive, Started, cmd
<1> HIDE DEF r
<1>6. Sane(store, r)
  BY <1>1, <1>3, <1>4, NewAggregateIsLoaded DEF Sane, Saving
<1> QED BY <1>2, <1>4, <1>5, <1>6, BecomeKeepsInvariant

\* A snapshot, or its absence, is an aggregate loaded from the stream.
LEMMA LoadSnapshotInvariant ==
  ASSUME IInv, NEW k \in Workers, LoadSnapshot(k)
  PROVE  IInv'
<1>1. worker[k] \in Requests /\ Sane(store, worker[k]) /\ worker[k].pc = "loadSnapshot"
  BY WorkerType DEF LoadSnapshot
<1>2. /\ worker[k].cmd \in Commands /\ Target(k) \in Wallets
      /\ worker[k].side \in Sides
  BY <1>1, TargetType DEF Requests
<1>3. PICK base \in {snapshots[Target(k)], NewAggregate} :
        Become(k, [worker[k] EXCEPT !.pc = "loadEvents", !.agg[worker[k].side] = base])
  BY DEF LoadSnapshot
<1>4. base \in Aggregates /\ LoadedFrom(store, Target(k), base)
  <2>1. snapshots[Target(k)] \in Aggregates /\ LoadedFrom(store, Target(k), snapshots[Target(k)])
    BY <1>2 DEF IInv, TypeOK
  <2>2. store \in SUBSET Docs
    BY DEF IInv, TypeOK
  <2> QED BY <2>1, <2>2, NewAggregateType, NewAggregateIsLoaded
<1> DEFINE agg == [worker[k].agg EXCEPT ![worker[k].side] = base]
           r == [worker[k] EXCEPT !.pc = "loadEvents", !.agg = agg]
<1>5. Become(k, r)
  BY <1>3
<1>6. agg \in [Sides -> Aggregates]
  BY <1>1, <1>2, <1>4 DEF Requests
<1>7. \A side \in Sides : LoadedFrom(store, WalletOf(worker[k].cmd, side), agg[side])
  <2> TAKE side \in Sides
  <2>1. LoadedFrom(store, WalletOf(worker[k].cmd, side), worker[k].agg[side])
    BY <1>1 DEF Sane
  <2>2. worker[k].agg \in [Sides -> Aggregates]
    BY <1>1 DEF Requests
  <2> QED BY <1>2, <1>4, <2>1, <2>2 DEF Target
<1> HIDE DEF agg
<1>8. /\ r.pc = "loadEvents" /\ r.cmd = worker[k].cmd /\ r.side = worker[k].side
      /\ r.agg = agg /\ r \in Requests
  BY <1>1, <1>6 DEF Requests, PCs
<1> HIDE DEF r
<1>9. Sane(store, r)
  BY <1>1, <1>2, <1>7, <1>8 DEF Sane, Saving
<1>10. nextId' \in Nat /\ issued' \in Nat /\ UNCHANGED <<store, snapshots, acked>>
  BY DEF LoadSnapshot, IInv, TypeOK
<1> QED BY <1>5, <1>8, <1>9, <1>10, BecomeKeepsInvariant

\* The decision, taken on what was loaded, is what a later insertion relies on.
LEMMA AfterLoadIsSane ==
  ASSUME NEW docs, NEW r \in Requests, r.pc = "loadEvents", Sane(docs, r)
  PROVE  AfterLoad(r) \in Requests /\ Sane(docs, AfterLoad(r))
<1>1. r.cmd \in Commands
  BY DEF Sane
<1>2. CASE r.cmd.kind = "transfer" /\ r.side = "source"
  <2> DEFINE q == [r EXCEPT !.pc = "loadSnapshot", !.side = "destination"]
  <2>1. /\ AfterLoad(r) = q /\ q \in Requests
        /\ q.pc = "loadSnapshot" /\ q.cmd = r.cmd /\ q.side = "destination"
        /\ q.agg = r.agg
    BY <1>2 DEF AfterLoad, Requests, PCs, Sides
  <2> HIDE DEF q
  <2> QED BY <1>1, <1>2, <2>1 DEF Sane, Saving
<1>3. CASE ~ (r.cmd.kind = "transfer" /\ r.side = "source") /\ Accepted(r.cmd, r.agg["source"])
  <2> DEFINE q == [r EXCEPT !.pc = "check", !.side = "source"]
  <2>1. /\ AfterLoad(r) = q /\ q \in Requests
        /\ q.pc = "check" /\ q.cmd = r.cmd /\ q.side = "source" /\ q.agg = r.agg
    BY <1>3 DEF AfterLoad, Requests, PCs, Sides
  <2> HIDE DEF q
  <2>2. Decided(docs, q)
    BY <1>3, <2>1 DEF Decided, Accepted, CreditAccepted, DebitAccepted, TransferAccepted
  <2>3. Sane(docs, q)
    BY <1>1, <2>1, <2>2 DEF Sane
  <2> QED BY <2>1, <2>3
<1>4. CASE ~ (r.cmd.kind = "transfer" /\ r.side = "source") /\ ~ Accepted(r.cmd, r.agg["source"])
  <2>1. AfterLoad(r) = Idle
    BY <1>4 DEF AfterLoad
  <2> QED BY <2>1, IdleIsSane, IdleType
<1> QED BY <1>2, <1>3, <1>4

\* The events after a loaded version, folded in, give a loaded aggregate.
LEMMA FoldIsLoaded ==
  ASSUME NEW docs \in SUBSET Docs, NEW w \in Wallets, NEW base \in Aggregates,
         LoadedFrom(docs, w, base), NEW new,
         new = {e \in StreamIn(docs, w) : e.version > base.version},
         NEW v, LastVersionIs(new, v)
  PROVE  /\ [version |-> v, events |-> base.events \cup new] \in Aggregates
         /\ LoadedFrom(docs, w, [version |-> v, events |-> base.events \cup new])
<1> USE DEF Docs, Aggregates
<1>1. PICK last \in new : last.version = v
  BY DEF LastVersionIs
<1>2. new \subseteq docs /\ last \in StreamIn(docs, w) /\ v \in Nat /\ v > base.version
  BY <1>1 DEF StreamIn
<1>3. base.events \subseteq docs /\ base.version \in Int
  BY DEF LoadedFrom, StreamIn
<1>4. \A e \in base.events \cup new : e \in StreamIn(docs, w) /\ e.version <= v
  <2>1. \A e \in base.events : e \in StreamIn(docs, w) /\ e.version <= v
    <3> TAKE e \in base.events
    <3>1. e \in StreamIn(docs, w) /\ e.version <= base.version /\ e.version \in Nat
      BY <1>3 DEF LoadedFrom
    <3> QED BY <1>2, <1>3, <3>1
  <2> QED BY <2>1 DEF LastVersionIs
<1>5. ASSUME UnforkedIn(docs, w, v)
      PROVE  base.events \cup new = PrefixIn(docs, w, v)
  <2>1. PrefixIn(docs, w, base.version) \subseteq PrefixIn(docs, w, v)
    BY <1>2, <1>3 DEF PrefixIn, StreamIn
  <2>2. base.events = PrefixIn(docs, w, base.version)
    BY <1>5, <2>1 DEF LoadedFrom, UnforkedIn
  <2>3. \A e \in StreamIn(docs, w) : e.version <= base.version \/ e.version > base.version
    BY <1>3 DEF StreamIn
  <2> QED BY <1>4, <2>2, <2>3 DEF PrefixIn
<1> QED BY <1>1, <1>2, <1>3, <1>4, <1>5 DEF LoadedFrom

\* The later events are folded in, and the command is decided on.
LEMMA LoadEventsInvariant ==
  ASSUME IInv, NEW k \in Workers, LoadEvents(k)
  PROVE  IInv'
<1> DEFINE base == Aggregate(k)
           new == EventsAfter(Target(k), base.version)
           agg(v) == [version |-> v, events |-> base.events \cup new]
<1>1. worker[k] \in Requests /\ Sane(store, worker[k]) /\ worker[k].pc = "loadEvents"
  BY WorkerType DEF LoadEvents
<1>2. /\ worker[k].cmd \in Commands /\ Target(k) \in Wallets /\ base \in Aggregates
      /\ LoadedFrom(store, Target(k), base) /\ worker[k].side \in Sides
  BY <1>1, TargetType DEF Requests
<1>3. nextId' \in Nat /\ issued' \in Nat /\ UNCHANGED <<store, snapshots>>
  BY DEF LoadEvents, IInv, TypeOK
<1>4. \/ Become(k, AfterLoad(worker[k])) /\ UNCHANGED acked
      \/ \E v \in {e.version : e \in new} :
           /\ LastVersionIs(new, v)
           /\ Become(k, AfterLoad([worker[k] EXCEPT !.agg[worker[k].side] = agg(v)]))
           /\ UNCHANGED acked
      \/ Fail(k)
  BY DEF LoadEvents
<1>5. CASE Become(k, AfterLoad(worker[k])) /\ UNCHANGED acked
  BY <1>1, <1>3, <1>5, AfterLoadIsSane, BecomeKeepsInvariant
<1>6. ASSUME NEW v \in {e.version : e \in new}, LastVersionIs(new, v),
             Become(k, AfterLoad([worker[k] EXCEPT !.agg[worker[k].side] = agg(v)])),
             UNCHANGED acked
      PROVE  IInv'
  <2>1. agg(v) \in Aggregates /\ LoadedFrom(store, Target(k), agg(v))
    <3>1. store \in SUBSET Docs
      BY DEF IInv, TypeOK
    <3>2. new = {e \in StreamIn(store, Target(k)) : e.version > base.version}
      BY DEF EventsAfter, Stream, StreamIn
    <3> HIDE DEF new, base
    <3> QED BY <1>2, <1>6, <3>1, <3>2, FoldIsLoaded
  <2> DEFINE aggs == [worker[k].agg EXCEPT ![worker[k].side] = agg(v)]
             r == [worker[k] EXCEPT !.agg = aggs]
  <2>2. Become(k, AfterLoad(r))
    BY <1>6
  <2> HIDE DEF agg, base, new
  <2>3. aggs \in [Sides -> Aggregates]
    BY <1>1, <1>2, <2>1 DEF Requests
  <2>4. \A side \in Sides : LoadedFrom(store, WalletOf(worker[k].cmd, side), aggs[side])
    <3> TAKE side \in Sides
    <3>1. LoadedFrom(store, WalletOf(worker[k].cmd, side), worker[k].agg[side])
      BY <1>1 DEF Sane
    <3>2. worker[k].agg \in [Sides -> Aggregates]
      BY <1>1 DEF Requests
    <3> QED BY <1>2, <2>1, <3>1, <3>2 DEF Target
  <2> HIDE DEF aggs
  <2>5. /\ r.pc = "loadEvents" /\ r.cmd = worker[k].cmd /\ r.side = worker[k].side
        /\ r.agg = aggs /\ r \in Requests
    BY <1>1, <2>3 DEF Requests
  <2> HIDE DEF r
  <2>6. Sane(store, r)
    BY <1>1, <1>2, <2>4, <2>5 DEF Sane, Saving
  <2>7. AfterLoad(r) \in Requests /\ Sane(store, AfterLoad(r))
    BY <2>5, <2>6, AfterLoadIsSane
  <2> QED BY <1>3, <1>6, <2>2, <2>7, BecomeKeepsInvariant
<1>7. CASE Fail(k)
  BY <1>3, <1>7, FailKeepsInvariant
<1> QED BY <1>4, <1>5, <1>6, <1>7

\* Another position within the saving of a side.
LEMMA CheckInvariant ==
  ASSUME IInv, NEW k \in Workers, Check(k)
  PROVE  IInv'
<1>1. worker[k] \in Requests /\ Sane(store, worker[k]) /\ worker[k].pc = "check"
  BY WorkerType DEF Check
<1>2. nextId' \in Nat /\ issued' \in Nat /\ UNCHANGED <<store, snapshots>>
  BY DEF Check, IInv, TypeOK
<1>3. CASE Become(k, [worker[k] EXCEPT !.pc = "stamp"]) /\ UNCHANGED acked
  <2> DEFINE r == [worker[k] EXCEPT !.pc = "stamp"]
  <2>1. /\ r.pc = "stamp" /\ r.cmd = worker[k].cmd /\ r.side = worker[k].side
        /\ r.agg = worker[k].agg /\ r \in Requests
    BY <1>1 DEF Requests, PCs
  <2>2. Become(k, r)
    BY <1>3
  <2> HIDE DEF r
  <2>3. Sane(store, r)
    BY <1>1, <2>1 DEF Sane, Saving, Decided
  <2> QED BY <1>2, <1>3, <2>1, <2>2, <2>3, BecomeKeepsInvariant
<1>4. CASE Fail(k)
  BY <1>2, <1>4, FailKeepsInvariant
<1> QED BY <1>3, <1>4 DEF Check

\* Drawing an ObjectID decides nothing.
LEMMA StampInvariant ==
  ASSUME IInv, NEW k \in Workers, Stamp(k)
  PROVE  IInv'
<1>1. worker[k] \in Requests /\ Sane(store, worker[k]) /\ worker[k].pc = "stamp"
  BY WorkerType DEF Stamp
<1>2. nextId \in Nat /\ nextId' \in Nat /\ issued' \in Nat
  BY DEF Stamp, IInv, TypeOK
<1> DEFINE r == [worker[k] EXCEPT !.pc = "insert", !.id = nextId]
<1>3. /\ r.pc = "insert" /\ r.cmd = worker[k].cmd /\ r.side = worker[k].side
      /\ r.agg = worker[k].agg /\ r \in Requests
  BY <1>1, <1>2 DEF Requests, PCs
<1>4. Become(k, r) /\ UNCHANGED <<store, snapshots, acked>>
  BY DEF Stamp
<1> HIDE DEF r
<1>5. Sane(store, r)
  BY <1>1, <1>3 DEF Sane, Saving, Decided
<1> QED BY <1>2, <1>3, <1>4, <1>5, BecomeKeepsInvariant

\* The document of a request that inserts, and what it moves.
LEMMA DocumentType ==
  ASSUME IInv, NEW k \in Workers, worker[k].pc = "insert"
  PROVE  /\ Document(k) \in Docs
         /\ Document(k).aggregate = Target(k)
         /\ Document(k).version = Aggregate(k).version + 1
         /\ Document(k).type = EventType(worker[k].cmd, worker[k].side)
         /\ Document(k).amount = worker[k].cmd.amount
         /\ Document(k).command = worker[k].cmd.n
<1>1. worker[k] \in Requests
  BY WorkerType
<1>2. worker[k].cmd \in Commands /\ Target(k) \in Wallets /\ Aggregate(k) \in Aggregates
  BY TargetType
<1>3. EventType(worker[k].cmd, worker[k].side) \in TransactionType
  BY <1>2 DEF Commands, Kinds, EventType, TransactionType
<1>4. Aggregate(k).version + 1 \in Nat
  BY <1>2 DEF Aggregates
<1> QED BY <1>1, <1>2, <1>3, <1>4 DEF Document, Docs, Commands, Requests

\* The event about to be stored is paid for by the aggregate it was decided on.
LEMMA DocumentIsCovered ==
  ASSUME IInv, NEW k \in Workers, worker[k].pc = "insert"
  PROVE  \/ Signed(Document(k)) >= 0
         \/ Balance(Aggregate(k).events) + Signed(Document(k)) >= 0
<1> DEFINE cmd == worker[k].cmd
           side == worker[k].side
<1>1. /\ cmd \in Commands /\ side \in Sides /\ Decided(store, worker[k])
      /\ side = "destination" => cmd.kind = "transfer"
  BY WorkerType DEF Sane, Saving, Requests
<1>2. /\ Document(k).type = EventType(cmd, side) /\ Document(k).amount = cmd.amount
      /\ cmd.amount \in Int /\ cmd.kind \in Kinds
  BY <1>1, DocumentType DEF Commands
<1>3. CASE cmd.kind \in {"debit", "transfer"} /\ side = "source"
  <2>1. cmd.amount <= Balance(Aggregate(k).events)
    BY <1>1, <1>3 DEF Decided, Aggregate
  <2>2. Document(k).type \notin Credits
    BY <1>2, <1>3 DEF EventType, Credits
  <2>3. Balance(Aggregate(k).events) \in Int
    <3>1. Aggregate(k) \in Aggregates /\ LoadedFrom(store, Target(k), Aggregate(k))
      BY TargetType
    <3>2. store \in SUBSET Docs /\ IsFiniteSet(store)
      BY DEF IInv, TypeOK
    <3>3. Aggregate(k).events \in SUBSET store
      BY <3>1 DEF LoadedFrom, StreamIn
    <3> QED BY <3>2, <3>3, FS_Subset, BalanceIsInt
  <2>4. Signed(Document(k)) = - cmd.amount
    BY <1>2, <2>2 DEF Signed
  <2> QED BY <1>2, <2>1, <2>3, <2>4
<1>4. CASE ~ (cmd.kind \in {"debit", "transfer"} /\ side = "source")
  <2>1. cmd.amount >= 0
    BY <1>1, <1>2 DEF Decided
  <2>2. Document(k).type \in Credits
    BY <1>1, <1>2, <1>4 DEF EventType, Credits, Kinds, Sides
  <2>3. Signed(Document(k)) = cmd.amount
    BY <1>2, <2>2 DEF Signed
  <2> QED BY <2>1, <2>3
<1> QED BY <1>3, <1>4

\* What the insertion of a document does to the store, and to what the rest of
\* the invariant says of it.
LEMMA DocumentInserted ==
  ASSUME IInv, NEW k \in Workers, worker[k].pc = "insert"
  PROVE  LET new == store \cup {Document(k)}
         IN  /\ new \in SUBSET Docs /\ IsFiniteSet(new)
             /\ Dense(new) /\ Solvent(new) /\ FundedIn(new) /\ DurableIn(new, acked)
             /\ \A w \in Wallets : LoadedFrom(new, w, snapshots[w])
             /\ \A j \in Workers : Sane(new, worker[j])
<1> DEFINE doc == Document(k)
           new == store \cup {doc}
<1>1. /\ doc \in Docs /\ doc.aggregate = Target(k)
      /\ doc.version = Aggregate(k).version + 1
      /\ Signed(doc) >= 0 \/ Balance(Aggregate(k).events) + Signed(doc) >= 0
  BY DocumentType, DocumentIsCovered
<1>2. /\ Target(k) \in Wallets /\ Aggregate(k) \in Aggregates
      /\ LoadedFrom(store, Target(k), Aggregate(k))
  BY TargetType
<1>3. /\ store \in SUBSET Docs /\ IsFiniteSet(store) /\ Dense(store) /\ Solvent(store)
      /\ FundedIn(store) /\ DurableIn(store, acked)
      /\ \A w \in Wallets : snapshots[w] \in Aggregates
  BY DEF IInv, TypeOK
<1>4. IsFiniteSet(new)
  BY <1>3, FS_AddElement
<1>5. FundedIn(new)
  <2>1. SUFFICES ASSUME doc.type = "TRANSFER_IN"
                 PROVE  \E d \in store : /\ d.type = "TRANSFER_OUT"
                                         /\ d.command = doc.command
                                         /\ d.amount = doc.amount
                                         /\ d.aggregate # doc.aggregate
    <3> HIDE DEF doc
    <3> QED BY <1>3 DEF FundedIn
  <2> DEFINE cmd == worker[k].cmd
  <2>2. /\ worker[k].pc \in Saving /\ worker[k].side \in Sides /\ cmd \in Commands
        /\ Decided(store, worker[k])
        /\ worker[k].side = "destination" => cmd.kind = "transfer"
    BY WorkerType DEF Saving, Sane, Requests
  <2>3. cmd.kind = "transfer" /\ worker[k].side = "destination"
    BY <2>1, <2>2, DocumentType DEF EventType, Commands, Kinds, Sides
  <2>4. WroteIn(store, cmd, "source") /\ cmd.wallet # cmd.dest
    BY <2>2, <2>3 DEF Decided
  <2>5. doc.command = cmd.n /\ doc.amount = cmd.amount /\ doc.aggregate = cmd.dest
    BY <2>3, DocumentType DEF Target, WalletOf
  <2> QED BY <2>3, <2>4, <2>5 DEF WroteIn, StreamIn, WalletOf, EventType
<1>6. DurableIn(new, acked)
  BY <1>3, InsertKeepsWrites DEF DurableIn
<1>7. \A w \in Wallets : LoadedFrom(new, w, snapshots[w])
  BY <1>1, <1>3, InsertKeepsLoaded DEF IInv
<1>8. \A j \in Workers : Sane(new, worker[j])
  BY <1>1, <1>3, WorkerType, InsertKeepsSane
<1> HIDE DEF doc
<1>9. Dense(new)
  BY <1>1, <1>2, <1>3, InsertKeepsDense
<1>10. Solvent(new)
  BY <1>1, <1>2, <1>3, InsertKeepsSolvent
<1> QED BY <1>1, <1>3, <1>4, <1>5, <1>6, <1>7, <1>8, <1>9, <1>10 DEF doc

\* The request whose document was inserted has saved its side.
LEMMA InsertedIsSane ==
  ASSUME IInv, NEW k \in Workers, worker[k].pc = "insert"
  PROVE  LET doc   == Document(k)
             saved == [version |-> doc.version,
                       events  |-> Aggregate(k).events \cup {doc}]
             r     == [worker[k] EXCEPT !.agg[worker[k].side] = saved]
         IN  /\ r \in Requests /\ r.cmd \in Commands
             /\ [r EXCEPT !.pc = "snapshot"] \in Requests
             /\ Sane(store \cup {doc}, [r EXCEPT !.pc = "snapshot"])
<1> DEFINE doc == Document(k)
           new == store \cup {doc}
           saved == [version |-> doc.version, events |-> Aggregate(k).events \cup {doc}]
           aggs == [worker[k].agg EXCEPT ![worker[k].side] = saved]
           r == [worker[k] EXCEPT !.agg = aggs]
           s == [r EXCEPT !.pc = "snapshot"]
<1>1. /\ worker[k] \in Requests /\ worker[k].side \in Sides
      /\ worker[k].agg \in [Sides -> Aggregates]
      /\ worker[k].pc # "idle" /\ worker[k].pc \in Saving
  BY WorkerType DEF Requests, Saving
<1>2. /\ worker[k].cmd \in Commands /\ Target(k) \in Wallets /\ Aggregate(k) \in Aggregates
      /\ LoadedFrom(store, Target(k), Aggregate(k))
  BY TargetType
<1>3. /\ doc \in Docs /\ doc.aggregate = Target(k)
      /\ doc.version = Aggregate(k).version + 1
      /\ doc.type = EventType(worker[k].cmd, worker[k].side)
      /\ doc.amount = worker[k].cmd.amount /\ doc.command = worker[k].cmd.n
  BY DocumentType
<1>4. store \in SUBSET Docs /\ Dense(store)
  BY DEF IInv, TypeOK
<1>5. Sane(new, worker[k])
  BY DocumentInserted
<1> HIDE DEF doc
<1>6. saved \in Aggregates
  BY <1>2, <1>3 DEF Aggregates, Docs
<1>7. LoadedFrom(new, Target(k), saved)
  BY <1>2, <1>3, <1>4, InsertLoads
<1> HIDE DEF saved
<1>8. aggs \in [Sides -> Aggregates]
  BY <1>1, <1>6
<1>9. \A side \in Sides : LoadedFrom(new, WalletOf(worker[k].cmd, side), aggs[side])
  <2> TAKE side \in Sides
  <2>1. LoadedFrom(new, WalletOf(worker[k].cmd, side), worker[k].agg[side])
    BY <1>1, <1>5 DEF Sane
  <2> QED BY <1>1, <1>7, <2>1 DEF Target
<1>10. WroteIn(new, worker[k].cmd, worker[k].side)
  BY <1>3 DEF WroteIn, StreamIn, Target
<1> HIDE DEF aggs, new
<1>11. r \in Requests /\ r.cmd = worker[k].cmd
  BY <1>1, <1>8 DEF Requests
<1>12. /\ s.pc = "snapshot" /\ s.cmd = worker[k].cmd /\ s.side = worker[k].side
       /\ s.agg = aggs /\ s \in Requests
  BY <1>1, <1>8 DEF Requests, PCs
<1> HIDE DEF s
<1>13. Decided(new, s)
  BY <1>1, <1>5, <1>10, <1>12 DEF Sane, Decided
<1>14. Sane(new, s)
  BY <1>1, <1>2, <1>5, <1>9, <1>12, <1>13 DEF Sane
<1> QED BY <1>2, <1>11, <1>12, <1>14 DEF s, aggs, saved, new, doc

\* An insertion keeps every stream dense and solvent, and advances its request.
LEMMA InsertPersistedInvariant ==
  ASSUME IInv, NEW k \in Workers, InsertPersisted(k)
  PROVE  IInv'
<1> DEFINE doc == Document(k)
           saved == [version |-> doc.version, events |-> Aggregate(k).events \cup {doc}]
           r == [worker[k] EXCEPT !.agg[worker[k].side] = saved]
<1>1. /\ worker[k].pc = "insert" /\ store' = store \cup {doc}
      /\ IF SnapshotDue(doc.version)
         THEN Become(k, [r EXCEPT !.pc = "snapshot"]) /\ UNCHANGED acked
         ELSE Continue(k, r)
      /\ UNCHANGED <<snapshots, nextId, issued>>
  BY DEF InsertPersisted
<1>2. /\ store' \in SUBSET Docs /\ IsFiniteSet(store')
      /\ Dense(store') /\ Solvent(store') /\ FundedIn(store') /\ DurableIn(store', acked)
      /\ \A w \in Wallets : LoadedFrom(store', w, snapshots[w])
      /\ \A j \in Workers : Sane(store', worker[j])
  BY <1>1, DocumentInserted
<1>3. /\ r \in Requests /\ r.cmd \in Commands
      /\ [r EXCEPT !.pc = "snapshot"] \in Requests
      /\ Sane(store', [r EXCEPT !.pc = "snapshot"])
  BY <1>1, InsertedIsSane
<1>4. worker \in [Workers -> Requests] /\ TypeOK
  BY DEF IInv, TypeOK, Requests
<1> HIDE DEF r
<1>5. /\ worker' \in [Workers -> Requests] /\ acked' \subseteq Commands
      /\ DurableIn(store', acked')
      /\ \A j \in Workers : Sane(store', worker'[j])
  <2>1. CASE SnapshotDue(doc.version)
    <3> DEFINE s == [r EXCEPT !.pc = "snapshot"]
    <3>1. worker' = [worker EXCEPT ![k] = s] /\ acked' = acked
      BY <1>1, <2>1 DEF Become
    <3> HIDE DEF s
    <3>2. s \in Requests /\ Sane(store', s) /\ acked \subseteq Commands
      BY <1>3, <1>4 DEF s, TypeOK
    <3> QED BY <1>2, <1>4, <3>1, <3>2
  <2>2. CASE ~ SnapshotDue(doc.version)
    BY <1>1, <1>2, <1>3, <1>4, <2>2, ContinueKeepsInvariant
  <2> QED BY <2>1, <2>2
<1>6. TypeOK'
  BY <1>1, <1>2, <1>4, <1>5 DEF TypeOK, Requests
<1> QED BY <1>1, <1>2, <1>5, <1>6 DEF IInv

\* So does one whose answer is lost, and the request is over.
LEMMA InsertFailedInvariant ==
  ASSUME IInv, NEW k \in Workers, InsertFailed(k)
  PROVE  IInv'
<1>1. /\ worker[k].pc = "insert" /\ Fail(k) /\ UNCHANGED <<snapshots, nextId, issued>>
      /\ store' = store \/ store' = store \cup {Document(k)}
  BY DEF InsertFailed
<1>2. /\ store' \in SUBSET Docs /\ IsFiniteSet(store')
      /\ Dense(store') /\ Solvent(store') /\ FundedIn(store') /\ DurableIn(store', acked)
      /\ \A w \in Wallets : LoadedFrom(store', w, snapshots[w])
      /\ \A j \in Workers : Sane(store', worker[j])
  <2>1. CASE store' = store
    BY <2>1 DEF IInv, TypeOK
  <2>2. CASE store' = store \cup {Document(k)}
    BY <1>1, <2>2, DocumentInserted
  <2> QED BY <1>1, <2>1, <2>2
<1>3. worker' = [worker EXCEPT ![k] = Idle] /\ acked' = acked
  BY <1>1 DEF Fail, Become
<1>4. worker \in [Workers -> Requests]
  BY DEF IInv, TypeOK, Requests
<1>5. worker' \in [Workers -> Requests] /\ \A j \in Workers : Sane(store', worker'[j])
  BY <1>2, <1>3, <1>4, IdleIsSane, IdleType
<1>6. TypeOK'
  BY <1>1, <1>2, <1>3, <1>5 DEF IInv, TypeOK, Requests
<1> QED BY <1>1, <1>2, <1>3, <1>5, <1>6 DEF IInv

\* The snapshot saved is an aggregate loaded from the stream.
LEMMA SaveSnapshotInvariant ==
  ASSUME IInv, NEW k \in Workers, SaveSnapshot(k)
  PROVE  IInv'
<1>1. /\ worker[k].pc = "snapshot" /\ Continue(k, worker[k])
      /\ UNCHANGED <<store, nextId, issued>>
      /\ \/ snapshots' = [snapshots EXCEPT ![Target(k)] = Aggregate(k)]
         \/ UNCHANGED snapshots
  BY DEF SaveSnapshot
<1>2. /\ Target(k) \in Wallets /\ Aggregate(k) \in Aggregates /\ worker[k].cmd \in Commands
      /\ LoadedFrom(store, Target(k), Aggregate(k))
  BY <1>1, TargetType
<1>3. worker[k] \in Requests /\ Sane(store, worker[k])
  BY WorkerType
<1>4. [worker[k] EXCEPT !.pc = "snapshot"] = worker[k]
  BY <1>1, <1>3 DEF Requests
<1>5. /\ worker' \in [Workers -> Requests] /\ acked' \subseteq Commands
      /\ DurableIn(store', acked')
      /\ \A j \in Workers : Sane(store', worker'[j])
  BY <1>1, <1>2, <1>3, <1>4, ContinueKeepsInvariant DEF IInv
<1>6. /\ snapshots' \in [Wallets -> Aggregates]
      /\ \A w \in Wallets : LoadedFrom(store', w, snapshots'[w])
  <2>1. /\ snapshots \in [Wallets -> Aggregates]
        /\ \A w \in Wallets : LoadedFrom(store, w, snapshots[w])
    BY DEF IInv, TypeOK
  <2> QED BY <1>1, <1>2, <2>1
<1>7. TypeOK'
  BY <1>1, <1>5, <1>6 DEF IInv, TypeOK, Requests
<1> QED BY <1>1, <1>5, <1>6, <1>7 DEF IInv

\* A crash forgets the requests and keeps the collections.
LEMMA CrashInvariant ==
  ASSUME IInv, Crash
  PROVE  IInv'
<1>1. worker' = [k \in Workers |-> Idle] /\ UNCHANGED <<store, snapshots, nextId, issued, acked>>
  BY DEF Crash
<1>2. TypeOK'
  BY <1>1, IdleType DEF IInv, TypeOK, Requests
<1>3. \A k \in Workers : Sane(store', worker'[k])
  BY <1>1, IdleIsSane
<1> QED BY <1>1, <1>2, <1>3 DEF IInv

\* Every step of the handlers keeps the invariant.
LEMMA StepInvariant == IInv /\ [Next]_esVars => IInv'
<1> SUFFICES ASSUME IInv, [Next]_esVars PROVE IInv'
  OBVIOUS
<1>1. ASSUME NEW k \in Workers, NEW w \in Wallets, NEW amount \in Amounts,
             ReceiveCreate(k, w, amount)
      PROVE  IInv'
  BY <1>1, ReceiveCreateInvariant
<1>2. ASSUME NEW k \in Workers, NEW w \in Wallets, NEW amount \in Amounts,
             NEW d \in Wallets, NEW kind \in Kinds \ {"create"},
             Receive(k, kind, w, d, amount)
      PROVE  IInv'
  BY <1>2, ReceiveInvariant
<1>3. ASSUME NEW k \in Workers, LoadSnapshot(k)
      PROVE  IInv'
  BY <1>3, LoadSnapshotInvariant
<1>4. ASSUME NEW k \in Workers, LoadEvents(k)
      PROVE  IInv'
  BY <1>4, LoadEventsInvariant
<1>5. ASSUME NEW k \in Workers, Check(k)
      PROVE  IInv'
  BY <1>5, CheckInvariant
<1>6. ASSUME NEW k \in Workers, Stamp(k)
      PROVE  IInv'
  BY <1>6, StampInvariant
<1>7. ASSUME NEW k \in Workers, InsertPersisted(k)
      PROVE  IInv'
  BY <1>7, InsertPersistedInvariant
<1>8. ASSUME NEW k \in Workers, InsertFailed(k)
      PROVE  IInv'
  BY <1>8, InsertFailedInvariant
<1>9. ASSUME NEW k \in Workers, SaveSnapshot(k)
      PROVE  IInv'
  BY <1>9, SaveSnapshotInvariant
<1>10. CASE Crash
  BY <1>10, CrashInvariant
<1>11. CASE UNCHANGED esVars
  BY <1>11 DEF esVars, IInv, TypeOK
<1> QED
  BY <1>1, <1>2, <1>3, <1>4, <1>5, <1>6, <1>7, <1>8, <1>9, <1>10, <1>11
     DEF Next, Handle, Step

\* In every behaviour, whatever the interleaving of the requests, the failures
\* of MongoDB and the crashes, the invariant holds.
THEOREM Invariance == Spec => []IInv
BY InitInvariant, StepInvariant, PTL DEF Spec
-----------------------------------------------------------------------------
(* What follows from it. *)

\* Every variable keeps the shape the Go types give it.
THEOREM TypeCorrectness == Spec => []TypeOK
<1>1. IInv => TypeOK
  BY DEF IInv
<1> QED BY <1>1, Invariance, PTL

\* A replay never meets a hole in a stream, races or not.
THEOREM StreamsHaveNoGaps == Spec => []NoGaps
<1>1. IInv => NoGaps
  BY DEF IInv, Dense, NoGaps, Stream, StreamIn
<1> QED BY <1>1, Invariance, PTL

\* Money that arrives from a transfer has left the source.
THEOREM TransferFunding == Spec => []TransfersAreFunded
<1>1. IInv => TransfersAreFunded
  BY DEF IInv, FundedIn, TransfersAreFunded
<1> QED BY <1>1, Invariance, PTL

\* A success answered by a handler is never lost.
THEOREM AckedDurability == Spec => []AckedIsDurable
<1>1. IInv => AckedIsDurable
  BY DEF IInv, DurableIn, WroteIn, AckedIsDurable, Wrote, Stream, StreamIn
<1> QED BY <1>1, Invariance, PTL

\* Unless a race forked the stream, a snapshot, and every aggregate a handler
\* works on, is the fold of the stream up to its version.
THEOREM ExactRehydration == Spec => []RehydrationIsExact
<1>1. IInv => RehydrationIsExact
  <2>1. SUFFICES ASSUME IInv PROVE RehydrationIsExact
    OBVIOUS
  <2>2. ASSUME NEW w, NEW agg, LoadedFrom(store, w, agg), Unforked(w, agg.version)
        PROVE  Exact(w, agg)
    BY <2>2 DEF LoadedFrom, Unforked, UnforkedIn, Exact, Prefix, PrefixIn, Stream, StreamIn
  <2>3. \A w \in Wallets : LoadedFrom(store, w, snapshots[w])
    BY <2>1 DEF IInv
  <2>4. \A k \in Workers : worker[k].pc # "idle" => \A side \in Sides :
          LoadedFrom(store, WalletOf(worker[k].cmd, side), worker[k].agg[side])
    BY <2>1 DEF IInv, Sane
  <2> QED BY <2>2, <2>3, <2>4 DEF RehydrationIsExact
<1> QED BY <1>1, Invariance, PTL

\* No event is folded a second time on top of a snapshot that has it.
THEOREM NoDoubleFold == Spec => []NothingFoldedTwice
<1>1. IInv => NothingFoldedTwice
  <2>1. SUFFICES ASSUME IInv PROVE NothingFoldedTwice
    OBVIOUS
  <2>2. ASSUME NEW w, NEW agg \in Aggregates, LoadedFrom(store, w, agg)
        PROVE  EventsAfter(w, agg.version) \cap agg.events = {}
    <3>1. \A e \in agg.events : e.version \in Nat /\ e.version <= agg.version
      BY <2>2 DEF LoadedFrom, Aggregates, Docs
    <3> QED BY <3>1 DEF EventsAfter, Aggregates
  <2>3. \A w \in Wallets : snapshots[w] \in Aggregates /\ LoadedFrom(store, w, snapshots[w])
    BY <2>1 DEF IInv, TypeOK
  <2>4. \A k \in Workers : worker[k].pc = "loadEvents" =>
          Aggregate(k) \in Aggregates /\ LoadedFrom(store, Target(k), Aggregate(k))
    BY <2>1, TargetType
  <2> QED BY <2>2, <2>3, <2>4 DEF NothingFoldedTwice
<1> QED BY <1>1, Invariance, PTL

\* No snapshot runs ahead of its stream and wedges its wallet.
THEOREM SnapshotsAreStored == Spec => []NoWalletWedged
<1>1. IInv => NoWalletWedged
  BY DEF IInv, LoadedFrom, NoWalletWedged, Stream, StreamIn
<1> QED BY <1>1, Invariance, PTL

\* No prefix of an unforked stream is overdrawn: the check a debit passed on
\* what it had loaded still holds where its event lands.
THEOREM NoOverdraft == Spec => []NoOverdraftUnlessForked
<1>1. IInv => NoOverdraftUnlessForked
  <2>1. SUFFICES ASSUME IInv, NEW w \in Wallets, NEW e \in Stream(w), Unforked(w, e.version)
                 PROVE  Balance(Prefix(w, e.version)) >= 0
    BY DEF NoOverdraftUnlessForked
  <2>2. e \in store /\ e.aggregate = w
    BY <2>1 DEF Stream
  <2>3. PrefixIn(store, w, e.version) = Prefix(w, e.version)
    BY DEF PrefixIn, StreamIn, Prefix, Stream
  <2>4. UnforkedIn(store, w, e.version)
    BY <2>1, <2>3 DEF Unforked, UnforkedIn
  <2> QED BY <2>1, <2>2, <2>3, <2>4 DEF IInv, Solvent
<1> QED BY <1>1, Invariance, PTL
=============================================================================
