--------------------------- MODULE ConsumerProofs ---------------------------
(***************************************************************************)
(* Proofs, for any number of group members, operators, partitions, messages*)
(* and faults, of the safety properties of Consumer: no message is lost to *)
(* a committed offset, and a resolved dead letter has been projected.      *)
(***************************************************************************)
EXTENDS Consumer, TLAPS

(* The inductive invariant. *)

\* A loop that is not fetching holds a message.
LoopsHoldMessages ==
  \A c \in Members : reader[c].pc # "fetch" => reader[c].place \in Places

\* A busy operator holds the message and the key of a row.
OperatorsHoldRows ==
  \A o \in Reprocessors : operator[o].pc # "idle" =>
    /\ operator[o].place \in Places
    /\ operator[o].key = DeadLetterKey(operator[o].place)
    /\ deadLetters[operator[o].key].status # "none"

\* The rows of dead_letter_events hold messages that have their key.
RowsHavePlaces ==
  \A key \in Keys : deadLetters[key].status # "none" =>
    /\ deadLetters[key].place \in Places
    /\ DeadLetterKey(deadLetters[key].place) = key

\* Nothing up to offset n of partition p can be lost any more.
HandledUpTo(p, n) ==
  \A place \in Places : place[1] = p /\ place[2] <= n => Handled(place)

CommittedPrefix == \A p \in Partitions : HandledUpTo(p, committed[p])

\* Whatever a loop has in its hands, what precedes it has been handled; and the
\* message itself, once the loop is about to commit it.
InHandPrefix ==
  \A c \in Members : reader[c].pc # "fetch" =>
    /\ HandledUpTo(reader[c].place[1], reader[c].place[2] - 1)
    /\ reader[c].pc = "commit" => Handled(reader[c].place)

\* What a partition's owner has read is handled, or in its hands.
PositionPrefix ==
  \A p \in Partitions :
    \/ HandledUpTo(p, position[p])
    \/ /\ reader[owner[p]].pc # "fetch"
       /\ reader[owner[p]].place = <<p, position[p]>>

Prefixes == CommittedPrefix /\ InHandPrefix /\ PositionPrefix

\* An operator marks a row resolved after it has projected the message.
ResolvingIsProjected ==
  \A o \in Reprocessors : operator[o].pc = "markResolved" =>
    Message(operator[o].place).id \in inbox

\* An open transaction projects the event its caller is dispatching.
TransactionsInHand ==
  \A x \in Callers : IsOpen(x) =>
    /\ TxMessage(x).body \in Events
    /\ x \in Members => reader[x].pc = "dispatch" /\ reader[x].place = tx[x].place
    /\ x \in Reprocessors =>
         operator[x].pc = "dispatch" /\ operator[x].place = tx[x].place

TypeInv == TypeOK /\ LoopsHoldMessages /\ OperatorsHoldRows /\ RowsHavePlaces
IInv ==
  /\ TypeInv
  /\ TransactionsInHand
  /\ Prefixes
  /\ ResolvingIsProjected
  /\ ResolvedIsProjected
-----------------------------------------------------------------------------
(* Places, messages and keys. *)

\* A place is a partition and an offset, and holds a message with an id and a
\* key.
LEMMA PlaceFacts ==
  ASSUME NEW place \in Places
  PROVE  /\ place[1] \in Partitions
         /\ place[2] \in Nat
         /\ place[2] \in 1 .. Len(Log[place[1]])
         /\ place = <<place[1], place[2]>>
         /\ Message(place) \in Messages
         /\ Message(place).id \in Ids
         /\ DeadLetterKey(place) \in Keys
<1>1. PICK p \in Partitions : place \in {p} \X DOMAIN Log[p]
  BY DEF Places
<1> DEFINE i == place[2]
<1>2. Log[p] \in Seq(Messages)
  BY LogAssumption
<1>3. i \in 1 .. Len(Log[p]) /\ Log[p][i] \in Messages /\ i \in Nat
  BY <1>1, <1>2
<1>4. place[1] = p /\ place = <<p, i>>
  BY <1>1
<1> QED
  BY <1>3, <1>4 DEF Message, Messages, Ids, Keys

\* While the log goes on there is a message at the next offset.
LEMMA NextPlace ==
  ASSUME NEW p \in Partitions, NEW i \in Nat, i < Len(Log[p])
  PROVE  <<p, i + 1>> \in Places
<1>1. Log[p] \in Seq(Messages)
  BY LogAssumption
<1>2. Len(Log[p]) \in Nat /\ DOMAIN Log[p] = 1 .. Len(Log[p])
  BY <1>1
<1> QED
  BY <1>2 DEF Places

\* A key stands for one event id.
LEMMA KeyFacts ==
  ASSUME NEW a \in Places, NEW b \in Places, DeadLetterKey(a) = DeadLetterKey(b)
  PROVE  Message(a).id = Message(b).id
<1>1. a = <<a[1], a[2]>> /\ b = <<b[1], b[2]>>
  BY PlaceFacts
<1>2. \A x, y, z : <<x>> # <<y, z>>
  OBVIOUS
<1>3. CASE Message(a).id # "" /\ Message(b).id # ""
  BY <1>3 DEF DeadLetterKey
<1>4. CASE Message(a).id # "" /\ Message(b).id = ""
  <2>1. DeadLetterKey(a) = <<Message(a).id>> /\ DeadLetterKey(b) = b
    BY <1>4 DEF DeadLetterKey
  <2> QED
    BY <2>1, <1>1, <1>2
<1>5. CASE Message(a).id = "" /\ Message(b).id # ""
  <2>1. DeadLetterKey(a) = a /\ DeadLetterKey(b) = <<Message(b).id>>
    BY <1>5 DEF DeadLetterKey
  <2> QED
    BY <2>1, <1>1, <1>2
<1>6. CASE Message(a).id = "" /\ Message(b).id = ""
  BY <1>6
<1> QED
  BY <1>3, <1>4, <1>5, <1>6
-----------------------------------------------------------------------------
(* What the steps do to the tables. *)

\* No event leaves the inbox, and no row the dead letters.
Grows ==
  /\ inbox \subseteq inbox'
  /\ \A key \in Keys : deadLetters[key].status # "none" =>
                        deadLetters'[key].status # "none"

\* A message that is projected or dead-lettered stays so.
LEMMA HandledPersists ==
  ASSUME Grows, NEW place \in Places, Handled(place)
  PROVE  Handled(place)'
BY PlaceFacts DEF Grows, Handled

\* A place is no empty tuple, so that an open transaction has a message.
LEMMA OpenFacts ==
  ASSUME TypeInv, NEW x \in Callers
  PROVE  /\ tx[x] \in [place : Places \cup {<<>>}, balance : Int]
         /\ IsOpen(x) => /\ tx[x].place \in Places
                          /\ TxMessage(x) \in Messages
                          /\ TxMessage(x).id \in Ids
BY PlaceFacts DEF TypeInv, TypeOK, IsOpen, TxMessage

\* Save and COMMIT of an open transaction keep the types.
LEMMA ApplyFacts ==
  ASSUME TypeInv, NEW x \in Callers, Apply(x)
  PROVE  /\ inbox \subseteq inbox' /\ inbox' \subseteq Ids
         /\ TxMessage(x).id \in inbox'
         /\ wallets' \in [Wallets -> [open : BOOLEAN, balance : Int]]
<1>1. IsOpen(x) /\ TxMessage(x) \in Messages /\ TxMessage(x).id \in Ids
  BY OpenFacts DEF Apply
<1>2. tx[x].balance \in Int
  BY OpenFacts
<1>3. [open |-> TRUE, balance |-> tx[x].balance] \in [open : BOOLEAN, balance : Int]
  BY <1>2
<1> QED
  BY <1>1, <1>3 DEF Apply, TypeInv, TypeOK

\* A projection that ends keeps the types and closes its transaction; once it
\* succeeds the id is in the inbox.
LEMMA ProjectionFacts ==
  ASSUME TypeInv, NEW x \in Callers, NEW m \in Messages, m.id \in Ids,
         IsOpen(x) => TxMessage(x) = m,
         ProjectionSucceeds(x, m) \/ ProjectionFails(x, m)
  PROVE  /\ inbox \subseteq inbox'
         /\ inbox' \subseteq Ids
         /\ wallets' \in [Wallets -> [open : BOOLEAN, balance : Int]]
         /\ tx' \in [Callers -> [place : Places \cup {<<>>}, balance : Int]]
         /\ UNCHANGED overlapped
         /\ ~IsOpen(x)'
         /\ \A y \in Callers : IsOpen(y)' => y # x /\ tx'[y] = tx[y]
         /\ faults' \in 0 .. MaxFaults
         /\ ProjectionSucceeds(x, m) => m.id \in inbox'
<1>1. faults' \in 0 .. MaxFaults
  BY FaultsAssumption DEF TypeInv, TypeOK, ProjectionSucceeds, ProjectionFails, Fault
<1>2. tx' = [tx EXCEPT ![x] = Closed] /\ UNCHANGED overlapped
  BY DEF ProjectionSucceeds, ProjectionFails, Ends
<1>3. /\ tx' \in [Callers -> [place : Places \cup {<<>>}, balance : Int]]
      /\ ~IsOpen(x)'
      /\ \A y \in Callers : IsOpen(y)' => y # x /\ tx'[y] = tx[y]
  <2>1. tx \in [Callers -> [place : Places \cup {<<>>}, balance : Int]]
    BY DEF TypeInv, TypeOK
  <2> QED
    BY <1>2, <2>1 DEF Closed, IsOpen
<1>4. CASE Apply(x)
  BY <1>1, <1>2, <1>3, <1>4, ApplyFacts DEF Apply
<1>5. CASE ~Apply(x) /\ UNCHANGED readModel
  <2>1. ProjectionSucceeds(x, m) => m.id \in inbox'
    BY <1>5 DEF ProjectionSucceeds, readModel
  <2> QED
    BY <1>1, <1>2, <1>3, <1>5, <2>1 DEF readModel, TypeInv, TypeOK
<1> QED
  BY <1>4, <1>5 DEF ProjectionSucceeds, ProjectionFails

\* A transaction that begins is open, in its caller's hands, with a whole
\* balance to write.
LEMMA BeginFacts ==
  ASSUME TypeInv, NEW x \in Callers, NEW place \in Places, Begin(x, place)
  PROVE  /\ UNCHANGED <<inbox, wallets>>
         /\ tx' \in [Callers -> [place : Places \cup {<<>>}, balance : Int]]
         /\ overlapped' \subseteq Wallets
         /\ tx'[x] = [place |-> place, balance |-> NewBalance(Message(place))]
         /\ Message(place).body \in Events
         /\ \A y \in Callers \ {x} : tx'[y] = tx[y]
<1> DEFINE m == Message(place)
<1>1. /\ tx' = [tx EXCEPT ![x] = [place |-> place, balance |-> NewBalance(m)]]
      /\ overlapped' \subseteq overlapped \cup {m.wallet}
      /\ UNCHANGED <<inbox, wallets>>
      /\ m.body \in Events
  BY DEF Begin, readModel, IsNew
<1>2. m.wallet \in Wallets /\ m.amount \in Int
  BY PlaceFacts DEF Messages
<1>3. wallets[m.wallet].balance \in Int
  BY <1>2 DEF TypeInv, TypeOK
<1>4. -m.amount \in Int /\ SignedAmount(m) \in {m.amount, -m.amount}
  BY <1>2 DEF SignedAmount
<1>5. NewBalance(m) \in Int
  BY <1>2, <1>3, <1>4 DEF NewBalance
<1>6. [place |-> place, balance |-> NewBalance(m)]
        \in [place : Places \cup {<<>>}, balance : Int]
  BY <1>5
<1>7. /\ tx \in [Callers -> [place : Places \cup {<<>>}, balance : Int]]
      /\ overlapped \subseteq Wallets
  BY DEF TypeInv, TypeOK
<1> HIDE DEF m
<1> QED
  BY <1>1, <1>2, <1>6, <1>7 DEF m

\* Transactions may close; those that stay open are in the same hands.
LEMMA TransactionsKept ==
  ASSUME TransactionsInHand,
         \A x \in Callers : IsOpen(x)' =>
           /\ tx'[x] = tx[x]
           /\ x \in Members => reader'[x] = reader[x]
           /\ x \in Reprocessors => operator'[x] = operator[x]
  PROVE  TransactionsInHand'
BY DEF TransactionsInHand, IsOpen, TxMessage

\* The upsert of a dead letter keeps the table in order, and resolves nothing.
LEMMA SaveRowFacts ==
  ASSUME TypeInv, NEW place \in Places, SaveRow(place)
  PROVE  /\ deadLetters' \in [Keys -> [status : {"none", "pending", "resolved"},
                                       place : Places \cup {<<>>}]]
         /\ RowsHavePlaces'
         /\ \A key \in Keys : deadLetters[key].status # "none" =>
                               deadLetters'[key].status # "none"
         /\ deadLetters'[DeadLetterKey(place)].status # "none"
         /\ \A key \in Keys : deadLetters'[key].status = "resolved" =>
                               deadLetters'[key] = deadLetters[key]
<1>1. DeadLetterKey(place) \in Keys
  BY PlaceFacts
<1> QED
  BY <1>1 DEF SaveRow, TypeInv, TypeOK, RowsHavePlaces

\* An operator's update touches the status of its own row only.
LEMMA SetStatusFacts ==
  ASSUME TypeInv, NEW o \in Reprocessors, operator[o].pc # "idle",
         NEW status \in {"pending", "resolved"}, SetStatus(o, status)
  PROVE  /\ deadLetters' \in [Keys -> [status : {"none", "pending", "resolved"},
                                       place : Places \cup {<<>>}]]
         /\ RowsHavePlaces'
         /\ \A key \in Keys : deadLetters[key].status # "none" =>
                               deadLetters'[key].status # "none"
         /\ \A key \in Keys : deadLetters'[key].place = deadLetters[key].place
         /\ \A key \in Keys : deadLetters'[key].status = "resolved" =>
               \/ deadLetters[key].status = "resolved"
               \/ status = "resolved" /\ key = operator[o].key
<1> DEFINE key == operator[o].key
<1> DEFINE row == [deadLetters[key] EXCEPT !.status = status]
<1>1. key \in Keys /\ deadLetters[key].status # "none"
  BY PlaceFacts DEF TypeInv, OperatorsHoldRows
<1>2. deadLetters' = [deadLetters EXCEPT ![key] = row]
  BY DEF SetStatus
<1>3. deadLetters \in [Keys -> [status : {"none", "pending", "resolved"},
                               place : Places \cup {<<>>}]]
  BY DEF TypeInv, TypeOK
<1>4. deadLetters[key] \in [status : {"none", "pending", "resolved"},
                           place : Places \cup {<<>>}]
  BY <1>1, <1>3
<1>5. /\ row \in [status : {"none", "pending", "resolved"}, place : Places \cup {<<>>}]
      /\ row.status = status /\ row.place = deadLetters[key].place
  BY <1>4
<1> HIDE DEF row, key
<1> QED
  BY <1>1, <1>2, <1>3, <1>5 DEF TypeInv, RowsHavePlaces, key
-----------------------------------------------------------------------------
(* What the steps do to the three prefixes of each partition. *)

\* A handled prefix of a partition stays handled.
LEMMA PrefixPersists ==
  ASSUME Grows, NEW p, NEW n, HandledUpTo(p, n)
  PROVE  HandledUpTo(p, n)'
BY HandledPersists DEF HandledUpTo

\* Tables may grow while no loop and no offset moves.
LEMMA Elsewhere ==
  ASSUME TypeInv, Prefixes, Grows, UNCHANGED <<committed, owner, position, reader>>
  PROVE  Prefixes'
<1>1. \A p, n : HandledUpTo(p, n) => HandledUpTo(p, n)'
  BY PrefixPersists
<1>2. \A place \in Places : Handled(place) => Handled(place)'
  BY HandledPersists
<1>3. CommittedPrefix'
  BY <1>1 DEF Prefixes, CommittedPrefix, HandledUpTo
<1>4. InHandPrefix'
  BY <1>1, <1>2 DEF Prefixes, InHandPrefix, TypeInv, LoopsHoldMessages, HandledUpTo
<1>5. PositionPrefix'
  BY <1>1 DEF Prefixes, PositionPrefix, HandledUpTo
<1> QED
  BY <1>3, <1>4, <1>5 DEF Prefixes

\* A loop goes on with the message it has in its hands.
LEMMA Advance ==
  ASSUME TypeInv, Prefixes, Grows, UNCHANGED <<committed, owner, position>>,
         NEW c \in Members,
         reader[c].pc # "fetch", reader'[c].pc # "fetch",
         reader'[c].place = reader[c].place,
         reader'[c].pc = "commit" => Handled(reader[c].place)',
         \A d \in Members \ {c} : reader'[d] = reader[d]
  PROVE  Prefixes'
<1>1. \A p, n : HandledUpTo(p, n) => HandledUpTo(p, n)'
  BY PrefixPersists
<1>2. \A place \in Places : Handled(place) => Handled(place)'
  BY HandledPersists
<1>3. CommittedPrefix'
  BY <1>1 DEF Prefixes, CommittedPrefix, HandledUpTo
<1>4. InHandPrefix'
  <2> SUFFICES ASSUME NEW d \in Members, reader'[d].pc # "fetch"
               PROVE  /\ HandledUpTo(reader[d].place[1], reader[d].place[2] - 1)'
                      /\ reader'[d].pc = "commit" => Handled(reader[d].place)'
    BY DEF InHandPrefix
  <2>1. CASE d = c
    BY <1>1, <2>1 DEF Prefixes, InHandPrefix, HandledUpTo, Handled
  <2>2. CASE d # c
    BY <1>1, <1>2, <2>2 DEF Prefixes, InHandPrefix, TypeInv, LoopsHoldMessages, HandledUpTo
  <2> QED
    BY <2>1, <2>2
<1>5. PositionPrefix'
  <2>1. \A p \in Partitions : owner[p] \in Members
    BY DEF TypeInv, TypeOK
  <2> QED
    BY <1>1, <2>1 DEF Prefixes, PositionPrefix, HandledUpTo
<1> QED
  BY <1>3, <1>4, <1>5 DEF Prefixes

\* The partitions are shared out anew, from what the group has committed.
LEMMA Reopened ==
  ASSUME TypeInv, Prefixes, Grows, CommittedPrefix', position' = committed',
         \A d \in Members : reader'[d] = reader[d] \/ reader'[d].pc = "fetch"
  PROVE  Prefixes'
<1>1. \A p, n : HandledUpTo(p, n) => HandledUpTo(p, n)'
  BY PrefixPersists
<1>2. \A place \in Places : Handled(place) => Handled(place)'
  BY HandledPersists
<1>3. InHandPrefix'
  BY <1>1, <1>2 DEF Prefixes, InHandPrefix, TypeInv, LoopsHoldMessages, HandledUpTo
<1>4. PositionPrefix'
  BY DEF CommittedPrefix, PositionPrefix, HandledUpTo
<1> QED
  BY <1>3, <1>4 DEF Prefixes

\* The broker records an offset whose message, and all before it, are handled.
LEMMA Committing ==
  ASSUME TypeInv, Prefixes, UNCHANGED <<inbox, deadLetters>>,
         NEW c \in Members, reader[c].pc = "commit",
         UNCHANGED committed \/ CommitOffset(reader[c].place)
  PROVE  CommittedPrefix'
<1> DEFINE place == reader[c].place
<1>1. place \in Places
  BY DEF TypeInv, LoopsHoldMessages
<1>2. HandledUpTo(place[1], place[2] - 1) /\ Handled(place)
  BY DEF Prefixes, InHandPrefix
<1>3. HandledUpTo(place[1], place[2])
  BY <1>1, <1>2, PlaceFacts DEF HandledUpTo
<1>4. \A p, n : HandledUpTo(p, n) => HandledUpTo(p, n)'
  BY DEF HandledUpTo, Handled
<1>5. committed \in [Partitions -> Nat]
  BY DEF TypeInv, TypeOK
<1> QED
  BY <1>1, <1>3, <1>4, <1>5 DEF Prefixes, CommittedPrefix, CommitOffset, HandledUpTo
-----------------------------------------------------------------------------
(* The steps of a consume loop. *)

\* A consumer neither resolves a row nor takes one from an operator.
LEMMA ConsumerStep ==
  ASSUME IInv, Grows, UNCHANGED operator,
         \A key \in Keys : deadLetters'[key].status = "resolved" =>
                              deadLetters'[key] = deadLetters[key]
  PROVE  OperatorsHoldRows' /\ ResolvingIsProjected' /\ ResolvedIsProjected'
<1>1. OperatorsHoldRows'
  BY PlaceFacts DEF IInv, TypeInv, OperatorsHoldRows, Grows
<1>2. ResolvingIsProjected'
  BY DEF IInv, ResolvingIsProjected, Grows
<1>3. ResolvedIsProjected'
  BY DEF IInv, ResolvedIsProjected, Grows
<1> QED
  BY <1>1, <1>2, <1>3

\* Fetching hands the next message to the loop: what precedes it is handled.
LEMMA FetchStep ==
  ASSUME IInv, NEW c \in Members, NEW p \in Partitions, Fetch(c, p)
  PROVE  IInv'
<1> DEFINE next == <<p, position[p] + 1>>
<1> USE DEF IInv, TypeInv
<1>1. position[p] \in Nat /\ position[p] < Len(Log[p]) /\ owner[p] = c
  BY DEF Fetch, TypeOK
<1>2. next \in Places /\ next[1] = p /\ next[2] = position[p] + 1
  BY <1>1, NextPlace
<1>3. PICK pc \in {"deadLetter", "dispatch"} :
        reader' = [reader EXCEPT ![c] = [pc |-> pc, place |-> next, attempt |-> 1]]
  BY DEF Fetch, Continue
<1>4. /\ position' = [position EXCEPT ![p] = @ + 1]
      /\ UNCHANGED <<committed, owner, inbox, wallets, tx, overlapped, deadLetters,
                    operator, faults>>
  BY DEF Fetch, readModel, transactions
<1> HIDE DEF next
<1>5. Grows /\ OperatorsHoldRows' /\ ResolvingIsProjected' /\ ResolvedIsProjected'
  BY <1>4, ConsumerStep DEF Grows
<1>6. TypeOK' /\ LoopsHoldMessages' /\ RowsHavePlaces'
  <2>1. reader' \in [Members -> [pc : {"fetch", "dispatch", "deadLetter", "commit"},
                     place : Places \cup {<<>>}, attempt : 0 .. MaxAttempts]]
    BY <1>2, <1>3, AttemptsAssumption DEF TypeOK
  <2>2. position' \in [Partitions -> Nat]
    BY <1>4 DEF TypeOK
  <2>3. TypeOK'
    BY <1>4, <2>1, <2>2 DEF TypeOK
  <2> QED
    BY <1>2, <1>3, <1>4, <2>3 DEF TypeOK, LoopsHoldMessages, RowsHavePlaces
<1>7. \A q, n : HandledUpTo(q, n) => HandledUpTo(q, n)'
  BY <1>5, PrefixPersists
<1>8. \A place \in Places : Handled(place) => Handled(place)'
  BY <1>5, HandledPersists
<1>9. HandledUpTo(p, position[p])
  BY <1>1 DEF Prefixes, PositionPrefix, Fetch
<1>10. CommittedPrefix'
  BY <1>4, <1>7 DEF Prefixes, CommittedPrefix, HandledUpTo
<1>11. InHandPrefix'
  <2> SUFFICES ASSUME NEW d \in Members, reader'[d].pc # "fetch"
               PROVE  /\ HandledUpTo(reader[d].place[1], reader[d].place[2] - 1)'
                      /\ reader'[d].pc = "commit" => Handled(reader[d].place)'
    BY DEF InHandPrefix
  <2>1. CASE d = c
    <3>1. reader'[d].place = next /\ reader'[d].pc # "commit"
      BY <1>3, <2>1 DEF TypeOK
    <3>2. \A place \in Places :
            place[1] = p /\ place[2] <= position[p] => Handled(place)'
      BY <1>8, <1>9 DEF HandledUpTo
    <3>3. reader'[d].place[1] = p /\ reader'[d].place[2] - 1 = position[p]
      BY <1>1, <1>2, <3>1
    <3> QED
      BY <3>1, <3>2, <3>3 DEF HandledUpTo
  <2>2. CASE d # c
    <3>1. reader'[d] = reader[d]
      BY <1>3, <2>2 DEF TypeOK
    <3> QED
      BY <1>7, <1>8, <3>1 DEF Prefixes, InHandPrefix, LoopsHoldMessages, HandledUpTo
  <2> QED
    BY <2>1, <2>2
<1>12. PositionPrefix'
  <2> SUFFICES ASSUME NEW q \in Partitions
               PROVE  \/ HandledUpTo(q, position[q])'
                      \/ /\ reader'[owner'[q]].pc # "fetch"
                         /\ reader'[owner'[q]].place = <<q, position'[q]>>
    BY DEF PositionPrefix
  <2>1. owner[q] \in Members /\ position[q] \in Nat
    BY DEF TypeOK
  <2>2. CASE q = p
    <3>1. reader'[c].pc # "fetch" /\ reader'[c].place = next
      BY <1>3 DEF TypeOK
    <3>2. position'[p] = position[p] + 1
      BY <1>4 DEF TypeOK
    <3> QED
      BY <1>1, <1>4, <2>2, <3>1, <3>2 DEF next
  <2>3. CASE q # p
    <3>1. position'[q] = position[q] /\ owner'[q] = owner[q]
      BY <1>4, <2>3 DEF TypeOK
    <3>2. HandledUpTo(q, position[q]) => HandledUpTo(q, position[q])'
      BY <1>7, <3>1 DEF HandledUpTo
    <3>3. owner[q] # c => reader'[owner[q]] = reader[owner[q]]
      BY <1>3, <2>1 DEF TypeOK
    <3>4. reader[c].pc = "fetch"
      BY DEF Fetch
    <3> QED
      BY <3>1, <3>2, <3>3, <3>4 DEF Prefixes, PositionPrefix
  <2> QED
    BY <2>2, <2>3
<1>13. TransactionsInHand'
  <2>1. \A d \in Members : d # c => reader'[d] = reader[d]
    BY <1>3 DEF TypeOK
  <2>2. c \in Callers /\ ~IsOpen(c)
    BY DEF TransactionsInHand, Fetch, Callers
  <2> QED
    BY <1>4, <2>1, <2>2, TransactionsKept DEF IsOpen
<1> QED
  BY <1>5, <1>6, <1>10, <1>11, <1>12, <1>13 DEF Prefixes

LoopState == [pc : {"fetch", "dispatch", "deadLetter", "commit"},
              place : Places \cup {<<>>}, attempt : 0 .. MaxAttempts]
ReaderType == [Members -> LoopState]

\* A consume loop is in a state of its type.
LEMMA ReaderTyped ==
  ASSUME TypeInv, NEW c \in Members
  PROVE  reader \in ReaderType /\ reader[c] \in LoopState
BY DEF TypeInv, TypeOK, ReaderType, LoopState

\* Continue puts one loop into the given state and leaves the others.
LEMMA ContinueFacts ==
  ASSUME TypeInv, NEW c \in Members, NEW r \in LoopState, Continue(c, r)
  PROVE  /\ reader' \in ReaderType
         /\ reader'[c] = r
         /\ \A d \in Members \ {c} : reader'[d] = reader[d]
BY ReaderTyped DEF Continue, ReaderType

\* A loop without a message is in a state of its type.
LEMMA FetchingTyped == Fetching \in LoopState /\ Fetching.pc = "fetch"
BY AttemptsAssumption DEF Fetching, LoopState

\* A loop keeps its message and goes to its next position.
LEMMA PassesTo ==
  ASSUME TypeInv, NEW c \in Members, NEW pc \in {"deadLetter", "commit"},
         Continue(c, [reader[c] EXCEPT !.pc = pc])
  PROVE  /\ reader' \in ReaderType
         /\ reader'[c].pc = pc /\ reader'[c].place = reader[c].place
         /\ \A d \in Members \ {c} : reader'[d] = reader[d]
<1> DEFINE r == [reader[c] EXCEPT !.pc = pc]
<1>1. r \in LoopState /\ r.pc = pc /\ r.place = reader[c].place
  BY ReaderTyped DEF LoopState
<1>2. Continue(c, r)
  OBVIOUS
<1> HIDE DEF r
<1> QED
  BY <1>1, <1>2, ContinueFacts

\* A loop keeps its message and its position, and counts an attempt.
LEMMA CountsAttempt ==
  ASSUME TypeInv, NEW c \in Members, reader[c].attempt < MaxAttempts,
         Continue(c, [reader[c] EXCEPT !.attempt = @ + 1])
  PROVE  /\ reader' \in ReaderType
         /\ reader'[c].pc = reader[c].pc /\ reader'[c].place = reader[c].place
         /\ \A d \in Members \ {c} : reader'[d] = reader[d]
<1> DEFINE n == reader[c].attempt + 1
<1> DEFINE r == [reader[c] EXCEPT !.attempt = n]
<1>1. n \in 0 .. MaxAttempts
  BY ReaderTyped, AttemptsAssumption DEF LoopState
<1>2. Continue(c, r)
  OBVIOUS
<1> HIDE DEF n
<1>3. r \in LoopState /\ r.pc = reader[c].pc /\ r.place = reader[c].place
  BY <1>1, ReaderTyped DEF LoopState
<1> HIDE DEF r
<1> QED
  BY <1>2, <1>3, ContinueFacts

\* The projection of the message in hand succeeds or fails.
LEMMA DispatchStep ==
  ASSUME IInv, NEW c \in Members, Dispatch(c) \/ DispatchFails(c)
  PROVE  IInv'
<1> USE DEF IInv, TypeInv
<1>1. /\ reader[c].pc = "dispatch" /\ reader[c].place \in Places
      /\ InHand(c) \in Messages /\ InHand(c).id \in Ids
      /\ c \in Callers /\ c \notin Reprocessors
      /\ IsOpen(c) => TxMessage(c) = InHand(c)
  BY PlaceFacts, CallersAssumption
     DEF Dispatch, DispatchFails, LoopsHoldMessages, InHand, Callers,
         TransactionsInHand, TxMessage
<1>2. UNCHANGED <<committed, owner, position, deadLetters, operator>>
  BY DEF Dispatch, DispatchFails, assignment
<1>3. /\ inbox \subseteq inbox' /\ inbox' \subseteq Ids
      /\ wallets' \in [Wallets -> [open : BOOLEAN, balance : Int]]
      /\ faults' \in 0 .. MaxFaults
      /\ tx' \in [Callers -> [place : Places \cup {<<>>}, balance : Int]]
      /\ UNCHANGED overlapped
      /\ \A y \in Callers : IsOpen(y)' => y # c /\ tx'[y] = tx[y]
      /\ Dispatch(c) => InHand(c).id \in inbox'
  BY <1>1, ProjectionFacts DEF Dispatch, DispatchFails
<1>4. Grows /\ OperatorsHoldRows' /\ ResolvingIsProjected' /\ ResolvedIsProjected'
  BY <1>2, <1>3, ConsumerStep DEF Grows
<1>5. /\ reader' \in ReaderType
      /\ reader'[c].pc # "fetch" /\ reader'[c].place = reader[c].place
      /\ reader'[c].pc = "commit" => Dispatch(c)
      /\ \A d \in Members \ {c} : reader'[d] = reader[d]
  <2>1. CASE Dispatch(c)
    <3>1. Continue(c, [reader[c] EXCEPT !.pc = "commit"])
      BY <2>1 DEF Dispatch
    <3> QED
      BY <2>1, <3>1, PassesTo
  <2>2. CASE DispatchFails(c) /\ reader[c].attempt < MaxAttempts
    <3>1. Continue(c, [reader[c] EXCEPT !.attempt = @ + 1])
      BY <2>2 DEF DispatchFails
    <3> QED
      BY <1>1, <2>2, <3>1, CountsAttempt
  <2>3. CASE DispatchFails(c) /\ ~(reader[c].attempt < MaxAttempts)
    <3>1. Continue(c, [reader[c] EXCEPT !.pc = "deadLetter"])
      BY <2>3 DEF DispatchFails
    <3> QED
      BY <3>1, PassesTo
  <2> QED
    BY <2>1, <2>2, <2>3
<1>6. TypeOK' /\ LoopsHoldMessages' /\ RowsHavePlaces'
  BY <1>1, <1>2, <1>3, <1>5
     DEF TypeOK, ReaderType, LoopState, LoopsHoldMessages, RowsHavePlaces
<1>7. reader'[c].pc = "commit" => Handled(reader[c].place)'
  BY <1>3, <1>5 DEF Handled, InHand
<1>8. Prefixes'
  BY <1>1, <1>2, <1>4, <1>5, <1>7, Advance
<1>9. TransactionsInHand'
  BY <1>2, <1>3, <1>5, TransactionsKept
<1> QED
  BY <1>4, <1>6, <1>8, <1>9

\* A transaction begins on the message in hand, and the tables do not move.
LEMMA DispatchBeginsStep ==
  ASSUME IInv, NEW c \in Members, DispatchBegins(c)
  PROVE  IInv'
<1> USE DEF IInv, TypeInv
<1>1. /\ reader[c].pc = "dispatch" /\ reader[c].place \in Places
      /\ c \in Callers /\ c \notin Reprocessors
  BY CallersAssumption DEF DispatchBegins, LoopsHoldMessages, Callers
<1>2. UNCHANGED <<committed, owner, position, reader, deadLetters, operator, faults>>
  BY DEF DispatchBegins, assignment
<1>3. /\ UNCHANGED <<inbox, wallets>>
      /\ tx' \in [Callers -> [place : Places \cup {<<>>}, balance : Int]]
      /\ overlapped' \subseteq Wallets
      /\ tx'[c].place = reader[c].place
      /\ Message(reader[c].place).body \in Events
      /\ \A y \in Callers \ {c} : tx'[y] = tx[y]
  <2> DEFINE place == reader[c].place
  <2>1. Begin(c, place) /\ place \in Places /\ TypeInv
    BY <1>1 DEF DispatchBegins
  <2> HIDE DEF place, TypeInv
  <2>2. tx'[c] = [place |-> place, balance |-> NewBalance(Message(place))]
    BY <1>1, <2>1, BeginFacts
  <2>3. tx'[c].place = place
    BY <2>2
  <2> QED
    BY <1>1, <2>1, <2>3, BeginFacts DEF place
<1>4. Grows /\ OperatorsHoldRows' /\ ResolvingIsProjected' /\ ResolvedIsProjected'
  BY <1>2, <1>3, ConsumerStep DEF Grows
<1>5. TypeOK' /\ LoopsHoldMessages' /\ RowsHavePlaces'
  BY <1>2, <1>3 DEF TypeOK, LoopsHoldMessages, RowsHavePlaces
<1>6. Prefixes'
  BY <1>2, <1>4, Elsewhere
<1>7. TransactionsInHand'
  BY <1>1, <1>2, <1>3 DEF TransactionsInHand, IsOpen, TxMessage
<1> QED
  BY <1>4, <1>5, <1>6, <1>7

\* A payload that does not decode sends its message to the dead letters.
LEMMA PermanentFailureStep ==
  ASSUME IInv, NEW c \in Members, DispatchPermanentFailure(c)
  PROVE  IInv'
<1> USE DEF IInv, TypeInv
<1>1. reader[c].pc = "dispatch" /\ reader[c].place \in Places
  BY DEF DispatchPermanentFailure, LoopsHoldMessages
<1>2. UNCHANGED <<committed, owner, position, inbox, wallets, tx, overlapped,
                deadLetters, operator, faults>>
  BY DEF DispatchPermanentFailure, assignment, readModel, transactions
<1>3. Grows /\ OperatorsHoldRows' /\ ResolvingIsProjected' /\ ResolvedIsProjected'
  BY <1>2, ConsumerStep DEF Grows
<1>4. /\ reader' \in ReaderType
      /\ reader'[c].pc = "deadLetter" /\ reader'[c].place = reader[c].place
      /\ \A d \in Members \ {c} : reader'[d] = reader[d]
  <2>1. Continue(c, [reader[c] EXCEPT !.pc = "deadLetter"])
    BY DEF DispatchPermanentFailure
  <2> QED
    BY <2>1, PassesTo
<1>5. TypeOK' /\ LoopsHoldMessages' /\ RowsHavePlaces'
  BY <1>1, <1>2, <1>4 DEF TypeOK, ReaderType, LoopState, LoopsHoldMessages, RowsHavePlaces
<1>6. Prefixes'
  BY <1>1, <1>2, <1>3, <1>4, Advance
<1>7. c \in Callers /\ ~IsOpen(c) /\ c \notin Reprocessors
  BY CallersAssumption DEF DispatchPermanentFailure, InHand, TransactionsInHand, TxMessage,
     Events, Callers
<1>8. TransactionsInHand'
  BY <1>2, <1>4, <1>7, TransactionsKept DEF IsOpen
<1> QED
  BY <1>3, <1>5, <1>6, <1>8

\* A saved dead letter makes its message handled, and it may be committed.
LEMMA SaveDeadLetterStep ==
  ASSUME IInv, NEW c \in Members, SaveDeadLetter(c)
  PROVE  IInv'
<1> USE DEF IInv, TypeInv
<1> DEFINE place == reader[c].place
<1>1. reader[c].pc = "deadLetter" /\ place \in Places /\ SaveRow(place)
  BY DEF SaveDeadLetter, LoopsHoldMessages
<1>2. UNCHANGED <<committed, owner, position, inbox, wallets, tx, overlapped,
                operator, faults>>
  BY DEF SaveDeadLetter, assignment, readModel, transactions
<1>3. /\ deadLetters' \in [Keys -> [status : {"none", "pending", "resolved"},
                                    place : Places \cup {<<>>}]]
      /\ RowsHavePlaces'
      /\ \A key \in Keys : deadLetters[key].status # "none" =>
                            deadLetters'[key].status # "none"
      /\ deadLetters'[DeadLetterKey(place)].status # "none"
      /\ \A key \in Keys : deadLetters'[key].status = "resolved" =>
                            deadLetters'[key] = deadLetters[key]
  BY <1>1, SaveRowFacts
<1>4. Grows /\ OperatorsHoldRows' /\ ResolvingIsProjected' /\ ResolvedIsProjected'
  BY <1>2, <1>3, ConsumerStep DEF Grows
<1>5. /\ reader' \in ReaderType
      /\ reader'[c].pc = "commit" /\ reader'[c].place = place
      /\ \A d \in Members \ {c} : reader'[d] = reader[d]
  <2>1. Continue(c, [reader[c] EXCEPT !.pc = "commit"])
    BY DEF SaveDeadLetter
  <2> QED
    BY <2>1, PassesTo
<1>6. TypeOK' /\ LoopsHoldMessages'
  BY <1>1, <1>2, <1>3, <1>5 DEF TypeOK, ReaderType, LoopState, LoopsHoldMessages
<1>7. Handled(reader[c].place)'
  BY <1>3, <1>5 DEF Handled
<1>8. Prefixes'
  BY <1>1, <1>2, <1>4, <1>5, <1>7, Advance
<1>9. c \in Callers /\ ~IsOpen(c)
  BY <1>1 DEF TransactionsInHand, Callers
<1>10. TransactionsInHand'
  BY <1>2, <1>5, <1>9, TransactionsKept DEF IsOpen
<1> QED
  BY <1>3, <1>4, <1>6, <1>8, <1>10

\* The commit of a handled message keeps all three prefixes handled.
LEMMA CommitStep ==
  ASSUME IInv, NEW c \in Members, Commit(c)
  PROVE  IInv'
<1> USE DEF IInv, TypeInv
<1> DEFINE place == reader[c].place
<1>1. reader[c].pc = "commit" /\ place \in Places /\ CommitOffset(place)
  BY DEF Commit, LoopsHoldMessages
<1>2. UNCHANGED <<owner, position, inbox, wallets, tx, overlapped, deadLetters,
                operator, faults>>
  BY DEF Commit, assignment, readModel, transactions
<1>3. Grows /\ OperatorsHoldRows' /\ ResolvingIsProjected' /\ ResolvedIsProjected'
  BY <1>2, ConsumerStep DEF Grows
<1>4. /\ reader' \in ReaderType
      /\ reader'[c].pc = "fetch"
      /\ \A d \in Members \ {c} : reader'[d] = reader[d]
  BY FetchingTyped, ContinueFacts DEF Commit
<1>5. TypeOK' /\ LoopsHoldMessages' /\ RowsHavePlaces'
  <2>1. committed' \in [Partitions -> Nat]
    BY <1>1, PlaceFacts DEF CommitOffset, TypeOK
  <2> QED
    BY <1>2, <1>4, <2>1 DEF TypeOK, ReaderType, LoopState, LoopsHoldMessages, RowsHavePlaces
<1>6. \A p, n : HandledUpTo(p, n) => HandledUpTo(p, n)'
  BY <1>3, PrefixPersists
<1>7. CommittedPrefix'
  BY <1>1, <1>2, Committing
<1>8. InHandPrefix'
  BY <1>2, <1>4, <1>6 DEF Prefixes, InHandPrefix, HandledUpTo, Handled
<1>9. PositionPrefix'
  <2> SUFFICES ASSUME NEW p \in Partitions
               PROVE  \/ HandledUpTo(p, position[p])
                      \/ /\ reader'[owner[p]].pc # "fetch"
                         /\ reader'[owner[p]].place = <<p, position[p]>>
    BY <1>2 DEF PositionPrefix, HandledUpTo, Handled
  <2>1. owner[p] \in Members /\ position[p] \in Nat
    BY DEF TypeOK
  <2>2. CASE owner[p] = c /\ place = <<p, position[p]>>
    <3>1. HandledUpTo(p, position[p] - 1) /\ Handled(place)
      BY <1>1, <2>2 DEF Prefixes, InHandPrefix
    <3> QED
      BY <2>1, <2>2, <3>1, PlaceFacts DEF HandledUpTo
  <2> QED
    BY <1>4, <2>1, <2>2 DEF Prefixes, PositionPrefix
<1>10. c \in Callers /\ ~IsOpen(c)
  BY <1>1 DEF TransactionsInHand, Callers
<1>11. TransactionsInHand'
  BY <1>2, <1>4, <1>10, TransactionsKept DEF IsOpen
<1> QED
  BY <1>3, <1>5, <1>7, <1>8, <1>9, <1>11 DEF Prefixes

\* The group shares out the partitions, and at most one loop starts over.
LEMMA SharedOut ==
  ASSUME IInv, Grows, Fault, Reassign(committed'),
         committed' \in [Partitions -> Nat], CommittedPrefix',
         NEW c \in Members, Continue(c, Fetching) \/ UNCHANGED reader
  PROVE  /\ owner' \in [Partitions -> Members]
         /\ position' \in [Partitions -> Nat]
         /\ reader' \in ReaderType
         /\ \A d \in Members \ {c} : reader'[d] = reader[d]
         /\ faults' \in 0 .. MaxFaults
         /\ LoopsHoldMessages'
         /\ Prefixes'
<1> USE DEF IInv, TypeInv
<1>1. owner' \in [Partitions -> Members] /\ position' = committed'
  BY DEF Reassign
<1>2. faults' \in 0 .. MaxFaults
  BY FaultsAssumption DEF Fault, TypeOK
<1>3. /\ reader' \in ReaderType
      /\ \A d \in Members : reader'[d] = reader[d] \/ reader'[d].pc = "fetch"
  <2>1. CASE Continue(c, Fetching)
    BY <2>1, FetchingTyped, ContinueFacts
  <2>2. CASE UNCHANGED reader
    BY <2>2, ReaderTyped
  <2> QED
    BY <2>1, <2>2
<1>6. \A d \in Members \ {c} : reader'[d] = reader[d]
  BY FetchingTyped, ContinueFacts
<1>4. LoopsHoldMessages'
  BY <1>3 DEF LoopsHoldMessages
<1>5. Prefixes'
  BY <1>1, <1>3, Reopened
<1> QED
  BY <1>1, <1>2, <1>3, <1>4, <1>5, <1>6

\* FetchFails, SaveDeadLetterFails and CommitFails close the reader.
LEMMA ReopenStep ==
  ASSUME IInv, NEW c \in Members,
         FetchFails(c) \/ SaveDeadLetterFails(c) \/ CommitFails(c)
  PROVE  IInv'
<1> USE DEF IInv, TypeInv
<1>1. Fault /\ Reopen(c, committed') /\ UNCHANGED <<inbox, wallets, tx, overlapped, operator>>
  BY DEF FetchFails, SaveDeadLetterFails, CommitFails, readModel, transactions
<1>2. /\ deadLetters' \in [Keys -> [status : {"none", "pending", "resolved"},
                                    place : Places \cup {<<>>}]]
      /\ RowsHavePlaces'
      /\ \A key \in Keys : deadLetters[key].status # "none" =>
                            deadLetters'[key].status # "none"
      /\ \A key \in Keys : deadLetters'[key].status = "resolved" =>
                            deadLetters'[key] = deadLetters[key]
  <2>1. CASE UNCHANGED deadLetters
    BY <2>1 DEF TypeOK, RowsHavePlaces
  <2>2. CASE SaveDeadLetterFails(c) /\ SaveRow(reader[c].place)
    <3>1. reader[c].place \in Places
      BY <2>2 DEF SaveDeadLetterFails, LoopsHoldMessages
    <3> QED
      BY <2>2, <3>1, SaveRowFacts
  <2> QED
    BY <2>1, <2>2 DEF FetchFails, SaveDeadLetterFails, CommitFails
<1>3. Grows /\ OperatorsHoldRows' /\ ResolvingIsProjected' /\ ResolvedIsProjected'
  BY <1>1, <1>2, ConsumerStep DEF Grows
<1>4. committed' \in [Partitions -> Nat] /\ CommittedPrefix'
  <2>1. CASE UNCHANGED committed
    <3>1. \A p, n : HandledUpTo(p, n) => HandledUpTo(p, n)'
      BY <1>3, PrefixPersists
    <3> QED
      BY <2>1, <3>1 DEF TypeOK, Prefixes, CommittedPrefix, HandledUpTo
  <2>2. CASE CommitFails(c) /\ CommitOffset(reader[c].place)
    <3>1. /\ reader[c].pc = "commit" /\ reader[c].place \in Places
          /\ UNCHANGED <<inbox, deadLetters>>
      BY <2>2 DEF CommitFails, readModel, LoopsHoldMessages
    <3>2. CommittedPrefix'
      BY <2>2, <3>1, Committing
    <3> QED
      BY <2>2, <3>1, <3>2, PlaceFacts DEF CommitOffset, TypeOK
  <2> QED
    BY <2>1, <2>2 DEF FetchFails, SaveDeadLetterFails, CommitFails
<1>5. /\ owner' \in [Partitions -> Members]
      /\ position' \in [Partitions -> Nat]
      /\ reader' \in ReaderType
      /\ \A d \in Members \ {c} : reader'[d] = reader[d]
      /\ faults' \in 0 .. MaxFaults
      /\ LoopsHoldMessages'
      /\ Prefixes'
  BY <1>1, <1>3, <1>4, SharedOut DEF Reopen
<1>6. TypeOK'
  BY <1>1, <1>2, <1>4, <1>5 DEF TypeOK, ReaderType, LoopState
<1>7. c \in Callers /\ ~IsOpen(c)
  BY DEF TransactionsInHand, Callers, FetchFails, SaveDeadLetterFails, CommitFails
<1>8. TransactionsInHand'
  BY <1>1, <1>5, <1>7, TransactionsKept DEF IsOpen
<1> QED
  BY <1>2, <1>3, <1>5, <1>6, <1>8

\* A crash drops loops and operators; the group reads on from what it
\* committed.
LEMMA CrashStep ==
  ASSUME IInv, NEW c \in Members, Crash(c)
  PROVE  IInv'
<1> USE DEF IInv, TypeInv
<1>1. /\ Fault /\ Continue(c, Fetching) /\ Reassign(committed')
      /\ UNCHANGED <<committed, inbox, wallets, overlapped, deadLetters>>
  BY DEF Crash, Reopen, readModel
<1>2. Grows
  BY <1>1 DEF Grows
<1>3. /\ \A o \in Reprocessors : operator'[o] = operator[o] \/ operator'[o].pc = "idle"
      /\ operator' \in [Reprocessors ->
                     [pc : {"idle", "dispatch", "markResolved", "markFailed"},
                      key : Keys \cup {<<>>}, place : Places \cup {<<>>}]]
  BY DEF Crash, Free, TypeOK
<1>4. OperatorsHoldRows' /\ ResolvingIsProjected' /\ ResolvedIsProjected' /\ RowsHavePlaces'
  BY <1>1, <1>3
     DEF OperatorsHoldRows, ResolvingIsProjected, ResolvedIsProjected, RowsHavePlaces
<1>5. committed' \in [Partitions -> Nat] /\ CommittedPrefix'
  BY <1>1 DEF TypeOK, Prefixes, CommittedPrefix, HandledUpTo, Handled
<1>6. /\ owner' \in [Partitions -> Members]
      /\ position' \in [Partitions -> Nat]
      /\ reader' \in ReaderType
      /\ \A d \in Members \ {c} : reader'[d] = reader[d]
      /\ faults' \in 0 .. MaxFaults
      /\ LoopsHoldMessages'
      /\ Prefixes'
  BY <1>1, <1>2, <1>5, SharedOut
<1>7. PICK dead \in SUBSET Reprocessors :
        /\ operator' = [o \in Reprocessors |-> IF o \in dead THEN Free ELSE operator[o]]
        /\ tx' = [x \in Callers |-> IF x \in dead \cup {c} THEN Closed ELSE tx[x]]
  BY DEF Crash
<1>8. /\ tx' \in [Callers -> [place : Places \cup {<<>>}, balance : Int]]
      /\ \A x \in Callers : IsOpen(x)' => x \notin dead \cup {c} /\ tx'[x] = tx[x]
  BY <1>7 DEF TypeOK, Closed, IsOpen
<1>9. TypeOK'
  BY <1>1, <1>3, <1>5, <1>6, <1>8 DEF TypeOK, ReaderType, LoopState
<1>10. TransactionsInHand'
  <2>1. \A o \in Reprocessors : o \notin dead => operator'[o] = operator[o]
    BY <1>7
  <2> QED
    BY <1>6, <1>8, <2>1, TransactionsKept
<1> QED
  BY <1>4, <1>6, <1>9, <1>10

\* A rebalance moves owners and positions back to what is committed.
LEMMA RebalanceStep ==
  ASSUME IInv, Rebalance
  PROVE  IInv'
<1> USE DEF IInv, TypeInv
<1>1. /\ Fault /\ Reassign(committed')
      /\ UNCHANGED <<committed, reader, inbox, wallets, tx, overlapped, deadLetters,
                   operator>>
  BY DEF Rebalance, readModel, transactions
<1>2. Grows /\ OperatorsHoldRows' /\ ResolvingIsProjected' /\ ResolvedIsProjected'
  BY <1>1, ConsumerStep DEF Grows
<1>3. committed' \in [Partitions -> Nat] /\ CommittedPrefix'
  BY <1>1 DEF TypeOK, Prefixes, CommittedPrefix, HandledUpTo, Handled
<1>4. owner' \in [Partitions -> Members] /\ position' = committed'
  BY <1>1 DEF Reassign
<1>5. faults' \in 0 .. MaxFaults
  BY <1>1, FaultsAssumption DEF Fault, TypeOK
<1>6. TypeOK' /\ LoopsHoldMessages' /\ RowsHavePlaces'
  BY <1>1, <1>3, <1>4, <1>5 DEF TypeOK, LoopsHoldMessages, RowsHavePlaces
<1>7. Prefixes'
  BY <1>1, <1>2, <1>3, <1>4, Reopened
<1>8. TransactionsInHand'
  BY <1>1, TransactionsKept
<1> QED
  BY <1>2, <1>6, <1>7, <1>8
-----------------------------------------------------------------------------
(* The steps of an operator. *)

\* An operator loads a row with its own message.
LEMMA LoadStep ==
  ASSUME IInv, NEW o \in Reprocessors, NEW key \in Keys, Load(o, key)
  PROVE  IInv'
<1> USE DEF IInv, TypeInv
<1> DEFINE place == deadLetters[key].place
<1>1. place \in Places /\ DeadLetterKey(place) = key /\ deadLetters[key].status # "none"
  BY DEF Load, RowsHavePlaces
<1>2. UNCHANGED <<committed, owner, position, reader, inbox, wallets, tx, overlapped,
                deadLetters, faults>>
  BY DEF Load, assignment, readModel, transactions
<1>3. Grows
  BY <1>2 DEF Grows
<1>4. PICK pc \in {"dispatch", "markFailed"} :
        operator' = [operator EXCEPT ![o] = [pc |-> pc, key |-> key, place |-> place]]
  BY DEF Load
<1> HIDE DEF place
<1>5. TypeOK'
  <2>1. operator' \in [Reprocessors ->
                     [pc : {"idle", "dispatch", "markResolved", "markFailed"},
                      key : Keys \cup {<<>>}, place : Places \cup {<<>>}]]
    BY <1>1, <1>4 DEF TypeOK
  <2> QED
    BY <1>2, <2>1 DEF TypeOK
<1>6. OperatorsHoldRows' /\ ResolvingIsProjected'
  BY <1>1, <1>2, <1>4 DEF TypeOK, OperatorsHoldRows, ResolvingIsProjected
<1>7. LoopsHoldMessages' /\ RowsHavePlaces' /\ ResolvedIsProjected'
  BY <1>2 DEF LoopsHoldMessages, RowsHavePlaces, ResolvedIsProjected
<1>8. Prefixes'
  BY <1>2, <1>3, Elsewhere
<1>9. TransactionsInHand'
  <2>1. o \in Callers /\ ~IsOpen(o)
    BY DEF Load, TransactionsInHand, Callers
  <2>2. \A u \in Reprocessors : u # o => operator'[u] = operator[u]
    BY <1>4 DEF TypeOK
  <2> QED
    BY <1>2, <2>1, <2>2, TransactionsKept DEF IsOpen
<1> QED
  BY <1>5, <1>6, <1>7, <1>8, <1>9

\* An operator projects its message before it resolves the row.
LEMMA RedispatchStep ==
  ASSUME IInv, NEW o \in Reprocessors, Redispatch(o)
  PROVE  IInv'
<1> USE DEF IInv, TypeInv
<1> DEFINE m == Message(operator[o].place)
<1>1. /\ operator[o].pc = "dispatch" /\ m \in Messages /\ m.id \in Ids
      /\ o \in Callers /\ o \notin Members
      /\ IsOpen(o) => TxMessage(o) = m
  BY PlaceFacts, CallersAssumption
     DEF Redispatch, OperatorsHoldRows, Callers, TransactionsInHand, TxMessage
<1>2. UNCHANGED <<committed, owner, position, reader, deadLetters>>
  BY DEF Redispatch, assignment
<1>3. /\ inbox \subseteq inbox' /\ inbox' \subseteq Ids
      /\ wallets' \in [Wallets -> [open : BOOLEAN, balance : Int]]
      /\ faults' \in 0 .. MaxFaults
      /\ tx' \in [Callers -> [place : Places \cup {<<>>}, balance : Int]]
      /\ UNCHANGED overlapped
      /\ \A y \in Callers : IsOpen(y)' => y # o /\ tx'[y] = tx[y]
      /\ ProjectionSucceeds(o, m) => m.id \in inbox'
  BY <1>1, ProjectionFacts DEF Redispatch
<1>4. Grows
  BY <1>2, <1>3 DEF Grows
<1>5. PICK pc \in {"markResolved", "markFailed"} :
        /\ Move(o, pc)
        /\ pc = "markResolved" => m.id \in inbox'
  BY <1>3 DEF Redispatch
<1> HIDE DEF m
<1> DEFINE next == [operator[o] EXCEPT !.pc = pc]
<1>6. operator' = [operator EXCEPT ![o] = next]
  BY <1>5 DEF Move
<1>7. operator[o] \in [pc : {"idle", "dispatch", "markResolved", "markFailed"},
                     key : Keys \cup {<<>>}, place : Places \cup {<<>>}]
  BY DEF TypeOK
<1>8. /\ next \in [pc : {"idle", "dispatch", "markResolved", "markFailed"},
                   key : Keys \cup {<<>>}, place : Places \cup {<<>>}]
      /\ next.pc = pc /\ next.key = operator[o].key /\ next.place = operator[o].place
  BY <1>7
<1> HIDE DEF next
<1>9. TypeOK'
  BY <1>2, <1>3, <1>6, <1>8 DEF TypeOK
<1>10. OperatorsHoldRows'
  BY <1>1, <1>2, <1>6, <1>8 DEF TypeOK, OperatorsHoldRows
<1>11. ResolvingIsProjected'
  BY <1>3, <1>5, <1>6, <1>8 DEF TypeOK, ResolvingIsProjected, m
<1>12. LoopsHoldMessages' /\ RowsHavePlaces' /\ ResolvedIsProjected'
  BY <1>2, <1>3 DEF LoopsHoldMessages, RowsHavePlaces, ResolvedIsProjected
<1>13. Prefixes'
  BY <1>2, <1>4, Elsewhere
<1>14. TransactionsInHand'
  <2>1. \A u \in Reprocessors : u # o => operator'[u] = operator[u]
    BY <1>6 DEF TypeOK
  <2> QED
    BY <1>2, <1>3, <2>1, TransactionsKept
<1> QED
  BY <1>9, <1>10, <1>11, <1>12, <1>13, <1>14

\* An operator begins on the message of its row, and the tables do not move.
LEMMA RedispatchBeginsStep ==
  ASSUME IInv, NEW o \in Reprocessors, RedispatchBegins(o)
  PROVE  IInv'
<1> USE DEF IInv, TypeInv
<1>1. /\ operator[o].pc = "dispatch" /\ operator[o].place \in Places
      /\ o \in Callers /\ o \notin Members
  BY CallersAssumption DEF RedispatchBegins, OperatorsHoldRows, Callers
<1>2. UNCHANGED <<committed, owner, position, reader, deadLetters, operator, faults>>
  BY DEF RedispatchBegins, assignment
<1>3. /\ UNCHANGED <<inbox, wallets>>
      /\ tx' \in [Callers -> [place : Places \cup {<<>>}, balance : Int]]
      /\ overlapped' \subseteq Wallets
      /\ tx'[o].place = operator[o].place
      /\ Message(operator[o].place).body \in Events
      /\ \A y \in Callers \ {o} : tx'[y] = tx[y]
  <2> DEFINE place == operator[o].place
  <2>1. Begin(o, place) /\ place \in Places /\ TypeInv
    BY <1>1 DEF RedispatchBegins
  <2> HIDE DEF place, TypeInv
  <2>2. tx'[o] = [place |-> place, balance |-> NewBalance(Message(place))]
    BY <1>1, <2>1, BeginFacts
  <2>3. tx'[o].place = place
    BY <2>2
  <2> QED
    BY <1>1, <2>1, <2>3, BeginFacts DEF place
<1>4. Grows /\ OperatorsHoldRows' /\ ResolvingIsProjected' /\ ResolvedIsProjected'
  BY <1>2, <1>3, ConsumerStep DEF Grows
<1>5. TypeOK' /\ LoopsHoldMessages' /\ RowsHavePlaces'
  BY <1>2, <1>3 DEF TypeOK, LoopsHoldMessages, RowsHavePlaces
<1>6. Prefixes'
  BY <1>2, <1>4, Elsewhere
<1>7. TransactionsInHand'
  BY <1>1, <1>2, <1>3 DEF TransactionsInHand, IsOpen, TxMessage
<1> QED
  BY <1>4, <1>5, <1>6, <1>7

\* MarkResolved and MarkFailedReprocess: the row's status, or a lost answer.
LEMMA MarkStep ==
  ASSUME IInv, NEW o \in Reprocessors, MarkResolved(o) \/ MarkFailedReprocess(o)
  PROVE  IInv'
<1> USE DEF IInv, TypeInv
<1>1. /\ operator[o].pc \in {"markResolved", "markFailed"}
      /\ Release(o)
      /\ UNCHANGED <<committed, owner, position, reader, inbox, wallets, tx, overlapped>>
  BY DEF MarkResolved, MarkFailedReprocess, assignment, readModel, transactions
<1>2. faults' \in 0 .. MaxFaults
  BY FaultsAssumption DEF MarkResolved, MarkFailedReprocess, Fault, TypeOK
<1>3. /\ deadLetters' \in [Keys -> [status : {"none", "pending", "resolved"},
                                    place : Places \cup {<<>>}]]
      /\ RowsHavePlaces'
      /\ \A key \in Keys : deadLetters[key].status # "none" =>
                            deadLetters'[key].status # "none"
      /\ \A key \in Keys : deadLetters'[key].place = deadLetters[key].place
      /\ \A key \in Keys : deadLetters'[key].status = "resolved" =>
            \/ deadLetters[key].status = "resolved"
            \/ operator[o].pc = "markResolved" /\ key = operator[o].key
  <2>1. CASE UNCHANGED deadLetters
    BY <2>1 DEF TypeOK, RowsHavePlaces
  <2>2. CASE operator[o].pc = "markResolved" /\ SetStatus(o, "resolved")
    BY <2>2, SetStatusFacts
  <2>3. CASE SetStatus(o, "pending")
    BY <1>1, <2>3, SetStatusFacts
  <2> QED
    BY <2>1, <2>2, <2>3 DEF MarkResolved, MarkFailedReprocess
<1>4. Grows
  BY <1>1, <1>3 DEF Grows
<1>5. operator' = [operator EXCEPT ![o] = Free] /\ Free.pc = "idle"
  BY <1>1 DEF Release, Free
<1>6. TypeOK'
  <2>1. Free \in [pc : {"idle", "dispatch", "markResolved", "markFailed"},
                 key : Keys \cup {<<>>}, place : Places \cup {<<>>}]
    BY DEF Free
  <2>2. operator' \in [Reprocessors ->
                     [pc : {"idle", "dispatch", "markResolved", "markFailed"},
                      key : Keys \cup {<<>>}, place : Places \cup {<<>>}]]
    BY <1>5, <2>1 DEF TypeOK
  <2> QED
    BY <1>1, <1>2, <1>3, <2>2 DEF TypeOK
<1>7. OperatorsHoldRows' /\ ResolvingIsProjected'
  <2>1. \A u \in Reprocessors : operator'[u].pc # "idle" => operator'[u] = operator[u]
    BY <1>5 DEF TypeOK
  <2>2. \A u \in Reprocessors : operator[u].pc # "idle" => operator[u].key \in Keys
    BY PlaceFacts DEF OperatorsHoldRows
  <2> QED
    BY <1>1, <1>3, <2>1, <2>2 DEF OperatorsHoldRows, ResolvingIsProjected
<1>8. ResolvedIsProjected'
  <2> SUFFICES ASSUME NEW key \in Keys, deadLetters'[key].status = "resolved"
               PROVE  Message(deadLetters[key].place).id \in inbox
    BY <1>1, <1>3 DEF ResolvedIsProjected
  <2>1. CASE deadLetters[key].status = "resolved"
    BY <2>1 DEF ResolvedIsProjected
  <2>2. CASE operator[o].pc = "markResolved" /\ key = operator[o].key
    <3>1. /\ operator[o].place \in Places /\ deadLetters[key].place \in Places
          /\ DeadLetterKey(operator[o].place) = DeadLetterKey(deadLetters[key].place)
      BY <2>2 DEF OperatorsHoldRows, RowsHavePlaces
    <3>2. Message(operator[o].place).id = Message(deadLetters[key].place).id
      BY <3>1, KeyFacts
    <3> QED
      BY <2>2, <3>2 DEF ResolvingIsProjected
  <2> QED
    BY <1>3, <2>1, <2>2
<1>9. LoopsHoldMessages'
  BY <1>1 DEF LoopsHoldMessages
<1>10. Prefixes'
  BY <1>1, <1>4, Elsewhere
<1>11. TransactionsInHand'
  <2>1. o \in Callers /\ ~IsOpen(o)
    BY <1>1 DEF TransactionsInHand, Callers
  <2>2. \A u \in Reprocessors : u # o => operator'[u] = operator[u]
    BY <1>5 DEF TypeOK
  <2> QED
    BY <1>1, <2>1, <2>2, TransactionsKept DEF IsOpen
<1> QED
  BY <1>3, <1>6, <1>7, <1>8, <1>9, <1>10, <1>11
-----------------------------------------------------------------------------
(* The invariant holds in every behaviour. *)

\* With an empty inbox and nothing committed the invariant holds.
LEMMA InitInvariant == Init => IInv
<1> SUFFICES ASSUME Init PROVE IInv
  OBVIOUS
<1> USE DEF Init
<1>1. TypeOK /\ TransactionsInHand
  BY AttemptsAssumption, FaultsAssumption
     DEF TypeOK, Fetching, NoRow, Free, Closed, TransactionsInHand, IsOpen
<1>2. LoopsHoldMessages /\ OperatorsHoldRows /\ RowsHavePlaces
  BY DEF LoopsHoldMessages, OperatorsHoldRows, RowsHavePlaces, Fetching, NoRow, Free
<1>3. \A p : HandledUpTo(p, 0)
  BY PlaceFacts DEF HandledUpTo
<1>4. Prefixes
  BY <1>3 DEF Prefixes, CommittedPrefix, InHandPrefix, PositionPrefix, Fetching
<1>5. ResolvingIsProjected /\ ResolvedIsProjected
  BY DEF ResolvingIsProjected, ResolvedIsProjected, Free, NoRow
<1> QED
  BY <1>1, <1>2, <1>4, <1>5 DEF IInv, TypeInv

\* Every step of consumers, operators and the group keeps the invariant.
LEMMA StepInvariant == IInv /\ [Next]_vars => IInv'
<1> SUFFICES ASSUME IInv, [Next]_vars PROVE IInv'
  OBVIOUS
<1>1. ASSUME NEW c \in Members, Consume(c) PROVE IInv'
  <2>1. ASSUME NEW p \in Partitions, Fetch(c, p) PROVE IInv'
    BY <2>1, FetchStep
  <2> QED
    BY <1>1, <2>1, DispatchStep, DispatchBeginsStep, PermanentFailureStep, SaveDeadLetterStep,
       CommitStep, ReopenStep DEF Consume
<1>2. ASSUME NEW c \in Members, Crash(c) PROVE IInv'
  BY <1>2, CrashStep
<1>3. CASE Rebalance
  BY <1>3, RebalanceStep
<1>4. ASSUME NEW o \in Reprocessors, NEW key \in Keys, Load(o, key) PROVE IInv'
  BY <1>4, LoadStep
<1>5. ASSUME NEW o \in Reprocessors, Reprocess(o) PROVE IInv'
  BY <1>5, RedispatchStep, RedispatchBeginsStep, MarkStep DEF Reprocess
<1>6. CASE UNCHANGED vars
  <2>1. UNCHANGED <<committed, owner, position, reader, inbox, wallets, tx,
                    overlapped, deadLetters, operator, faults>>
    BY <1>6 DEF vars
  <2>2. Grows /\ OperatorsHoldRows' /\ ResolvingIsProjected' /\ ResolvedIsProjected'
    BY <2>1, ConsumerStep DEF Grows
  <2>3. Prefixes'
    BY <2>1, <2>2, Elsewhere DEF IInv
  <2>4. TypeOK' /\ LoopsHoldMessages' /\ RowsHavePlaces'
    BY <2>1 DEF IInv, TypeInv, TypeOK, LoopsHoldMessages, RowsHavePlaces
  <2>5. TransactionsInHand'
    BY <2>1, TransactionsKept DEF IInv
  <2> QED
    BY <2>2, <2>3, <2>4, <2>5 DEF IInv, TypeInv
<1> QED
  BY <1>1, <1>2, <1>3, <1>4, <1>5, <1>6 DEF Next

\* The strengthening holds in every reachable state of the consumer group.
THEOREM Invariance == Spec => []IInv
BY InitInvariant, StepInvariant, PTL DEF Spec

\* Every variable keeps the shape the Go types give it.
THEOREM ConsumerTypeCorrect == Spec => []TypeOK
<1>1. IInv => TypeOK
  BY DEF IInv, TypeInv
<1> QED
  BY <1>1, Invariance, PTL

\* "Kafka offsets are committed only after a message is either projected
\* successfully, or persisted to the dead-letter table": whatever calls fail,
\* instances die and partitions change hands, for any log and group.
THEOREM NoMessageIsLost == Spec => []CommittedIsHandled
<1>1. IInv => CommittedIsHandled
  BY PlaceFacts DEF IInv, Prefixes, CommittedPrefix, HandledUpTo, CommittedIsHandled
<1> QED
  BY <1>1, Invariance, PTL

\* However many operators reprocess a dead letter while the consumers redeliver
\* it, a row marked resolved is that of an event that has been projected.
THEOREM ResolvedMeansProjected == Spec => []ResolvedIsProjected
<1>1. IInv => ResolvedIsProjected
  BY DEF IInv
<1> QED
  BY <1>1, Invariance, PTL
-----------------------------------------------------------------------------
(* A balance counts the events of the inbox, and none of them twice. *)

Sums == INSTANCE SetSums WITH Value <- SignedAmount

LogMessages == {Message(place) : place \in Places}
EventsIn(ids, w) ==
  {m \in LogMessages : m.id \in ids /\ m.body \in Events /\ m.wallet = w}
Total(events) == MapThenSumSet(SignedAmount, events)

\* A balance that counts the given events of w's in the inbox, and all of them
\* while no two transactions on w have overlapped.
CountsSome(counted, w) ==
  /\ counted \subseteq EventsIn(inbox, w)
  /\ IsFiniteSet(counted)
  /\ w \notin overlapped => counted = EventsIn(inbox, w)
HasCreation(events) == \E m \in events : m.body = "created"

\* A row counts events of the inbox, and is there from the creation on.
RowCounts(w) ==
  /\ \E counted : /\ CountsSome(counted, w)
                  /\ wallets[w].balance = Total(counted)
                  /\ wallets[w].open => HasCreation(counted)
  /\ ~wallets[w].open => EventsIn(inbox, w) = {}

\* An open transaction adds its event, which is not in the inbox, to what its
\* read of the row counted.
WriteCounts(x, m) ==
  /\ m.id \notin inbox
  /\ m.body = "created" \/ wallets[m.wallet].open
  /\ \E base : /\ CountsSome(base, m.wallet)
               /\ tx[x].balance = Total(base) + SignedAmount(m)
               /\ m.body = "created" \/ HasCreation(base)

\* Open transactions project different events, and those of one wallet overlap.
Apart ==
  \A x, y \in Callers : x # y /\ IsOpen(x) /\ IsOpen(y) =>
    /\ TxMessage(x).id # TxMessage(y).id
    /\ TxMessage(x).wallet = TxMessage(y).wallet =>
         TxMessage(x).wallet \in overlapped

BalanceInv ==
  /\ \A w \in Wallets : RowCounts(w)
  /\ \A x \in Callers : IsOpen(x) => WriteCounts(x, TxMessage(x))
  /\ Apart

\* Total is the sum SetSums speaks of, and finiteness is the same notion.
LEMMA TotalIsSum == \A events : Total(events) = Sums!Sum(events)
BY DEF Total, MapThenSumSet, MapThenFoldSet,
       Sums!Sum, Sums!MapThenSumSet, Sums!MapThenFoldSet

\* SetSums speaks of the same finite sets.
LEMMA FiniteIsFinite == \A S : IsFiniteSet(S) <=> Sums!IsFiniteSet(S)
BY DEF IsFiniteSet, Sums!IsFiniteSet

\* A message of the log moves a whole amount.
LEMMA MessageFacts ==
  ASSUME NEW m \in LogMessages
  PROVE  m \in Messages /\ m.id \in Ids /\ SignedAmount(m) \in Int
<1>1. m \in Messages /\ m.id \in Ids
  BY PlaceFacts DEF LogMessages
<1>2. m.amount \in Int
  BY <1>1 DEF Messages
<1>3. -m.amount \in Int
  BY <1>2
<1>4. SignedAmount(m) = m.amount \/ SignedAmount(m) = -m.amount
  BY DEF SignedAmount
<1> QED
  BY <1>1, <1>2, <1>3, <1>4

\* An event of the log has an id of its own.
LEMMA EventIsItsId ==
  ASSUME NEW m \in LogMessages, m.body \in Events,
         NEW n \in LogMessages, n.id = m.id
  PROVE  n = m
<1>1. PICK a \in Places : m = Message(a)
  BY DEF LogMessages
<1>2. PICK b \in Places : n = Message(b)
  BY DEF LogMessages
<1>3. m.id # ""
  <2>1. PICK p \in Partitions : a \in {p} \X DOMAIN Log[p]
    BY DEF Places
  <2>2. a[1] \in Partitions /\ a[2] \in DOMAIN Log[a[1]]
    BY <2>1
  <2> QED
    BY <1>1, <2>2, MessageAssumption DEF Message, Events
<1> QED
  BY <1>1, <1>2, <1>3, IdsAssumption

\* The empty inbox sums to nothing; a further event adds what it moves.
LEMMA TotalOfNothing == Total({}) = 0
BY Sums!SumOfEmpty, TotalIsSum

\* The sum of finitely many messages is whole.
LEMMA TotalIsInt ==
  ASSUME NEW events \in SUBSET LogMessages, IsFiniteSet(events)
  PROVE  Total(events) \in Int
<1>1. \A m \in events : SignedAmount(m) \in Int
  BY MessageFacts
<1> QED
  BY <1>1, Sums!SumIsInt, TotalIsSum, FiniteIsFinite

\* A further message adds what it moves.
LEMMA TotalAfter ==
  ASSUME NEW events \in SUBSET LogMessages, IsFiniteSet(events),
         NEW m \in LogMessages, m \notin events
  PROVE  Total(events \cup {m}) = Total(events) + SignedAmount(m)
<1>1. \A n \in events \cup {m} : SignedAmount(n) \in Int
  BY MessageFacts
<1> QED
  BY <1>1, Sums!SumAdd, TotalIsSum, FiniteIsFinite

\* Transactions may close, rolled back, while the tables stay as they are.
LEMMA RollbackKeepsBalances ==
  ASSUME BalanceInv, UNCHANGED <<inbox, wallets, overlapped>>,
         \A x \in Callers : IsOpen(x)' => tx'[x] = tx[x]
  PROVE  BalanceInv'
<1>1. \A x \in Callers : IsOpen(x)' => IsOpen(x) /\ TxMessage(x)' = TxMessage(x)
  BY DEF IsOpen, TxMessage
<1>2. \A w \in Wallets : RowCounts(w)'
  BY DEF BalanceInv, RowCounts, CountsSome
<1>3. \A x \in Callers : IsOpen(x)' => WriteCounts(x, TxMessage(x))'
  BY <1>1 DEF BalanceInv, WriteCounts, CountsSome
<1>4. Apart'
  BY <1>1 DEF BalanceInv, Apart
<1> QED
  BY <1>2, <1>3, <1>4 DEF BalanceInv

\* A transaction that begins has read a row that counts events of the inbox.
LEMMA BeginKeepsBalances ==
  ASSUME TypeInv, BalanceInv, NEW x \in Callers, NEW place \in Places, Begin(x, place)
  PROVE  BalanceInv'
<1> DEFINE m == Message(place)
           w == m.wallet
<1>1. /\ UNCHANGED <<inbox, wallets>>
      /\ tx'[x] = [place |-> place, balance |-> NewBalance(m)]
      /\ \A y \in Callers \ {x} : tx'[y] = tx[y]
  BY BeginFacts
<1>2. /\ m.body \in Events /\ m.id \notin inbox
      /\ \A y \in Callers : IsOpen(y) => TxMessage(y).id # m.id
      /\ m.body = "created" \/ wallets[w].open
      /\ ~IsOpen(x)
      /\ overlapped' = overlapped \cup
           {v \in {w} : \E y \in Callers : IsOpen(y) /\ TxMessage(y).wallet = v}
  BY DEF Begin, IsNew, WalletFound
<1>3. m \in LogMessages /\ w \in Wallets /\ SignedAmount(m) \in Int
  BY PlaceFacts, MessageFacts DEF LogMessages, Messages
<1>4. TxMessage(x)' = m /\ tx'[x].balance = NewBalance(m)
  BY <1>1 DEF TxMessage
<1>5. \A y \in Callers \ {x} :
        /\ IsOpen(y)' <=> IsOpen(y)
        /\ TxMessage(y)' = TxMessage(y)
  BY <1>1 DEF IsOpen, TxMessage
<1>6. \A counted, v : CountsSome(counted, v) => CountsSome(counted, v)'
  BY <1>1, <1>2 DEF CountsSome
<1>7. \A v \in Wallets : RowCounts(v)'
  BY <1>1, <1>6 DEF BalanceInv, RowCounts
<1>8. WriteCounts(x, m)'
  <2>1. PICK counted : /\ CountsSome(counted, w)
                       /\ wallets[w].balance = Total(counted)
                       /\ wallets[w].open => HasCreation(counted)
    BY <1>3 DEF BalanceInv, RowCounts
  <2>2. CASE m.body = "created"
    <3>1. ~wallets[w].open
      <4> SUFFICES ASSUME HasCreation(counted) PROVE FALSE
        BY <2>1
      <4>1. PICK n \in EventsIn(inbox, w) : n.body = "created"
        BY <2>1 DEF HasCreation, CountsSome
      <4>2. n \in LogMessages /\ n.wallet = m.wallet /\ n.id \in inbox
        BY <4>1 DEF EventsIn
      <4>3. n = m
        BY <2>2, <4>1, <4>2, <1>3, CreationsAssumption DEF LogMessages
      <4> QED
        BY <1>2, <4>2, <4>3
    <3>2. counted = {}
      BY <1>3, <2>1, <3>1 DEF BalanceInv, RowCounts, CountsSome
    <3>3. tx'[x].balance = Total(counted) + SignedAmount(m)
      <4>1. NewBalance(m) = SignedAmount(m)
        BY <2>2 DEF NewBalance, SignedAmount
      <4>2. Total(counted) = 0
        BY <3>2, TotalOfNothing
      <4> HIDE DEF m
      <4> QED
        BY <1>3, <1>4, <4>1, <4>2
    <3> QED
      BY <1>1, <1>2, <1>6, <2>1, <2>2, <3>3 DEF WriteCounts
  <2>3. CASE m.body # "created"
    <3>1. tx'[x].balance = Total(counted) + SignedAmount(m)
      BY <1>4, <2>1, <2>3 DEF NewBalance
    <3> QED
      BY <1>1, <1>2, <1>6, <2>1, <2>3, <3>1 DEF WriteCounts
  <2> QED
    BY <2>2, <2>3
<1>9. \A y \in Callers \ {x} : IsOpen(y)' => WriteCounts(y, TxMessage(y))'
  BY <1>1, <1>5, <1>6 DEF BalanceInv, WriteCounts
<1>10. \A y \in Callers : IsOpen(y)' => WriteCounts(y, TxMessage(y))'
  BY <1>4, <1>8, <1>9
<1>11. Apart'
  <2> SUFFICES ASSUME NEW y \in Callers, NEW z \in Callers, y # z,
                      IsOpen(y)', IsOpen(z)'
               PROVE  /\ (TxMessage(y)').id # (TxMessage(z)').id
                      /\ (TxMessage(y)').wallet = (TxMessage(z)').wallet =>
                           (TxMessage(y)').wallet \in overlapped'
    BY DEF Apart
  <2> HIDE DEF m
  <2>1. CASE y # x /\ z # x
    BY <1>2, <1>5, <2>1 DEF BalanceInv, Apart
  <2>2. CASE y = x
    BY <1>2, <1>4, <1>5, <2>2
  <2>3. CASE z = x
    BY <1>2, <1>4, <1>5, <2>3
  <2> QED
    BY <2>1, <2>2, <2>3
<1> QED
  BY <1>7, <1>10, <1>11 DEF BalanceInv

\* A transaction that commits writes a balance that counts its own event and
\* what it has read: on a wallet without overlaps, all of the inbox.
LEMMA ApplyKeepsBalances ==
  ASSUME TypeInv, BalanceInv, NEW x \in Callers, NEW m, m = TxMessage(x),
         m.body \in Events, Apply(x), UNCHANGED overlapped,
         \A y \in Callers : IsOpen(y)' => y # x /\ tx'[y] = tx[y]
  PROVE  BalanceInv'
<1> DEFINE w == m.wallet
           old == EventsIn(inbox, w)
           new == EventsIn(inbox', w)
<1>1. /\ IsOpen(x)
      /\ inbox' = inbox \cup {m.id}
      /\ wallets' = [wallets EXCEPT ![w] = [open |-> TRUE, balance |-> tx[x].balance]]
  BY DEF Apply
<1>2. m \in LogMessages /\ w \in Wallets
  <2>1. tx[x].place \in Places
    BY <1>1, OpenFacts
  <2> QED
    BY <2>1, MessageFacts DEF LogMessages, TxMessage, Messages
<1>3. WriteCounts(x, m)
  BY <1>1 DEF BalanceInv
<1>4. PICK base : /\ CountsSome(base, w)
                  /\ tx[x].balance = Total(base) + SignedAmount(m)
                  /\ m.body = "created" \/ HasCreation(base)
  BY <1>3 DEF WriteCounts
<1>5. new = old \cup {m} /\ m \notin old
  BY <1>1, <1>2, <1>3, EventIsItsId DEF EventsIn, WriteCounts
<1>6. \A v \in Wallets : v # w =>
        EventsIn(inbox', v) = EventsIn(inbox, v) /\ wallets'[v] = wallets[v]
  <2>1. \A v \in Wallets : v # w => EventsIn(inbox', v) = EventsIn(inbox, v)
    BY <1>1, <1>2, EventIsItsId DEF EventsIn
  <2>2. \A v \in Wallets : v # w => wallets'[v] = wallets[v]
    BY <1>1, <1>2 DEF TypeInv, TypeOK
  <2> QED
    BY <2>1, <2>2
<1>7. wallets'[w].open /\ wallets'[w].balance = tx[x].balance
  BY <1>1, <1>2 DEF TypeInv, TypeOK
<1>8. \A v : EventsIn(inbox, v) \subseteq EventsIn(inbox', v)
  BY <1>1 DEF EventsIn
<1>9. CountsSome(base \cup {m}, w)' /\ Total(base \cup {m}) = tx[x].balance
  <2>1. base \subseteq old /\ IsFiniteSet(base) /\ old \subseteq LogMessages
    BY <1>4 DEF CountsSome, EventsIn
  <2>2. IsFiniteSet(base \cup {m})
    BY <2>1, Sums!FS_AddElement, FiniteIsFinite
  <2>3. w \notin overlapped => base = old
    BY <1>4 DEF CountsSome
  <2>4. base \subseteq LogMessages /\ m \notin base
    BY <1>5, <2>1
  <2>5. Total(base \cup {m}) = Total(base) + SignedAmount(m)
    <3> HIDE DEF old
    <3> QED
      BY <1>2, <2>1, <2>4, TotalAfter
  <2>6. CountsSome(base \cup {m}, w)'
    <3>1. base \cup {m} \subseteq new /\ (w \notin overlapped => base \cup {m} = new)
      BY <1>5, <2>1, <2>3
    <3> HIDE DEF old
    <3> QED
      BY <2>2, <3>1 DEF CountsSome
  <2> QED
    BY <1>4, <2>5, <2>6
<1>10. HasCreation(base \cup {m})
  BY <1>4 DEF HasCreation
<1> HIDE DEF w, old, new
<1>11. \A v \in Wallets : RowCounts(v)'
  <2> SUFFICES ASSUME NEW v \in Wallets PROVE RowCounts(v)'
    OBVIOUS
  <2>1. CASE v = w
    BY <1>7, <1>9, <1>10, <2>1 DEF RowCounts
  <2>2. CASE v # w
    <3>1. EventsIn(inbox', v) = EventsIn(inbox, v) /\ wallets'[v] = wallets[v]
      BY <1>6, <2>2
    <3>2. RowCounts(v)
      BY DEF BalanceInv
    <3> QED
      BY <3>1, <3>2 DEF RowCounts, CountsSome
  <2> QED
    BY <2>1, <2>2
<1>12. ASSUME NEW y \in Callers, IsOpen(y)'
       PROVE  /\ y # x /\ IsOpen(y) /\ TxMessage(y)' = TxMessage(y)
              /\ WriteCounts(y, TxMessage(y))'
  <2> PICK n : n = TxMessage(y)
    OBVIOUS
  <2>1. y # x /\ IsOpen(y) /\ TxMessage(y)' = n /\ tx'[y].balance = tx[y].balance
    BY <1>12 DEF IsOpen, TxMessage
  <2>2. n \in Messages /\ n.wallet \in Wallets
    BY <2>1, OpenFacts DEF Messages
  <2>3. n.id # m.id /\ (n.wallet = w => w \in overlapped)
    BY <1>1, <2>1 DEF BalanceInv, Apart, w
  <2>4. WriteCounts(y, n)
    BY <2>1 DEF BalanceInv
  <2>5. n.id \notin inbox'
    BY <1>1, <2>3, <2>4 DEF WriteCounts
  <2>6. n.body = "created" \/ wallets'[n.wallet].open
    <3>1. CASE n.wallet = w
      BY <1>7, <3>1
    <3>2. CASE n.wallet # w
      BY <1>6, <2>2, <2>4, <3>2 DEF WriteCounts
    <3> QED
      BY <3>1, <3>2
  <2>7. \A events : CountsSome(events, n.wallet) => CountsSome(events, n.wallet)'
    <3>1. CASE n.wallet = w
      BY <1>8, <2>3, <3>1 DEF CountsSome
    <3>2. CASE n.wallet # w
      BY <1>6, <2>2, <3>2 DEF CountsSome
    <3> QED
      BY <3>1, <3>2
  <2>8. WriteCounts(y, n)'
    BY <2>1, <2>4, <2>5, <2>6, <2>7 DEF WriteCounts
  <2> QED
    BY <2>1, <2>8
<1>13. Apart'
  BY <1>12 DEF BalanceInv, Apart
<1> QED
  BY <1>11, <1>12, <1>13 DEF BalanceInv

\* A projection of the message in hand that ends, however it does, keeps the
\* balances.
LEMMA EndKeepsBalances ==
  ASSUME IInv, BalanceInv, NEW x \in Callers, NEW m \in Messages, m.id \in Ids,
         IsOpen(x) => TxMessage(x) = m,
         ProjectionSucceeds(x, m) \/ ProjectionFails(x, m)
  PROVE  BalanceInv'
<1>1. UNCHANGED overlapped /\ \A y \in Callers : IsOpen(y)' => y # x /\ tx'[y] = tx[y]
  BY ProjectionFacts DEF IInv
<1>2. CASE Apply(x)
  <2>1. TxMessage(x).body \in Events
    BY <1>2 DEF Apply, IInv, TransactionsInHand
  <2> QED
    BY <1>1, <1>2, <2>1, ApplyKeepsBalances DEF IInv
<1>3. CASE UNCHANGED readModel
  BY <1>1, <1>3, RollbackKeepsBalances DEF readModel
<1> QED
  BY <1>2, <1>3 DEF ProjectionSucceeds, ProjectionFails

\* Consumers and operators touch rows, inbox and transactions by projections only.
LEMMA BalanceStep ==
  ASSUME IInv, BalanceInv, [Next]_vars
  PROVE  BalanceInv'
<1>1. ASSUME UNCHANGED <<readModel, transactions>> PROVE BalanceInv'
  BY <1>1, RollbackKeepsBalances DEF readModel, transactions
<1>2. ASSUME NEW c \in Members, Consume(c) PROVE BalanceInv'
  <2>1. c \in Callers
    BY DEF Callers
  <2>2. CASE Dispatch(c) \/ DispatchFails(c)
    <3>1. InHand(c) \in Messages /\ InHand(c).id \in Ids
      BY <2>2, PlaceFacts
         DEF Dispatch, DispatchFails, InHand, IInv, TypeInv, LoopsHoldMessages
    <3>2. IsOpen(c) => TxMessage(c) = InHand(c)
      BY <2>1 DEF IInv, TransactionsInHand, TxMessage, InHand
    <3> QED
      BY <2>1, <2>2, <3>1, <3>2, EndKeepsBalances DEF Dispatch, DispatchFails
  <2>3. CASE DispatchBegins(c)
    <3>1. reader[c].place \in Places /\ Begin(c, reader[c].place)
      BY <2>3 DEF DispatchBegins, IInv, TypeInv, LoopsHoldMessages
    <3> QED
      BY <2>1, <3>1, BeginKeepsBalances DEF IInv
  <2>4. CASE ~ (Dispatch(c) \/ DispatchFails(c) \/ DispatchBegins(c))
    <3>1. UNCHANGED <<readModel, transactions>>
      BY <1>2, <2>4 DEF Consume, Fetch, DispatchPermanentFailure, SaveDeadLetter,
                        Commit, FetchFails, SaveDeadLetterFails, CommitFails
    <3> QED
      BY <1>1, <3>1
  <2> QED
    BY <2>2, <2>3, <2>4
<1>3. ASSUME NEW o \in Reprocessors, Reprocess(o) PROVE BalanceInv'
  <2>1. o \in Callers
    BY DEF Callers
  <2>2. CASE Redispatch(o)
    <3> DEFINE m == Message(operator[o].place)
    <3>1. m \in Messages /\ m.id \in Ids
      BY <2>2, PlaceFacts DEF Redispatch, IInv, TypeInv, OperatorsHoldRows
    <3>2. IsOpen(o) => TxMessage(o) = m
      BY <2>1 DEF IInv, TransactionsInHand, TxMessage
    <3>3. ProjectionSucceeds(o, m) \/ ProjectionFails(o, m)
      BY <2>2 DEF Redispatch
    <3> HIDE DEF m
    <3> QED
      BY <2>1, <3>1, <3>2, <3>3, EndKeepsBalances
  <2>3. CASE RedispatchBegins(o)
    <3>1. operator[o].place \in Places /\ Begin(o, operator[o].place)
      BY <2>3 DEF RedispatchBegins, IInv, TypeInv, OperatorsHoldRows
    <3> QED
      BY <2>1, <3>1, BeginKeepsBalances DEF IInv
  <2>4. CASE MarkResolved(o) \/ MarkFailedReprocess(o)
    BY <1>1, <2>4 DEF MarkResolved, MarkFailedReprocess
  <2> QED
    BY <1>3, <2>2, <2>3, <2>4 DEF Reprocess
<1>4. ASSUME NEW c \in Members, Crash(c) PROVE BalanceInv'
  <2>1. UNCHANGED <<inbox, wallets, overlapped>>
    BY <1>4 DEF Crash, readModel
  <2>2. PICK dead \in SUBSET Reprocessors :
          tx' = [x \in Callers |-> IF x \in dead \cup {c} THEN Closed ELSE tx[x]]
    BY <1>4 DEF Crash
  <2>3. \A x \in Callers : IsOpen(x)' => tx'[x] = tx[x]
    BY <2>2 DEF IsOpen, Closed
  <2> QED
    BY <2>1, <2>3, RollbackKeepsBalances
<1>5. CASE Rebalance
  BY <1>1, <1>5 DEF Rebalance
<1>6. ASSUME NEW o \in Reprocessors, NEW key \in Keys, Load(o, key) PROVE BalanceInv'
  BY <1>1, <1>6 DEF Load
<1>7. CASE UNCHANGED vars
  BY <1>1, <1>7 DEF vars, readModel, transactions
<1> QED
  BY <1>2, <1>3, <1>4, <1>5, <1>6, <1>7 DEF Next

\* In whatever order members of the group, redelivery, retries and operators
\* project a wallet's events, and however their transactions overlap, its
\* balance counts none of them twice and its creation always; and all that are
\* in the inbox, if no two of its transactions were open at one time.
THEOREM BalancesCountOnce == Spec => []BalanceCountsInboxOnce
<1>1. Init => BalanceInv
  <2> SUFFICES ASSUME Init PROVE BalanceInv
    OBVIOUS
  <2>1. \A w : EventsIn(inbox, w) = {} /\ IsFiniteSet({})
    BY Sums!FS_EmptySet, FiniteIsFinite DEF EventsIn, Init
  <2>2. \A w \in Wallets : ~wallets[w].open /\ wallets[w].balance = 0
    BY DEF Init
  <2>3. \A w \in Wallets : CountsSome({}, w)
    BY <2>1 DEF CountsSome
  <2>4. \A w \in Wallets : RowCounts(w)
    BY <2>1, <2>2, <2>3, TotalOfNothing DEF RowCounts
  <2>5. \A x \in Callers : ~IsOpen(x)
    BY DEF Init, IsOpen, Closed
  <2> QED
    BY <2>4, <2>5 DEF BalanceInv, Apart
<1>2. IInv /\ BalanceInv /\ [Next]_vars => BalanceInv'
  BY BalanceStep
<1>3. BalanceInv => BalanceCountsInboxOnce
  <2> SUFFICES ASSUME BalanceInv, NEW w \in Wallets
               PROVE  \E counted \in SUBSET InboxEvents(w) :
                        /\ wallets[w].balance = MapThenSumSet(SignedAmount, counted)
                        /\ wallets[w].open => \E m \in counted : m.body = "created"
                        /\ w \notin overlapped => counted = InboxEvents(w)
    BY DEF BalanceCountsInboxOnce
  <2>1. InboxEvents(w) = EventsIn(inbox, w)
    BY DEF InboxEvents, EventsIn, LogMessages
  <2>2. PICK counted : /\ CountsSome(counted, w)
                       /\ wallets[w].balance = Total(counted)
                       /\ wallets[w].open => HasCreation(counted)
    BY DEF BalanceInv, RowCounts
  <2> QED
    BY <2>1, <2>2 DEF CountsSome, HasCreation, Total
<1> QED
  BY <1>1, <1>2, <1>3, Invariance, PTL DEF Spec
=============================================================================
