------------------------------ MODULE Consumer ------------------------------
(***************************************************************************)
(* The read side's delivery: the Kafka consumer goroutines of the          *)
(* wallet-query instances (fetch, project, retry, dead-letter, commit),    *)
(* members of one consumer group; the inbox that makes projection          *)
(* idempotent, the dead-letter table, and operators reprocessing dead      *)
(* letters while the consumers run.                                        *)
(*                                                                         *)
(* A projection is one PostgreSQL transaction, and two steps here: one that*)
(* ends with its read of the wallet's row, and one that writes and commits *)
(* it.  READ COMMITTED locks nothing on the read, so that transactions of  *)
(* one wallet may overlap; Projection has the other tables and statements. *)
(* Every remote call may fail, with or without having taken effect, and the*)
(* process may die between any two; faults are bounded.                    *)
(* The retry loops around the dead-letter save and the commit are one step *)
(* each: repeating either call changes nothing, so what counts is whether  *)
(* it took effect and whether all tries failed.                            *)
(*                                                                         *)
(* A reader that opens or dies makes the group share out the partitions    *)
(* anew, each to be read from its committed offset.  A member that has     *)
(* lost the partition of the message in its hands knows nothing of it:     *)
(* it goes on, and its commit may be accepted or refused.                  *)
(***************************************************************************)
EXTENDS Integers, Sequences, FiniteSets, FiniteSetsExt

CONSTANTS
  Wallets,
  Partitions,
  Log,            \* the messages of each partition of WalletEvents
  Members,        \* the instances of the service
  MaxAttempts,    \* maxProjectionAttempts, 3 in the code
  Reprocessors,   \* HTTP requests and CLI runs reprocessing dead letters
  MaxFaults       \* bound: failed calls, crashes and rebalances

Bodies == {"created", "credited", "debited", "undecodable", "unreadable"}
Events == {"created", "credited", "debited"}

\* A message: the event id ("" when the envelope cannot be decoded), what its
\* body is, and, for a decodable event, the wallet and amount.
Messages == [id : STRING, body : Bodies, wallet : Wallets, amount : Int]

ASSUME LogAssumption == Log \in [Partitions -> Seq(Messages)]
ASSUME MessageAssumption ==
  \A p \in Partitions : \A i \in DOMAIN Log[p] :
    Log[p][i].body = "unreadable" <=> Log[p][i].id = ""
ASSUME CallersAssumption == Members \cap Reprocessors = {}
ASSUME AttemptsAssumption == MaxAttempts \in Nat \ {0}
ASSUME FaultsAssumption == MaxFaults \in Nat

VARIABLES
  committed,    \* the group's committed offset in each partition
  owner,        \* the member each partition is assigned to
  position,     \* the offset its owner reads from next
  reader,       \* each consume loop: its position and the message in hand
  inbox,        \* event ids in processed_events
  wallets,      \* rows of the wallets table
  tx,           \* each caller's open transaction: what it projects and will write
  overlapped,   \* history: wallets that two transactions had open at one time
  deadLetters,  \* rows of dead_letter_events, by key
  operator,     \* each reprocessing run: its position and its key
  faults        \* failures so far

vars == <<committed, owner, position, reader, inbox, wallets, tx, overlapped,
          deadLetters, operator, faults>>
readModel == <<inbox, wallets>>
transactions == <<tx, overlapped>>
assignment == <<owner, position>>
-----------------------------------------------------------------------------
Places == UNION {{p} \X DOMAIN Log[p] : p \in Partitions}
Message(place) == Log[place[1]][place[2]]
Ids == {Message(place).id : place \in Places}

\* The outbox relays an event again as it was stored, so one id is one message;
\* and a wallet is created once, under an identifier drawn for it.
ASSUME IdsAssumption ==
  \A a, b \in Places : Message(a).id = Message(b).id /\ Message(a).id # "" =>
                       Message(a) = Message(b)
ASSUME CreationsAssumption ==
  \A a, b \in Places : /\ Message(a).body = "created" /\ Message(b).body = "created"
                       /\ Message(a).wallet = Message(b).wallet
                       => Message(a) = Message(b)

\* deadLetterKey: the event id, or else topic:partition:offset.
DeadLetterKey(place) ==
  IF Message(place).id # "" THEN <<Message(place).id>> ELSE place
Keys == {DeadLetterKey(place) : place \in Places}

NoRow == [status |-> "none", place |-> <<>>]
Fetching == [pc |-> "fetch", place |-> <<>>, attempt |-> 0]
Free == [pc |-> "idle", key |-> <<>>, place |-> <<>>]
Closed == [place |-> <<>>, balance |-> 0]

Callers == Members \cup Reprocessors
-----------------------------------------------------------------------------
Init ==
  /\ committed = [p \in Partitions |-> 0]
  /\ owner \in [Partitions -> Members]
  /\ position = [p \in Partitions |-> 0]
  /\ reader = [c \in Members |-> Fetching]
  /\ inbox = {}
  /\ wallets = [w \in Wallets |-> [open |-> FALSE, balance |-> 0]]
  /\ tx = [x \in Callers |-> Closed]
  /\ overlapped = {}
  /\ deadLetters = [key \in Keys |-> NoRow]
  /\ operator = [o \in Reprocessors |-> Free]
  /\ faults = 0

Fault == faults < MaxFaults /\ faults' = faults + 1

(* The projection transaction, shared by the consumer and the operators. *)

IsOpen(x) == tx[x].place # <<>>
TxMessage(x) == Message(tx[x].place)
SignedAmount(m) == IF m.body = "debited" THEN -m.amount ELSE m.amount

\* findWalletInTx: a credit or a debit needs the wallet's row.
WalletFound(m) == m.body = "created" \/ wallets[m.wallet].open

\* The row the handler will save: an opening reads none.
NewBalance(m) ==
  IF m.body = "created" THEN m.amount
  ELSE wallets[m.wallet].balance + SignedAmount(m)

\* Mutant of IsNew: no inbox check.
BugNoInboxCheck(m) == m.body \in Events
\* applyIdempotent's insert into processed_events: it waits for an open
\* transaction that has inserted the id, and skips an id that is there.
IsNew(m) ==
  /\ m.body \in Events
  /\ m.id \notin inbox
  /\ \A x \in Callers : IsOpen(x) => TxMessage(x).id # m.id

\* The transaction up to its read of the wallet.
Begin(x, place) ==
  LET m == Message(place)
  IN  /\ ~IsOpen(x)
      /\ IsNew(m) /\ WalletFound(m)
      /\ tx' = [tx EXCEPT ![x] = [place |-> place, balance |-> NewBalance(m)]]
      /\ overlapped' = overlapped \cup
           {w \in {m.wallet} : \E y \in Callers : IsOpen(y) /\ TxMessage(y).wallet = w}
      /\ UNCHANGED readModel

\* Save of the wallet and COMMIT.
Apply(x) ==
  /\ IsOpen(x)
  /\ inbox' = inbox \cup {TxMessage(x).id}
  /\ wallets' = [wallets EXCEPT ![TxMessage(x).wallet] =
                   [open |-> TRUE, balance |-> tx[x].balance]]

Ends(x) == tx' = [tx EXCEPT ![x] = Closed] /\ UNCHANGED overlapped

ProjectionSucceeds(x, m) ==
  /\ \/ Apply(x)
     \/ /\ ~IsOpen(x) /\ m.body \in Events       \* a duplicate is skipped
        /\ m.id \in inbox
        /\ UNCHANGED readModel
  /\ Ends(x)
  /\ UNCHANGED faults

\* The transaction is rolled back, or only its COMMIT's answer is lost.
ProjectionFails(x, m) ==
  /\ m.body \in Events
  /\ \/ ~IsOpen(x) /\ IsNew(m) /\ ~WalletFound(m) /\ UNCHANGED <<readModel, faults>>
     \/ Fault /\ UNCHANGED readModel
     \/ Fault /\ Apply(x)
  /\ Ends(x)
-----------------------------------------------------------------------------
(* The consumer goroutine of member c. *)

Continue(c, r) == reader' = [reader EXCEPT ![c] = r]
InHand(c) == Message(reader[c].place)

Reassign(offsets) == owner' \in [Partitions -> Members] /\ position' = offsets

\* run: after an error a new reader joins the group.
Reopen(c, offsets) == Continue(c, Fetching) /\ Reassign(offsets)

\* FetchMessage; an envelope that does not parse goes to the dead letters.
Fetch(c, p) ==
  /\ reader[c].pc = "fetch" /\ owner[p] = c
  /\ position[p] < Len(Log[p])
  /\ position' = [position EXCEPT ![p] = @ + 1]
  /\ LET place == <<p, position[p] + 1>>
     IN  Continue(c, [pc |-> IF Message(place).body = "unreadable"
                             THEN "deadLetter" ELSE "dispatch",
                      place |-> place, attempt |-> 1])
  /\ UNCHANGED <<committed, owner, readModel, transactions, deadLetters, operator, faults>>

DispatchBegins(c) ==
  /\ reader[c].pc = "dispatch"
  /\ Begin(c, reader[c].place)
  /\ UNCHANGED <<committed, assignment, reader, deadLetters, operator, faults>>

Dispatch(c) ==
  /\ reader[c].pc = "dispatch"
  /\ ProjectionSucceeds(c, InHand(c))
  /\ Continue(c, [reader[c] EXCEPT !.pc = "commit"])
  /\ UNCHANGED <<committed, assignment, deadLetters, operator>>

\* Mutant of DispatchFails: one attempt too many.
BugOneMoreAttempt(c) ==
  /\ reader[c].pc = "dispatch"
  /\ ProjectionFails(c, InHand(c))
  /\ Continue(c, IF reader[c].attempt <= MaxAttempts
                 THEN [reader[c] EXCEPT !.attempt = @ + 1]
                 ELSE [reader[c] EXCEPT !.pc = "deadLetter"])
  /\ UNCHANGED <<committed, assignment, deadLetters, operator>>

\* Retried after the backoff until the budget is spent.
DispatchFails(c) ==
  /\ reader[c].pc = "dispatch"
  /\ ProjectionFails(c, InHand(c))
  /\ Continue(c, IF reader[c].attempt < MaxAttempts
                 THEN [reader[c] EXCEPT !.attempt = @ + 1]
                 ELSE [reader[c] EXCEPT !.pc = "deadLetter"])
  /\ UNCHANGED <<committed, assignment, deadLetters, operator>>

\* Mutant of DispatchPermanentFailure: the error stops the consume loop.
BugPoisonMessage(c) ==
  /\ reader[c].pc = "dispatch"
  /\ InHand(c).body = "undecodable"
  /\ Reopen(c, committed)
  /\ UNCHANGED <<committed, readModel, transactions, deadLetters, operator, faults>>

\* errPermanentConsumerFailure: the payload does not decode to an event.
DispatchPermanentFailure(c) ==
  /\ reader[c].pc = "dispatch"
  /\ InHand(c).body = "undecodable"
  /\ Continue(c, [reader[c] EXCEPT !.pc = "deadLetter"])
  /\ UNCHANGED <<committed, assignment, readModel, transactions, deadLetters, operator, faults>>

\* The upsert writes every column, so a resolved row becomes pending again.
SaveRow(place) ==
  deadLetters' = [deadLetters EXCEPT ![DeadLetterKey(place)] =
                    [status |-> "pending", place |-> place]]

SaveDeadLetter(c) ==
  /\ reader[c].pc = "deadLetter"
  /\ SaveRow(reader[c].place)
  /\ Continue(c, [reader[c] EXCEPT !.pc = "commit"])
  /\ UNCHANGED <<committed, assignment, readModel, transactions, operator, faults>>

\* The broker keeps the last offset committed, though it be a lower one.
CommitOffset(place) == committed' = [committed EXCEPT ![place[1]] = place[2]]

Commit(c) ==
  /\ reader[c].pc = "commit"
  /\ CommitOffset(reader[c].place)
  /\ Continue(c, Fetching)
  /\ UNCHANGED <<assignment, readModel, transactions, deadLetters, operator, faults>>

FetchFails(c) ==
  /\ reader[c].pc = "fetch"
  /\ Fault
  /\ Reopen(c, committed)
  /\ UNCHANGED <<committed, readModel, transactions, deadLetters, operator>>

\* Mutant of SaveDeadLetterFails: the offset is committed all the same.
BugCommitsAnyway(c) ==
  /\ reader[c].pc = "deadLetter"
  /\ Fault
  /\ Continue(c, [reader[c] EXCEPT !.pc = "commit"])
  /\ UNCHANGED <<committed, assignment, readModel, transactions, deadLetters, operator>>

SaveDeadLetterFails(c) ==
  /\ reader[c].pc = "deadLetter"
  /\ Fault
  /\ UNCHANGED deadLetters \/ SaveRow(reader[c].place)
  /\ Reopen(c, committed)
  /\ UNCHANGED <<committed, readModel, transactions, operator>>

\* The commit is refused, of a lost partition for one, or its answer is lost.
CommitFails(c) ==
  /\ reader[c].pc = "commit"
  /\ Fault
  /\ UNCHANGED committed \/ CommitOffset(reader[c].place)
  /\ Reopen(c, committed')
  /\ UNCHANGED <<readModel, transactions, deadLetters, operator>>

Consume(c) ==
  \/ \E p \in Partitions : Fetch(c, p)
  \/ DispatchBegins(c)
  \/ Dispatch(c)
  \/ DispatchFails(c)
  \/ DispatchPermanentFailure(c)
  \/ SaveDeadLetter(c)
  \/ Commit(c)
  \/ FetchFails(c)
  \/ SaveDeadLetterFails(c)
  \/ CommitFails(c)

\* A member's session expires, or an instance is added or removed.
Rebalance ==
  /\ Fault
  /\ Reassign(committed)
  /\ UNCHANGED <<committed, reader, readModel, transactions, deadLetters, operator>>
-----------------------------------------------------------------------------
(* Dead-letter reprocessing, over HTTP or from the command line. *)

Move(o, pc) == operator' = [operator EXCEPT ![o].pc = pc]

\* FindByKey, whatever the row's status; then the payload is decoded.
Load(o, key) ==
  /\ operator[o].pc = "idle"
  /\ deadLetters[key].status # "none"
  /\ operator' = [operator EXCEPT ![o] =
       [pc |-> IF Message(deadLetters[key].place).body \in Events
               THEN "dispatch" ELSE "markFailed",
        key |-> key, place |-> deadLetters[key].place]]
  /\ UNCHANGED <<committed, assignment, reader, readModel, transactions, deadLetters, faults>>

\* Mutant of Redispatch: the row is resolved whatever the projection returned.
BugAlwaysResolved(o) ==
  /\ operator[o].pc = "dispatch"
  /\ \/ ProjectionSucceeds(o, Message(operator[o].place))
     \/ ProjectionFails(o, Message(operator[o].place))
  /\ Move(o, "markResolved")
  /\ UNCHANGED <<committed, assignment, reader, deadLetters>>

Redispatch(o) ==
  /\ operator[o].pc = "dispatch"
  /\ \/ ProjectionSucceeds(o, Message(operator[o].place)) /\ Move(o, "markResolved")
     \/ ProjectionFails(o, Message(operator[o].place)) /\ Move(o, "markFailed")
  /\ UNCHANGED <<committed, assignment, reader, deadLetters>>

RedispatchBegins(o) ==
  /\ operator[o].pc = "dispatch"
  /\ Begin(o, operator[o].place)
  /\ UNCHANGED <<committed, assignment, reader, deadLetters, operator, faults>>

SetStatus(o, status) ==
  deadLetters' = [deadLetters EXCEPT ![operator[o].key].status = status]

Release(o) == operator' = [operator EXCEPT ![o] = Free]

\* Mutant of MarkResolved: the row keeps its status.
BugLeftPending(o) ==
  /\ operator[o].pc = "markResolved"
  /\ Release(o)
  /\ UNCHANGED <<committed, assignment, reader, readModel, transactions, deadLetters, faults>>

MarkResolved(o) ==
  /\ operator[o].pc = "markResolved"
  /\ \/ SetStatus(o, "resolved") /\ UNCHANGED faults
     \/ Fault /\ (UNCHANGED deadLetters \/ SetStatus(o, "resolved"))
  /\ Release(o)
  /\ UNCHANGED <<committed, assignment, reader, readModel, transactions>>

MarkFailedReprocess(o) ==
  /\ operator[o].pc = "markFailed"
  /\ \/ SetStatus(o, "pending") /\ UNCHANGED faults
     \/ Fault /\ (UNCHANGED deadLetters \/ SetStatus(o, "pending"))
  /\ Release(o)
  /\ UNCHANGED <<committed, assignment, reader, readModel, transactions>>

Reprocess(o) ==
  RedispatchBegins(o) \/ Redispatch(o) \/ MarkResolved(o) \/ MarkFailedReprocess(o)

\* An instance dies with its consumer, and runs die with it or by themselves;
\* PostgreSQL rolls back what they have open.
Crash(c) ==
  /\ Fault
  /\ Reopen(c, committed)
  /\ \E dead \in SUBSET Reprocessors :
       /\ operator' = [o \in Reprocessors |-> IF o \in dead THEN Free ELSE operator[o]]
       /\ tx' = [x \in Callers |-> IF x \in dead \cup {c} THEN Closed ELSE tx[x]]
  /\ UNCHANGED <<committed, readModel, overlapped, deadLetters>>

Next ==
  \/ \E c \in Members : Consume(c) \/ Crash(c)
  \/ Rebalance
  \/ \E o \in Reprocessors, key \in Keys : Load(o, key)
  \/ \E o \in Reprocessors : Reprocess(o)

Spec == Init /\ [][Next]_vars

\* run loops for as long as the process lives, and the process is restarted; a
\* reprocessing run that has begun goes on.
FairSpec ==
  /\ Spec
  /\ \A c \in Members : WF_vars(Consume(c))
  /\ \A o \in Reprocessors : WF_vars(Reprocess(o))

\* Furthermore operators keep reprocessing whatever is pending.
Retry(o, key) == deadLetters[key].status = "pending" /\ Load(o, key)

OperatedSpec ==
  /\ FairSpec
  /\ \A key \in Keys : SF_vars(\E o \in Reprocessors : Retry(o, key))
-----------------------------------------------------------------------------
\* Every variable has the shape the Go types give it.
TypeOK ==
  /\ committed \in [Partitions -> Nat]
  /\ owner \in [Partitions -> Members]
  /\ position \in [Partitions -> Nat]
  /\ reader \in [Members ->
                  [pc : {"fetch", "dispatch", "deadLetter", "commit"},
                   place : Places \cup {<<>>}, attempt : 0 .. MaxAttempts]]
  /\ inbox \subseteq Ids
  /\ wallets \in [Wallets -> [open : BOOLEAN, balance : Int]]
  /\ tx \in [Callers -> [place : Places \cup {<<>>}, balance : Int]]
  /\ overlapped \subseteq Wallets
  /\ deadLetters \in [Keys -> [status : {"none", "pending", "resolved"},
                               place : Places \cup {<<>>}]]
  /\ operator \in [Reprocessors ->
                     [pc : {"idle", "dispatch", "markResolved", "markFailed"},
                      key : Keys \cup {<<>>}, place : Places \cup {<<>>}]]
  /\ faults \in 0 .. MaxFaults

Handled(place) ==
  \/ Message(place).id \in inbox
  \/ deadLetters[DeadLetterKey(place)].status # "none"

\* README.md: "Kafka offsets are committed only after a message is either
\* projected successfully, or persisted to the dead-letter table": whatever
\* fails or dies, and whichever member commits a partition it has lost, no
\* message below the committed offset is lost.
CommittedIsHandled ==
  \A place \in Places : place[2] <= committed[place[1]] => Handled(place)

\* A dead letter marked resolved has been projected, even when runs on the
\* same key, redeliveries and failures interleave.
ResolvedIsProjected ==
  \A key \in Keys : deadLetters[key].status = "resolved" =>
    Message(deadLetters[key].place).id \in inbox

\* The events of w that are in the inbox, each counted once.
InboxEvents(w) ==
  {m \in {Message(place) : place \in Places} :
     m.id \in inbox /\ m.body \in Events /\ m.wallet = w}

\* A wallet's balance counts its creation, and no event more often than it is in
\* the inbox, in whatever order members of the group, redelivery and operators
\* project them and whatever fails or dies in between; and it counts every
\* event of the inbox unless two transactions on the wallet were open at once.
BalanceCountsInboxOnce ==
  \A w \in Wallets :
    \E counted \in SUBSET InboxEvents(w) :
      /\ wallets[w].balance = MapThenSumSet(SignedAmount, counted)
      /\ wallets[w].open => \E m \in counted : m.body = "created"
      /\ w \notin overlapped => counted = InboxEvents(w)

\* The consumers keep moving: no malformed message, missing wallet, failed
\* projection or change of owner keeps a message from being handled.  (Its offset
\* need not stay committed: a late commit of a lost partition may take it back.)
EverythingIsHandled == <>(\A place \in Places : Handled(place))

Repairable(m) ==
  /\ m.body \in Events
  /\ \E place \in Places : /\ Message(place).body = "created"
                           /\ Message(place).wallet = m.wallet

\* README.md: "if the underlying data problem is fixed, the projection succeeds
\* and the dead-letter row is marked resolved": with operators that retry,
\* every event of a wallet whose creation is in the log is projected in the
\* end and leaves no open dead letter.
DeadLettersAreRepaired ==
  <>[](\A place \in Places : Repairable(Message(place)) =>
         /\ Message(place).id \in inbox
         /\ deadLetters[DeadLetterKey(place)].status # "pending")
=============================================================================
