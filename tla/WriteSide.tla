------------------------------ MODULE WriteSide ------------------------------
(***************************************************************************)
(* The wallet-cmd process: command handlers and the outbox publisher share *)
(* the eventStore collection, and die together.                            *)
(***************************************************************************)
EXTENDS EventStore, Sequences

CONSTANTS
  Partitions,
  PartitionOf,
  BatchSize,
  MaxFaults      \* bound: failed publisher calls and process restarts

\* A command stamps at most two documents.
MaxEvents == 2 * MaxCommands

VARIABLES published, attempts, topic, publisher, faults

O == INSTANCE Outbox

handlerVars == <<snapshots, worker, nextId, issued, acked>>
vars == <<store, handlerVars, published, attempts, topic, publisher, faults>>

WriteInit == Init /\ O!OutboxInit

HandleCommand ==
  Handle /\ UNCHANGED <<published, attempts, topic, publisher, faults>>

PublishEvents == O!Publish /\ UNCHANGED handlerVars

\* SIGTERM or a crash; main starts both the router and the publisher again.
Restart ==
  /\ O!Fault
  /\ worker' = [k \in Workers |-> Idle]
  /\ publisher' = O!Waiting
  /\ UNCHANGED <<store, snapshots, nextId, issued, acked>>
  /\ UNCHANGED <<published, attempts, topic>>

WriteNext == HandleCommand \/ PublishEvents \/ Restart

WriteSpec == WriteInit /\ [][WriteNext]_vars

\* The publisher ticks while the process lives; nothing is asked of clients.
PublisherTicks == WF_vars(PublishEvents)
-----------------------------------------------------------------------------
\* The publisher sorts by _id, the handlers number by version.  On a stream
\* no race has forked the two orders agree, and readers see the versions of
\* a wallet without a step back.
OrderUnlessForked ==
  \A p \in Partitions : \A i, j \in 1 .. Len(topic[p]) :
    LET w == topic[p][i].aggregate
    IN  /\ i < j
        /\ w = topic[p][j].aggregate
        /\ \A d, e \in Stream(w) : d.version = e.version => d = e
        => topic[p][i].version <= topic[p][j].version

Sent(cmd, side) ==
  LET log == topic[PartitionOf[WalletOf(cmd, side)]]
  IN  \E i \in 1 .. Len(log) : /\ log[i].command = cmd.n
                               /\ log[i].type = EventType(cmd, side)

\* README.md: "If the HTTP request returns success, the events are durable
\* and guaranteed to be published eventually", however the command handlers,
\* the failures of publisher calls and the restarts interleave.
AckedIsPublished ==
  \A n \in 1 .. MaxCommands :
    (\E cmd \in acked : cmd.n = n)
    ~> (\E cmd \in acked : /\ cmd.n = n
                           /\ Sent(cmd, "source")
                           /\ cmd.kind = "transfer" => Sent(cmd, "destination"))
=============================================================================
