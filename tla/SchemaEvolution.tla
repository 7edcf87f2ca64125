-------------------------- MODULE SchemaEvolution --------------------------
(***************************************************************************)
(* Events crossing deployments: wallet-cmd and wallet-query are upgraded   *)
(* and rolled back, each on its own, while events of several schema        *)
(* versions wait in the outbox, in the topic and among the dead letters.   *)
(*                                                                         *)
(* What Outbox and Consumer model of failures is left out, but for the two *)
(* that let a message be decoded by two builds: an entry sent and not      *)
(* marked, and a message handled and not committed.                        *)
(***************************************************************************)
EXTENDS Codec

CONSTANTS
  Wallets,
  Builds,      \* the registrations that may be deployed
  Oldest,      \* the build that both services start with
  Newest,      \* the build that deployments end with
  Legacy,      \* wallets with one event from before schema versions
  BatchSize,   \* the publisher's batchSize
  MaxEvents,   \* bound: stored events
  MaxDeploys,  \* bound: deployments other than the last upgrades
  MaxFaults    \* bound: marks and commits that do not happen

ASSUME BuildsAssumption ==
  /\ Builds \subseteq Registrations
  /\ {Oldest, Newest} \subseteq Builds
  /\ \A build \in Builds : build.current <= Newest.current
  /\ 1 .. Newest.current - 1 \subseteq Newest.upcasters
ASSUME LegacyAssumption == Legacy \in Seq(Wallets)
ASSUME BoundsAssumption ==
  /\ BatchSize \in Nat \ {0}
  /\ {MaxEvents, MaxDeploys, MaxFaults} \subseteq Nat
  /\ MaxEvents >= Len(Legacy)

VARIABLES
  cmd, query,   \* the deployed builds of the two services
  store,        \* event documents in _id order; the index is the event id
  batch,        \* decoded events the publisher has found and not sent
  topic,        \* envelopes, one partition
  offset,       \* the consumer's committed offset
  projected,    \* by event: what the projection was handed, and by which build
  deadLetters,  \* rows by event id
  deploys, faults

vars == <<cmd, query, store, batch, topic, offset, projected, deadLetters,
          deploys, faults>>
writeSide == <<cmd, store, batch, topic>>
readSide == <<query, offset, projected, deadLetters>>
-----------------------------------------------------------------------------
Ids == 1 .. MaxEvents
NoEvent == [build |-> Newest, event |-> <<>>]
NoRow == [status |-> "none", envelope |-> <<>>, schema |-> 0]

\* Documents and messages without a schema version; the messages may be out.
LegacyDoc(w) ==
  [wallet |-> w, schema |-> 0, published |-> FALSE,
   data |-> [stamp |-> 0, written |-> InitialSchemaVersion, steps |-> <<>>]]

Init ==
  /\ cmd = Oldest /\ query = Oldest
  /\ \E sent \in 0 .. Len(Legacy) :
       /\ store = [i \in DOMAIN Legacy |->
                     [LegacyDoc(Legacy[i]) EXCEPT !.published = i <= sent]]
       /\ topic = [i \in 1 .. sent |->
                     [id |-> i, schema |-> 0, data |-> LegacyDoc(Legacy[i]).data]]
  /\ batch = <<>>
  /\ offset = 0
  /\ projected = [id \in Ids |-> NoEvent]
  /\ deadLetters = [id \in Ids |-> NoRow]
  /\ deploys = 0 /\ faults = 0

Fault == faults < MaxFaults /\ faults' = faults + 1
Decodes(build, doc) == DecodesBSON(build, doc.schema)
-----------------------------------------------------------------------------
(* wallet-cmd *)

\* SaveEvents decodes the wallet's stream first, then stamps the new event with
\* EnsureSchemaVersion, inside and outside of the payload.
Save(w) ==
  /\ Len(store) < MaxEvents
  /\ \A i \in DOMAIN store : store[i].wallet = w => Decodes(cmd, store[i])
  /\ LET stamp == EnsureSchemaVersion(cmd, 0)
     IN  store' = Append(store,
           [wallet |-> w, schema |-> stamp, published |-> FALSE,
            data |-> [stamp |-> stamp, written |-> cmd.current, steps |-> <<>>]])
  /\ UNCHANGED <<cmd, batch, topic, readSide, deploys, faults>>

Pending == {id \in DOMAIN store : ~store[id].published}

\* The oldest pending entries, at most batchSize, in _id order.
IsOldestPending(found) ==
  /\ \A m, n \in DOMAIN found : m < n => found[m] < found[n]
  /\ \A id \in Pending :
       \/ \E n \in DOMAIN found : found[n] = id
       \/ Len(found) = BatchSize /\ found[BatchSize] < id

\* FindPendingOutbox: one document that does not decode fails the whole batch.
FindPendingOutbox ==
  /\ batch = <<>>
  /\ \E size \in 1 .. BatchSize : \E found \in [1 .. size -> Pending] :
       /\ IsOldestPending(found)
       /\ \A n \in 1 .. size : Decodes(cmd, store[found[n]])
       /\ batch' = [n \in 1 .. size |->
            [id |-> found[n],
             data |-> DecodeBSONEvent(cmd, store[found[n]].schema,
                                      store[found[n]].data)]]
  /\ UNCHANGED <<cmd, store, topic, readSide, deploys, faults>>

\* Produce: the envelope's version is the event's own.
Produced(entry) ==
  LET stamp == EnsureSchemaVersion(cmd, entry.data.stamp)
  IN  [id |-> entry.id, schema |-> stamp, data |-> [entry.data EXCEPT !.stamp = stamp]]

Publish ==
  /\ batch # <<>>
  /\ topic' = Append(topic, Produced(Head(batch)))
  /\ store' = [store EXCEPT ![Head(batch).id].published = TRUE]
  /\ batch' = Tail(batch)
  /\ UNCHANGED <<cmd, readSide, deploys, faults>>

\* MarkPublished fails: the batch is dropped and the entry is found again.
PublishUnmarked ==
  /\ batch # <<>>
  /\ Fault
  /\ topic' = Append(topic, Produced(Head(batch)))
  /\ batch' = <<>>
  /\ UNCHANGED <<cmd, store, readSide, deploys>>
-----------------------------------------------------------------------------
(* wallet-query *)

\* DispatchEnvelope: decode, then project unless the inbox has the event.
Dispatched(envelope, schema) ==
  /\ DecodesJSON(query, schema, envelope.data)
  /\ projected' = IF projected[envelope.id] # NoEvent THEN projected
                  ELSE [projected EXCEPT ![envelope.id] =
                         [build |-> query,
                          event |-> DecodeJSONEvent(query, schema, envelope.data)]]

\* normalizedEnvelopeSchemaVersion: what a row records for old envelopes.
normalizedEnvelopeSchemaVersion(envelope) ==
  SourceVersion(envelope.schema, envelope.data.stamp)

Handle(envelope) ==
  \/ Dispatched(envelope, envelope.schema) /\ UNCHANGED deadLetters
  \/ /\ ~DecodesJSON(query, envelope.schema, envelope.data)
     /\ deadLetters' = [deadLetters EXCEPT ![envelope.id] =
          [status |-> "pending", envelope |-> envelope,
           schema |-> normalizedEnvelopeSchemaVersion(envelope)]]
     /\ UNCHANGED projected

Consume ==
  /\ offset < Len(topic)
  /\ Handle(topic[offset + 1])
  /\ offset' = offset + 1
  /\ UNCHANGED <<writeSide, query, deploys, faults>>

\* The process dies before the commit: the message is delivered again.
ConsumeUncommitted ==
  /\ offset < Len(topic)
  /\ Fault
  /\ Handle(topic[offset + 1])
  /\ UNCHANGED <<writeSide, query, offset, deploys>>

\* Mutant of Reprocess: a row that fails again gets a status of its own.
BugFailedStatus(id) ==
  LET row == deadLetters[id]
      schema == IF row.envelope.schema = 0 THEN row.schema ELSE row.envelope.schema
  IN  /\ row.status # "none"
      /\ \/ /\ Dispatched(row.envelope, schema)
            /\ deadLetters' = [deadLetters EXCEPT ![id].status = "resolved"]
         \/ /\ ~DecodesJSON(query, schema, row.envelope.data)
            /\ deadLetters' = [deadLetters EXCEPT ![id].status = "failed"]
            /\ UNCHANGED projected
      /\ UNCHANGED <<writeSide, query, offset, deploys, faults>>

\* Reprocess: the row's version stands in for one the envelope lacks.
Reprocess(id) ==
  LET row == deadLetters[id]
      schema == IF row.envelope.schema = 0 THEN row.schema ELSE row.envelope.schema
  IN  /\ row.status # "none"
      /\ \/ /\ Dispatched(row.envelope, schema)
            /\ deadLetters' = [deadLetters EXCEPT ![id].status = "resolved"]
         \/ /\ ~DecodesJSON(query, schema, row.envelope.data)
            /\ deadLetters' = [deadLetters EXCEPT ![id].status = "pending"]
            /\ UNCHANGED projected
      /\ UNCHANGED <<writeSide, query, offset, deploys, faults>>
-----------------------------------------------------------------------------
(* Deployments: the process restarts, and what it held in memory is gone. *)

StartCmd(build) ==
  /\ build # cmd
  /\ cmd' = build
  /\ batch' = <<>>
  /\ UNCHANGED <<store, topic, readSide, faults>>

StartQuery(build) ==
  /\ build # query
  /\ query' = build
  /\ UNCHANGED <<writeSide, offset, projected, deadLetters, faults>>

Deploy ==
  /\ deploys < MaxDeploys
  /\ deploys' = deploys + 1
  /\ \E build \in Builds : StartCmd(build) \/ StartQuery(build)

\* Whatever was deployed in between, both services end up with the newest build.
UpgradeCmd == StartCmd(Newest) /\ UNCHANGED deploys
UpgradeQuery == StartQuery(Newest) /\ UNCHANGED deploys

Next ==
  \/ \E w \in Wallets : Save(w)
  \/ FindPendingOutbox
  \/ Publish
  \/ PublishUnmarked
  \/ Consume
  \/ ConsumeUncommitted
  \/ \E id \in Ids : Reprocess(id)
  \/ Deploy
  \/ UpgradeCmd
  \/ UpgradeQuery

Spec == Init /\ [][Next]_vars

\* The publisher ticks, the consumer loops, operators finish the upgrade and
\* retry the dead letters that are pending.
FairSpec ==
  /\ Spec
  /\ WF_vars(FindPendingOutbox) /\ WF_vars(Publish) /\ WF_vars(Consume)
  /\ WF_vars(UpgradeCmd) /\ WF_vars(UpgradeQuery)
  /\ \A id \in Ids : WF_vars(deadLetters[id].status = "pending" /\ Reprocess(id))
-----------------------------------------------------------------------------
Payloads == [stamp : Nat, written : Nat \ {0}, steps : Seq(Nat)]
Envelopes == [id : Ids, schema : Nat, data : Payloads]

\* Every variable has the shape the Go types give it.
TypeOK ==
  /\ {cmd, query} \subseteq Builds
  /\ store \in Seq([wallet : Wallets, schema : Nat, published : BOOLEAN,
                    data : Payloads])
  /\ batch \in Seq([id : Ids, data : Payloads])
  /\ topic \in Seq(Envelopes)
  /\ offset \in 0 .. Len(topic)
  /\ projected \in [Ids -> [build : Builds, event : Payloads \cup {<<>>}]]
  /\ deadLetters \in [Ids -> [status : {"none", "pending", "resolved"},
                              envelope : Envelopes \cup {<<>>}, schema : Nat]]
  /\ deploys \in 0 .. MaxDeploys /\ faults \in 0 .. MaxFaults

\* A stamped event, upcast by the publisher of a build newer than its own.
UpcastBeforeSending(id) ==
  /\ store[id].data.stamp # 0
  /\ \E n \in DOMAIN topic : topic[n].id = id /\ topic[n].data.steps # <<>>

\* README.md:143, "run registered upcasters one version at a time until the
\* current version is reached": whatever builds wrote, published, dead-lettered
\* and reprocessed an event, the handler gets it in the shape of its own
\* structs, and so does whoever reads the store.  The exception is an event that
\* was upcast between the store and the topic.
ShapeIsExact ==
  \A id \in DOMAIN store :
    /\ projected[id] # NoEvent /\ ~UpcastBeforeSending(id) =>
         ExactFor(projected[id].build, projected[id].event)
    /\ \A build \in Builds : Decodes(build, store[id]) =>
         ExactFor(build, DecodeBSONEvent(build, store[id].schema, store[id].data))

\* README.md:349, "replay sees the same in-memory event shape the live consumer
\* would see": what was projected live is what a replay by the same build hands
\* to the same handlers.
ReplaySeesWhatLiveSees ==
  \A id \in DOMAIN store :
    projected[id] # NoEvent /\ Decodes(projected[id].build, store[id]) =>
      projected[id].event.steps =
        DecodeBSONEvent(projected[id].build, store[id].schema, store[id].data).steps

\* No deployment loses an event: a build that cannot decode an old, a newer or
\* an unversioned payload stops the outbox or fills the dead letters, and all of
\* it is projected once the last upgrade is complete.
EverythingIsProjected ==
  <>[](/\ \A id \in DOMAIN store : projected[id] # NoEvent
       /\ \A id \in Ids : deadLetters[id].status # "pending")
=============================================================================
