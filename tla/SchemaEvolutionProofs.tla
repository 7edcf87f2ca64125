----------------------- MODULE SchemaEvolutionProofs -----------------------
(***************************************************************************)
(* Proofs, for any builds, events, deployments and faults, that every      *)
(* handler and reader gets the shape of its own build, except for what was *)
(* upcast on its way to the topic.                                         *)
(***************************************************************************)
EXTENDS SchemaEvolution, SequenceTheorems, TLAPS

\* The payload has run the steps up to version v, each once.
UpTo(payload, v) ==
  /\ payload.written + Len(payload.steps) = v
  /\ \A i \in DOMAIN payload.steps : payload.steps[i] = payload.written + i - 1

(* The inductive invariant. *)

\* A document is as it was written, and its version is that of the payload.
Fresh(doc) ==
  /\ doc.data.steps = <<>>
  /\ doc.data.stamp = doc.schema
  /\ doc.data.written = SourceVersion(doc.schema, 0)

\* The version that a consumer takes the envelope for is what its payload is up
\* to, unless a stamped event was upcast on the way.
Upcast(docs, envelope) ==
  docs[envelope.id].data.stamp # 0 /\ envelope.data.steps # <<>>
Sendable(docs, envelope) ==
  /\ envelope.id \in DOMAIN docs
  /\ \/ Upcast(docs, envelope)
     \/ UpTo(envelope.data, SourceVersion(envelope.schema, envelope.data.stamp))

TopicIsSendable == \A n \in DOMAIN topic : Sendable(store, topic[n])
BatchIsSendable == \A n \in DOMAIN batch : Sendable(store, Produced(batch[n]))

\* A row is a message of the topic, under the version a consumer took it for.
RowsAreMessages ==
  \A id \in Ids : deadLetters[id].status # "none" =>
    /\ \E n \in DOMAIN topic : topic[n] = deadLetters[id].envelope
    /\ deadLetters[id].envelope.id = id
    /\ deadLetters[id].schema =
         normalizedEnvelopeSchemaVersion(deadLetters[id].envelope)

ProjectedIsExact ==
  \A id \in Ids : projected[id] # NoEvent =>
    /\ id \in DOMAIN store
    /\ UpcastBeforeSending(id) \/ ExactFor(projected[id].build, projected[id].event)

IInv ==
  /\ TypeOK
  /\ Len(store) <= MaxEvents
  /\ \A id \in DOMAIN store : Fresh(store[id])
  /\ TopicIsSendable
  /\ BatchIsSendable
  /\ RowsAreMessages
  /\ ProjectedIsExact

-----------------------------------------------------------------------------
(* The codec. *)

\* Builds have positive current versions.
LEMMA BuildsAreCurrent ==
  \A build \in Builds : build.current \in Nat \ {0}
BY BuildsAssumption DEF Registrations

\* The version a payload is taken for is positive.
LEMMA SourceIsPositive ==
  \A outer, topLevel \in Nat : SourceVersion(outer, topLevel) \in Nat \ {0}
BY DEF SourceVersion, normalizeSchemaVersion, InitialSchemaVersion

\* The steps that are run number the versions from the payload's to the build's.
LEMMA StepsAreVersions ==
  ASSUME NEW reg \in Builds, NEW from \in Nat \ {0}, from <= reg.current
  PROVE  /\ UpcastSteps(reg, from) \in Seq(Nat)
         /\ Len(UpcastSteps(reg, from)) = reg.current - from
         /\ \A i \in 1 .. reg.current - from :
              UpcastSteps(reg, from)[i] = from + i - 1
<1>1. reg.current \in Nat
  BY BuildsAreCurrent
<1>2. reg.current - from \in Nat
  BY <1>1
<1>3. \A i \in 1 .. reg.current - from : from + i - 1 \in Nat
  BY <1>1
<1> QED BY <1>1, <1>2, <1>3 DEF UpcastSteps

\* A payload after the steps from a version, with a new stamp.
Stepped(reg, payload, from, stamp) ==
  [payload EXCEPT !.steps = @ \o UpcastSteps(reg, from), !.stamp = stamp]

\* Upcasting from the version a payload is up to takes it to the build's own.
LEMMA UpcastingIsExact ==
  ASSUME NEW reg \in Builds, NEW from \in Nat \ {0}, from <= reg.current,
         NEW payload \in Payloads, UpTo(payload, from),
         NEW stamp
  PROVE  ExactFor(reg, Stepped(reg, payload, from, stamp))
<1> DEFINE more == UpcastSteps(reg, from)
           all == payload.steps \o more
           result == Stepped(reg, payload, from, stamp)
<1>1. /\ more \in Seq(Nat) /\ Len(more) = reg.current - from
      /\ \A i \in 1 .. reg.current - from : more[i] = from + i - 1
  BY StepsAreVersions
<1>2. reg.current \in Nat
  BY BuildsAreCurrent
<1>3. payload.steps \in Seq(Nat) /\ payload.written \in Nat
  BY DEF Payloads
<1>4. result.steps = all /\ result.written = payload.written
  BY DEF Payloads, Stepped
<1> HIDE DEF more, result
<1>5. /\ all \in Seq(Nat)
      /\ Len(all) = Len(payload.steps) + Len(more)
      /\ \A i \in 1 .. Len(payload.steps) + Len(more) :
           all[i] = IF i <= Len(payload.steps) THEN payload.steps[i]
                    ELSE more[i - Len(payload.steps)]
  <2>1. more \in Seq(Nat) /\ payload.steps \in Seq(Nat)
    BY <1>1, <1>3
  <2> QED BY <2>1, ConcatProperties
<1> HIDE DEF all
<1>6. Len(payload.steps) \in Nat /\ DOMAIN payload.steps = 1 .. Len(payload.steps)
  BY <1>3
<1>7. payload.written + Len(payload.steps) = from
  BY DEF UpTo
<1>8. payload.written + Len(all) = reg.current
  <2>1. Len(all) = Len(payload.steps) + (reg.current - from)
    BY <1>1, <1>5
  <2>2. from \in Nat
    OBVIOUS
  <2> QED BY <2>1, <2>2, <1>2, <1>3, <1>6, <1>7
<1>9. ASSUME NEW i \in 1 .. Len(all) PROVE all[i] = payload.written + i - 1
  <2> DEFINE k == Len(payload.steps)
  <2>1. /\ k \in Nat /\ from \in Nat /\ reg.current \in Nat /\ payload.written \in Nat
        /\ i \in 1 .. k + (reg.current - from)
        /\ payload.written + k = from
    BY <1>1, <1>2, <1>3, <1>5, <1>6, <1>7
  <2>2. CASE i <= k
    <3>1. all[i] = payload.steps[i]
      BY <2>1, <2>2, <1>1, <1>5
    <3>2. i \in DOMAIN payload.steps
      BY <2>1, <2>2, <1>6
    <3> QED BY <3>1, <3>2 DEF UpTo
  <2>3. CASE i > k
    <3>1. all[i] = more[i - k]
      BY <2>1, <2>3, <1>1, <1>5
    <3> HIDE DEF k
    <3>2. i - k \in 1 .. reg.current - from
      BY <2>1, <2>3
    <3>3. all[i] = from + (i - k) - 1
      BY <3>1, <3>2, <1>1
    <3> HIDE DEF all
    <3>4. from + (i - k) - 1 = payload.written + i - 1
      BY <2>1
    <3> QED BY <3>3, <3>4
  <2> QED BY <2>1, <2>2, <2>3
<1>10. result.written + Len(result.steps) = reg.current
  BY <1>4, <1>8
<1>11. DOMAIN all = 1 .. Len(all)
  BY <1>5
<1>12. \A i \in DOMAIN result.steps : result.steps[i] = result.written + i - 1
  BY <1>4, <1>9, <1>11
<1>13. ExactFor(reg, result)
  BY <1>10, <1>12 DEF ExactFor
<1> QED BY <1>13 DEF result, more

\* What is decoded keeps the shape of a payload.
LEMMA DecodedIsPayload ==
  ASSUME NEW reg \in Builds, NEW payload \in Payloads, NEW from \in Nat \ {0},
         from <= reg.current, NEW stamp \in Nat
  PROVE  Stepped(reg, payload, from, stamp) \in Payloads
<1>1. payload.steps \o UpcastSteps(reg, from) \in Seq(Nat)
  BY StepsAreVersions DEF Payloads
<1> QED BY <1>1 DEF Payloads, Stepped

\* A stamp stays positive, or becomes so.
LEMMA StampsArePositive ==
  ASSUME NEW reg \in Builds, NEW stamp \in Nat
  PROVE  EnsureSchemaVersion(reg, stamp) \in Nat \ {0}
BY BuildsAreCurrent DEF EnsureSchemaVersion

\* What the outbox decodes and sends is taken for the version it is up to.
LEMMA FoundIsSendable ==
  ASSUME NEW reg \in Builds, NEW doc, Fresh(doc), doc.data \in Payloads,
         doc.schema \in Nat, DecodesBSON(reg, doc.schema)
  PROVE  LET data  == DecodeBSONEvent(reg, doc.schema, doc.data)
             stamp == EnsureSchemaVersion(reg, data.stamp)
         IN  /\ data \in Payloads
             /\ \/ doc.data.stamp # 0 /\ data.steps # <<>>
                \/ UpTo([data EXCEPT !.stamp = stamp], SourceVersion(stamp, stamp))
<1> DEFINE from == SourceVersion(doc.schema, 0)
           data == DecodeBSONEvent(reg, doc.schema, doc.data)
           stamp == EnsureSchemaVersion(reg, data.stamp)
           first == EnsureSchemaVersion(reg, doc.data.stamp)
<1>1. from \in Nat \ {0} /\ from <= reg.current /\ reg.current \in Nat \ {0}
  BY SourceIsPositive, BuildsAreCurrent DEF DecodesBSON, Upcastable
<1>2. doc.data.stamp \in Nat /\ first \in Nat \ {0}
  BY StampsArePositive DEF Payloads
<1>3. data = Stepped(reg, doc.data, from, first)
  BY DEF DecodeBSONEvent, Stepped
<1>4. data \in Payloads
  BY <1>1, <1>2, <1>3, DecodedIsPayload
<1>5. data.stamp = first /\ data.written = doc.data.written
  BY <1>3 DEF Payloads, Stepped
<1>6. stamp = first
  BY <1>2, <1>5 DEF EnsureSchemaVersion
<1>7. SourceVersion(stamp, stamp) = first
  BY <1>2, <1>6 DEF SourceVersion, normalizeSchemaVersion
<1>8. UpTo(doc.data, from)
  <2>1. doc.data.written = from /\ doc.data.steps = <<>> /\ from \in Nat
    BY <1>1 DEF Fresh
  <2> HIDE DEF from
  <2> QED BY <2>1 DEF UpTo
<1>9. ExactFor(reg, data)
  BY <1>1, <1>3, <1>8, UpcastingIsExact
<1>10. UpTo(data, reg.current)
  BY <1>9 DEF UpTo, ExactFor
<1> HIDE DEF data, stamp, first, from
<1>11. [data EXCEPT !.stamp = stamp] = data
  BY <1>4, <1>5, <1>6 DEF Payloads
<1>12. CASE doc.data.stamp = 0
  <2>1. first = reg.current
    BY <1>12 DEF first, EnsureSchemaVersion
  <2> QED BY <2>1, <1>4, <1>7, <1>10, <1>11 DEF data, stamp
<1>13. CASE doc.data.stamp # 0 /\ data.steps = <<>>
  <2>1. first = doc.data.stamp
    BY <1>13, <1>2 DEF first, EnsureSchemaVersion
  <2>2. from = first
    BY <2>1, <1>2 DEF from, Fresh, SourceVersion, normalizeSchemaVersion
  <2>3. data.written = from
    BY <1>5 DEF Fresh, from
  <2>4. UpTo(data, first)
    BY <2>2, <2>3, <1>1, <1>13 DEF UpTo
  <2> QED BY <2>4, <1>4, <1>7, <1>11 DEF data, stamp
<1> QED BY <1>12, <1>13, <1>4 DEF data, stamp

\* What a build consumes comes out in the shape of its own structs.
LEMMA ConsumedIsExact ==
  ASSUME NEW reg \in Builds, NEW schema \in Nat, NEW payload \in Payloads,
         DecodesJSON(reg, schema, payload)
  PROVE  /\ DecodeJSONEvent(reg, schema, payload) \in Payloads
         /\ UpTo(payload, SourceVersion(schema, payload.stamp)) =>
              ExactFor(reg, DecodeJSONEvent(reg, schema, payload))
<1> DEFINE from == SourceVersion(schema, payload.stamp)
<1>1. payload.stamp \in Nat
  BY DEF Payloads
<1>2. from \in Nat \ {0} /\ from <= reg.current /\ reg.current \in Nat \ {0}
  BY <1>1, SourceIsPositive, BuildsAreCurrent DEF DecodesJSON, Upcastable
<1>3. DecodeJSONEvent(reg, schema, payload)
        = Stepped(reg, payload, from, reg.current)
  BY DEF DecodeJSONEvent, Stepped
<1> HIDE DEF from
<1>4. DecodeJSONEvent(reg, schema, payload) \in Payloads
  BY <1>2, <1>3, DecodedIsPayload
<1>5. UpTo(payload, from) => ExactFor(reg, DecodeJSONEvent(reg, schema, payload))
  BY <1>2, <1>3, UpcastingIsExact
<1> QED BY <1>4, <1>5 DEF from
-----------------------------------------------------------------------------
(* Initially the invariant holds. *)

\* Legacy documents, of which the oldest may be in the topic already.
LEMMA InitInvariant == Init => IInv
<1>1. SUFFICES ASSUME Init PROVE IInv
  OBVIOUS
<1>2. PICK sent \in 0 .. Len(Legacy) :
        /\ store = [i \in DOMAIN Legacy |->
                      [LegacyDoc(Legacy[i]) EXCEPT !.published = i <= sent]]
        /\ topic = [i \in 1 .. sent |->
                      [id |-> i, schema |-> 0, data |-> LegacyDoc(Legacy[i]).data]]
  BY <1>1 DEF Init
<1>3. Len(Legacy) \in Nat /\ DOMAIN Legacy = 1 .. Len(Legacy)
  BY LegacyAssumption
<1>4. \A i \in DOMAIN Legacy : Legacy[i] \in Wallets
  BY LegacyAssumption
<1>5. \A i \in DOMAIN Legacy :
        /\ store[i].wallet = Legacy[i] /\ store[i].schema = 0
        /\ store[i].data = [stamp |-> 0, written |-> 1, steps |-> <<>>]
        /\ store[i] \in [wallet : Wallets, schema : Nat, published : BOOLEAN,
                         data : Payloads]
  <2>1. <<>> \in Seq(Nat)
    OBVIOUS
  <2>2. [stamp |-> 0, written |-> 1, steps |-> <<>>] \in Payloads
    BY <2>1 DEF Payloads
  <2>3. SUFFICES ASSUME NEW i \in DOMAIN Legacy
                 PROVE  /\ store[i].wallet = Legacy[i] /\ store[i].schema = 0
                        /\ store[i].data = [stamp |-> 0, written |-> 1, steps |-> <<>>]
                        /\ store[i] \in [wallet : Wallets, schema : Nat,
                                         published : BOOLEAN, data : Payloads]
    OBVIOUS
  <2>4. store[i] = [wallet |-> Legacy[i], schema |-> 0, published |-> (i <= sent),
                    data |-> [stamp |-> 0, written |-> 1, steps |-> <<>>]]
    BY <1>2 DEF LegacyDoc, InitialSchemaVersion
  <2>5. (i <= sent) \in BOOLEAN
    BY <1>3
  <2> QED BY <2>2, <2>4, <2>5, <1>4
<1>6. DOMAIN store = 1 .. Len(Legacy)
  BY <1>2, <1>3
<1>7. store \in Seq([wallet : Wallets, schema : Nat, published : BOOLEAN,
                     data : Payloads])
  <2>1. store = [i \in 1 .. Len(Legacy) |-> store[i]]
    BY <1>2, <1>3
  <2> QED BY <2>1, <1>3, <1>5
<1>8. Len(store) = Len(Legacy) /\ Len(store) <= MaxEvents
  BY <1>3, <1>6, <1>7, BoundsAssumption
<1>9. \A i \in 1 .. sent :
        /\ topic[i] = [id |-> i, schema |-> 0, data |-> store[i].data]
        /\ topic[i] \in Envelopes
  <2>1. \A i \in 1 .. sent : i \in DOMAIN Legacy /\ i \in Ids
    BY <1>3, <1>8, BoundsAssumption DEF Ids
  <2> QED BY <2>1, <1>2, <1>5 DEF LegacyDoc, Envelopes, InitialSchemaVersion
<1>10. topic \in Seq(Envelopes) /\ DOMAIN topic = 1 .. sent
  <2>1. topic = [i \in 1 .. sent |-> topic[i]]
    BY <1>2
  <2>2. sent \in Nat
    BY <1>3
  <2> QED BY <2>1, <2>2, <1>9
<1>11. TypeOK
  BY <1>1, <1>7, <1>10, BuildsAssumption, BoundsAssumption
     DEF Init, TypeOK, NoEvent, NoRow
<1>12. SourceVersion(0, 0) = 1
  BY DEF SourceVersion, normalizeSchemaVersion, InitialSchemaVersion
<1>13. \A id \in DOMAIN store : Fresh(store[id])
  BY <1>3, <1>5, <1>6, <1>12 DEF Fresh
<1>14. ASSUME NEW n \in DOMAIN topic PROVE Sendable(store, topic[n])
  <2>1. n \in DOMAIN store /\ n \in DOMAIN Legacy
    BY <1>3, <1>6, <1>10, <1>14
  <2>2. /\ topic[n].id = n /\ topic[n].schema = 0
        /\ topic[n].data = [stamp |-> 0, written |-> 1, steps |-> <<>>]
    BY <2>1, <1>5, <1>9, <1>10
  <2>3. UpTo(topic[n].data, 1)
    BY <2>2 DEF UpTo
  <2> QED BY <2>1, <2>2, <2>3, <1>12 DEF Sendable
<1> QED BY <1>1, <1>8, <1>11, <1>13, <1>14
     DEF Init, IInv, TopicIsSendable, BatchIsSendable, RowsAreMessages,
         ProjectedIsExact, NoRow
-----------------------------------------------------------------------------
(* Each step keeps it. *)

\* Documents keep their payloads and messages stay: so does what rests on them.
LEMMA MessagesStay ==
  ASSUME IInv,
         \A id \in DOMAIN store :
           id \in DOMAIN store' /\ store'[id].data = store[id].data,
         \A n \in DOMAIN topic : n \in DOMAIN topic' /\ topic'[n] = topic[n]
  PROVE  /\ \A envelope : Sendable(store, envelope) => Sendable(store', envelope)
         /\ deadLetters' = deadLetters => RowsAreMessages'
         /\ projected' = projected => ProjectedIsExact'
<1>1. \A envelope : Sendable(store, envelope) => Sendable(store', envelope)
  BY DEF Sendable, Upcast
<1>2. \A id \in DOMAIN store : UpcastBeforeSending(id) => UpcastBeforeSending(id)'
  BY DEF UpcastBeforeSending
<1>3. ASSUME deadLetters' = deadLetters PROVE RowsAreMessages'
  BY <1>3 DEF IInv, RowsAreMessages
<1>4. ASSUME projected' = projected PROVE ProjectedIsExact'
  BY <1>2, <1>4 DEF IInv, ProjectedIsExact
<1> QED BY <1>1, <1>3, <1>4

\* A new event is written under the current version, inside and outside.
LEMMA SaveInvariant ==
  ASSUME IInv, NEW w \in Wallets, Save(w) PROVE IInv'
<1> DEFINE Docs == [wallet : Wallets, schema : Nat, published : BOOLEAN,
                    data : Payloads]
           doc == [wallet |-> w, schema |-> EnsureSchemaVersion(cmd, 0),
                   published |-> FALSE,
                   data |-> [stamp |-> EnsureSchemaVersion(cmd, 0),
                             written |-> cmd.current, steps |-> <<>>]]
<1>1. cmd \in Builds /\ cmd.current \in Nat \ {0}
  BY BuildsAreCurrent DEF IInv, TypeOK
<1>2. EnsureSchemaVersion(cmd, 0) = cmd.current
  BY DEF EnsureSchemaVersion
<1>3. doc \in Docs
  BY <1>1, <1>2 DEF Payloads
<1>4. Fresh(doc)
  BY <1>1, <1>2 DEF Fresh, SourceVersion, normalizeSchemaVersion
<1>5. store \in Seq(Docs) /\ store' = Append(store, doc)
  BY DEF Save, IInv, TypeOK
<1> HIDE DEF doc, Docs
<1>6. /\ store' \in Seq(Docs) /\ Len(store') = Len(store) + 1
      /\ \A i \in 1 .. Len(store) : store'[i] = store[i]
      /\ store'[Len(store) + 1] = doc
  BY <1>3, <1>5, AppendProperties
<1>7. /\ Len(store) \in Nat /\ DOMAIN store = 1 .. Len(store)
      /\ DOMAIN store' = 1 .. Len(store) + 1
  BY <1>5, <1>6, LenProperties
<1>8. Len(store') <= MaxEvents
  BY <1>6, <1>7, BoundsAssumption DEF Save
<1>9. TypeOK'
  BY <1>6 DEF Save, readSide, IInv, TypeOK, Docs
<1>10. \A id \in DOMAIN store' : Fresh(store'[id])
  BY <1>4, <1>6, <1>7 DEF IInv
<1>11. /\ \A envelope : Sendable(store, envelope) => Sendable(store', envelope)
       /\ RowsAreMessages' /\ ProjectedIsExact'
  <2>1. /\ topic' = topic /\ deadLetters' = deadLetters /\ projected' = projected
    BY DEF Save, readSide
  <2>2. \A id \in DOMAIN store : id \in DOMAIN store' /\ store'[id].data = store[id].data
    BY <1>6, <1>7
  <2> QED BY <2>1, <2>2, MessagesStay
<1>12. TopicIsSendable'
  BY <1>11 DEF Save, IInv, TopicIsSendable
<1>13. BatchIsSendable'
  BY <1>11 DEF Save, IInv, BatchIsSendable, Produced
<1> QED BY <1>8, <1>9, <1>10, <1>11, <1>12, <1>13 DEF IInv

\* A step that leaves the documents, the topic and the read side alone.
LEMMA BatchSteps ==
  ASSUME IInv, store' = store, topic' = topic, UNCHANGED readSide
  PROVE  /\ \A id \in DOMAIN store' : Fresh(store'[id])
         /\ TopicIsSendable' /\ RowsAreMessages' /\ ProjectedIsExact'
         /\ Len(store') <= MaxEvents
<1>1. RowsAreMessages' /\ ProjectedIsExact'
  BY MessagesStay DEF readSide
<1> QED BY <1>1 DEF IInv, TopicIsSendable

\* What the publisher has decoded it may send.
LEMMA FindInvariant == ASSUME IInv, FindPendingOutbox PROVE IInv'
<1>0. PICK size \in 1 .. BatchSize : \E found \in [1 .. size -> Pending] :
        /\ \A n \in 1 .. size : Decodes(cmd, store[found[n]])
        /\ batch' = [n \in 1 .. size |->
             [id |-> found[n],
              data |-> DecodeBSONEvent(cmd, store[found[n]].schema,
                                       store[found[n]].data)]]
  BY DEF FindPendingOutbox
<1>1. PICK found \in [1 .. size -> Pending] :
        /\ \A n \in 1 .. size : Decodes(cmd, store[found[n]])
        /\ batch' = [n \in 1 .. size |->
             [id |-> found[n],
              data |-> DecodeBSONEvent(cmd, store[found[n]].schema,
                                       store[found[n]].data)]]
  BY <1>0
<1>2. /\ cmd' = cmd /\ store' = store /\ topic' = topic /\ UNCHANGED readSide
      /\ deploys' = deploys /\ faults' = faults
  BY DEF FindPendingOutbox
<1>3. /\ cmd \in Builds /\ DOMAIN store = 1 .. Len(store) /\ Len(store) \in Nat
      /\ DOMAIN store \subseteq Ids
      /\ \A id \in DOMAIN store :
           store[id].schema \in Nat /\ store[id].data \in Payloads /\ Fresh(store[id])
  <2> DEFINE Docs == [wallet : Wallets, schema : Nat, published : BOOLEAN,
                      data : Payloads]
  <2>1. cmd \in Builds /\ store \in Seq(Docs) /\ Len(store) <= MaxEvents
        /\ \A id \in DOMAIN store : Fresh(store[id])
    BY DEF IInv, TypeOK
  <2> HIDE DEF Docs
  <2>2. DOMAIN store = 1 .. Len(store) /\ Len(store) \in Nat
        /\ \A id \in DOMAIN store : store[id] \in Docs
    BY <2>1
  <2>3. DOMAIN store \subseteq Ids
    BY <2>1, <2>2, BoundsAssumption DEF Ids
  <2> QED BY <2>1, <2>2, <2>3 DEF Docs
<1>4. ASSUME NEW n \in 1 .. size
      PROVE  batch'[n] \in [id : Ids, data : Payloads] /\ Sendable(store, Produced(batch'[n]))
  <2> DEFINE doc == store[found[n]]
             data == DecodeBSONEvent(cmd, doc.schema, doc.data)
             stamp == EnsureSchemaVersion(cmd, data.stamp)
  <2>1. found[n] \in DOMAIN store
    BY DEF Pending
  <2>2. batch'[n] = [id |-> found[n], data |-> data]
    BY <1>1
  <2>3. /\ data \in Payloads
        /\ \/ doc.data.stamp # 0 /\ data.steps # <<>>
           \/ UpTo([data EXCEPT !.stamp = stamp], SourceVersion(stamp, stamp))
    BY <1>1, <1>3, <2>1, FoundIsSendable DEF Decodes
  <2> HIDE DEF data
  <2>4. Produced(batch'[n]) = [id |-> found[n], schema |-> stamp,
                               data |-> [data EXCEPT !.stamp = stamp]]
    BY <2>2 DEF Produced
  <2> HIDE DEF stamp
  <2>5. /\ [data EXCEPT !.stamp = stamp].stamp = stamp
        /\ [data EXCEPT !.stamp = stamp].steps = data.steps
    BY <2>3 DEF Payloads
  <2>6. batch'[n] \in [id : Ids, data : Payloads]
    BY <2>1, <2>2, <2>3, <1>3
  <2>7. Sendable(store, Produced(batch'[n]))
    <3> DEFINE sent == Produced(batch'[n])
    <3>0. /\ sent.id = found[n] /\ sent.schema = stamp
          /\ sent.data = [data EXCEPT !.stamp = stamp]
      BY <2>4
    <3> HIDE DEF sent
    <3>1. sent.data.stamp = stamp /\ sent.data.steps = data.steps
      BY <3>0, <2>5
    <3>2. Upcast(store, sent)
          \/ UpTo(sent.data, SourceVersion(sent.schema, sent.data.stamp))
      BY <2>3, <3>0, <3>1 DEF Upcast, stamp
    <3>3. Sendable(store, sent)
      BY <2>1, <3>0, <3>2 DEF Sendable
    <3> QED BY <3>3 DEF sent
  <2> QED BY <2>6, <2>7
<1>5. batch' \in Seq([id : Ids, data : Payloads]) /\ DOMAIN batch' = 1 .. size
  <2>1. batch' = [n \in 1 .. size |-> batch'[n]]
    BY <1>1
  <2>2. size \in Nat
    BY BoundsAssumption
  <2> DEFINE Entries == [id : Ids, data : Payloads]
  <2>3. \A n \in 1 .. size : batch'[n] \in Entries
    BY <1>4
  <2> HIDE DEF Entries
  <2>4. batch' \in Seq(Entries) /\ DOMAIN batch' = 1 .. size
    BY <2>1, <2>2, <2>3
  <2> QED BY <2>4 DEF Entries
<1>6. TypeOK'
  BY <1>2, <1>5 DEF IInv, TypeOK, readSide
<1>7. BatchIsSendable'
  BY <1>2, <1>4, <1>5 DEF BatchIsSendable, Produced
<1> QED BY <1>2, <1>6, <1>7, BatchSteps DEF IInv

\* A message sent is one that may be sent; the others stay.
LEMMA SentIsSendable ==
  ASSUME IInv, batch # <<>>, topic' = Append(topic, Produced(Head(batch))),
         \A id \in DOMAIN store :
           id \in DOMAIN store' /\ store'[id].data = store[id].data,
         UNCHANGED readSide
  PROVE  /\ topic' \in Seq(Envelopes) /\ Len(topic') = Len(topic) + 1
         /\ Len(topic) \in Nat /\ Head(batch).id \in DOMAIN store
         /\ TopicIsSendable' /\ RowsAreMessages' /\ ProjectedIsExact'
<1> DEFINE entry == Head(batch)
           envelope == Produced(entry)
           stamp == EnsureSchemaVersion(cmd, entry.data.stamp)
<1>1. cmd \in Builds /\ batch \in Seq([id : Ids, data : Payloads])
      /\ topic \in Seq(Envelopes)
  BY DEF IInv, TypeOK
<1>2. entry \in [id : Ids, data : Payloads] /\ entry = batch[1] /\ 1 \in DOMAIN batch
  <2> DEFINE Entries == [id : Ids, data : Payloads]
  <2>1. batch \in Seq(Entries)
    BY <1>1
  <2> HIDE DEF Entries
  <2>2. entry \in Entries /\ entry = batch[1] /\ 1 \in DOMAIN batch
    BY <2>1
  <2> QED BY <2>2 DEF Entries
<1> HIDE DEF entry
<1>3. stamp \in Nat
  BY <1>1, <1>2, StampsArePositive DEF Payloads
<1> HIDE DEF stamp
<1>4. envelope = [id |-> entry.id, schema |-> stamp,
                  data |-> [entry.data EXCEPT !.stamp = stamp]]
  BY DEF Produced, stamp
<1>5. envelope \in Envelopes /\ envelope.id = entry.id
  <2>1. [entry.data EXCEPT !.stamp = stamp] \in Payloads
    BY <1>2, <1>3 DEF Payloads
  <2> QED BY <2>1, <1>2, <1>3, <1>4 DEF Envelopes
<1>6. Sendable(store, envelope)
  BY <1>2 DEF IInv, BatchIsSendable
<1>7. topic' = Append(topic, envelope)
  BY DEF entry
<1> HIDE DEF envelope
<1>8. /\ topic' \in Seq(Envelopes) /\ Len(topic') = Len(topic) + 1
      /\ \A n \in 1 .. Len(topic) : topic'[n] = topic[n]
      /\ topic'[Len(topic) + 1] = envelope
  BY <1>1, <1>5, <1>7, AppendProperties
<1>9. /\ Len(topic) \in Nat /\ DOMAIN topic = 1 .. Len(topic)
      /\ DOMAIN topic' = 1 .. Len(topic) + 1
  BY <1>1, <1>8, LenProperties
<1>10. \A n \in DOMAIN topic : n \in DOMAIN topic' /\ topic'[n] = topic[n]
  BY <1>8, <1>9
<1>11. /\ \A e : Sendable(store, e) => Sendable(store', e)
       /\ RowsAreMessages' /\ ProjectedIsExact'
  BY <1>10, MessagesStay DEF readSide
<1>12. \A n \in DOMAIN topic' : Sendable(store', topic'[n])
  BY <1>6, <1>8, <1>9, <1>11 DEF IInv, TopicIsSendable
<1>13. entry.id \in DOMAIN store
  BY <1>5, <1>6 DEF Sendable
<1> QED BY <1>8, <1>9, <1>11, <1>12, <1>13 DEF TopicIsSendable, entry

\* Sending and marking an entry changes its status, not its payload.
LEMMA PublishInvariant == ASSUME IInv, Publish PROVE IInv'
<1> DEFINE Docs == [wallet : Wallets, schema : Nat, published : BOOLEAN,
                    data : Payloads]
           k == Head(batch).id
<1>1. /\ batch # <<>> /\ topic' = Append(topic, Produced(Head(batch)))
      /\ store' = [store EXCEPT ![k].published = TRUE]
      /\ batch' = Tail(batch) /\ cmd' = cmd /\ UNCHANGED readSide
      /\ deploys' = deploys /\ faults' = faults
  BY DEF Publish
<1>2. store \in Seq(Docs) /\ DOMAIN store = 1 .. Len(store) /\ Len(store) \in Nat
  BY DEF IInv, TypeOK
<1>3. batch \in Seq([id : Ids, data : Payloads])
  BY DEF IInv, TypeOK
<1> HIDE DEF k
<1>4. DOMAIN store' = DOMAIN store
  BY <1>1
<1>5. ASSUME NEW id \in DOMAIN store
      PROVE  /\ store'[id] \in Docs /\ store'[id].data = store[id].data
             /\ store'[id].schema = store[id].schema
  <2>1. store[id] \in Docs
    <3> HIDE DEF Docs
    <3> QED BY <1>2
  <2>2. store'[id] = IF id = k THEN [store[id] EXCEPT !.published = TRUE]
                     ELSE store[id]
    BY <1>1
  <2> QED BY <2>1, <2>2
<1>6. store' \in Seq(Docs) /\ Len(store') = Len(store)
  <2>1. store' = [id \in 1 .. Len(store) |-> store'[id]]
    BY <1>1, <1>2
  <2> HIDE DEF Docs
  <2> QED BY <2>1, <1>2, <1>5
<1>7. /\ topic' \in Seq(Envelopes) /\ Len(topic') = Len(topic) + 1
      /\ Len(topic) \in Nat
      /\ TopicIsSendable' /\ RowsAreMessages' /\ ProjectedIsExact'
  BY <1>1, <1>4, <1>5, SentIsSendable
<1>8. /\ batch' \in Seq([id : Ids, data : Payloads])
      /\ \A n \in DOMAIN batch' : n + 1 \in DOMAIN batch /\ batch'[n] = batch[n + 1]
  BY <1>1, <1>3
<1>9. \A envelope : Sendable(store, envelope) => Sendable(store', envelope)
  BY <1>4, <1>5 DEF Sendable, Upcast
<1>10. BatchIsSendable'
  BY <1>1, <1>8, <1>9 DEF IInv, BatchIsSendable, Produced
<1>11. offset' \in 0 .. Len(topic')
  BY <1>1, <1>7 DEF IInv, TypeOK, readSide
<1>12. TypeOK'
  BY <1>1, <1>6, <1>7, <1>8, <1>11 DEF IInv, TypeOK, readSide
<1>13. \A id \in DOMAIN store' : Fresh(store'[id])
  BY <1>4, <1>5 DEF IInv, Fresh
<1>14. Len(store') <= MaxEvents
  BY <1>6 DEF IInv
<1> QED BY <1>7, <1>10, <1>12, <1>13, <1>14 DEF IInv

\* A failed mark drops the batch.
LEMMA PublishUnmarkedInvariant == ASSUME IInv, PublishUnmarked PROVE IInv'
<1>1. /\ batch # <<>> /\ topic' = Append(topic, Produced(Head(batch)))
      /\ store' = store /\ batch' = <<>> /\ cmd' = cmd /\ UNCHANGED readSide
      /\ deploys' = deploys /\ faults' = faults + 1 /\ faults < MaxFaults
  BY DEF PublishUnmarked, Fault
<1>2. /\ topic' \in Seq(Envelopes) /\ Len(topic') = Len(topic) + 1
      /\ Len(topic) \in Nat
      /\ TopicIsSendable' /\ RowsAreMessages' /\ ProjectedIsExact'
  BY <1>1, SentIsSendable
<1>3. offset' \in 0 .. Len(topic')
  BY <1>1, <1>2 DEF IInv, TypeOK, readSide
<1>4. faults' \in 0 .. MaxFaults
  BY <1>1, BoundsAssumption DEF IInv, TypeOK
<1>5. batch' \in Seq([id : Ids, data : Payloads])
  BY <1>1
<1>6. TypeOK'
  BY <1>1, <1>2, <1>3, <1>4, <1>5 DEF IInv, TypeOK, readSide
<1>7. BatchIsSendable'
  BY <1>1 DEF BatchIsSendable
<1>8. (\A id \in DOMAIN store' : Fresh(store'[id])) /\ Len(store') <= MaxEvents
  BY <1>1 DEF IInv
<1> QED BY <1>2, <1>6, <1>7, <1>8 DEF IInv

\* What is dispatched from a message is exact, or was upcast on the way, under
\* whatever version the caller takes from the envelope or from a row.
LEMMA DispatchIsExact ==
  ASSUME IInv, NEW n \in DOMAIN topic, NEW schema \in Nat,
         SourceVersion(schema, topic[n].data.stamp)
           = SourceVersion(topic[n].schema, topic[n].data.stamp),
         Dispatched(topic[n], schema), store' = store, topic' = topic
  PROVE  /\ projected' \in [Ids -> [build : Builds, event : Payloads \cup {<<>>}]]
         /\ ProjectedIsExact'
<1> DEFINE envelope == topic[n]
           event == DecodeJSONEvent(query, schema, envelope.data)
           Projections == [build : Builds, event : Payloads \cup {<<>>}]
<1>1. /\ query \in Builds /\ topic \in Seq(Envelopes)
      /\ projected \in [Ids -> Projections]
  BY DEF IInv, TypeOK
<1>2. envelope \in Envelopes /\ Sendable(store, envelope)
  BY <1>1 DEF IInv, TopicIsSendable
<1>3. envelope.id \in Ids /\ envelope.data \in Payloads /\ envelope.id \in DOMAIN store
  BY <1>2 DEF Envelopes, Sendable
<1>4. DecodesJSON(query, schema, envelope.data)
  BY DEF Dispatched
<1>5. event \in Payloads
  BY <1>1, <1>3, <1>4, ConsumedIsExact
<1>6. UpcastBeforeSending(envelope.id) \/ ExactFor(query, event)
  <2>1. CASE Upcast(store, envelope)
    BY <2>1 DEF Upcast, UpcastBeforeSending
  <2>2. CASE UpTo(envelope.data, SourceVersion(envelope.schema, envelope.data.stamp))
    BY <2>2, <1>1, <1>3, <1>4, ConsumedIsExact
  <2> QED BY <2>1, <2>2, <1>2 DEF Sendable
<1>7. \/ projected' = projected
      \/ projected' = [projected EXCEPT ![envelope.id] = [build |-> query, event |-> event]]
  BY DEF Dispatched
<1> HIDE DEF envelope, event
<1>8. [build |-> query, event |-> event] \in Projections
  BY <1>1, <1>5
<1>9. projected' \in [Ids -> Projections]
  BY <1>1, <1>3, <1>7, <1>8
<1>10. \A id : UpcastBeforeSending(id) => UpcastBeforeSending(id)'
  BY DEF UpcastBeforeSending
<1>11. ASSUME NEW id \in Ids, projected'[id] # NoEvent
       PROVE  /\ id \in DOMAIN store
              /\ \/ UpcastBeforeSending(id)
                 \/ ExactFor(projected'[id].build, projected'[id].event)
  <2>1. CASE projected'[id] = projected[id]
    BY <2>1, <1>11 DEF IInv, ProjectedIsExact
  <2>2. CASE id = envelope.id /\ projected'[id] = [build |-> query, event |-> event]
    BY <2>2, <1>3, <1>6
  <2> QED BY <2>1, <2>2, <1>1, <1>7
<1>12. ProjectedIsExact'
  BY <1>10, <1>11 DEF ProjectedIsExact
<1> QED BY <1>9, <1>12

\* A consumer projects a message, or keeps it in a row under its version.
LEMMA HandleKeeps ==
  ASSUME IInv, NEW n \in DOMAIN topic, Handle(topic[n]), store' = store, topic' = topic
  PROVE  /\ projected' \in [Ids -> [build : Builds, event : Payloads \cup {<<>>}]]
         /\ deadLetters' \in [Ids -> [status : {"none", "pending", "resolved"},
                                    envelope : Envelopes \cup {<<>>}, schema : Nat]]
         /\ ProjectedIsExact' /\ RowsAreMessages'
<1> DEFINE envelope == topic[n]
           row == [status |-> "pending", envelope |-> envelope,
                   schema |-> normalizedEnvelopeSchemaVersion(envelope)]
<1>1. topic \in Seq(Envelopes)
  BY DEF IInv, TypeOK
<1>2. envelope \in Envelopes
  BY <1>1
<1>3. /\ envelope.id \in Ids /\ envelope.schema \in Nat /\ envelope.data.stamp \in Nat
  BY <1>2 DEF Envelopes, Payloads
<1>4. CASE Dispatched(envelope, envelope.schema) /\ deadLetters' = deadLetters
  <2>1. RowsAreMessages'
    BY <1>4, MessagesStay
  <2> QED BY <1>3, <1>4, <2>1, DispatchIsExact DEF IInv, TypeOK
<1>5. CASE deadLetters' = [deadLetters EXCEPT ![envelope.id] = row] /\ projected' = projected
  <2>1. normalizedEnvelopeSchemaVersion(envelope) \in Nat
    BY <1>3, SourceIsPositive DEF normalizedEnvelopeSchemaVersion
  <2>2. deadLetters' \in [Ids -> [status : {"none", "pending", "resolved"},
                                 envelope : Envelopes \cup {<<>>}, schema : Nat]]
    BY <1>2, <1>3, <1>5, <2>1 DEF IInv, TypeOK
  <2>3. ASSUME NEW id \in Ids, deadLetters'[id].status # "none"
        PROVE  /\ \E m \in DOMAIN topic : topic[m] = deadLetters'[id].envelope
               /\ deadLetters'[id].envelope.id = id
               /\ deadLetters'[id].schema =
                    normalizedEnvelopeSchemaVersion(deadLetters'[id].envelope)
    <3>1. CASE id = envelope.id
      <4>1. deadLetters'[id] = row
        BY <1>5, <3>1 DEF IInv, TypeOK
      <4> QED BY <3>1, <4>1
    <3>2. CASE id # envelope.id
      <4>1. deadLetters'[id] = deadLetters[id]
        BY <1>5, <3>2 DEF IInv, TypeOK
      <4> QED BY <4>1, <2>3 DEF IInv, RowsAreMessages
    <3> QED BY <3>1, <3>2
  <2>4. RowsAreMessages'
    BY <2>3 DEF RowsAreMessages
  <2>5. ProjectedIsExact'
    BY <1>5, MessagesStay
  <2> QED BY <1>5, <2>2, <2>4, <2>5 DEF IInv, TypeOK
<1> QED BY <1>4, <1>5 DEF Handle

\* The write side's part of the invariant needs nothing of the read side.
LEMMA ReadSteps ==
  ASSUME IInv, UNCHANGED writeSide
  PROVE  /\ \A id \in DOMAIN store' : Fresh(store'[id])
         /\ Len(store') <= MaxEvents /\ TopicIsSendable' /\ BatchIsSendable'
BY DEF IInv, TopicIsSendable, BatchIsSendable, Produced, writeSide

\* A message handled, and committed.
LEMMA ConsumeInvariant == ASSUME IInv, Consume PROVE IInv'
<1>1. /\ offset < Len(topic) /\ Handle(topic[offset + 1]) /\ offset' = offset + 1
      /\ UNCHANGED writeSide /\ query' = query /\ deploys' = deploys /\ faults' = faults
  BY DEF Consume
<1>2. store' = store /\ topic' = topic
  BY <1>1 DEF writeSide
<1>3. offset \in 0 .. Len(topic) /\ Len(topic) \in Nat /\ DOMAIN topic = 1 .. Len(topic)
  BY DEF IInv, TypeOK
<1>4. offset + 1 \in DOMAIN topic /\ offset' \in 0 .. Len(topic')
  BY <1>1, <1>2, <1>3
<1>5. TypeOK'
  BY <1>1, <1>2, <1>4, HandleKeeps DEF IInv, TypeOK, writeSide
<1> QED BY <1>1, <1>2, <1>4, <1>5, HandleKeeps, ReadSteps DEF IInv

\* A message handled, and to be delivered again.
LEMMA ConsumeUncommittedInvariant == ASSUME IInv, ConsumeUncommitted PROVE IInv'
<1>1. /\ offset < Len(topic) /\ Handle(topic[offset + 1]) /\ offset' = offset
      /\ UNCHANGED writeSide /\ query' = query /\ deploys' = deploys
      /\ faults < MaxFaults /\ faults' = faults + 1
  BY DEF ConsumeUncommitted, Fault
<1>2. store' = store /\ topic' = topic
  BY <1>1 DEF writeSide
<1>3. offset \in 0 .. Len(topic) /\ Len(topic) \in Nat /\ DOMAIN topic = 1 .. Len(topic)
  BY DEF IInv, TypeOK
<1>4. offset + 1 \in DOMAIN topic
  BY <1>1, <1>3
<1>5. faults' \in 0 .. MaxFaults
  BY <1>1, BoundsAssumption DEF IInv, TypeOK
<1>6. TypeOK'
  BY <1>1, <1>2, <1>4, <1>5, HandleKeeps DEF IInv, TypeOK, writeSide
<1> QED BY <1>1, <1>2, <1>4, <1>6, HandleKeeps, ReadSteps DEF IInv

\* A row is dispatched under the version it was recorded with, which is the one
\* its envelope is taken for.
LEMMA ReprocessInvariant ==
  ASSUME IInv, NEW k \in Ids, Reprocess(k) PROVE IInv'
<1> DEFINE row == deadLetters[k]
           schema == IF row.envelope.schema = 0 THEN row.schema ELSE row.envelope.schema
           DeadLetterRows == [status : {"none", "pending", "resolved"},
                              envelope : Envelopes \cup {<<>>}, schema : Nat]
<1>1. /\ row.status # "none" /\ UNCHANGED writeSide
      /\ query' = query /\ offset' = offset /\ deploys' = deploys /\ faults' = faults
      /\ \/ /\ Dispatched(row.envelope, schema)
            /\ deadLetters' = [deadLetters EXCEPT ![k].status = "resolved"]
         \/ /\ deadLetters' = [deadLetters EXCEPT ![k].status = "pending"]
            /\ projected' = projected
  BY DEF Reprocess
<1>2. store' = store /\ topic' = topic
  BY <1>1 DEF writeSide
<1>3. PICK n \in DOMAIN topic : topic[n] = row.envelope
  BY <1>1 DEF IInv, RowsAreMessages
<1>4. row.schema = normalizedEnvelopeSchemaVersion(row.envelope)
  BY <1>1 DEF IInv, RowsAreMessages
<1>5. topic \in Seq(Envelopes) /\ deadLetters \in [Ids -> DeadLetterRows]
  BY DEF IInv, TypeOK
<1>6. row.envelope \in Envelopes
  BY <1>3, <1>5
<1>7. row.envelope.schema \in Nat /\ row.envelope.data.stamp \in Nat
  BY <1>6 DEF Envelopes, Payloads
<1>8. /\ schema \in Nat
      /\ SourceVersion(schema, row.envelope.data.stamp)
           = SourceVersion(row.envelope.schema, row.envelope.data.stamp)
  BY <1>4, <1>7 DEF normalizedEnvelopeSchemaVersion, SourceVersion,
     normalizeSchemaVersion, InitialSchemaVersion
<1> HIDE DEF schema
<1>9. /\ projected' \in [Ids -> [build : Builds, event : Payloads \cup {<<>>}]]
      /\ ProjectedIsExact'
  <2>1. CASE Dispatched(row.envelope, schema)
    BY <2>1, <1>2, <1>3, <1>8, DispatchIsExact
  <2>2. CASE projected' = projected
    BY <2>2, <1>2, MessagesStay DEF IInv, TypeOK
  <2> QED BY <2>1, <2>2, <1>1
<1>10. PICK s \in {"resolved", "pending"} :
         deadLetters' = [deadLetters EXCEPT ![k].status = s]
  BY <1>1
<1>11. deadLetters' \in [Ids -> DeadLetterRows]
  BY <1>5, <1>10
<1>12. \A id \in Ids :
         /\ deadLetters'[id].envelope = deadLetters[id].envelope
         /\ deadLetters'[id].schema = deadLetters[id].schema
         /\ deadLetters'[id].status # "none" => deadLetters[id].status # "none"
  BY <1>1, <1>5, <1>10
<1>13. RowsAreMessages'
  <2>1. ASSUME NEW id \in Ids, deadLetters'[id].status # "none"
        PROVE  /\ \E m \in DOMAIN topic : topic[m] = deadLetters'[id].envelope
               /\ deadLetters'[id].envelope.id = id
               /\ deadLetters'[id].schema =
                    normalizedEnvelopeSchemaVersion(deadLetters'[id].envelope)
    BY <2>1, <1>12 DEF IInv, RowsAreMessages
  <2> QED BY <2>1, <1>2 DEF RowsAreMessages
<1>14. TypeOK'
  BY <1>1, <1>2, <1>9, <1>11 DEF IInv, TypeOK, writeSide
<1> QED BY <1>1, <1>9, <1>13, <1>14, ReadSteps DEF IInv

\* The publisher loses its batch, and with it what it had decoded.
LEMMA StartCmdInvariant ==
  ASSUME IInv, NEW build \in Builds, StartCmd(build), deploys' \in 0 .. MaxDeploys
  PROVE  IInv'
<1>1. /\ cmd' = build /\ batch' = <<>> /\ store' = store /\ topic' = topic
      /\ UNCHANGED readSide /\ faults' = faults
  BY DEF StartCmd
<1>2. batch' \in Seq([id : Ids, data : Payloads])
  BY <1>1
<1>3. TypeOK'
  BY <1>1, <1>2 DEF IInv, TypeOK, readSide
<1>4. BatchIsSendable'
  BY <1>1 DEF BatchIsSendable
<1> QED BY <1>1, <1>3, <1>4, BatchSteps DEF IInv

\* The projection keeps what an older build of it was handed.
LEMMA StartQueryInvariant ==
  ASSUME IInv, NEW build \in Builds, StartQuery(build), deploys' \in 0 .. MaxDeploys
  PROVE  IInv'
<1>1. /\ query' = build /\ UNCHANGED writeSide /\ offset' = offset
      /\ projected' = projected /\ deadLetters' = deadLetters /\ faults' = faults
  BY DEF StartQuery
<1>2. store' = store /\ topic' = topic
  BY <1>1 DEF writeSide
<1>3. TypeOK'
  BY <1>1, <1>2 DEF IInv, TypeOK, writeSide
<1>4. RowsAreMessages' /\ ProjectedIsExact'
  BY <1>1, <1>2, MessagesStay
<1> QED BY <1>1, <1>3, <1>4, ReadSteps DEF IInv

\* A deployment in between, to any build.
LEMMA DeployInvariant == ASSUME IInv, Deploy PROVE IInv'
<1>1. deploys' \in 0 .. MaxDeploys
  BY BoundsAssumption DEF Deploy, IInv, TypeOK
<1> QED BY <1>1, StartCmdInvariant, StartQueryInvariant DEF Deploy

\* The last deployments, to the newest.
LEMMA UpgradeInvariant == ASSUME IInv, UpgradeCmd \/ UpgradeQuery PROVE IInv'
<1>1. Newest \in Builds /\ deploys' \in 0 .. MaxDeploys
  BY BuildsAssumption DEF IInv, TypeOK, UpgradeCmd, UpgradeQuery
<1> QED BY <1>1, StartCmdInvariant, StartQueryInvariant DEF UpgradeCmd, UpgradeQuery

\* A step that changes nothing keeps it, and so does each of Next.
LEMMA StepInvariant == ASSUME IInv, [Next]_vars PROVE IInv'
<1>1. CASE UNCHANGED vars
  <2>1. /\ store' = store /\ topic' = topic /\ UNCHANGED readSide /\ cmd' = cmd
        /\ batch' = batch /\ deploys' = deploys /\ faults' = faults
    BY <1>1 DEF vars, readSide
  <2>2. TypeOK'
    BY <2>1 DEF IInv, TypeOK, readSide
  <2>3. BatchIsSendable'
    BY <2>1 DEF IInv, BatchIsSendable, Produced
  <2> QED BY <2>1, <2>2, <2>3, BatchSteps DEF IInv
<1> QED
  BY <1>1, SaveInvariant, FindInvariant, PublishInvariant, PublishUnmarkedInvariant,
     ConsumeInvariant, ConsumeUncommittedInvariant, ReprocessInvariant,
     DeployInvariant, UpgradeInvariant DEF Next

\* Whatever is deployed, sent twice, dead-lettered and reprocessed meanwhile.
THEOREM EvolutionInvariance == Spec => []IInv
BY InitInvariant, StepInvariant, PTL DEF Spec
-----------------------------------------------------------------------------
(* What follows from it. *)

\* Every variable keeps the shape the Go types give it.
THEOREM EvolutionTypeCorrect == Spec => []TypeOK
<1>1. IInv => TypeOK
  BY DEF IInv
<1> QED BY <1>1, EvolutionInvariance, PTL

\* A build that can decode a document runs every step from its version, once.
LEMMA StoredIsExact ==
  ASSUME IInv, NEW id \in DOMAIN store, NEW build \in Builds, Decodes(build, store[id])
  PROVE  ExactFor(build, DecodeBSONEvent(build, store[id].schema, store[id].data))
<1> DEFINE doc == store[id]
           from == SourceVersion(doc.schema, 0)
           stamp == EnsureSchemaVersion(build, doc.data.stamp)
           Docs == [wallet : Wallets, schema : Nat, published : BOOLEAN,
                    data : Payloads]
<1>1. store \in Seq(Docs)
  BY DEF IInv, TypeOK
<1>2. doc \in Docs
  <2> HIDE DEF Docs
  <2> QED BY <1>1
<1>3. doc.schema \in Nat /\ doc.data \in Payloads /\ Fresh(doc)
  BY <1>2 DEF IInv
<1>4. from \in Nat \ {0} /\ from <= build.current
  BY <1>3, SourceIsPositive DEF Decodes, DecodesBSON, Upcastable
<1>5. DecodeBSONEvent(build, doc.schema, doc.data) = Stepped(build, doc.data, from, stamp)
  BY DEF DecodeBSONEvent, Stepped
<1>6. doc.data.written = from /\ doc.data.steps = <<>>
  BY <1>3 DEF Fresh
<1> HIDE DEF from, stamp, doc
<1>7. UpTo(doc.data, from)
  BY <1>4, <1>6 DEF UpTo
<1>8. ExactFor(build, Stepped(build, doc.data, from, stamp))
  BY <1>3, <1>4, <1>7, UpcastingIsExact
<1> QED BY <1>5, <1>8 DEF doc

\* README.md:143, "run registered upcasters one version at a time until the
\* current version is reached": handlers and readers of the store get the shape
\* of their own build, however many builds an event has passed through.
THEOREM ShapesAreExact == Spec => []ShapeIsExact
<1>1. ASSUME IInv PROVE ShapeIsExact
  <2>1. SUFFICES ASSUME NEW id \in DOMAIN store
        PROVE  /\ projected[id] # NoEvent /\ ~UpcastBeforeSending(id) =>
                    ExactFor(projected[id].build, projected[id].event)
               /\ \A build \in Builds : Decodes(build, store[id]) =>
                    ExactFor(build, DecodeBSONEvent(build, store[id].schema, store[id].data))
    BY DEF ShapeIsExact
  <2>2. id \in Ids
    BY <1>1, BoundsAssumption DEF IInv, TypeOK, Ids
  <2> QED BY <1>1, <2>2, StoredIsExact DEF IInv, ProjectedIsExact
<1> QED BY <1>1, EvolutionInvariance, PTL
=============================================================================
