------------------------------- MODULE Codec -------------------------------
(***************************************************************************)
(* The event codec of cqrs-core: which stored or sent payloads a build can *)
(* decode, and which upcasters it runs on them.                            *)
(*                                                                         *)
(* A build's registration of an event type is [current, upcasters]: the    *)
(* schema version of its Go struct and the versions it has a step from.  A *)
(* payload is the schema version it was written in and the steps applied   *)
(* to it since; what a step does to the fields is left out.                *)
(***************************************************************************)
EXTENDS Integers, Sequences

InitialSchemaVersion == 1

\* Register takes any current version, RegisterUpcaster panics below version 1.
Registrations ==
  [current : Nat \ {0}, upcasters : SUBSET (Nat \ {0})]

\* Mutant of normalizeSchemaVersion: a missing version stays zero.
BugKeepsZero(version) == version

normalizeSchemaVersion(version) ==
  IF version <= 0 THEN InitialSchemaVersion ELSE version

\* decodeEvent: the outer version, or else the one at the document's top level.
SourceVersion(outer, topLevel) ==
  normalizeSchemaVersion(IF outer <= 0 THEN topLevel ELSE outer)

\* Mutant of Upcastable: a payload newer than the build is let through.
BugNewerAccepted(reg, from) ==
  \A version \in from .. reg.current - 1 : version \in reg.upcasters

\* upcastDocument fails on a newer payload and on a gap in the chain.
Upcastable(reg, from) ==
  /\ from <= reg.current
  /\ \A version \in from .. reg.current - 1 : version \in reg.upcasters

UpcastSteps(reg, from) == [i \in 1 .. reg.current - from |-> from + i - 1]

\* EnsureSchemaVersion: an unstamped event gets the build's current version.
EnsureSchemaVersion(reg, stamp) == IF stamp > 0 THEN stamp ELSE reg.current

(* JSON puts the fields of the embedded BaseEventData at the top level, so  *)
(* the version that upcastDocument reads and writes there is the event's.   *)

DecodesJSON(reg, schema, payload) ==
  Upcastable(reg, SourceVersion(schema, payload.stamp))

DecodeJSONEvent(reg, schema, payload) ==
  [payload EXCEPT
     !.steps = @ \o UpcastSteps(reg, SourceVersion(schema, payload.stamp)),
     !.stamp = reg.current]

(* BSON keeps the embedded struct as a document of its own (it has no inline *)
(* tag): the top level has no version to read, and the one written there is  *)
(* not the event's.                                                          *)

DecodesBSON(reg, schema) == Upcastable(reg, SourceVersion(schema, 0))

DecodeBSONEvent(reg, schema, payload) ==
  [payload EXCEPT
     !.steps = @ \o UpcastSteps(reg, SourceVersion(schema, 0)),
     !.stamp = EnsureSchemaVersion(reg, @)]

\* Each step from the version it was written in to the struct of reg, once.
ExactFor(reg, payload) ==
  /\ payload.written + Len(payload.steps) = reg.current
  /\ \A i \in DOMAIN payload.steps : payload.steps[i] = payload.written + i - 1
=============================================================================
