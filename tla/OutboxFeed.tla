----------------------------- MODULE OutboxFeed -----------------------------
(***************************************************************************)
(* The outbox implements EventFeed: seen from the topic, each wallet's     *)
(* events come in stream order, none left out, and all of them in the end. *)
(***************************************************************************)
EXTENDS Outbox

\* What a reader who follows wallet w has got once message d is behind him: a
\* repetition of the last version says nothing new.
AfterMessage(got, d, w) ==
  IF d.aggregate # w \/ (got # <<>> /\ Last(got) = d.version)
  THEN got
  ELSE Append(got, d.version)

Fed(log, w) ==
  LET fed[n \in 0 .. Len(log)] ==
        IF n = 0 THEN <<>> ELSE AfterMessage(fed[n - 1], log[n], w)
  IN  fed[Len(log)]

\* The versions of w in its partition, immediate repetitions removed.
FedVersions(w) == Fed(topic[PartitionOf[w]], w)

Feed == INSTANCE EventFeed WITH
  stored <- [w \in Wallets |-> Cardinality({d \in store : d.aggregate = w})],
  fed    <- [w \in Wallets |-> FedVersions(w)]

\* Every step of writers, publisher, failures and restarts is a step of the
\* feed or a stutter, and the feed's fairness follows from the publisher's.
ImplementsFeed == Feed!FairSpec
=============================================================================
