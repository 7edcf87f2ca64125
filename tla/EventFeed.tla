------------------------------ MODULE EventFeed ------------------------------
(***************************************************************************)
(* What the outbox promises to the readers of the WalletEvents topic, with *)
(* no MongoDB, no broker and no failure in sight: every event of a wallet  *)
(* is fed to them, in the order of the wallet's stream, none left out.     *)
(* Redelivery of the event fed last is a stuttering step.                  *)
(***************************************************************************)
EXTENDS Naturals, Sequences

CONSTANT Wallets

VARIABLES
  stored,  \* stored[w]: how many events the stream of w has
  fed      \* fed[w]: the versions readers got, repetitions of the last removed

feedVars == <<stored, fed>>

Init ==
  /\ stored = [w \in Wallets |-> 0]
  /\ fed = [w \in Wallets |-> <<>>]

Store(w) ==
  /\ stored' = [stored EXCEPT ![w] = @ + 1]
  /\ UNCHANGED fed

Feed(w) ==
  /\ Len(fed[w]) < stored[w]
  /\ fed' = [fed EXCEPT ![w] = Append(@, Len(@))]
  /\ UNCHANGED stored

Next == \E w \in Wallets : Store(w) \/ Feed(w)

Spec == Init /\ [][Next]_feedVars

FairSpec == Spec /\ \A w \in Wallets : WF_feedVars(Feed(w))
=============================================================================
