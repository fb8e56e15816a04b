-------------------------- MODULE MCSequenceRelay --------------------------
(* TLC instances of SequenceRelay.                                          *)
EXTENDS SequenceRelay, TLC

CONSTANTS i1, i2, g1, g2

\* One group served by two instances.
TwoReplicas == (i1 :> g1) @@ (i2 :> g1)
\* A single instance.
OneReplica == i1 :> g1
\* Two groups, one instance each.
TwoGroups == (i1 :> g1) @@ (i2 :> g2)

\* What the published messages are.
AllOk == [m \in 1..MaxMsgs |-> "ok"]
UnsendableThenOk == [m \in 1..MaxMsgs |-> IF m = 1 THEN "unsendable" ELSE "ok"]
PoisonThenOk == [m \in 1..MaxMsgs |-> IF m = 1 THEN "poison" ELSE "ok"]
OnePoisonOneUnsendable == [m \in 1..MaxMsgs |-> CASE m = 2 -> "poison"
                                                  [] m = 3 -> "unsendable"
                                                  [] OTHER -> "ok"]
=============================================================================
