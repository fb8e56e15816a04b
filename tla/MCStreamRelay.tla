--------------------------- MODULE MCStreamRelay ---------------------------
(* TLC instances of StreamRelay.                                            *)
EXTENDS StreamRelay, TLC

CONSTANTS i1, i2

\* One entry of each kind that a stream gets past, and one that wedges it.
Mixed == (1 :> "ok") @@ (2 :> "undated") @@ (3 :> "other") @@ (4 :> "unsendable")
           @@ (5 :> "garbled")
AllOk == [p \in 1..MaxHead |-> "ok"]
=============================================================================
