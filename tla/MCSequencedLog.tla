--------------------------- MODULE MCSequencedLog ---------------------------
(* TLC instances of SequencedLog.                                           *)
EXTENDS SequencedLog, TLC

\* Transactions, events and sequencers are interchangeable.
Symmetry == Permutations(Txns) \cup Permutations(Events) \cup Permutations(Sequencers)
=============================================================================
