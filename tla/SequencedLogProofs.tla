------------------------- MODULE SequencedLogProofs -------------------------
(***************************************************************************)
(* Proofs about SequencedLog, for every number of transactions, events and *)
(* sequencers, every page size and every number of failed passes.          *)
(*                                                                         *)
(* None of the ordering properties is inductive by itself: what a pass     *)
(* will commit was decided several round trips earlier, from a snapshot    *)
(* that publishers have moved past since.  The inductive invariant IInv    *)
(* therefore says of the uncommitted page what the properties say of the   *)
(* log, and why nothing a publisher does later can change it.              *)
(***************************************************************************)
EXTENDS SequencedLog, FiniteSetTheorems, TLAPS

(***************************************************************************)
(* The inductive invariant.                                                *)
(***************************************************************************)

\* Timestamps: PD's are unique and increasing, and a transaction commits
\* after it began.
TsInv ==
    /\ \A t \in Txns :
         /\ startTs[t] <= tso /\ commitTs[t] <= tso
         /\ txState[t] = "idle" => startTs[t] = 0
         /\ txState[t] \in {"open", "committed"} => startTs[t] # 0
         /\ commitTs[t] # 0 <=> txState[t] = "committed"
         /\ commitTs[t] # 0 => startTs[t] < commitTs[t]
    /\ \A t, u \in Txns : startTs[t] # 0 /\ startTs[t] = startTs[u] => t = u

\* Rows: only a living transaction has any, ids are unique, and within a
\* transaction they follow the order of emission.
RowInv ==
    /\ \A t \in Txns : \A e \in RowsOf(t) :
         /\ txState[t] \in {"open", "committed"}
         /\ emitNo[e] <= Cardinality(RowsOf(t))
    /\ \A d, e \in Events :
         insertedBy[d] # None /\ insertedBy[e] # None /\ rowId[d] = rowId[e] => d = e
    /\ \A d, e \in Events :
         insertedBy[d] # None /\ insertedBy[d] = insertedBy[e] /\ emitNo[d] < emitNo[e]
           => rowId[d] < rowId[e]

\* The counter row: one pass at a time is past the lock, and it holds the
\* committed value.
LockInv ==
    \A s \in Sequencers :
        /\ lockedBy = s <=> pc[s] \in {"locked", "assigned", "commit"}
        /\ lockedBy = s => next[s] = nextSeq
        /\ pc[s] \in {"idle", "begin", "locked"} => page[s] = NoPage
        /\ pc[s] = "commit" => bumped[s] = next[s] + Cardinality(Assigned(s))

\* The log: sequenced rows are visible, distinct and fill the values below
\* the counter.
LogInv ==
    /\ \A e \in Events : seq[e] # 0 => e \in Visible /\ seq[e] < nextSeq
    /\ \A d, e \in Events : seq[d] # 0 /\ seq[d] = seq[e] => d = e
    /\ \A n \in 1..(nextSeq - 1) : \E e \in Events : seq[e] = n

\* d is a predecessor of e, by causality or by emission.
Precedes(d, e) ==
    \/ HappensBefore(d, e)
    \/ insertedBy[d] # None /\ insertedBy[d] = insertedBy[e] /\ emitNo[d] < emitNo[e]

\* The uncommitted page: pending rows on distinct values from the counter up,
\* without gaps, each behind all its predecessors.
PageOk(s) ==
    /\ \A e \in Assigned(s) :
         /\ e \in Pending
         /\ page[s][e] \in next[s]..(next[s] + Cardinality(Assigned(s)) - 1)
    /\ \A d, e \in Assigned(s) : page[s][d] = page[s][e] => d = e
    /\ \A n \in next[s]..(next[s] + Cardinality(Assigned(s)) - 1) :
         \E e \in Assigned(s) : page[s][e] = n
    /\ \A e \in Assigned(s), d \in Events :
         Precedes(d, e) => seq[d] # 0 \/ (d \in Assigned(s) /\ page[s][d] < page[s][e])
PageInv == \A s \in Sequencers : PageOk(s)

\* The log itself is ordered.
OrderInv ==
    \A d, e \in Events : seq[e] # 0 /\ Precedes(d, e) => seq[d] # 0 /\ seq[d] < seq[e]

IInv == TypeOK /\ TsInv /\ RowInv /\ LockInv /\ LogInv /\ PageInv /\ OrderInv
-----------------------------------------------------------------------------
(***************************************************************************)
(* The sequencer's ORDER BY.                                               *)
(***************************************************************************)

(***************************************************************************)
(* (tx_start_ts, id) is a strict total order of the visible rows: distinct *)
(* transactions have distinct start timestamps, distinct rows distinct ids.*)
(***************************************************************************)
LEMMA BeforeIsTotalOrder ==
    ASSUME TypeOK, TsInv, RowInv
    PROVE  /\ \A e \in Visible : ~Before(e, e)
           /\ \A c, d, e \in Visible : Before(c, d) /\ Before(d, e) => Before(c, e)
           /\ \A d, e \in Visible : d # e => Before(d, e) \/ Before(e, d)
<1>1. \A e \in Visible : /\ insertedBy[e] \in Txns
                         /\ startTs[insertedBy[e]] \in Nat \ {0}
                         /\ rowId[e] \in Nat
  BY SequencedLogAssumption DEF TypeOK, TsInv, Visible
<1>2. \A d, e \in Visible : d # e => rowId[d] # rowId[e]
  BY DEF RowInv, Visible
<1>3. \A d, e \in Visible :
         startTs[insertedBy[d]] = startTs[insertedBy[e]] => insertedBy[d] = insertedBy[e]
  BY <1>1 DEF TsInv
<1> QED
  BY <1>1, <1>2, <1>3 DEF Before

(***************************************************************************)
(* ROW_NUMBER() numbers the rows of a set of visible rows from 1 up, each  *)
(* number once, in ORDER BY order.                                         *)
(***************************************************************************)
LEMMA RowNumberIsRank ==
    ASSUME TypeOK, TsInv, RowInv, NEW S \in SUBSET Visible
    PROVE  /\ IsFiniteSet(S) /\ Cardinality(S) \in Nat
           /\ \A e \in S : RowNumber(e, S) \in 1..Cardinality(S)
           /\ \A d, e \in S : Before(d, e) => RowNumber(d, S) < RowNumber(e, S)
           /\ \A d, e \in S : RowNumber(d, S) = RowNumber(e, S) => d = e
           /\ \A n \in 1..Cardinality(S) : \E e \in S : RowNumber(e, S) = n
<1> DEFINE Below(e) == {d \in S : Before(d, e)}
<1>1. IsFiniteSet(S) /\ Cardinality(S) \in Nat
  BY SequencedLogAssumption, FS_Subset, FS_CardinalityType DEF Visible
<1>2. \A e \in S : IsFiniteSet(Below(e)) /\ Cardinality(Below(e)) \in Nat
  BY <1>1, FS_Subset, FS_CardinalityType
<1>3. ASSUME NEW d \in S, NEW e \in S, Before(d, e)
      PROVE  Cardinality(Below(d)) < Cardinality(Below(e))
  <2>1. Below(d) \subseteq Below(e) /\ d \in Below(e) /\ d \notin Below(d)
    BY <1>3, BeforeIsTotalOrder
  <2>2. /\ Cardinality(Below(d)) <= Cardinality(Below(e))
        /\ Cardinality(Below(e)) = Cardinality(Below(d)) => Below(e) = Below(d)
    BY <1>2, <2>1, FS_Subset
  <2> QED
    BY <1>2, <2>1, <2>2
<1>4. ASSUME NEW e \in S
      PROVE  Cardinality(Below(e)) < Cardinality(S)
  <2>1. Below(e) \subseteq S /\ e \notin Below(e)
    BY BeforeIsTotalOrder
  <2>2. /\ Cardinality(Below(e)) <= Cardinality(S)
        /\ Cardinality(S) = Cardinality(Below(e)) => S = Below(e)
    BY <1>1, <2>1, FS_Subset
  <2> QED
    BY <1>1, <1>2, <2>1, <2>2
<1>5. \A e \in S : RowNumber(e, S) = Cardinality(Below(e)) + 1
  BY DEF RowNumber
<1> HIDE DEF Below
<1>6. \A e \in S : RowNumber(e, S) \in 1..Cardinality(S)
  BY <1>1, <1>2, <1>4, <1>5
<1>7. \A d, e \in S : Before(d, e) => RowNumber(d, S) < RowNumber(e, S)
  BY <1>2, <1>3, <1>5
<1>8. \A d, e \in S : RowNumber(d, S) = RowNumber(e, S) => d = e
  BY <1>6, <1>7, BeforeIsTotalOrder
<1> DEFINE rank == [e \in S |-> RowNumber(e, S)]
<1>9. rank \in Injection(S, 1..Cardinality(S))
  BY <1>6, <1>8 DEF Injection, IsInjective
<1>10. IsFiniteSet(1..Cardinality(S)) /\ Cardinality(1..Cardinality(S)) = Cardinality(S)
  BY <1>1, FS_Interval
<1> HIDE DEF rank
<1>11. rank \in Surjection(S, 1..Cardinality(S))
  BY <1>9, <1>10, FS_Injection
<1>12. \A n \in 1..Cardinality(S) : \E e \in S : RowNumber(e, S) = n
  BY <1>11 DEF Surjection, rank
<1> QED
  BY <1>1, <1>6, <1>7, <1>8, <1>12

(***************************************************************************)
(* A predecessor of a visible row comes before it in the sequencer's order *)
(* and is visible itself.                                                  *)
(***************************************************************************)
LEMMA PrecedesIsBefore ==
    ASSUME TypeOK, TsInv, RowInv, NEW d \in Events, NEW e \in Visible, Precedes(d, e)
    PROVE  d \in Visible /\ Before(d, e)
<1>1. e \in Events /\ insertedBy[e] \in Txns /\ startTs[insertedBy[e]] \in Nat
  BY SequencedLogAssumption DEF TypeOK, Visible
<1>2. CASE HappensBefore(d, e)
  <2>1. d \in Visible /\ insertedBy[d] \in Txns
    BY <1>2, SequencedLogAssumption DEF HappensBefore, TypeOK, Visible
  <2>2. startTs[insertedBy[d]] < commitTs[insertedBy[d]]
    BY <2>1 DEF TsInv, Visible
  <2>3. commitTs[insertedBy[d]] < startTs[insertedBy[e]]
    BY <1>2 DEF HappensBefore
  <2> QED
    BY <1>1, <2>1, <2>2, <2>3 DEF Before, TypeOK
<1>3. CASE insertedBy[d] # None /\ insertedBy[d] = insertedBy[e] /\ emitNo[d] < emitNo[e]
  <2>1. d \in Visible
    BY <1>3 DEF Visible
  <2>2. rowId[d] < rowId[e]
    BY <1>1, <1>3 DEF RowInv
  <2> QED
    BY <1>1, <1>3, <2>1, <2>2 DEF Before
<1> QED
  BY <1>2, <1>3 DEF Precedes
-----------------------------------------------------------------------------
(***************************************************************************)
(* Type correctness.                                                       *)
(***************************************************************************)

\* The cardinality of a set of rows is a number: there are finitely many rows.
LEMMA RowSetsAreFinite ==
    ASSUME NEW S \in SUBSET Events
    PROVE  IsFiniteSet(S) /\ Cardinality(S) \in Nat
BY SequencedLogAssumption, FS_Subset, FS_CardinalityType

(***************************************************************************)
(* The counter a pass writes back is a positive number, which needs the    *)
(* value it has read to be one.                                            *)
(***************************************************************************)
CounterInv ==
    \A s \in Sequencers :
        /\ pc[s] \in {"locked", "assigned", "commit"} => next[s] # 0
        /\ pc[s] = "commit" => bumped[s] # 0

\* Every action, of a publisher or of a pass, keeps the variables in their types.
LEMMA TypeStep ==
    ASSUME TypeOK, CounterInv, [Next]_vars
    PROVE  TypeOK' /\ CounterInv'
<1> USE DEF TypeOK, CounterInv, PCs, TxStates, NoPage
<1>1. CASE UNCHANGED vars
  BY <1>1 DEF vars
<1>2. ASSUME NEW t \in Txns, BeginTx(t)
      PROVE  TypeOK' /\ CounterInv'
  BY <1>2 DEF BeginTx, seqVars
<1>3. ASSUME NEW t \in Txns, NEW e \in Events, NEW i \in 1..MaxId,
             CreateOutboxMessage(t, e, i)
      PROVE  TypeOK' /\ CounterInv'
  <2>1. Cardinality(RowsOf(t)) \in Nat
    BY RowSetsAreFinite DEF RowsOf
  <2>2. i \in Nat
    BY SequencedLogAssumption
  <2> QED
    BY <1>3, <2>1, <2>2 DEF CreateOutboxMessage, seqVars
<1>4. ASSUME NEW t \in Txns, CommitTx(t)
      PROVE  TypeOK' /\ CounterInv'
  BY <1>4 DEF CommitTx, seqVars
<1>5. ASSUME NEW t \in Txns, AbortTx(t)
      PROVE  TypeOK' /\ CounterInv'
  BY <1>5 DEF AbortTx, seqVars
<1>6. ASSUME NEW s \in Sequencers, Probe(s)
      PROVE  TypeOK' /\ CounterInv'
  BY <1>6 DEF Probe, pubVars
<1>7. ASSUME NEW s \in Sequencers, LockSequencer(s)
      PROVE  TypeOK' /\ CounterInv'
  BY <1>7 DEF LockSequencer, pubVars
<1>8. ASSUME NEW s \in Sequencers, AssignSeq(s)
      PROVE  TypeOK' /\ CounterInv'
  <2> DEFINE Rank(e) == RowNumber(e, Page)
  <2>1. ASSUME NEW e \in Events
        PROVE  Rank(e) \in Nat \ {0}
    <3>1. {d \in Page : Before(d, e)} \in SUBSET Events
      BY DEF Page, Pending, Visible
    <3>2. Cardinality({d \in Page : Before(d, e)}) \in Nat
      BY ONLY <3>1, RowSetsAreFinite
    <3> QED
      BY <3>2 DEF RowNumber
  <2>2. page' = [page EXCEPT ![s] =
                   [e \in Events |-> IF e \in Page THEN next[s] + Rank(e) - 1 ELSE 0]]
    BY <1>8 DEF AssignSeq
  <2> HIDE DEF Rank
  <2>3. [e \in Events |-> IF e \in Page THEN next[s] + Rank(e) - 1 ELSE 0]
          \in [Events -> Nat]
    <3>1. next[s] \in Nat
      OBVIOUS
    <3>2. \A e \in Events : next[s] + Rank(e) - 1 \in Nat
      BY ONLY <2>1, <3>1
    <3> QED
      BY ONLY <3>2
  <2>4. page' \in [Sequencers -> [Events -> Nat]]
    BY <2>2, <2>3
  <2> QED
    BY <1>8, <2>4 DEF AssignSeq, pubVars
<1>9. ASSUME NEW s \in Sequencers, BumpSequencer(s)
      PROVE  TypeOK' /\ CounterInv'
  <2>1. Cardinality(Assigned(s)) \in Nat
    BY RowSetsAreFinite DEF Assigned
  <2> QED
    BY <1>9, <2>1 DEF BumpSequencer, pubVars
<1>10. ASSUME NEW s \in Sequencers, CommitSequence(s)
       PROVE  TypeOK' /\ CounterInv'
  BY <1>10 DEF CommitSequence, pubVars
<1>11. ASSUME NEW s \in Sequencers, FailSequence(s)
       PROVE  TypeOK' /\ CounterInv'
  BY <1>11 DEF FailSequence, pubVars
<1> QED
  BY <1>1, <1>2, <1>3, <1>4, <1>5, <1>6, <1>7, <1>8, <1>9, <1>10, <1>11
     DEF Next, Publisher, SequenceStep

(***************************************************************************)
(* Type correctness of the store: in particular no pass ever commits a     *)
(* counter of 0, the value next_seq must not have.                         *)
(***************************************************************************)
THEOREM TypeCorrect == Spec => []TypeOK
<1>1. Init => TypeOK /\ CounterInv
  BY SequencedLogAssumption
     DEF Init, TypeOK, CounterInv, NoPage, PCs, TxStates
<1>2. TypeOK /\ CounterInv /\ [Next]_vars => TypeOK' /\ CounterInv'
  BY TypeStep
<1> QED
  BY <1>1, <1>2, PTL DEF Spec
-----------------------------------------------------------------------------
(***************************************************************************)
(* Steps of publishers.                                                    *)
(***************************************************************************)

\* The four steps of a publisher keep timestamps in order.
LEMMA PublisherTs ==
    ASSUME IInv, NEW t \in Txns, Publisher(t)
    PROVE  TsInv'
<1> USE DEF IInv, TypeOK, TsInv, TxStates
<1>1. CASE BeginTx(t)
  BY <1>1 DEF BeginTx
<1>2. CASE \E e \in Events, i \in 1..MaxId : CreateOutboxMessage(t, e, i)
  BY <1>2 DEF CreateOutboxMessage
<1>3. CASE CommitTx(t)
  BY <1>3 DEF CommitTx
<1>4. CASE AbortTx(t)
  BY <1>4 DEF AbortTx
<1> QED
  BY <1>1, <1>2, <1>3, <1>4 DEF Publisher

(***************************************************************************)
(* Publishers cannot disturb what a sequencing pass relies on: a visible   *)
(* row stays as it is and gains no predecessor, because a transaction that *)
(* commits now commits after every transaction that has a visible row      *)
(* began.                                                                  *)
(***************************************************************************)
LEMMA PublisherFrame ==
    ASSUME IInv, NEW t \in Txns, Publisher(t)
    PROVE  /\ UNCHANGED seqVars
           /\ \A e \in Visible : e \in Visible'
           /\ \A e \in Visible, d \in Events : Precedes(d, e)' => Precedes(d, e)
<1> USE SequencedLogAssumption
<1>0. \A e \in Visible : /\ e \in Events /\ insertedBy[e] \in Txns /\ insertedBy[e] # None
                         /\ txState[insertedBy[e]] = "committed"
                         /\ commitTs[insertedBy[e]] # 0
                         /\ startTs[insertedBy[e]] <= tso
  BY DEF IInv, TypeOK, TsInv, Visible
<1>1. CASE BeginTx(t)
  BY <1>0, <1>1 DEF BeginTx, IInv, TypeOK, Visible, Precedes, HappensBefore
<1>2. ASSUME NEW e0 \in Events, NEW i \in 1..MaxId, CreateOutboxMessage(t, e0, i)
      PROVE  /\ UNCHANGED seqVars
             /\ \A e \in Visible : e \in Visible'
             /\ \A e \in Visible, d \in Events : Precedes(d, e)' => Precedes(d, e)
  <2>1. \A e \in Visible : e # e0 /\ insertedBy[e] # t
    BY <1>0, <1>2 DEF CreateOutboxMessage, Visible
  <2>2. commitTs[t] = 0
    BY <1>2 DEF CreateOutboxMessage, IInv, TsInv
  <2>3. \A d \in Events : d \in Visible' => d # e0
    BY <1>2, <2>2 DEF CreateOutboxMessage, IInv, TypeOK, Visible
  <2> QED
    BY <1>0, <1>2, <2>1, <2>2, <2>3
       DEF CreateOutboxMessage, IInv, TypeOK, Visible, Precedes, HappensBefore
<1>3. CASE CommitTx(t)
  <2>1. \A e \in Visible : insertedBy[e] # t
    BY <1>0, <1>3 DEF CommitTx
  <2> QED
    BY <1>0, <1>3, <2>1 DEF CommitTx, IInv, TypeOK, Visible, Precedes, HappensBefore
<1>4. CASE AbortTx(t)
  <2>1. \A e \in Visible : insertedBy[e] # t
    BY <1>0, <1>4 DEF AbortTx
  <2> QED
    BY <1>0, <1>4, <2>1 DEF AbortTx, IInv, TypeOK, Visible, Precedes, HappensBefore
<1> QED
  BY <1>1, <1>2, <1>3, <1>4 DEF Publisher

\* Ids stay unique, and in the order of emission within a transaction.
LEMMA PublisherRows ==
    ASSUME IInv, NEW t \in Txns, Publisher(t)
    PROVE  RowInv'
<1> USE SequencedLogAssumption
<1>1. CASE BeginTx(t)
  <2>1. \A u : RowsOf(u)' = RowsOf(u)
    BY <1>1 DEF BeginTx, RowsOf
  <2> QED
    BY <1>1, <2>1 DEF BeginTx, IInv, TypeOK, TsInv, RowInv
<1>2. ASSUME NEW e0 \in Events, NEW i \in 1..MaxId, CreateOutboxMessage(t, e0, i)
      PROVE  RowInv'
  <2>1. /\ RowsOf(t)' = RowsOf(t) \cup {e0} /\ e0 \notin RowsOf(t)
        /\ \A u \in Txns \ {t} : RowsOf(u)' = RowsOf(u)
    BY <1>2 DEF CreateOutboxMessage, RowsOf, IInv, TypeOK
  <2>2. /\ Cardinality(RowsOf(t)) \in Nat
        /\ Cardinality(RowsOf(t)') = Cardinality(RowsOf(t)) + 1
    BY <2>1, RowSetsAreFinite, FS_AddElement DEF RowsOf
  <2>3. /\ insertedBy' = [insertedBy EXCEPT ![e0] = t]
        /\ rowId' = [rowId EXCEPT ![e0] = i]
        /\ emitNo' = [emitNo EXCEPT ![e0] = Cardinality(RowsOf(t)) + 1]
        /\ txState' = txState /\ txState[t] = "open" /\ insertedBy[e0] = None
        /\ \A d \in Events : insertedBy[d] # None => rowId[d] # i
        /\ \A d \in Events : insertedBy[d] = t => rowId[d] < i
    BY <1>2 DEF CreateOutboxMessage, RowsOf
  <2>4. ASSUME NEW u \in Txns, NEW e \in RowsOf(u)'
        PROVE  /\ txState'[u] \in {"open", "committed"}
               /\ emitNo'[e] <= Cardinality(RowsOf(u)')
    <3>1. CASE e = e0
      BY <2>2, <2>3, <2>4, <3>1 DEF IInv, TypeOK, RowsOf
    <3>2. CASE e # e0 /\ u = t
      <4>1. e \in RowsOf(t) /\ emitNo'[e] = emitNo[e] /\ emitNo[e] \in Nat
        BY <2>3, <2>4, <3>2 DEF IInv, TypeOK, RowsOf
      <4> QED
        BY <2>2, <2>3, <3>2, <4>1 DEF IInv, RowInv
    <3>3. CASE e # e0 /\ u # t
      <4>1. e \in RowsOf(u) /\ emitNo'[e] = emitNo[e] /\ emitNo[e] \in Nat
        BY <2>3, <2>4, <3>3 DEF IInv, TypeOK, RowsOf
      <4> QED
        BY <2>1, <2>3, <3>3, <4>1 DEF IInv, RowInv
    <3> QED
      BY <2>1, <2>4, <3>1, <3>2, <3>3
  <2>5. \A d, e \in Events :
          insertedBy'[d] # None /\ insertedBy'[e] # None /\ rowId'[d] = rowId'[e] => d = e
    BY <2>3 DEF IInv, TypeOK, RowInv
  <2>6. \A d, e \in Events :
          (/\ insertedBy'[d] # None /\ insertedBy'[d] = insertedBy'[e]
           /\ emitNo'[d] < emitNo'[e])
             => rowId'[d] < rowId'[e]
    <3>1. \A e \in Events : insertedBy[e] = t => emitNo[e] <= Cardinality(RowsOf(t))
      BY DEF IInv, RowInv, RowsOf
    <3> QED
      BY <2>2, <2>3, <3>1 DEF IInv, TypeOK, RowInv
  <2> QED
    BY <2>4, <2>5, <2>6 DEF RowInv
<1>3. CASE CommitTx(t)
  <2>1. \A u : RowsOf(u)' = RowsOf(u)
    BY <1>3 DEF CommitTx, RowsOf
  <2> QED
    BY <1>3, <2>1 DEF CommitTx, IInv, TypeOK, RowInv
<1>4. CASE AbortTx(t)
  <2>1. \A u \in Txns \ {t} : RowsOf(u)' = RowsOf(u)
    BY <1>4 DEF AbortTx, RowsOf, IInv, TypeOK
  <2>2. \A e \in Events : insertedBy'[e] # None =>
           /\ insertedBy'[e] = insertedBy[e] /\ insertedBy[e] \in Txns \ {t}
           /\ rowId'[e] = rowId[e] /\ emitNo'[e] = emitNo[e]
    BY <1>4 DEF AbortTx, IInv, TypeOK
  <2>3. RowsOf(t)' = {}
    BY <1>4 DEF AbortTx, RowsOf, IInv, TypeOK
  <2>4. \A u \in Txns \ {t} : txState'[u] = txState[u]
    BY <1>4 DEF AbortTx, IInv, TypeOK
  <2>5. \A u \in Txns \ {t} : \A e \in RowsOf(u) : emitNo'[e] = emitNo[e]
    BY <2>1, <2>2 DEF RowsOf
  <2>6. \A u \in Txns : \A e \in RowsOf(u)' :
          /\ txState'[u] \in {"open", "committed"}
          /\ emitNo'[e] <= Cardinality(RowsOf(u)')
    BY <2>1, <2>3, <2>4, <2>5 DEF IInv, RowInv
  <2>7. /\ \A d, e \in Events :
            insertedBy'[d] # None /\ insertedBy'[e] # None /\ rowId'[d] = rowId'[e] => d = e
        /\ \A d, e \in Events :
            (/\ insertedBy'[d] # None /\ insertedBy'[d] = insertedBy'[e]
             /\ emitNo'[d] < emitNo'[e])
               => rowId'[d] < rowId'[e]
    BY <2>2 DEF IInv, RowInv
  <2> QED
    BY <2>6, <2>7 DEF RowInv
<1> QED
  BY <1>1, <1>2, <1>3, <1>4 DEF Publisher

\* The counter facts of type correctness follow from the lock discipline.
LEMMA CounterFromLock ==
    ASSUME IInv
    PROVE  CounterInv
<1> SUFFICES ASSUME NEW s \in Sequencers, pc[s] \in {"locked", "assigned", "commit"}
             PROVE  next[s] # 0 /\ (pc[s] = "commit" => bumped[s] # 0)
  BY DEF CounterInv
<1>1. next[s] \in Nat \ {0}
  BY DEF IInv, TypeOK, LockInv
<1>2. Cardinality(Assigned(s)) \in Nat
  BY RowSetsAreFinite DEF Assigned
<1> QED
  BY <1>1, <1>2 DEF IInv, LockInv

\* Beginning, emitting in, committing and aborting a transaction preserve IInv.
LEMMA PublisherStep ==
    ASSUME IInv, NEW t \in Txns, Publisher(t)
    PROVE  IInv'
<1>1. TypeOK'
  BY CounterFromLock, TypeStep DEF IInv, Next
<1>2. TsInv' /\ RowInv'
  BY PublisherTs, PublisherRows
<1>3. /\ seq' = seq /\ nextSeq' = nextSeq /\ lockedBy' = lockedBy /\ pc' = pc
      /\ next' = next /\ page' = page /\ bumped' = bumped
  BY PublisherFrame DEF seqVars
<1>4. \A s : Assigned(s)' = Assigned(s)
  BY <1>3 DEF Assigned
<1>5. LockInv'
  BY <1>3, <1>4 DEF IInv, LockInv
<1>6. LogInv'
  BY <1>3, PublisherFrame DEF IInv, LogInv
<1>7. PageInv'
  <2> SUFFICES ASSUME NEW s \in Sequencers
               PROVE  PageOk(s)'
    BY DEF PageInv
  <2>1. PageOk(s)
    BY DEF IInv, PageInv
  <2>2. \A e \in Assigned(s) : e \in Visible /\ e \in Pending'
    BY <1>3, <2>1, PublisherFrame DEF PageOk, Pending
  <2>3. \A e \in Assigned(s), d \in Events : Precedes(d, e)' => Precedes(d, e)
    BY <2>2, PublisherFrame
  <2> QED
    BY <1>3, <1>4, <2>1, <2>2, <2>3 DEF PageOk
<1>8. OrderInv'
  <2>1. \A e \in Events : seq[e] # 0 => e \in Visible
    BY DEF IInv, LogInv
  <2> QED
    BY <1>3, <2>1, PublisherFrame DEF IInv, OrderInv
<1> QED
  BY <1>1, <1>2, <1>5, <1>6, <1>7, <1>8 DEF IInv
-----------------------------------------------------------------------------
(***************************************************************************)
(* Steps of a sequencing pass.                                             *)
(***************************************************************************)

\* A pass leaves transactions and the identity of rows alone.
LEMMA PassFrame ==
    ASSUME IInv, UNCHANGED pubVars
    PROVE  /\ TsInv' /\ RowInv'
           /\ Visible' = Visible
           /\ \A d, e \in Events : Precedes(d, e)' = Precedes(d, e)
<1>1. \A u : RowsOf(u)' = RowsOf(u)
  BY DEF pubVars, RowsOf
<1>2. TsInv'
  BY DEF pubVars, IInv, TsInv
<1>3. RowInv'
  BY <1>1 DEF pubVars, IInv, RowInv
<1>4. Visible' = Visible
  BY DEF pubVars, Visible
<1> QED
  BY <1>2, <1>3, <1>4 DEF pubVars, Precedes, HappensBefore

\* Only the holder of the counter row has an uncommitted page.
LEMMA OnePage ==
    ASSUME IInv, NEW s \in Sequencers, lockedBy # s
    PROVE  Assigned(s) = {} /\ page[s] = NoPage
<1>1. pc[s] \in {"idle", "begin"}
  BY DEF IInv, TypeOK, LockInv, PCs
<1> QED
  BY <1>1 DEF IInv, LockInv, Assigned, NoPage

\* A pass that has assigned nothing.
LEMMA EmptyPage ==
    ASSUME TypeOK', NEW s \in Sequencers, Assigned(s)' = {}
    PROVE  PageOk(s)'
<1>1. Cardinality(Assigned(s)') = 0 /\ next'[s] \in Nat
  BY FS_EmptySet DEF TypeOK
<1>2. next'[s]..(next'[s] + Cardinality(Assigned(s)') - 1) = {}
  BY <1>1
<1> QED
  BY <1>2 DEF PageOk

\* A step that moves neither the log nor a page.
LEMMA LogUnmoved ==
    ASSUME IInv, TypeOK', UNCHANGED pubVars, seq' = seq, nextSeq' = nextSeq,
           \A s \in Sequencers :
               \/ page'[s] = NoPage
               \/ page'[s] = page[s] /\ next'[s] = next[s]
    PROVE  LogInv' /\ PageInv' /\ OrderInv'
<1>1. LogInv' /\ OrderInv'
  BY PassFrame DEF IInv, LogInv, OrderInv
<1>2. Pending' = Pending
  BY PassFrame DEF Pending
<1>3. ASSUME NEW s \in Sequencers
      PROVE  PageOk(s)'
  <2>1. CASE page'[s] = NoPage
    <3>1. Assigned(s)' = {}
      BY <2>1 DEF Assigned, NoPage
    <3> QED
      BY <3>1, EmptyPage
  <2>2. CASE page'[s] = page[s] /\ next'[s] = next[s]
    <3>1. Assigned(s)' = Assigned(s) /\ Assigned(s) \subseteq Events
      BY <2>2 DEF Assigned
    <3>2. PageOk(s)
      BY DEF IInv, PageInv
    <3> QED
      BY <1>2, <2>2, <3>1, <3>2, PassFrame DEF PageOk
  <2> QED
    BY <2>1, <2>2
<1> QED
  BY <1>1, <1>3 DEF PageInv

(***************************************************************************)
(* The heart of the argument.  The page AssignSeq writes is ordered: all   *)
(* predecessors of a row it takes either have a seq already or are taken   *)
(* too, on a smaller value, because LIMIT cuts the pending rows in the     *)
(* order in which ROW_NUMBER() numbers them.                               *)
(***************************************************************************)
LEMMA AssignedPage ==
    ASSUME IInv, TypeOK', NEW s \in Sequencers, AssignSeq(s)
    PROVE  PageInv'
<1> DEFINE Rank(e) == RowNumber(e, Page)
<1>1. Page \in SUBSET Visible /\ Pending \in SUBSET Visible /\ Page \subseteq Pending
  BY DEF Page, Pending
<1>2. /\ Cardinality(Page) \in Nat
      /\ \A e \in Page : Rank(e) \in 1..Cardinality(Page)
      /\ \A d, e \in Page : Before(d, e) => Rank(d) < Rank(e)
      /\ \A d, e \in Page : Rank(d) = Rank(e) => d = e
  BY <1>1, RowNumberIsRank DEF IInv
<1>2a. \A n \in 1..Cardinality(Page) : \E e \in Page : Rank(e) = n
  BY <1>1, RowNumberIsRank DEF IInv
<1>2b. /\ Cardinality(Pending) \in Nat
       /\ \A e \in Pending : RowNumber(e, Pending) \in 1..Cardinality(Pending)
       /\ \A d, e \in Pending : Before(d, e) => RowNumber(d, Pending) < RowNumber(e, Pending)
  BY <1>1, RowNumberIsRank DEF IInv
<1>3. \A d \in Pending, e \in Page : Before(d, e) => d \in Page
  <2> SUFFICES ASSUME NEW d \in Pending, NEW e \in Page, Before(d, e)
               PROVE  d \in Page
    OBVIOUS
  <2>1. /\ RowNumber(d, Pending) < RowNumber(e, Pending)
        /\ RowNumber(d, Pending) \in Nat /\ RowNumber(e, Pending) \in Nat
    BY <1>1, <1>2b
  <2>2. RowNumber(e, Pending) <= Limit
    BY DEF Page
  <2> QED
    BY <2>1, <2>2, SequencedLogAssumption DEF Page
<1>4. /\ lockedBy = s /\ next[s] = nextSeq /\ next[s] \in Nat \ {0}
      /\ seq' = seq /\ next' = next
      /\ page' = [page EXCEPT ![s] =
                    [e \in Events |-> IF e \in Page THEN next[s] + Rank(e) - 1 ELSE 0]]
      /\ UNCHANGED pubVars
  BY DEF IInv, TypeOK, LockInv, AssignSeq
<1> HIDE DEF Rank
<1>5. \A e \in Events : page'[s][e] = IF e \in Page THEN next[s] + Rank(e) - 1 ELSE 0
  BY <1>4 DEF IInv, TypeOK
<1>6. Assigned(s)' = Page
  <2>1. Page \subseteq Events
    BY <1>1 DEF Visible
  <2>2. Assigned(s)' = {e \in Events : page'[s][e] # 0}
    BY DEF Assigned
  <2> QED
    BY <1>2, <1>4, <1>5, <2>1, <2>2
<1>7. \A e \in Page : /\ e \in Events /\ e \in Pending'
                      /\ page'[s][e] = next[s] + Rank(e) - 1
  BY <1>1, <1>4, <1>5, PassFrame DEF Pending, Visible
<1>8. \A e \in Page, d \in Events : Precedes(d, e)' => seq[d] # 0 \/ (d \in Page /\ Rank(d) < Rank(e))
  <2> SUFFICES ASSUME NEW e \in Page, NEW d \in Events, Precedes(d, e)
               PROVE  seq[d] # 0 \/ (d \in Page /\ Rank(d) < Rank(e))
    BY <1>4, <1>7, PassFrame
  <2>1. d \in Visible /\ Before(d, e)
    BY <1>1, PrecedesIsBefore DEF IInv
  <2> QED
    BY <1>2, <1>3, <2>1 DEF Pending
<1>9. ASSUME NEW u \in Sequencers \ {s}
      PROVE  PageOk(u)'
  <2>1. Assigned(u) = {}
    BY <1>4, OnePage
  <2>2. Assigned(u)' = Assigned(u)
    BY <1>4 DEF Assigned, IInv, TypeOK
  <2> QED
    BY <2>1, <2>2, EmptyPage
<1>10. PageOk(s)'
  <2>1. \A e \in Page : Rank(e) \in Nat
    BY <1>2
  <2>2. \A e \in Page : page'[s][e] \in next[s]..(next[s] + Cardinality(Page) - 1)
    BY <1>2, <1>4, <1>7, <2>1
  <2>3. \A d, e \in Page : page'[s][d] = page'[s][e] => d = e
    BY <1>2, <1>4, <1>7, <2>1
  <2>4. \A d, e \in Page : Rank(d) < Rank(e) => page'[s][d] < page'[s][e]
    BY <1>4, <1>7, <2>1
  <2>5. ASSUME NEW n \in next[s]..(next[s] + Cardinality(Page) - 1)
        PROVE  \E e \in Page : page'[s][e] = n
    <3>1. n - next[s] + 1 \in 1..Cardinality(Page)
      BY <1>2, <1>4
    <3>2. PICK e \in Page : Rank(e) = n - next[s] + 1
      BY <1>2a, <3>1
    <3>3. page'[s][e] = next[s] + Rank(e) - 1
      BY <1>7
    <3>4. page'[s][e] = n
      <4>1. next[s] \in Int /\ n \in Int
        BY <1>4
      <4> QED
        BY ONLY <4>1, <3>2, <3>3
    <3> QED
      BY <3>4
  <2> QED
    BY <1>4, <1>6, <1>7, <1>8, <2>2, <2>3, <2>4, <2>5 DEF PageOk
<1> QED
  BY <1>9, <1>10 DEF PageInv

(***************************************************************************)
(* COMMIT appends the page to the log: its values start at the counter,    *)
(* above every value in the log, and its order becomes the log's.          *)
(***************************************************************************)
LEMMA CommittedLog ==
    ASSUME IInv, TypeOK', NEW s \in Sequencers, CommitSequence(s)
    PROVE  LogInv' /\ PageInv' /\ OrderInv'
<1>1. /\ lockedBy = s /\ next[s] = nextSeq /\ nextSeq \in Nat \ {0}
      /\ nextSeq' = next[s] + Cardinality(Assigned(s))
      /\ Cardinality(Assigned(s)) \in Nat
      /\ page' = [page EXCEPT ![s] = NoPage]
      /\ UNCHANGED pubVars
  BY RowSetsAreFinite DEF CommitSequence, IInv, TypeOK, LockInv, Assigned
<1>2. \A e \in Events : /\ seq[e] \in Nat /\ page[s][e] \in Nat
                        /\ e \in Assigned(s) <=> page[s][e] # 0
                        /\ e \in Assigned(s) => seq'[e] = page[s][e]
                        /\ e \notin Assigned(s) => seq'[e] = seq[e]
  BY DEF CommitSequence, Assigned, IInv, TypeOK
<1>3. \A e \in Assigned(s) : /\ e \in Events /\ e \in Visible /\ seq[e] = 0
                             /\ nextSeq <= page[s][e] /\ page[s][e] < nextSeq'
  BY <1>1, <1>2 DEF IInv, PageInv, PageOk, Pending, Assigned
<1>4. \A e \in Events : seq[e] # 0 => e \in Visible /\ seq[e] < nextSeq
  BY DEF IInv, LogInv
<1>5. LogInv'
  <2>1. \A e \in Events : seq'[e] # 0 => e \in Visible' /\ seq'[e] < nextSeq'
    BY <1>1, <1>2, <1>3, <1>4, PassFrame
  <2>2. \A d, e \in Events : seq'[d] # 0 /\ seq'[d] = seq'[e] => d = e
    BY <1>1, <1>2, <1>3, <1>4 DEF IInv, LogInv, PageInv, PageOk
  <2>3. ASSUME NEW n \in 1..(nextSeq' - 1)
        PROVE  \E e \in Events : seq'[e] = n
    <3>1. CASE n < nextSeq
      <4>1. PICK e \in Events : seq[e] = n
        BY <1>1, <3>1 DEF IInv, LogInv
      <4>2. e \notin Assigned(s)
        BY <1>3, <4>1
      <4> QED
        BY <1>2, <4>1, <4>2
    <3>2. CASE nextSeq <= n
      <4>0. n \in next[s]..(next[s] + Cardinality(Assigned(s)) - 1)
        BY <1>1, <3>2
      <4>1. PICK e \in Assigned(s) : page[s][e] = n
        BY <4>0 DEF IInv, PageInv, PageOk
      <4> QED
        BY <1>2, <1>3, <4>1
    <3> QED
      BY <1>1, <3>1, <3>2
  <2> QED
    BY <2>1, <2>2, <2>3 DEF LogInv
<1>6. OrderInv'
  <2> SUFFICES ASSUME NEW d \in Events, NEW e \in Events, seq'[e] # 0, Precedes(d, e)
               PROVE  seq'[d] # 0 /\ seq'[d] < seq'[e]
    BY <1>1, PassFrame DEF OrderInv
  <2>1. CASE e \in Assigned(s)
    <3>1. seq[d] # 0 \/ (d \in Assigned(s) /\ page[s][d] < page[s][e])
      BY <2>1 DEF IInv, PageInv, PageOk
    <3> QED
      BY <1>1, <1>2, <1>3, <1>4, <2>1, <3>1
  <2>2. CASE e \notin Assigned(s)
    <3>1. seq[d] # 0 /\ seq[d] < seq[e]
      BY <1>2, <2>2 DEF IInv, OrderInv
    <3> QED
      BY <1>2, <1>3, <2>2, <3>1
  <2> QED
    BY <2>1, <2>2
<1>7. PageInv'
  <2>1. ASSUME NEW u \in Sequencers
        PROVE  PageOk(u)'
    <3>1. page'[u] = NoPage
      BY <1>1, OnePage DEF IInv, TypeOK
    <3>2. Assigned(u)' = {}
      BY <3>1 DEF Assigned, NoPage
    <3> QED
      BY <3>2, EmptyPage
  <2> QED
    BY <2>1 DEF PageInv
<1> QED
  BY <1>5, <1>6, <1>7

\* The steps of a pass keep one pass at a time past the lock.
LEMMA PassLock ==
    ASSUME IInv, TypeOK', NEW s \in Sequencers, SequenceStep(s) \/ FailSequence(s)
    PROVE  LockInv'
<1> USE SequencedLogAssumption DEF IInv, TypeOK, LockInv, PCs
<1>1. ASSUME page' = page
      PROVE  \A u \in Sequencers : Assigned(u)' = Assigned(u)
  BY <1>1 DEF Assigned
<1>2. ASSUME NEW u \in Sequencers, u # s
      PROVE  /\ lockedBy' = u <=> pc'[u] \in {"locked", "assigned", "commit"}
             /\ lockedBy' = u => next'[u] = nextSeq'
             /\ pc'[u] \in {"idle", "begin", "locked"} => page'[u] = NoPage
             /\ pc'[u] = "commit" => bumped'[u] = next'[u] + Cardinality(Assigned(u)')
  <2>1. Assigned(u)' = Assigned(u)
    BY <1>2 DEF SequenceStep, Probe, LockSequencer, AssignSeq, BumpSequencer,
                CommitSequence, FailSequence, Assigned
  <2> QED
    BY <1>2, <2>1 DEF SequenceStep, Probe, LockSequencer, AssignSeq, BumpSequencer,
                      CommitSequence, FailSequence
<1>3. /\ lockedBy' = s <=> pc'[s] \in {"locked", "assigned", "commit"}
      /\ lockedBy' = s => next'[s] = nextSeq'
      /\ pc'[s] \in {"idle", "begin", "locked"} => page'[s] = NoPage
      /\ pc'[s] = "commit" => bumped'[s] = next'[s] + Cardinality(Assigned(s)')
  <2>1. CASE BumpSequencer(s)
    <3>1. Assigned(s)' = Assigned(s)
      BY <2>1 DEF BumpSequencer, Assigned
    <3> QED
      BY <2>1, <3>1 DEF BumpSequencer
  <2>2. CASE ~BumpSequencer(s)
    BY <2>2 DEF SequenceStep, Probe, LockSequencer, AssignSeq, CommitSequence, FailSequence
  <2> QED
    BY <2>1, <2>2
<1> QED
  BY <1>2, <1>3

\* Every round trip of a sequencing pass, and its failure, preserves IInv.
LEMMA PassStep ==
    ASSUME IInv, NEW s \in Sequencers, SequenceStep(s) \/ FailSequence(s)
    PROVE  IInv'
<1>1. TypeOK'
  BY CounterFromLock, TypeStep DEF IInv, Next
<1>2. UNCHANGED pubVars
  BY DEF SequenceStep, Probe, LockSequencer, AssignSeq, BumpSequencer,
         CommitSequence, FailSequence
<1>3. LogInv' /\ PageInv' /\ OrderInv'
  <2>1. CASE AssignSeq(s)
    <3>1. seq' = seq /\ nextSeq' = nextSeq
      BY <2>1 DEF AssignSeq
    <3>2. LogInv' /\ OrderInv'
      BY <1>2, <3>1, PassFrame DEF IInv, LogInv, OrderInv
    <3> QED
      BY <1>1, <2>1, <3>2, AssignedPage
  <2>2. CASE CommitSequence(s)
    BY <1>1, <2>2, CommittedLog
  <2>3. CASE LockSequencer(s)
    <3>1. seq' = seq /\ nextSeq' = nextSeq /\ page' = page
      BY <2>3 DEF LockSequencer
    <3>2. page[s] = NoPage
      BY <2>3 DEF LockSequencer, IInv, LockInv
    <3>3. \A u \in Sequencers : page'[u] = NoPage \/ (page'[u] = page[u] /\ next'[u] = next[u])
      BY <2>3, <3>1, <3>2 DEF LockSequencer, IInv, TypeOK
    <3> QED
      BY <1>1, <1>2, <3>1, <3>3, LogUnmoved
  <2>4. CASE Probe(s) \/ BumpSequencer(s) \/ FailSequence(s)
    <3>1. seq' = seq /\ nextSeq' = nextSeq /\ next' = next
      BY <2>4 DEF Probe, BumpSequencer, FailSequence
    <3>2. \A u \in Sequencers : page'[u] = NoPage \/ page'[u] = page[u]
      BY <2>4 DEF Probe, BumpSequencer, FailSequence, IInv, TypeOK
    <3> QED
      BY <1>1, <1>2, <3>1, <3>2, LogUnmoved
  <2> QED
    BY <2>1, <2>2, <2>3, <2>4 DEF SequenceStep
<1> QED
  BY <1>1, <1>2, <1>3, PassFrame, PassLock DEF IInv

\* A stuttering step.
LEMMA StutterStep ==
    ASSUME IInv, UNCHANGED vars
    PROVE  IInv'
<1>1. UNCHANGED pubVars /\ UNCHANGED seqVars
  BY DEF vars, pubVars, seqVars
<1>2. TypeOK'
  BY DEF vars, IInv, TypeOK
<1>3. \A s : Assigned(s)' = Assigned(s)
  BY <1>1 DEF seqVars, Assigned
<1>4. LockInv'
  BY <1>1, <1>3 DEF seqVars, IInv, LockInv
<1>5. LogInv' /\ PageInv' /\ OrderInv'
  BY <1>1, <1>2, LogUnmoved DEF seqVars
<1> QED
  BY <1>1, <1>2, <1>4, <1>5, PassFrame DEF IInv

\* The freshly migrated tables satisfy IInv.
LEMMA InitIInv ==
    ASSUME Init
    PROVE  IInv
<1> USE SequencedLogAssumption
<1>1. TypeOK /\ TsInv
  BY DEF Init, TypeOK, TsInv, TxStates, PCs, NoPage
<1>2. RowInv
  BY DEF Init, RowInv, RowsOf
<1>3. LockInv
  BY DEF Init, LockInv
<1>4. LogInv /\ OrderInv
  BY DEF Init, LogInv, OrderInv
<1>5. ASSUME NEW s \in Sequencers
      PROVE  PageOk(s)
  <2>1. Assigned(s) = {} /\ next[s] = 0
    BY <1>5 DEF Init, Assigned, NoPage
  <2>2. Cardinality(Assigned(s)) = 0
    BY <2>1, FS_EmptySet
  <2>3. next[s]..(next[s] + Cardinality(Assigned(s)) - 1) = {}
    BY <2>1, <2>2
  <2> QED
    BY <2>1, <2>3 DEF PageOk
<1> QED
  BY <1>1, <1>2, <1>3, <1>4, <1>5 DEF IInv, PageInv

(***************************************************************************)
(* IInv is an invariant.                                                   *)
(***************************************************************************)
THEOREM Invariance == Spec => []IInv
<1>1. Init => IInv
  BY InitIInv
<1>2. IInv /\ [Next]_vars => IInv'
  BY PublisherStep, PassStep, StutterStep DEF Next
<1> QED
  BY <1>1, <1>2, PTL DEF Spec

(***************************************************************************)
(* The ordering theorem: whatever publishers, sequencers and failures do,  *)
(* an event is behind all its causes in the log.                           *)
(***************************************************************************)
THEOREM CausalOrderHolds == Spec => []CausalOrder
<1>1. IInv => CausalOrder
  BY DEF IInv, OrderInv, Precedes, CausalOrder
<1> QED
  BY <1>1, Invariance, PTL

(***************************************************************************)
(* Events of one transaction are in the log in the order of emission.      *)
(***************************************************************************)
THEOREM EmitOrderHolds == Spec => []EmitOrder
<1>1. IInv => EmitOrder
  BY DEF IInv, LogInv, OrderInv, Precedes, EmitOrder, Visible
<1> QED
  BY <1>1, Invariance, PTL

(***************************************************************************)
(* The log is dense: seq values are unique and without gaps, whatever      *)
(* passes fail or contend.                                                 *)
(***************************************************************************)
THEOREM DenseLogHolds == Spec => []DenseLog
<1>1. ASSUME IInv
      PROVE  DenseLog
  <2>1. \A e \in Events : seq[e] \in Nat /\ nextSeq \in Nat \ {0}
    BY <1>1 DEF IInv, TypeOK
  <2>2. \A e \in Events : seq[e] # 0 => seq[e] \in 1..(nextSeq - 1)
    BY <1>1, <2>1 DEF IInv, LogInv
  <2>3. \A n \in 1..(nextSeq - 1) : n # 0 /\ \E e \in Events : seq[e] = n
    BY <1>1 DEF IInv, LogInv
  <2>4. {seq[e] : e \in Events} \ {0} = 1..(nextSeq - 1)
    BY <2>2, <2>3
  <2> QED
    BY <1>1, <2>4 DEF IInv, LogInv, DenseLog
<1> QED
  BY <1>1, Invariance, PTL
-----------------------------------------------------------------------------
(***************************************************************************)
(* What a commit does to the log.                                          *)
(***************************************************************************)

\* The rows of the page go from NULL to values at and above the counter; the
\* others keep theirs.
LEMMA CommitAppends ==
    ASSUME IInv, NEW s \in Sequencers, CommitSequence(s)
    PROVE  /\ Assigned(s) \subseteq Pending
           /\ Cardinality(Assigned(s)) \in Nat
           /\ nextSeq' = nextSeq + Cardinality(Assigned(s))
           /\ \A e \in Assigned(s) : seq'[e] \in nextSeq..(nextSeq' - 1)
           /\ \A d, e \in Assigned(s) : seq'[d] = seq'[e] => d = e
           /\ \A n \in nextSeq..(nextSeq' - 1) : \E e \in Assigned(s) : seq'[e] = n
           /\ \A e \in Events \ Assigned(s) : seq'[e] = seq[e]
           /\ \A e \in Events : seq[e] < nextSeq
<1>1. /\ next[s] = nextSeq /\ nextSeq \in Nat \ {0}
      /\ nextSeq' = next[s] + Cardinality(Assigned(s))
      /\ Cardinality(Assigned(s)) \in Nat
  BY RowSetsAreFinite DEF CommitSequence, IInv, TypeOK, LockInv, Assigned
<1>2. \A e \in Events : /\ e \in Assigned(s) => seq'[e] = page[s][e]
                        /\ e \notin Assigned(s) => seq'[e] = seq[e]
  BY DEF CommitSequence, Assigned
<1>3. Assigned(s) \subseteq Events
  BY DEF Assigned
<1>4. PageOk(s)
  BY DEF IInv, PageInv
<1>5. \A e \in Events : seq[e] < nextSeq
  BY <1>1 DEF IInv, TypeOK, LogInv
<1> QED
  BY <1>1, <1>2, <1>3, <1>4, <1>5 DEF PageOk

(***************************************************************************)
(* Nothing ever appears behind a reader: a row that gets a seq gets one    *)
(* above all that were assigned before, and keeps it.                      *)
(***************************************************************************)
THEOREM AppendOnlyHolds == Spec => AppendOnly
<1>1. ASSUME IInv, [Next]_vars
      PROVE  [AppendOnlyStep]_vars
  <2>1. CASE UNCHANGED vars
    BY <2>1
  <2>2. CASE seq' = seq
    BY <2>2 DEF AppendOnlyStep
  <2>3. ASSUME NEW t \in Txns, Publisher(t)
        PROVE  seq' = seq
    BY <1>1, <2>3, PublisherFrame DEF seqVars
  <2>4. ASSUME NEW s \in Sequencers, CommitSequence(s)
        PROVE  AppendOnlyStep
    <3>1. nextSeq \in Nat /\ \A e \in Events : seq[e] \in Nat
      BY <1>1 DEF IInv, TypeOK
    <3>2. \A e \in Assigned(s) : e \in Events /\ seq[e] = 0 /\ nextSeq <= seq'[e] /\ seq'[e] \in Nat
      BY <1>1, <2>4, <3>1, CommitAppends DEF Pending, Visible
    <3>3. /\ \A e \in Events \ Assigned(s) : seq'[e] = seq[e]
          /\ \A e \in Events : seq[e] < nextSeq
      BY <1>1, <2>4, CommitAppends
    <3> QED
      BY <3>1, <3>2, <3>3 DEF AppendOnlyStep
  <2>5. ASSUME NEW s \in Sequencers, SequenceStep(s) \/ FailSequence(s), ~CommitSequence(s)
        PROVE  seq' = seq
    BY <2>5 DEF SequenceStep, Probe, LockSequencer, AssignSeq, BumpSequencer, FailSequence
  <2> QED
    BY <1>1, <2>1, <2>2, <2>3, <2>4, <2>5 DEF Next
<1> QED
  BY <1>1, Invariance, PTL DEF Spec, AppendOnly
-----------------------------------------------------------------------------
(***************************************************************************)
(* Refinement.                                                             *)
(***************************************************************************)

\* The rows a step makes visible are those of the transaction it commits.
LEMMA PublisherVisible ==
    ASSUME IInv, NEW t \in Txns, Publisher(t)
    PROVE  \/ Visible' = Visible
           \/ /\ CommitTx(t)
              /\ Visible' = Visible \cup RowsOf(t) /\ RowsOf(t) \cap Visible = {}
<1> USE SequencedLogAssumption
<1>1. CASE BeginTx(t)
  BY <1>1 DEF BeginTx, Visible
<1>2. ASSUME NEW e0 \in Events, NEW i \in 1..MaxId, CreateOutboxMessage(t, e0, i)
      PROVE  Visible' = Visible
  <2>1. commitTs[t] = 0 /\ commitTs' = commitTs
    BY <1>2 DEF CreateOutboxMessage, IInv, TsInv
  <2> QED
    BY <1>2, <2>1 DEF CreateOutboxMessage, IInv, TypeOK, Visible
<1>3. CASE CommitTx(t)
  <2>1. commitTs[t] = 0 /\ tso + 1 # 0
    BY <1>3 DEF CommitTx, IInv, TypeOK, TsInv
  <2> QED
    BY <1>3, <2>1 DEF CommitTx, IInv, TypeOK, Visible, RowsOf
<1>4. CASE AbortTx(t)
  <2>1. commitTs[t] = 0 /\ commitTs' = commitTs
    BY <1>4 DEF AbortTx, IInv, TsInv
  <2> QED
    BY <1>4, <2>1 DEF AbortTx, IInv, TypeOK, Visible
<1> QED
  BY <1>1, <1>2, <1>3, <1>4 DEF Publisher

\* A publisher's step leaves the causes of visible rows alone.
LEMMA PublisherCauses ==
    ASSUME IInv, NEW t \in Txns, Publisher(t)
    PROVE  \A e \in Visible, d \in Events : HappensBefore(d, e)' <=> HappensBefore(d, e)
<1>1. \A e \in Visible : /\ e \in Events /\ insertedBy[e] \in Txns \ {t}
                         /\ startTs[insertedBy[e]] <= tso
                         /\ insertedBy'[e] = insertedBy[e]
                         /\ startTs'[insertedBy[e]] = startTs[insertedBy[e]]
                         /\ commitTs'[insertedBy[e]] = commitTs[insertedBy[e]]
  BY SequencedLogAssumption
     DEF IInv, TypeOK, TsInv, Visible, Publisher, BeginTx, CreateOutboxMessage,
         CommitTx, AbortTx
<1>2. \A d \in Events \ Visible : d \in Visible' =>
          commitTs'[insertedBy'[d]] = tso + 1 /\ tso \in Nat
  BY PublisherVisible DEF IInv, TypeOK, CommitTx, RowsOf
<1>3. \A e \in Visible : e \in Visible'
  BY PublisherFrame
<1>4. ASSUME NEW e \in Visible, NEW d \in Visible
      PROVE  HappensBefore(d, e)' <=> HappensBefore(d, e)
  BY <1>1, <1>3 DEF HappensBefore
<1>5. ASSUME NEW e \in Visible, NEW d \in Events \ Visible
      PROVE  ~HappensBefore(d, e) /\ ~HappensBefore(d, e)'
  <2>1. startTs[insertedBy[e]] \in Nat
    BY <1>1 DEF IInv, TypeOK
  <2> QED
    BY <1>1, <1>2, <2>1 DEF HappensBefore
<1> QED
  BY <1>4, <1>5

\* The initial state is an empty log.
LEMMA RefinesInit ==
    ASSUME Init
    PROVE  Abstract!LogInit
<1>1. Visible = {}
  BY DEF Init, Visible
<1>2. [e \in Events |-> Causes(e)] = [e \in Events |-> {}]
  BY <1>1 DEF Causes
<1> QED
  BY <1>1, <1>2 DEF Init, Abstract!LogInit

\* A publisher's step publishes the rows of a committed transaction, or nothing.
LEMMA PublisherRefines ==
    ASSUME IInv, NEW t \in Txns, Publisher(t)
    PROVE  Abstract!LogNext \/ UNCHANGED Abstract!logVars
<1>1. seq' = seq /\ nextSeq' = nextSeq
  BY PublisherFrame DEF seqVars
<1>2. \A e \in Visible : Causes(e)' = Causes(e)
  BY PublisherCauses, PublisherFrame DEF Causes
<1>3. CASE Visible' = Visible
  <2>1. \A e \in Events : Causes(e)' = Causes(e)
    BY <1>2, <1>3 DEF Causes
  <2>2. [e \in Events |-> Causes(e)]' = [e \in Events |-> Causes(e)]
    BY <2>1
  <2> QED
    BY <1>1, <1>3, <2>2 DEF Abstract!logVars
<1>4. CASE CommitTx(t) /\ Visible' = Visible \cup RowsOf(t) /\ RowsOf(t) \cap Visible = {}
  <2> DEFINE D == {d \in Visible : commitTs[insertedBy[d]] < startTs[t]}
  <2>1. ASSUME NEW e \in RowsOf(t)
        PROVE  Causes(e)' = D
    <3>1. /\ e \in Visible' /\ e \in Events /\ insertedBy'[e] = t
          /\ startTs' = startTs /\ startTs[t] <= tso /\ tso \in Nat /\ startTs[t] \in Nat
          /\ insertedBy' = insertedBy
      BY <1>4 DEF RowsOf, CommitTx, IInv, TypeOK, TsInv
    <3>2. \A d \in Visible : d \in Events /\ commitTs'[insertedBy[d]] = commitTs[insertedBy[d]]
      BY <1>4, SequencedLogAssumption DEF CommitTx, IInv, TypeOK, TsInv, Visible
    <3>3. \A d \in RowsOf(t) : ~(commitTs'[insertedBy[d]] < startTs[t])
      BY <1>4, <3>1 DEF RowsOf, CommitTx, IInv, TypeOK
    <3>4. \A d \in Events : HappensBefore(d, e)' <=> d \in D
      BY <1>4, <3>1, <3>2, <3>3, SequencedLogAssumption DEF HappensBefore
    <3>5. D \subseteq Events
      BY DEF Visible
    <3>6. Causes(e)' = {d \in Events : HappensBefore(d, e)'}
      BY <3>1 DEF Causes
    <3> QED
      BY <3>4, <3>5, <3>6
  <2>2. \A e \in Events : Causes(e)' = IF e \in RowsOf(t) THEN D ELSE Causes(e)
    BY <1>2, <1>4, <2>1 DEF Causes
  <2>3. [e \in Events |-> Causes(e)]'
          = [e \in Events |-> IF e \in RowsOf(t) THEN D
                                ELSE [x \in Events |-> Causes(x)][e]]
    BY <2>2
  <2>4. Abstract!Publish(RowsOf(t), D)
    BY <1>1, <1>4, <2>3 DEF Abstract!Publish
  <2>5. RowsOf(t) \in SUBSET (Events \ Visible) /\ D \in SUBSET Visible
    BY <1>4 DEF RowsOf
  <2> QED
    BY <2>4, <2>5 DEF Abstract!LogNext
<1> QED
  BY <1>3, <1>4, PublisherVisible

\* The steps of a pass other than COMMIT do not show; COMMIT appends the page.
LEMMA PassRefines ==
    ASSUME IInv, NEW s \in Sequencers, SequenceStep(s) \/ FailSequence(s)
    PROVE  Abstract!LogNext \/ UNCHANGED Abstract!logVars
<1>1. UNCHANGED pubVars
  BY DEF SequenceStep, Probe, LockSequencer, AssignSeq, BumpSequencer,
         CommitSequence, FailSequence
<1>2. Visible' = Visible /\ \A d, e \in Events : HappensBefore(d, e)' = HappensBefore(d, e)
  BY <1>1 DEF pubVars, Visible, HappensBefore
<1>3. [e \in Events |-> Causes(e)]' = [e \in Events |-> Causes(e)]
  BY <1>2 DEF Causes
<1>4. CASE ~CommitSequence(s)
  <2>1. seq' = seq /\ nextSeq' = nextSeq
    BY <1>4 DEF SequenceStep, Probe, LockSequencer, AssignSeq, BumpSequencer, FailSequence
  <2> QED
    BY <1>2, <1>3, <2>1 DEF Abstract!logVars
<1>5. CASE CommitSequence(s)
  <2> DEFINE S == Assigned(s)
  <2>1. /\ S \subseteq Pending /\ Cardinality(S) \in Nat
        /\ nextSeq' = nextSeq + Cardinality(S)
        /\ \A e \in S : seq'[e] \in nextSeq..(nextSeq' - 1)
        /\ \A d, e \in S : seq'[d] = seq'[e] => d = e
        /\ \A e \in Events \ S : seq'[e] = seq[e]
    BY <1>5, CommitAppends
  <2>2. nextSeq \in Nat /\ S \subseteq Visible /\ S \subseteq Events /\ \A e \in S : seq[e] = 0
    BY <2>1 DEF IInv, TypeOK, Pending, Visible
  <2>3. ASSUME NEW e \in S, NEW d \in Causes(e)
        PROVE  seq'[d] # 0 /\ seq'[d] < seq'[e]
    <3>1. d \in Events /\ e \in Events /\ HappensBefore(d, e)'
      BY <1>2, <2>2, <2>3 DEF Causes
    <3>2. seq'[e] # 0
      BY <2>1, <2>2 DEF IInv, TypeOK
    <3>3. OrderInv'
      BY PassStep DEF IInv
    <3> QED
      BY <3>1, <3>2, <3>3 DEF OrderInv, Precedes
  <2>4. seq' = [e \in Events |-> IF e \in S THEN seq'[e] ELSE seq[e]]
    <3>1. seq' \in [Events -> Nat]
      BY PassStep DEF IInv, TypeOK
    <3> QED
      BY <2>1, <3>1
  <2>5. /\ nextSeq' - 1 >= nextSeq - 1
        /\ \A e \in S : seq[e] = 0
        /\ {seq'[e] : e \in S} = ((nextSeq - 1) + 1)..(nextSeq' - 1)
    <3>1. (nextSeq - 1) + 1 = nextSeq /\ nextSeq' - 1 >= nextSeq - 1
      BY <2>1, <2>2
    <3>2. {seq'[e] : e \in S} = nextSeq..(nextSeq' - 1)
      BY <1>5, <2>1, CommitAppends
    <3> QED
      BY <2>2, <3>1, <3>2
  <2>6. \A e \in S : \A d \in [x \in Events |-> Causes(x)][e] :
           seq'[d] # 0 /\ seq'[d] < seq'[e]
    BY <2>2, <2>3
  <2>7. \A d, e \in S : d # e => seq'[d] # seq'[e]
    BY <2>1
  <2> HIDE DEF S
  <2>8. Abstract!Append(S)
    BY <1>2, <1>3, <2>4, <2>5, <2>6, <2>7 DEF Abstract!Append
  <2> QED
    BY <2>2, <2>8 DEF Abstract!LogNext
<1> QED
  BY <1>4, <1>5

(***************************************************************************)
(* The outbox with its sequencers implements the causal log: a reader who  *)
(* follows seq reads an append-only log that respects causality.           *)
(***************************************************************************)
THEOREM Refinement == Spec => ImplementsCausalLog
<1>1. Init => Abstract!LogInit
  BY RefinesInit
<1>2. ASSUME IInv, [Next]_vars
      PROVE  [Abstract!LogNext]_(Abstract!logVars)
  <2>1. CASE UNCHANGED vars
    <3>1. Visible' = Visible /\ seq' = seq /\ nextSeq' = nextSeq
      BY <2>1 DEF vars, Visible
    <3>2. \A e \in Events : Causes(e)' = Causes(e)
      BY <2>1, <3>1 DEF vars, Causes, HappensBefore
    <3>3. [e \in Events |-> Causes(e)]' = [e \in Events |-> Causes(e)]
      BY <3>2
    <3> QED
      BY <3>1, <3>3 DEF Abstract!logVars
  <2> QED
    BY <1>2, <2>1, PublisherRefines, PassRefines DEF Next
<1> QED
  BY <1>1, <1>2, Invariance, PTL DEF Spec, ImplementsCausalLog, Abstract!LogSpec
=============================================================================
