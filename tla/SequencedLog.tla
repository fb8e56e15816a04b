---------------------------- MODULE SequencedLog ----------------------------
(***************************************************************************)
(* The TiDB outbox as a sequenced log (tidb/store.go).                     *)
(*                                                                         *)
(* Business transactions insert outbox rows with seq = NULL; a row becomes *)
(* visible when its transaction commits.  Any number of sequencers - one   *)
(* per relay instance - then assign dense seq values to committed rows in  *)
(* (tx_start_ts, id) order.  A pass is several round trips in one          *)
(* pessimistic transaction that locks the counter row, so passes of        *)
(* different relays interleave with each other and with publishers, and a  *)
(* pass can fail or its process can die between any two of them.           *)
(*                                                                         *)
(* A row is named by its event: uk_outbox_event admits one row per event.  *)
(***************************************************************************)
EXTENDS Integers, FiniteSets

CONSTANTS
    Txns,         \* business transactions
    Events,       \* event ids, the unique key of a row
    Sequencers,   \* relay instances that run SequenceMessages
    None,         \* no transaction, no lock holder
    Limit,        \* rows one sequencing pass may take (SequenceBatchSize)
    MaxId,        \* bound: the auto-increment ids lie in 1..MaxId
    MaxFaults     \* bound: sequencing passes that fail or crash

ASSUME SequencedLogAssumption ==
    /\ IsFiniteSet(Events)
    /\ None \notin Txns /\ None \notin Sequencers
    /\ Limit \in Nat \ {0}
    /\ MaxId \in Nat
    /\ MaxFaults \in Nat

VARIABLES
    tso,        \* last timestamp PD handed out
    txState,    \* state of each transaction
    startTs,    \* tx_start_ts, @@tidb_current_ts of the transaction
    commitTs,   \* commit timestamp, 0 until committed
    insertedBy, \* the transaction whose row carries the event, or None
    rowId,      \* auto-increment primary key of the row, 0 if there is none
    emitNo,     \* how many events the transaction had emitted, this one included
    seq,        \* committed seq of the row, 0 for NULL
    nextSeq,    \* committed next_seq of the counter row
    lockedBy,   \* sequencer whose transaction holds the counter row FOR UPDATE
    pc,         \* where each sequencing pass stands
    next,       \* next_seq as the pass read it
    page,       \* seq values the pass has written but not committed
    bumped,     \* next_seq as the pass has written it, uncommitted
    faults      \* failed passes so far

pubVars == <<tso, txState, startTs, commitTs, insertedBy, rowId, emitNo>>
seqVars == <<seq, nextSeq, lockedBy, pc, next, page, bumped, faults>>
vars == <<tso, txState, startTs, commitTs, insertedBy, rowId, emitNo,
          seq, nextSeq, lockedBy, pc, next, page, bumped, faults>>

TxStates == {"idle", "open", "committed", "aborted"}
PCs == {"idle", "begin", "locked", "assigned", "commit"}
NoPage == [e \in Events |-> 0]

(***************************************************************************)
(* Visible rows are those of committed transactions.                       *)
(***************************************************************************)
Visible == {e \in Events : insertedBy[e] # None /\ commitTs[insertedBy[e]] # 0}

\* Mutation of Pending: the seq IS NULL filter is missing.
PendingUnfiltered == Visible

\* Visible rows whose seq IS NULL.
Pending == {e \in Visible : seq[e] = 0}

\* Mutations of Before: by id alone, and by transaction alone.
BeforeById(d, e) == rowId[d] < rowId[e]
BeforeByTx(d, e) == startTs[insertedBy[d]] < startTs[insertedBy[e]]

\* The order of the sequencer's ORDER BY: tx_start_ts, then id.
Before(d, e) ==
    LET td == startTs[insertedBy[d]]
        te == startTs[insertedBy[e]]
    IN  td < te \/ (td = te /\ rowId[d] < rowId[e])

\* ROW_NUMBER() OVER (ORDER BY tx_start_ts, id) of e among the rows S.
RowNumber(e, S) == Cardinality({d \in S : Before(d, e)}) + 1

\* Mutation of Page: LIMIT cuts the rows in primary-key order.
PageById == {e \in Pending : Cardinality({d \in Pending : rowId[d] < rowId[e]}) < Limit}

\* The innermost derived table: the first Limit pending rows in order.
Page == {e \in Pending : RowNumber(e, Pending) <= Limit}

Init ==
    /\ tso = 0
    /\ txState = [t \in Txns |-> "idle"]
    /\ startTs = [t \in Txns |-> 0]
    /\ commitTs = [t \in Txns |-> 0]
    /\ insertedBy = [e \in Events |-> None]
    /\ rowId = [e \in Events |-> 0]
    /\ emitNo = [e \in Events |-> 0]
    /\ seq = [e \in Events |-> 0]
    /\ nextSeq = 1
    /\ lockedBy = None
    /\ pc = [s \in Sequencers |-> "idle"]
    /\ next = [s \in Sequencers |-> 0]
    /\ page = [s \in Sequencers |-> NoPage]
    /\ bumped = [s \in Sequencers |-> 0]
    /\ faults = 0
-----------------------------------------------------------------------------
(***************************************************************************)
(* Publishers.                                                             *)
(***************************************************************************)

\* BEGIN: PD issues the start timestamp, distinct per transaction.
BeginTx(t) ==
    /\ txState[t] = "idle"
    /\ tso' = tso + 1
    /\ txState' = [txState EXCEPT ![t] = "open"]
    /\ startTs' = [startTs EXCEPT ![t] = tso + 1]
    /\ UNCHANGED <<commitTs, insertedBy, rowId, emitNo, seqVars>>

\* The rows a transaction has inserted.
RowsOf(t) == {e \in Events : insertedBy[e] = t}

(***************************************************************************)
(* CreateOutboxMessage inside transaction t.  The id is auto-incremented   *)
(* on the publisher's node: unique, monotone within the transaction, in no *)
(* particular order across transactions (nodes cache ranges).  An event    *)
(* that already has a committed row fails on uk_outbox_event, changes      *)
(* nothing and leaves the transaction free to commit (ErrAlreadyPublished);*)
(* one that an open transaction has inserted blocks until that one ends.   *)
(***************************************************************************)
CreateOutboxMessage(t, e, i) ==
    /\ txState[t] = "open"
    /\ insertedBy[e] = None
    /\ \A d \in Events : insertedBy[d] # None => rowId[d] # i
    /\ \A d \in RowsOf(t) : rowId[d] < i
    /\ insertedBy' = [insertedBy EXCEPT ![e] = t]
    /\ rowId' = [rowId EXCEPT ![e] = i]
    /\ emitNo' = [emitNo EXCEPT ![e] = Cardinality(RowsOf(t)) + 1]
    /\ UNCHANGED <<tso, txState, startTs, commitTs, seqVars>>

\* COMMIT of the business transaction: its rows become visible at once.
CommitTx(t) ==
    /\ txState[t] = "open"
    /\ tso' = tso + 1
    /\ txState' = [txState EXCEPT ![t] = "committed"]
    /\ commitTs' = [commitTs EXCEPT ![t] = tso + 1]
    /\ UNCHANGED <<startTs, insertedBy, rowId, emitNo, seqVars>>

\* ROLLBACK, or the publisher dies before COMMIT: the rows never existed.
AbortTx(t) ==
    /\ txState[t] = "open"
    /\ txState' = [txState EXCEPT ![t] = "aborted"]
    /\ insertedBy' = [e \in Events |-> IF insertedBy[e] = t THEN None
                                                            ELSE insertedBy[e]]
    /\ rowId' = [e \in Events |-> IF insertedBy[e] = t THEN 0 ELSE rowId[e]]
    /\ emitNo' = [e \in Events |-> IF insertedBy[e] = t THEN 0 ELSE emitNo[e]]
    /\ UNCHANGED <<tso, startTs, commitTs, seqVars>>
-----------------------------------------------------------------------------
(***************************************************************************)
(* One sequencing pass, SequenceMessages and sequenceLocked.               *)
(***************************************************************************)

\* The idle fast path: a pass starts only if the probe sees a pending row.
Probe(s) ==
    /\ pc[s] = "idle"
    /\ Pending # {}
    /\ pc' = [pc EXCEPT ![s] = "begin"]
    /\ UNCHANGED <<pubVars, seq, nextSeq, lockedBy, next, page, bumped, faults>>

\* Mutation of LockSequencer: the counter is read without FOR UPDATE.
LockSequencerUnlocked(s) ==
    /\ pc[s] = "begin"
    /\ next' = [next EXCEPT ![s] = nextSeq]
    /\ pc' = [pc EXCEPT ![s] = "locked"]
    /\ UNCHANGED <<pubVars, seq, nextSeq, lockedBy, page, bumped, faults>>

\* BEGIN PESSIMISTIC; SELECT next_seq ... FOR UPDATE waits for the row lock.
LockSequencer(s) ==
    /\ pc[s] = "begin"
    /\ lockedBy = None
    /\ lockedBy' = s
    /\ next' = [next EXCEPT ![s] = nextSeq]
    /\ pc' = [pc EXCEPT ![s] = "locked"]
    /\ UNCHANGED <<pubVars, seq, nextSeq, page, bumped, faults>>

\* The assigning UPDATE: SET o.seq = next + rn - 1 over the page.
AssignSeq(s) ==
    /\ pc[s] = "locked"
    /\ page' = [page EXCEPT ![s] =
                  [e \in Events |-> IF e \in Page
                                      THEN next[s] + RowNumber(e, Page) - 1
                                      ELSE 0]]
    /\ pc' = [pc EXCEPT ![s] = "assigned"]
    /\ UNCHANGED <<pubVars, seq, nextSeq, lockedBy, next, bumped, faults>>

\* The rows a pass has assigned.
Assigned(s) == {e \in Events : page[s][e] # 0}

\* Mutation of BumpSequencer: the counter is written back only for a full page.
BumpSequencerIfFull(s) ==
    /\ pc[s] = "assigned"
    /\ bumped' = IF Cardinality(Assigned(s)) = Limit
                   THEN [bumped EXCEPT ![s] = next[s] + Limit]
                   ELSE bumped
    /\ pc' = [pc EXCEPT ![s] = "commit"]
    /\ UNCHANGED <<pubVars, seq, nextSeq, lockedBy, next, page, faults>>

(***************************************************************************)
(* UPDATE next_seq = next + assigned, skipped when nothing was assigned    *)
(* (another pass took the rows between the probe and the lock).            *)
(***************************************************************************)
BumpSequencer(s) ==
    /\ pc[s] = "assigned"
    /\ bumped' = [bumped EXCEPT ![s] = next[s] + Cardinality(Assigned(s))]
    /\ pc' = [pc EXCEPT ![s] = "commit"]
    /\ UNCHANGED <<pubVars, seq, nextSeq, lockedBy, next, page, faults>>

(***************************************************************************)
(* COMMIT: the page and the counter become visible together and the lock   *)
(* is released.  A COMMIT that applied but whose answer was lost is the    *)
(* same step: the caller sees an error and its ROLLBACK undoes nothing.    *)
(***************************************************************************)
CommitSequence(s) ==
    /\ pc[s] = "commit"
    /\ seq' = [e \in Events |-> IF page[s][e] # 0 THEN page[s][e] ELSE seq[e]]
    /\ nextSeq' = bumped[s]
    /\ lockedBy' = None
    /\ page' = [page EXCEPT ![s] = NoPage]
    /\ pc' = [pc EXCEPT ![s] = "idle"]
    /\ UNCHANGED <<pubVars, next, bumped, faults>>

\* Mutation of FailSequence: the failed transaction is left open on the server.
FailSequenceKeepsLock(s) ==
    /\ pc[s] # "idle"
    /\ faults < MaxFaults
    /\ faults' = faults + 1
    /\ page' = [page EXCEPT ![s] = NoPage]
    /\ pc' = [pc EXCEPT ![s] = "idle"]
    /\ UNCHANGED <<pubVars, seq, nextSeq, lockedBy, next, bumped>>

(***************************************************************************)
(* Any statement of the pass fails, the lock wait or the operation times   *)
(* out, or the process dies: ROLLBACK, or the connection is discarded and  *)
(* the server rolls back.  Nothing the pass wrote survives.                *)
(***************************************************************************)
FailSequence(s) ==
    /\ pc[s] # "idle"
    /\ faults < MaxFaults
    /\ faults' = faults + 1
    /\ lockedBy' = IF lockedBy = s THEN None ELSE lockedBy
    /\ page' = [page EXCEPT ![s] = NoPage]
    /\ pc' = [pc EXCEPT ![s] = "idle"]
    /\ UNCHANGED <<pubVars, seq, nextSeq, next, bumped>>
-----------------------------------------------------------------------------
Publisher(t) ==
    \/ BeginTx(t)
    \/ \E e \in Events, i \in 1..MaxId : CreateOutboxMessage(t, e, i)
    \/ CommitTx(t)
    \/ AbortTx(t)

SequenceStep(s) ==
    \/ Probe(s)
    \/ LockSequencer(s)
    \/ AssignSeq(s)
    \/ BumpSequencer(s)
    \/ CommitSequence(s)

Next ==
    \/ \E t \in Txns : Publisher(t)
    \/ \E s \in Sequencers : SequenceStep(s) \/ FailSequence(s)

Spec == Init /\ [][Next]_vars

(***************************************************************************)
(* A relay's Run loop keeps starting passes and database statements        *)
(* return (each is bounded by OpTimeout), so the steps of a pass are       *)
(* weakly fair.  Publishers and faults owe nothing.                        *)
(***************************************************************************)
FairSpec == Spec /\ \A s \in Sequencers : WF_vars(SequenceStep(s))
-----------------------------------------------------------------------------
(***************************************************************************)
(* Properties.                                                             *)
(***************************************************************************)

TypeOK ==
    /\ tso \in Nat
    /\ txState \in [Txns -> TxStates]
    /\ startTs \in [Txns -> Nat]
    /\ commitTs \in [Txns -> Nat]
    /\ insertedBy \in [Events -> Txns \cup {None}]
    /\ rowId \in [Events -> Nat]
    /\ emitNo \in [Events -> Nat]
    /\ seq \in [Events -> Nat]
    /\ nextSeq \in Nat \ {0}
    /\ lockedBy \in Sequencers \cup {None}
    /\ pc \in [Sequencers -> PCs]
    /\ next \in [Sequencers -> Nat]
    /\ page \in [Sequencers -> [Events -> Nat]]
    /\ bumped \in [Sequencers -> Nat]
    /\ faults \in Nat

\* The transaction of d committed before the transaction of e began.
HappensBefore(d, e) ==
    /\ d \in Visible
    /\ insertedBy[e] # None
    /\ commitTs[insertedBy[d]] < startTs[insertedBy[e]]

(***************************************************************************)
(* The ordering theorem of the design: a sequenced event is preceded in    *)
(* the log by every event it causally depends on - neither an inversion    *)
(* inside a page, nor one across passes, nor a page cut that takes the     *)
(* dependent row and leaves its cause pending.                             *)
(***************************************************************************)
CausalOrder ==
    \A d, e \in Events :
        (seq[e] # 0 /\ HappensBefore(d, e)) => (seq[d] # 0 /\ seq[d] < seq[e])

(***************************************************************************)
(* Events of one transaction are sequenced in the order in which the       *)
(* publisher emitted them.                                                 *)
(***************************************************************************)
EmitOrder ==
    \A d, e \in Events :
        (/\ seq[e] # 0
         /\ insertedBy[d] = insertedBy[e]
         /\ emitNo[d] < emitNo[e]) => (seq[d] # 0 /\ seq[d] < seq[e])

(***************************************************************************)
(* No two rows share a seq, and the assigned values are exactly those      *)
(* below the counter: neither a crashed pass, nor a contended one, nor an  *)
(* aborted publisher leaves a gap or a double assignment.                  *)
(***************************************************************************)
DenseLog ==
    /\ \A d, e \in Events : (seq[d] # 0 /\ seq[d] = seq[e]) => d = e
    /\ {seq[e] : e \in Events} \ {0} = 1..(nextSeq - 1)

(***************************************************************************)
(* What a reader has been able to see stays put: a step that assigns seq   *)
(* values only assigns values above every one assigned before, so a        *)
(* watermark never has a row appear behind it.                             *)
(***************************************************************************)
AppendOnlyStep ==
    \A e \in Events :
        /\ seq[e] # 0 => seq'[e] = seq[e]
        /\ (seq[e] = 0 /\ seq'[e] # 0) => \A d \in Events : seq[d] < seq'[e]
AppendOnly == [][AppendOnlyStep]_vars

(***************************************************************************)
(* Refinement: the rows in seq order are a CausalLog.                      *)
(***************************************************************************)
Causes(e) == IF e \in Visible THEN {d \in Events : HappensBefore(d, e)} ELSE {}
Abstract == INSTANCE CausalLog WITH
                visible <- Visible,
                deps <- [e \in Events |-> Causes(e)],
                pos <- seq,
                len <- nextSeq - 1
ImplementsCausalLog == Abstract!LogSpec

(***************************************************************************)
(* No committed event is stranded: it is eventually given its place, even  *)
(* though passes fail and sequencers contend for the counter.              *)
(***************************************************************************)
EventuallySequenced ==
    \A e \in Events : (e \in Visible) ~> (seq[e] # 0)
=============================================================================
