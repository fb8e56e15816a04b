------------------------ MODULE SequenceRelayProofs ------------------------
(***************************************************************************)
(* Proofs about SequenceRelay, for every number of groups, instances and   *)
(* messages, every page size, either kind of store, and any number of      *)
(* failed calls, stolen leases, crashes and deleted offsets.               *)
(*                                                                         *)
(* What a commit writes was decided when the page was listed, and both the *)
(* table and the offset rows may have changed since: a group may even have *)
(* been deleted and its rows swept.  The inductive invariant therefore     *)
(* speaks of what is settled for a group - disposed of, excused or swept - *)
(* which only grows, whoever leads.                                        *)
(***************************************************************************)
EXTENDS SequenceRelay, MinMax

\* What a group need not be sent any more.
Settled(g) == disposed[g] \cup excused[g] \cup Swept

\* All that precedes message m is settled, or still ahead in the page of i.
Reached(i, m) == 1..(m - 1) \subseteq Settled(GroupOf[i]) \cup todo[i]

\* A pass: its positions are settled, and its page skips nothing.
PassOk(i) ==
    /\ 1..offset[i] \subseteq Settled(GroupOf[i])
    /\ 1..maxSeq[i] \subseteq Settled(GroupOf[i])
    /\ \A m \in todo[i] : Reached(i, m)
    /\ poison[i] # 0 => poison[i] \in Log /\ Reached(i, poison[i])
    /\ pc[i] = "park" => todo[i] = {} /\ poison[i] # 0
PassInv == \A i \in Instances : PassOk(i)

\* A registered group has nothing to fear from what was swept.
SweptInv == \A g \in Registered : Swept \subseteq disposed[g] \cup excused[g]

IInv == TypeOK /\ PassInv /\ AtLeastOnce /\ SweptInv

\* One send at a time: what precedes a disposed message is settled.
OrderInv == \A g \in Groups : \A m \in disposed[g] : 1..(m - 1) \subseteq Settled(g)

\* What a pass may still forward of its page.
Ahead(i) == Cardinality(todo[i]) + (IF poison[i] = 0 THEN 0 ELSE 1)

\* The phases of a tick that precede the drain.
Early == {"prime", "register", "sequence", "renewSeq", "list"}

\* One send at a time: how much of a page a superseded leader may still send.
StaleOk(i) ==
    /\ stale[i] <= BatchSize
    /\ pc[i] \in Early => stale[i] = 0
    /\ pc[i] \in {"forward", "park"} => stale[i] + Ahead(i) <= BatchSize
StaleInv == \A i \in Instances : StaleOk(i)

\* A fresh group that sequences its own log.
FreshInv ==
    /\ \A g \in Groups : excused[g] = {}
    /\ \A g \in Groups \ Registered :
         /\ Swept = {}
         /\ StartFromBeginning # Instances => nextSeq = 1
    /\ \A i \in Instances : GroupOf[i] \notin Registered /\ StartFromBeginning # Instances =>
         pc[i] \notin {"sequence", "renewSeq"}
-----------------------------------------------------------------------------
(***************************************************************************)
(* The operators of the model.                                             *)
(***************************************************************************)

\* The log is a finite set of positive numbers.
LEMMA LogIsFinite ==
    ASSUME TypeOK
    PROVE  /\ nextSeq \in Nat /\ nextSeq - 1 \in Nat
           /\ Log \in SUBSET Nat /\ \A m \in Log : m > 0
           /\ Log \in SUBSET (0..(nextSeq - 1))
           /\ \A S \in SUBSET Log : IsFiniteSet(S) /\ Cardinality(S) \in Nat
<1>1. nextSeq \in Nat /\ nextSeq - 1 \in Nat
  BY SequenceRelayAssumption DEF TypeOK
<1>2. IsFiniteSet(Log)
  BY <1>1, FS_Interval DEF Log
<1>3. \A S \in SUBSET Log : IsFiniteSet(S) /\ Cardinality(S) \in Nat
  BY <1>2, FS_Subset, FS_CardinalityType
<1> QED
  BY <1>1, <1>3 DEF Log

\* MAX(seq) is a value below the counter.
LEMMA LatestInLog ==
    ASSUME TypeOK
    PROVE  Latest \in 0..(nextSeq - 1)
<1>1. CASE retained = {}
  BY <1>1, LogIsFinite DEF Latest
<1>2. CASE retained # {}
  <2>1. retained \in SUBSET (0..(nextSeq - 1))
    BY LogIsFinite DEF TypeOK
  <2>2. Max(retained) \in retained
    BY <1>2, <2>1, LogIsFinite, MaxIsGreatest
  <2> QED
    BY <1>2, <2>1, <2>2 DEF Latest
<1> QED
  BY <1>1, <1>2

\* A sequencing pass extends the log, and all it adds is retained.
LEMMA AssignedPage ==
    ASSUME TypeOK, AssignPage
    PROVE  /\ nextSeq' \in Nat /\ nextSeq <= nextSeq' /\ nextSeq' \in 1..(published + 1)
           /\ Log \subseteq Log'
           /\ retained' = retained \cup (Log' \ Log)
<1>1. published \in Nat /\ nextSeq \in Nat \ {0} /\ nextSeq <= published + 1
  BY SequenceRelayAssumption DEF TypeOK
<1>2. PICK n \in Nat : /\ nextSeq' = nextSeq + n /\ nextSeq + n <= published + 1
                       /\ retained' = retained \cup nextSeq..(nextSeq + n - 1)
  <2> DEFINE pending == published - (nextSeq - 1)
             k == IF pending < SequenceBatchSize THEN pending ELSE SequenceBatchSize
  <2>1. k \in Nat /\ nextSeq + k <= published + 1
    BY <1>1, SequenceRelayAssumption
  <2>2. nextSeq' = nextSeq + k /\ retained' = retained \cup nextSeq..(nextSeq + k - 1)
    BY DEF AssignPage
  <2> QED
    BY <2>1, <2>2
<1>3. Log = 1..(nextSeq - 1) /\ Log' = 1..(nextSeq + n - 1)
  <2>1. Log = 1..(nextSeq - 1) /\ Log' = 1..(nextSeq' - 1)
    BY DEF Log
  <2>2. nextSeq' - 1 = nextSeq + n - 1
    BY <1>1, <1>2
  <2> QED
    BY <2>1, <2>2
<1>4. Log' = Log \cup nextSeq..(nextSeq + n - 1)
  BY <1>1, <1>3, IntervalExtended
<1>5. \A m \in nextSeq..(nextSeq + n - 1) : m \notin Log
  BY <1>1, <1>3
<1> QED
  BY <1>1, <1>2, <1>4, <1>5

\* A page is of retained rows, and its poison row is the first one of it.
LEMMA PageRows ==
    ASSUME TypeOK, NEW o \in Nat
    PROVE  /\ Rows(o) \subseteq retained
           /\ Decoded(o) \subseteq Rows(o)
           /\ \/ PoisonRow(o) = 0
              \/ /\ PoisonRow(o) \in Rows(o) /\ PoisonRow(o) > 0
                 /\ Kind[PoisonRow(o)] = "poison"
                 /\ \A k \in Rows(o) : Kind[k] = "poison" => PoisonRow(o) <= k
<1> DEFINE Bad == {m \in Rows(o) : Kind[m] = "poison"}
<1>1. Rows(o) \subseteq retained /\ Decoded(o) \subseteq Rows(o)
  BY DEF Rows, Decoded
<1>2. CASE Bad = {}
  BY <1>1, <1>2, Zenon DEF PoisonRow
<1>3. CASE Bad # {}
  <2>1. Bad \in SUBSET Nat
    BY <1>1, LogIsFinite DEF TypeOK
  <2>2. Min(Bad) \in Bad /\ \A k \in Bad : Min(Bad) <= k
    <3> HIDE DEF Bad
    <3> QED
      BY <1>3, <2>1, MinIsLeast
  <2>3. PoisonRow(o) = Min(Bad)
    BY <1>3, Zenon DEF PoisonRow
  <2>4. Min(Bad) > 0
    BY <1>1, <2>2, LogIsFinite DEF TypeOK
  <2> HIDE DEF PoisonRow
  <2> QED
    BY <1>1, <2>2, <2>3, <2>4
<1> QED
  BY <1>2, <1>3
\* A page has no holes among the retained rows.
LEMMA RowsClosed ==
    ASSUME TypeOK, NEW o \in Nat, NEW m \in Rows(o), NEW k \in retained, o < k, k < m
    PROVE  k \in Rows(o)
<1> DEFINE Between(x) == {y \in retained : o < y /\ y < x}
<1>1. retained \subseteq Log /\ k \in Nat /\ m \in Nat
  BY LogIsFinite, PageRows DEF TypeOK
<1>2. Between(k) \subseteq Between(m)
  <2> SUFFICES ASSUME NEW y \in retained, y < k
               PROVE  y < m
    OBVIOUS
  <2>1. y \in Nat
    BY <1>1, LogIsFinite
  <2> QED
    BY <1>1, <2>1
<1>3. Between(m) \in SUBSET Log /\ Between(k) \in SUBSET Log
  BY <1>1
<1>4. /\ IsFiniteSet(Between(m)) /\ Cardinality(Between(m)) \in Nat
      /\ Cardinality(Between(k)) \in Nat
  <2> HIDE DEF Between
  <2> QED
    BY <1>3, LogIsFinite
<1>5. Cardinality(Between(k)) <= Cardinality(Between(m))
  <2> HIDE DEF Between
  <2> QED
    BY <1>2, <1>4, FS_Subset
<1>6. Cardinality(Between(m)) < BatchSize
  BY DEF Rows
<1>7. Cardinality(Between(k)) < BatchSize
  <2> HIDE DEF Between
  <2> QED
    BY <1>4, <1>5, <1>6, SequenceRelayAssumption
<1> QED
  BY <1>7 DEF Rows

\* What ListMessages decodes of a page, and the poison row it stops at, are rows of the log.
LEMMA PageTypes ==
    ASSUME TypeOK, NEW o \in Nat
    PROVE  Decoded(o) \in SUBSET Log /\ PoisonRow(o) \in Nat
<1>1. retained \subseteq Log
  BY DEF TypeOK
<1>2. Decoded(o) \subseteq Rows(o) /\ Rows(o) \subseteq retained
  BY PageRows
<1>3. PoisonRow(o) = 0 \/ PoisonRow(o) \in Rows(o)
  BY PageRows
<1>4. PoisonRow(o) \in Rows(o) => PoisonRow(o) \in Nat
  BY <1>1, <1>2, LogIsFinite
<1> QED
  BY <1>1, <1>2, <1>3, <1>4

-----------------------------------------------------------------------------
(***************************************************************************)
(* Type correctness.                                                       *)
(***************************************************************************)

DbType ==
    /\ published \in 0..MaxMsgs
    /\ nextSeq \in 1..(published + 1)
    /\ retained \subseteq Log
    /\ offsets \in [Groups -> Nat \cup {NoRow}]
    /\ holder \in [Groups -> Instances \cup {None}]
PassType ==
    /\ pc \in [Instances -> PCs]
    /\ live \in [Instances -> BOOLEAN]
    /\ offset \in [Instances -> Nat]
    /\ primed \in [Instances -> {"ok", "error", "lost"}]
    /\ pages \in [Instances -> Nat]
    /\ todo \in [Instances -> SUBSET Log]
    /\ poison \in [Instances -> Nat]
    /\ full \in [Instances -> BOOLEAN]
    /\ maxSeq \in [Instances -> Nat]
    /\ outcome \in [Instances -> {"done", "stopped", "canceled", "parked"}]
HistType ==
    /\ disposed \in [Groups -> SUBSET Log]
    /\ excused \in [Groups -> SUBSET Log]
    /\ stale \in [Instances -> Nat]
EnvType == faults \in Nat /\ steals \in Nat /\ crashes \in Nat /\ deletes \in Nat

Types == DbType /\ PassType /\ HistType /\ EnvType

\* TypeOK by the state it is about.
LEMMA TypeParts == TypeOK <=> Types
  BY DEF TypeOK, Types, DbType, PassType, HistType, EnvType

\* What the lane disposes of is of the page, and so of the log.
LEMMA DisposeType ==
    ASSUME TypeOK, NEW i \in Instances, NEW S \in SUBSET todo[i],
           NEW late \in SUBSET todo[i], Dispose(i, S, late)
    PROVE  /\ disposed' \in [Groups -> SUBSET Log]
           /\ todo' \in [Instances -> SUBSET Log]
           /\ maxSeq' \in [Instances -> Nat]
           /\ stale' \in [Instances -> Nat]
<1>1. GroupOf[i] \in Groups /\ todo[i] \in SUBSET Log
  BY SequenceRelayAssumption DEF TypeOK
<1>2. S # {} => Max(S) \in Nat
  BY <1>1, LogIsFinite, MaxIsGreatest
<1>3. Cardinality(S \cup late) \in Nat
  BY <1>1, LogIsFinite
<1> QED
  BY <1>1, <1>2, <1>3 DEF TypeOK, Dispose

\* The head of a page, and every prefix of it, is of the page.
LEMMA PageParts ==
    ASSUME TypeOK, NEW i \in Instances
    PROVE  /\ \A n \in Nat : Prefix(i, n) \in SUBSET todo[i]
           /\ \A S \in SUBSET todo[i] : S # {} =>
                Min(S) \in S /\ \A k \in S : Min(S) <= k
<1>1. \A n \in Nat : Prefix(i, n) \in SUBSET todo[i]
  BY DEF Prefix
<1>2. todo[i] \in SUBSET Nat
  BY LogIsFinite DEF TypeOK
<1> QED
  BY <1>1, <1>2, MinIsLeast

\* No message is among the first zero.
LEMMA EmptyPrefix ==
    ASSUME TypeOK, NEW i \in Instances
    PROVE  Prefix(i, 0) = {}
<1>1. \A m \in todo[i] : {k \in todo[i] : k < m} \in SUBSET Log
  BY DEF TypeOK
<1>2. \A m \in todo[i] : Cardinality({k \in todo[i] : k < m}) \in Nat
  BY <1>1, LogIsFinite
<1> QED
  BY <1>2 DEF Prefix

\* The end of a pass keeps its types.
LEMMA EndPassType ==
    ASSUME PassType, NEW i \in Instances, NEW label \in PCs, EndPass(i, label),
           nextSeq' \in Nat, nextSeq \in Nat, nextSeq <= nextSeq',
           live' \in [Instances -> BOOLEAN]
    PROVE  PassType'
<1>1. Log \subseteq Log'
  BY IntervalGrows DEF Log
<1> QED
  BY <1>1 DEF PassType, EndPass, Goto

\* A set of messages that the page begins with.
Initial(i, S) ==
    /\ S \in SUBSET todo[i]
    /\ \A m \in S, k \in todo[i] : k < m => k \in S

\* What a batch delivers is an initial part of the page.
LEMMA PrefixIsInitial ==
    ASSUME TypeOK, NEW i \in Instances, NEW n \in Nat
    PROVE  Initial(i, Prefix(i, n))
<1> SUFFICES ASSUME NEW m \in Prefix(i, n), NEW k \in todo[i], k < m
             PROVE  k \in Prefix(i, n)
  BY PageParts DEF Initial
<1> DEFINE Below(x) == {y \in todo[i] : y < x}
<1>1. todo[i] \in SUBSET Log /\ m \in todo[i]
  BY PageParts DEF TypeOK
<1>2. Below(k) \subseteq Below(m)
  <2> SUFFICES ASSUME NEW y \in todo[i], y < k
               PROVE  y < m
    OBVIOUS
  <2>1. y \in Nat /\ k \in Nat /\ m \in Nat
    BY <1>1, LogIsFinite
  <2> QED
    BY <2>1
<1>3. Below(k) \in SUBSET Log /\ Below(m) \in SUBSET Log
  BY <1>1
<1>4. Cardinality(Below(m)) < n
  BY DEF Prefix
<1>5. Cardinality(Below(k)) < n
  <2> HIDE DEF Below
  <2>1. /\ IsFiniteSet(Below(m)) /\ Cardinality(Below(m)) \in Nat
        /\ Cardinality(Below(k)) \in Nat
    BY <1>3, LogIsFinite
  <2>2. Cardinality(Below(k)) <= Cardinality(Below(m))
    BY <1>2, <2>1, FS_Subset
  <2> QED
    BY <1>4, <2>1, <2>2
<1> QED
  BY <1>5 DEF Prefix

\* The head of what is left belongs to what the page begins with, too.
LEMMA InitialAndHead ==
    ASSUME TypeOK, NEW i \in Instances, NEW S, Initial(i, S), todo[i] \ S # {}
    PROVE  Initial(i, S \cup {Min(todo[i] \ S)}) /\ Min(todo[i] \ S) \in todo[i]
<1> DEFINE rest == todo[i] \ S
           h == Min(rest)
<1>1. h \in rest /\ \A k \in rest : h <= k
  BY PageParts
<1>2. \A k \in todo[i] : k \in Nat
  BY LogIsFinite DEF TypeOK
<1>3. ASSUME NEW k \in todo[i], k < h
      PROVE  k \in S
  BY <1>1, <1>2, <1>3
<1> HIDE DEF h
<1> QED
  BY <1>1, <1>3 DEF Initial, h

\* What a call of the lane does to the page: it disposes of what the page begins
\* with, perhaps of nothing; others may have been delivered without counting.
LEMMA LaneDisposes ==
    ASSUME TypeOK, NEW i \in Instances,
           LaneSend(i) \/ LaneSendBatch(i) \/ ForwardCanceled(i)
    PROVE  \/ \E S, late \in SUBSET todo[i] : Initial(i, S) /\ Dispose(i, S, late)
           \/ UNCHANGED <<todo, maxSeq, disposed, stale>>
<1>e. Initial(i, {})
  BY DEF Initial
<1>1. CASE LaneSend(i)
  <2>1. todo[i] # {} /\ todo[i] \ {} = todo[i]
    BY <1>1 DEF LaneSend
  <2>2. Initial(i, {Min(todo[i])}) /\ Min(todo[i]) \in todo[i]
    BY <1>e, <2>1, InitialAndHead
  <2>3. \E late \in SUBSET {Min(todo[i])} :
          Dispose(i, {Min(todo[i])}, late) \/ Dispose(i, {}, late)
    BY <1>1 DEF LaneSend
  <2> QED
    BY <1>e, <2>2, <2>3
<1>2. CASE LaneSendBatch(i)
  <2> DEFINE Rest(n) == todo[i] \ Prefix(i, n)
             Late(n) == {k \in Rest(n) : Kind[k] = "ok"}
  <2>1. PICK n \in 0..Cardinality(todo[i]) :
          \/ Dispose(i, Prefix(i, n), {})
          \/ Rest(n) # {} /\ \E late \in SUBSET Late(n) :
               Dispose(i, Prefix(i, n) \cup {Min(Rest(n))}, late)
          \/ \E late \in SUBSET Late(n) : Dispose(i, Prefix(i, n), late)
    BY <1>2 DEF LaneSendBatch
  <2>2. Initial(i, Prefix(i, n)) /\ Prefix(i, n) \in SUBSET todo[i]
    BY PrefixIsInitial, PageParts
  <2>3. Late(n) \in SUBSET todo[i]
    OBVIOUS
  <2>4. Rest(n) # {} => /\ Initial(i, Prefix(i, n) \cup {Min(Rest(n))})
                        /\ Prefix(i, n) \cup {Min(Rest(n))} \in SUBSET todo[i]
    BY <2>2, InitialAndHead
  <2> QED
    BY <2>1, <2>2, <2>3, <2>4
<1>3. CASE ForwardCanceled(i)
  <2> DEFINE Rest(n) == todo[i] \ Prefix(i, n)
  <2>1. CASE todo[i] = {}
    BY <1>3, <2>1 DEF ForwardCanceled
  <2>2. CASE todo[i] # {}
    <3>1. PICK n \in 0..(IF i \in Batching THEN Cardinality(todo[i]) - 1 ELSE 0) :
            \E late \in SUBSET (IF i \in Batching THEN Rest(n) ELSE {Min(Rest(n))}) :
              Dispose(i, Prefix(i, n), late)
      BY <1>3, <2>2 DEF ForwardCanceled
    <3>2. Initial(i, Prefix(i, n)) /\ Prefix(i, n) \in SUBSET todo[i]
      BY PrefixIsInitial, PageParts
    <3>3. CASE i \in Batching
      BY <3>1, <3>2, <3>3
    <3>4. CASE i \notin Batching
      <4>1. n = 0
        BY <3>4
      <4>2. Min(todo[i]) \in todo[i]
        BY <2>2, PageParts
      <4> QED
        BY <3>1, <3>2, <3>4, <4>1, <4>2, EmptyPrefix
    <3> QED
      BY <3>3, <3>4
  <2> QED
    BY <2>1, <2>2
<1> QED
  BY <1>1, <1>2, <1>3

\* Every step keeps the types.
LEMMA TypeStep == TypeOK /\ PassInv /\ [Next]_vars => TypeOK'
<1> SUFFICES ASSUME TypeOK, PassInv, [Next]_vars
             PROVE  Types'
  BY DEF TypeOK, Types, DbType, PassType, HistType, EnvType
<1>a. DbType /\ PassType /\ HistType /\ EnvType
  BY TypeParts DEF Types
<1>b. \A i \in Instances : GroupOf[i] \in Groups
  BY SequenceRelayAssumption
<1>c. Latest \in Nat /\ 1..Latest \subseteq Log
  BY LatestInLog, LogIsFinite DEF Log
<1>d. published \in Nat /\ nextSeq \in Nat /\ nextSeq - 1 \in Nat
  BY LogIsFinite, SequenceRelayAssumption DEF TypeOK
<1>e. MaxMsgs \in Nat /\ SequenceBatchSize \in Nat \ {0}
  BY SequenceRelayAssumption
<1> USE <1>a, <1>b DEF Goto, Fault, Log, dbVars, pageVars, passVars, histVars, envVars
<1>1. ASSUME NEW i \in Instances, TryAcquire(i)
      PROVE  Types'
  <2>1. DbType'
    BY <1>1 DEF TryAcquire, TakeLock, DbType
  <2>2. PassType'
    BY <1>1 DEF TryAcquire, PCs, PassType
  <2>3. HistType'
    BY <1>1 DEF TryAcquire, HistType
  <2>4. EnvType'
    BY <1>1 DEF TryAcquire, TakeLock, EnvType
  <2> QED
    BY <2>1, <2>2, <2>3, <2>4 DEF Types
<1>2. ASSUME NEW i \in Instances, TryAcquireUnknown(i)
      PROVE  Types'
  <2>1. DbType'
    BY <1>2 DEF TryAcquireUnknown, TakeLock, DbType
  <2>2. PassType'
    BY <1>2 DEF TryAcquireUnknown, PassType
  <2>3. HistType'
    BY <1>2 DEF TryAcquireUnknown, HistType
  <2>4. EnvType'
    BY <1>2 DEF TryAcquireUnknown, TakeLock, EnvType
  <2> QED
    BY <2>1, <2>2, <2>3, <2>4 DEF Types
<1>3. ASSUME NEW i \in Instances, ReadOffset(i)
      PROVE  Types'
  <2>1. DbType'
    BY <1>3 DEF ReadOffset, DbType
  <2>2. PassType'
    BY <1>3 DEF ReadOffset, Registered, PCs, DbType, PassType
  <2>3. HistType'
    BY <1>3 DEF ReadOffset, HistType
  <2>4. EnvType'
    BY <1>3 DEF ReadOffset, EnvType
  <2> QED
    BY <2>1, <2>2, <2>3, <2>4 DEF Types
<1>4. ASSUME NEW i \in Instances, InitOffsetLatest(i)
      PROVE  Types'
  <2>1. DbType'
    BY <1>4, <1>c DEF InitOffsetLatest, RegisterAt, DbType
  <2>2. PassType'
    BY <1>4, <1>c DEF InitOffsetLatest, RegisterAt, PCs, DbType, Registered, PassType
  <2>3. HistType'
    BY <1>4, <1>c DEF InitOffsetLatest, RegisterAt, Swept, HistType
  <2>4. EnvType'
    BY <1>4, <1>c DEF InitOffsetLatest, EnvType
  <2> QED
    BY <2>1, <2>2, <2>3, <2>4 DEF Types
<1>5. ASSUME NEW i \in Instances, RegisterFromBeginning(i)
      PROVE  Types'
  <2>1. DbType'
    BY <1>5 DEF RegisterFromBeginning, CommitOffset, DbType
  <2>2. PassType'
    BY <1>5 DEF RegisterFromBeginning, PCs, PassType
  <2>3. HistType'
    BY <1>5 DEF RegisterFromBeginning, CommitOffset, Swept, HistType
  <2>4. EnvType'
    BY <1>5 DEF RegisterFromBeginning, EnvType
  <2> QED
    BY <2>1, <2>2, <2>3, <2>4 DEF Types
<1>6. ASSUME NEW i \in Instances, PrimeFails(i)
      PROVE  Types'
  <2>1. DbType'
    BY <1>6, <1>c DEF PrimeFails, CommitOffset, RegisterAt, DbType
  <2>2. PassType'
    BY <1>6, <1>c DEF PrimeFails, PCs, PassType
  <2>3. HistType'
    BY <1>6, <1>c DEF PrimeFails, CommitOffset, RegisterAt, Swept, HistType
  <2>4. EnvType'
    BY <1>6, <1>c DEF PrimeFails, EnvType
  <2> QED
    BY <2>1, <2>2, <2>3, <2>4 DEF Types
<1>7. ASSUME NEW i \in Instances, Sequence(i) \/ SequenceFails(i)
      PROVE  Types'
  <2>a. /\ published' = published /\ nextSeq' \in Nat /\ nextSeq <= nextSeq'
        /\ nextSeq' \in 1..(published + 1) /\ retained' \subseteq Log' /\ Log \subseteq Log'
    <3>1. AssignPage \/ UNCHANGED <<nextSeq, retained>>
      BY <1>7 DEF Sequence, SequenceFails
    <3>2. published' = published
      BY <1>7 DEF Sequence, SequenceFails
    <3>3. CASE UNCHANGED <<nextSeq, retained>>
      BY <1>d, <3>2, <3>3 DEF DbType
    <3>4. CASE AssignPage
      BY <3>2, <3>4, AssignedPage DEF DbType
    <3> QED
      BY <3>1, <3>3, <3>4
  <2>1. DbType'
    BY <1>7, <2>a DEF Sequence, SequenceFails, DbType
  <2>2. PassType'
    <3>1. CASE \E label \in PCs : EndPass(i, label)
      BY <1>7, <1>d, <2>a, <3>1, EndPassType DEF Sequence, SequenceFails, PassType
    <3>2. CASE /\ \E label \in PCs : Goto(i, label)
               /\ pages' \in {pages, [pages EXCEPT ![i] = 0]}
               /\ UNCHANGED <<offset, primed, pageVars>>
      BY <1>7, <2>a, <3>2 DEF Sequence, SequenceFails, PassType
    <3> QED
      BY <1>7, <3>1, <3>2 DEF Sequence, SequenceFails, EndSequence, PCs
  <2>3. HistType'
    BY <1>7, <2>a DEF Sequence, SequenceFails, HistType
  <2>4. EnvType'
    BY <1>7 DEF Sequence, SequenceFails, EnvType
  <2> QED
    BY <2>1, <2>2, <2>3, <2>4 DEF Types
<1>8. ASSUME NEW i \in Instances, RenewSequence(i) \/ RenewDrain(i)
      PROVE  Types'
  <2>a. \/ RenewHeld(i) /\ \/ NextPage(i, "sequence") \/ NextPage(i, "list")
                           \/ EndSequence(i) \/ EndPass(i, "sweep")
        \/ RenewLost(i)
    BY <1>8 DEF RenewSequence, RenewDrain
  <2>1. DbType'
    BY <2>a DEF RenewHeld, RenewLost, TakeLock, DbType
  <2>2. PassType'
    <3>1. UNCHANGED <<nextSeq, live>>
      BY <2>a DEF RenewHeld, RenewLost
    <3>2. CASE \E label \in PCs : EndPass(i, label)
      BY <1>d, <3>1, <3>2, EndPassType DEF PassType
    <3>3. CASE /\ \E label \in PCs : Goto(i, label)
               /\ pages' \in {[pages EXCEPT ![i] = @ + 1], [pages EXCEPT ![i] = 0]}
               /\ UNCHANGED <<offset, primed, pageVars>>
      BY <3>1, <3>3 DEF PassType
    <3> QED
      BY <2>a, <3>2, <3>3 DEF NextPage, EndSequence, RenewLost, PCs
  <2>3. HistType'
    BY <2>a DEF RenewHeld, RenewLost, HistType
  <2>4. EnvType'
    BY <2>a DEF RenewHeld, RenewLost, TakeLock, EnvType
  <2> QED
    BY <2>1, <2>2, <2>3, <2>4 DEF Types
<1>9. ASSUME NEW i \in Instances, ListMessages(i) \/ ListFails(i)
      PROVE  Types'
  <2>1. DbType'
    BY <1>9 DEF ListMessages, ListFails, DbType
  <2>2. PassType'
    <3>1. Decoded(offset[i]) \in SUBSET Log /\ PoisonRow(offset[i]) \in Nat
      <4>1. offset[i] \in Nat
        BY DEF PassType
      <4> QED
        BY <4>1, PageTypes
    <3>2. UNCHANGED <<nextSeq, live>>
      BY <1>9 DEF ListMessages, ListFails
    <3>3. CASE EndPass(i, "sweep")
      BY <1>d, <3>2, <3>3, EndPassType DEF PCs, PassType
    <3>4. CASE ~EndPass(i, "sweep")
      <4>1. /\ todo' = [todo EXCEPT ![i] = Decoded(offset[i])]
            /\ poison' = [poison EXCEPT ![i] = PoisonRow(offset[i])]
            /\ \E b \in BOOLEAN : full' = [full EXCEPT ![i] = b]
            /\ maxSeq' = [maxSeq EXCEPT ![i] = offset[i]]
            /\ outcome' = [outcome EXCEPT ![i] = "done"]
            /\ pc' = [pc EXCEPT ![i] = "forward"]
            /\ UNCHANGED <<offset, primed, pages>>
        BY <1>9, <3>4 DEF ListMessages, ListFails
      <4> QED
        BY <3>1, <3>2, <4>1 DEF PassType, PCs
    <3> QED
      BY <3>3, <3>4
  <2>3. HistType'
    BY <1>9 DEF ListMessages, ListFails, HistType
  <2>4. EnvType'
    BY <1>9 DEF ListMessages, ListFails, EnvType
  <2> QED
    BY <2>1, <2>2, <2>3, <2>4 DEF Types
<1>10. ASSUME NEW i \in Instances,
             LaneSend(i) \/ LaneSendBatch(i) \/ ForwardCanceled(i)
      PROVE  Types'
  <2>a. UNCHANGED <<dbVars, live, offset, primed, pages, poison, full, excused,
                    steals, crashes, deletes>>
    BY <1>10 DEF LaneSend, LaneSendBatch, ForwardCanceled
  <2>b. /\ disposed' \in [Groups -> SUBSET Log]
        /\ todo' \in [Instances -> SUBSET Log]
        /\ maxSeq' \in [Instances -> Nat]
        /\ stale' \in [Instances -> Nat]
    BY <1>10, LaneDisposes, DisposeType DEF TypeOK
  <2>c. /\ pc' \in [Instances -> PCs]
        /\ outcome' \in [Instances -> {"done", "stopped", "canceled", "parked"}]
    BY <1>10 DEF LaneSend, LaneSendBatch, ForwardCanceled, StopLane, PCs, PassType
  <2>d. faults' \in Nat
    <3>1. faults' = faults \/ faults' = faults + 1
      BY <1>10 DEF LaneSend, LaneSendBatch, ForwardCanceled
    <3> QED
      BY <3>1 DEF EnvType
  <2>1. DbType'
    BY <2>a DEF DbType
  <2>2. PassType'
    BY <2>a, <2>b, <2>c DEF PassType
  <2>3. HistType'
    BY <2>a, <2>b DEF HistType
  <2>4. EnvType'
    BY <2>a, <2>d DEF EnvType
  <2> QED
    BY <2>1, <2>2, <2>3, <2>4 DEF Types
<1>11. ASSUME NEW i \in Instances, PageForwarded(i)
      PROVE  Types'
  <2>1. DbType'
    BY <1>11 DEF PageForwarded, DbType
  <2>2. PassType'
    BY <1>11 DEF PageForwarded, PCs, PassType
  <2>3. HistType'
    BY <1>11 DEF PageForwarded, HistType
  <2>4. EnvType'
    BY <1>11 DEF PageForwarded, EnvType
  <2> QED
    BY <2>1, <2>2, <2>3, <2>4 DEF Types
<1>12. ASSUME NEW i \in Instances, ParkPoison(i)
      PROVE  Types'
  <2>1. DbType'
    BY <1>12 DEF ParkPoison, DbType
  <2>2. PassType'
    BY <1>12 DEF ParkPoison, PCs, PassType
  <2>3. HistType'
    <3>1. poison[i] \in Log
      BY <1>12 DEF ParkPoison, PassInv, PassOk
    <3> QED
      BY <1>12, <3>1 DEF ParkPoison, HistType
  <2>4. EnvType'
    BY <1>12 DEF ParkPoison, EnvType
  <2> QED
    BY <2>1, <2>2, <2>3, <2>4 DEF Types
<1>13. ASSUME NEW i \in Instances, CommitPage(i)
      PROVE  Types'
  <2>1. DbType'
    BY <1>13 DEF CommitPage, CommitOffset, PassType, DbType
  <2>2. PassType'
    <3>1. UNCHANGED <<nextSeq, live>>
      BY <1>13 DEF CommitPage
    <3>2. CASE \E label \in PCs : EndPass(i, label)
      BY <1>d, <3>1, <3>2, EndPassType DEF PassType
    <3>3. CASE ~\E label \in PCs : EndPass(i, label)
      <4>1. ~EndPass(i, "sweep") /\ ~EndPass(i, "idle")
        BY <3>3 DEF PCs
      <4>2. PageCommitted(i) /\ MorePages(i)
        BY <1>13, <4>1 DEF CommitPage, PageCommitted
      <4>3. /\ pc' = [pc EXCEPT ![i] = "renewDrain"]
            /\ offset' = [offset EXCEPT ![i] = maxSeq[i]]
            /\ todo' = [todo EXCEPT ![i] = {}]
            /\ poison' = [poison EXCEPT ![i] = 0]
            /\ full' = [full EXCEPT ![i] = FALSE]
            /\ outcome' = [outcome EXCEPT ![i] = "done"]
            /\ UNCHANGED <<primed, pages, maxSeq>>
        BY <4>2 DEF PageCommitted
      <4> QED
        BY <3>1, <4>3 DEF PCs, PassType
    <3> QED
      BY <3>2, <3>3
  <2>3. HistType'
    BY <1>13 DEF CommitPage, CommitOffset, Swept, DbType, HistType
  <2>4. EnvType'
    BY <1>13 DEF CommitPage, EnvType
  <2> QED
    BY <2>1, <2>2, <2>3, <2>4 DEF Types
<1>14. ASSUME NEW i \in Instances, SweepMessages(i)
      PROVE  Types'
  <2>1. DbType'
    BY <1>14 DEF SweepMessages, DbType
  <2>2. PassType'
    BY <1>14 DEF SweepMessages, PassType
  <2>3. HistType'
    BY <1>14 DEF SweepMessages, HistType
  <2>4. EnvType'
    BY <1>14 DEF SweepMessages, EnvType
  <2> QED
    BY <2>1, <2>2, <2>3, <2>4 DEF Types
<1>15. ASSUME NEW i \in Instances, SweepDone(i)
      PROVE  Types'
  <2>1. DbType'
    BY <1>15 DEF SweepDone, DbType
  <2>2. PassType'
    <3>1. "idle" \in PCs
      BY DEF PCs
    <3> QED
      BY <1>15, <1>d, <3>1, EndPassType DEF SweepDone, PassType
  <2>3. HistType'
    BY <1>15 DEF SweepDone, HistType
  <2>4. EnvType'
    BY <1>15 DEF SweepDone, EnvType
  <2> QED
    BY <2>1, <2>2, <2>3, <2>4 DEF Types
<1>16. ASSUME NEW i \in Instances, Shutdown(i)
      PROVE  Types'
  <2>1. DbType'
    BY <1>16 DEF Shutdown, DbType
  <2>2. PassType'
    <3>1. "release" \in PCs
      BY DEF PCs
    <3> QED
      BY <1>16, <1>d, <3>1, EndPassType DEF Shutdown, PassType
  <2>3. HistType'
    BY <1>16 DEF Shutdown, HistType
  <2>4. EnvType'
    BY <1>16 DEF Shutdown, EnvType
  <2> QED
    BY <2>1, <2>2, <2>3, <2>4 DEF Types
<1>17. ASSUME NEW i \in Instances, Release(i)
      PROVE  Types'
  <2>1. DbType'
    BY <1>17 DEF Release, LeaveLock, DbType
  <2>2. PassType'
    BY <1>17 DEF Release, PCs, PassType
  <2>3. HistType'
    BY <1>17 DEF Release, HistType
  <2>4. EnvType'
    BY <1>17 DEF Release, EnvType
  <2> QED
    BY <2>1, <2>2, <2>3, <2>4 DEF Types
<1>18. ASSUME NEW i \in Instances, Start(i) \/ Cancel(i)
      PROVE  Types'
  <2>1. DbType'
    BY <1>18 DEF Start, Cancel, DbType
  <2>2. PassType'
    BY <1>18 DEF Start, Cancel, PCs, PassType
  <2>3. HistType'
    BY <1>18 DEF Start, Cancel, HistType
  <2>4. EnvType'
    BY <1>18 DEF Start, Cancel, EnvType
  <2> QED
    BY <2>1, <2>2, <2>3, <2>4 DEF Types
<1>19. ASSUME NEW i \in Instances, Crash(i)
      PROVE  Types'
  <2>1. DbType'
    BY <1>19 DEF Crash, LeaveLock, DbType
  <2>2. PassType'
    <3>1. "down" \in PCs
      BY DEF PCs
    <3> QED
      BY <1>19, <1>d, <3>1, EndPassType DEF Crash, PassType
  <2>3. HistType'
    BY <1>19 DEF Crash, HistType
  <2>4. EnvType'
    BY <1>19 DEF Crash, EnvType
  <2> QED
    BY <2>1, <2>2, <2>3, <2>4 DEF Types
<1>20. ASSUME PublishMessage \/ \E g \in Groups : DeleteOffset(g)
      PROVE  Types'
  <2>1. DbType'
    <3>1. CASE PublishMessage
      BY <1>d, <1>e, <3>1 DEF PublishMessage, DbType
    <3>2. CASE \E g \in Groups : DeleteOffset(g)
      BY <3>2 DEF DeleteOffset, DbType
    <3> QED
      BY <1>20, <3>1, <3>2
  <2>2. PassType'
    BY <1>20 DEF PublishMessage, DeleteOffset, PassType
  <2>3. HistType'
    BY <1>20 DEF PublishMessage, DeleteOffset, HistType
  <2>4. EnvType'
    BY <1>20 DEF PublishMessage, DeleteOffset, EnvType
  <2> QED
    BY <2>1, <2>2, <2>3, <2>4 DEF Types
<1>21. CASE UNCHANGED vars
  BY <1>21 DEF Types, DbType, PassType, HistType, EnvType, vars
<1> QED
  BY <1>1, <1>2, <1>3, <1>4, <1>5, <1>6, <1>7, <1>8, <1>9, <1>10, <1>11, <1>12, <1>13,
     <1>14, <1>15, <1>16, <1>17, <1>18, <1>19, <1>20, <1>21 DEF Next, Step, Disturb
-----------------------------------------------------------------------------
(***************************************************************************)
(* What a step may change.  Settled only grows.                            *)
(***************************************************************************)

\* Only the lane disposes of messages.
LEMMA OnlyTheLaneDisposes ==
    ASSUME [Next]_vars
    PROVE  \/ UNCHANGED disposed
           \/ \E i \in Instances : \/ LaneSend(i) \/ LaneSendBatch(i)
                                   \/ ForwardCanceled(i) \/ ParkPoison(i)
  BY DEF Next, Step, Disturb, vars, histVars, TryAcquire, TryAcquireUnknown, ReadOffset,
         InitOffsetLatest, RegisterFromBeginning, PrimeFails, Sequence, SequenceFails,
         RenewSequence, RenewDrain, RenewHeld, RenewLost, ListMessages, ListFails,
         PageForwarded, CommitPage, SweepMessages, SweepDone, Start, Cancel, Shutdown,
         Release, Crash, PublishMessage, DeleteOffset

\* Only a registration excuses messages.
LEMMA OnlyRegistrationExcuses ==
    ASSUME [Next]_vars
    PROVE  \/ UNCHANGED <<excused, offsets>>
           \/ \E i \in Instances : \/ InitOffsetLatest(i) \/ RegisterFromBeginning(i)
                                   \/ PrimeFails(i) \/ CommitPage(i)
           \/ \E g \in Groups : DeleteOffset(g)
<1>1. ASSUME NEW i \in Instances,
             LaneSend(i) \/ LaneSendBatch(i) \/ ForwardCanceled(i) \/ ParkPoison(i)
      PROVE  UNCHANGED <<excused, offsets>>
  BY <1>1 DEF LaneSend, LaneSendBatch, ForwardCanceled, ParkPoison, dbVars
<1>2. ASSUME NEW i \in Instances, Sequence(i) \/ SequenceFails(i)
      PROVE  UNCHANGED <<excused, offsets>>
  BY <1>2 DEF Sequence, SequenceFails, histVars
<1>3. ASSUME NEW i \in Instances, RenewSequence(i) \/ RenewDrain(i)
      PROVE  UNCHANGED <<excused, offsets>>
  BY <1>3 DEF RenewSequence, RenewDrain, RenewHeld, RenewLost, dbVars, histVars
<1> QED
  BY <1>1, <1>2, <1>3
     DEF Next, Step, Disturb, vars, dbVars, histVars, TryAcquire, TryAcquireUnknown,
         ReadOffset, ListMessages, ListFails, PageForwarded, SweepMessages, SweepDone,
         Start, Cancel, Shutdown, Release, Crash, PublishMessage

\* Only a sequencing pass and the sweep change the table.
LEMMA OnlySequencingAndSweep ==
    ASSUME [Next]_vars
    PROVE  \/ UNCHANGED <<nextSeq, retained>>
           \/ AssignPage
           \/ nextSeq' = nextSeq /\ \E m \in Sweepable : retained' = retained \ {m}
<1>1. ASSUME NEW i \in Instances,
             LaneSend(i) \/ LaneSendBatch(i) \/ ForwardCanceled(i) \/ ParkPoison(i)
      PROVE  UNCHANGED <<nextSeq, retained>>
  BY <1>1 DEF LaneSend, LaneSendBatch, ForwardCanceled, ParkPoison, dbVars
<1>2. ASSUME NEW i \in Instances, Sequence(i) \/ SequenceFails(i)
      PROVE  AssignPage \/ UNCHANGED <<nextSeq, retained>>
  BY <1>2 DEF Sequence, SequenceFails
<1>3. ASSUME NEW i \in Instances, SweepMessages(i)
      PROVE  nextSeq' = nextSeq /\ \E m \in Sweepable : retained' = retained \ {m}
  BY <1>3 DEF SweepMessages
<1>4. ASSUME NEW i \in Instances, RenewSequence(i) \/ RenewDrain(i)
      PROVE  UNCHANGED <<nextSeq, retained>>
  BY <1>4 DEF RenewSequence, RenewDrain, RenewHeld, RenewLost, dbVars
<1>5. ASSUME NEW i \in Instances,
             \/ InitOffsetLatest(i) \/ RegisterFromBeginning(i)
             \/ PrimeFails(i) \/ CommitPage(i)
      PROVE  UNCHANGED <<nextSeq, retained>>
  BY <1>5 DEF InitOffsetLatest, RegisterFromBeginning, PrimeFails, CommitPage
<1> QED
  BY <1>1, <1>2, <1>3, <1>4, <1>5
     DEF Next, Step, Disturb, vars, dbVars, TryAcquire, TryAcquireUnknown, ReadOffset,
         ListMessages, ListFails, PageForwarded, SweepDone, Start, Cancel, Shutdown,
         Release, Crash, PublishMessage, DeleteOffset


\* The sweep takes one row at a time and sequencing none: what is swept grows.
LEMMA SweptGrows ==
    ASSUME TypeOK, [Next]_vars
    PROVE  /\ Log \subseteq Log'
           /\ Swept' = Swept \/ \E m \in Sweepable : Swept' = Swept \cup {m}
<1>1. CASE UNCHANGED <<nextSeq, retained>>
  BY <1>1 DEF Swept, Log
<1>2. CASE AssignPage
  <2>1. Log \subseteq Log' /\ retained' = retained \cup (Log' \ Log)
    BY <1>2, AssignedPage
  <2>2. retained \subseteq Log
    BY DEF TypeOK
  <2> QED
    BY <2>1, <2>2 DEF Swept
<1>3. ASSUME nextSeq' = nextSeq, NEW m \in Sweepable, retained' = retained \ {m}
      PROVE  Log' = Log /\ Swept' = Swept \cup {m}
  <2>1. Log' = Log
    BY <1>3 DEF Log
  <2>2. m \in Log
    BY DEF TypeOK, Sweepable
  <2> QED
    BY <1>3, <2>1, <2>2 DEF Swept
<1> QED
  BY <1>1, <1>2, <1>3, OnlySequencingAndSweep

\* What is delivered, parked, excused or swept stays so.
LEMMA SettledGrows ==
    ASSUME TypeOK, [Next]_vars, NEW g \in Groups
    PROVE  /\ disposed[g] \subseteq disposed'[g]
           /\ excused[g] \subseteq excused'[g]
           /\ Swept \subseteq Swept'
           /\ Settled(g) \subseteq Settled(g)'
<1>1. disposed[g] \subseteq disposed'[g]
  <2>1. ASSUME NEW i \in Instances, NEW S, NEW late, Dispose(i, S, late)
        PROVE  disposed[g] \subseteq disposed'[g]
    BY <2>1 DEF Dispose, TypeOK
  <2>2. ASSUME NEW i \in Instances, ParkPoison(i)
        PROVE  disposed[g] \subseteq disposed'[g]
    BY <2>2 DEF ParkPoison, TypeOK
  <2> QED
    BY <2>1, <2>2, OnlyTheLaneDisposes, LaneDisposes
<1>2. excused[g] \subseteq excused'[g]
  <2>1. ASSUME NEW h, NEW o, RegisterAt(h, o)
        PROVE  excused[g] \subseteq excused'[g]
    BY <2>1 DEF RegisterAt, TypeOK
  <2>2. ASSUME NEW i \in Instances, NEW o, CommitOffset(i, o)
        PROVE  excused[g] \subseteq excused'[g]
    BY <2>2 DEF CommitOffset, TypeOK
  <2> QED
    BY <2>1, <2>2, OnlyRegistrationExcuses
       DEF InitOffsetLatest, RegisterFromBeginning, PrimeFails, CommitPage, DeleteOffset,
           histVars
<1>3. Swept \subseteq Swept'
  BY SweptGrows
<1> QED
  BY <1>1, <1>2, <1>3 DEF Settled
-----------------------------------------------------------------------------
(***************************************************************************)
(* The passes.                                                             *)
(***************************************************************************)

\* A step that leaves the page of an instance alone, or ends its pass, or
\* continues it behind the page.
Quiet(i) ==
    /\ offset'[i] \in {0, offset[i], maxSeq[i]}
    /\ maxSeq'[i] \in {0, maxSeq[i]}
    /\ \/ todo'[i] = todo[i] /\ poison'[i] = poison[i]
       \/ todo'[i] = {} /\ poison'[i] = 0
    /\ pc'[i] = "park" => \/ todo'[i] = {} /\ poison'[i] # 0
                          \/ pc[i] = "park" /\ todo'[i] = todo[i] /\ poison'[i] = poison[i]

\* An instance whose pass does not move loses nothing by another's step.
LEMMA QuietKeepsPass ==
    ASSUME TypeOK, [Next]_vars, NEW i \in Instances, PassOk(i), Quiet(i)
    PROVE  PassOk(i)'
<1>1. GroupOf[i] \in Groups
  BY SequenceRelayAssumption
<1>2. Settled(GroupOf[i]) \subseteq Settled(GroupOf[i])' /\ Log \subseteq Log'
  BY <1>1, SettledGrows, SweptGrows
<1>3. 1..offset'[i] \subseteq Settled(GroupOf[i])'
  BY <1>2 DEF Quiet, PassOk
<1>4. 1..maxSeq'[i] \subseteq Settled(GroupOf[i])'
  BY <1>2 DEF Quiet, PassOk
<1>5. CASE todo'[i] = todo[i] /\ poison'[i] = poison[i]
  BY <1>2, <1>3, <1>4, <1>5 DEF Quiet, PassOk, Reached
<1>6. CASE todo'[i] = {} /\ poison'[i] = 0
  BY <1>3, <1>4, <1>6 DEF Quiet, PassOk
<1> QED
  BY <1>5, <1>6 DEF Quiet

\* All but a few steps are quiet: the local offset is read, the page is listed,
\* the lane disposes of it.
LEMMA QuietSteps ==
    ASSUME TypeOK, [Next]_vars, NEW j \in Instances
    PROVE  \/ Quiet(j)
           \/ /\ ReadOffset(j) \/ InitOffsetLatest(j) \/ ListMessages(j) \/ LaneSend(j)
                 \/ LaneSendBatch(j) \/ ForwardCanceled(j) \/ ParkPoison(j)
<1> USE DEF TypeOK, Quiet, Goto, pageVars, passVars
<1>1. ASSUME NEW i \in Instances, NEW label, label # "park", EndPass(i, label)
      PROVE  Quiet(j)
  BY <1>1 DEF EndPass
<1>2. ASSUME NEW i \in Instances, TryAcquire(i) \/ TryAcquireUnknown(i)
      PROVE  Quiet(j)
  BY <1>2 DEF TryAcquire, TryAcquireUnknown
<1>3. ASSUME NEW i \in Instances, i # j, ReadOffset(i) \/ InitOffsetLatest(i)
      PROVE  Quiet(j)
  BY <1>3 DEF ReadOffset, InitOffsetLatest
<1>4. ASSUME NEW i \in Instances, RegisterFromBeginning(i) \/ PrimeFails(i)
      PROVE  Quiet(j)
  BY <1>4 DEF RegisterFromBeginning, PrimeFails
<1>5. ASSUME NEW i \in Instances, EndSequence(i)
      PROVE  Quiet(j)
  BY <1>1, <1>5 DEF EndSequence
<1>6. ASSUME NEW i \in Instances, Sequence(i) \/ SequenceFails(i)
      PROVE  Quiet(j)
  BY <1>5, <1>6 DEF Sequence, SequenceFails
<1>7. ASSUME NEW i \in Instances, RenewSequence(i) \/ RenewDrain(i)
      PROVE  Quiet(j)
  <2>1. ASSUME NEW label, label # "park", NextPage(i, label)
        PROVE  Quiet(j)
    BY <2>1 DEF NextPage
  <2> QED
    BY <1>1, <1>5, <1>7, <2>1 DEF RenewSequence, RenewDrain, RenewLost
<1>8. ASSUME NEW i \in Instances, i # j, ListMessages(i)
      PROVE  Quiet(j)
  BY <1>1, <1>8 DEF ListMessages
<1>9. ASSUME NEW i \in Instances, ListFails(i) \/ SweepDone(i) \/ Shutdown(i) \/ Crash(i)
      PROVE  Quiet(j)
  BY <1>1, <1>9 DEF ListFails, SweepDone, Shutdown, Crash
<1>10. ASSUME NEW i \in Instances, i # j,
              LaneSend(i) \/ LaneSendBatch(i) \/ ForwardCanceled(i)
       PROVE  Quiet(j)
  <2>1. todo'[j] = todo[j] /\ maxSeq'[j] = maxSeq[j]
    <3>1. ASSUME NEW S, NEW late, Dispose(i, S, late)
          PROVE  todo'[j] = todo[j] /\ maxSeq'[j] = maxSeq[j]
      BY <1>10, <3>1 DEF Dispose
    <3> QED
      BY <1>10, <3>1, LaneDisposes
  <2>2. UNCHANGED <<offset, poison>> /\ pc'[j] = pc[j]
    BY <1>10 DEF LaneSend, LaneSendBatch, ForwardCanceled, StopLane
  <2> QED
    BY <2>1, <2>2
<1>11. ASSUME NEW i \in Instances, PageForwarded(i)
       PROVE  Quiet(j)
  BY <1>11 DEF PageForwarded
<1>12. ASSUME NEW i \in Instances, i # j, ParkPoison(i)
       PROVE  Quiet(j)
  BY <1>12 DEF ParkPoison
<1>13. ASSUME NEW i \in Instances, CommitPage(i)
       PROVE  Quiet(j)
  <2>1. ASSUME PageCommitted(i)
        PROVE  Quiet(j)
    BY <1>1, <2>1 DEF PageCommitted
  <2> QED
    BY <1>1, <1>13, <2>1 DEF CommitPage
<1>14. ASSUME NEW i \in Instances, SweepMessages(i) \/ Release(i) \/ Start(i) \/ Cancel(i)
       PROVE  Quiet(j)
  BY <1>14 DEF SweepMessages, Release, Start, Cancel
<1>15. ASSUME PublishMessage \/ \E g \in Groups : DeleteOffset(g)
       PROVE  Quiet(j)
  BY <1>15 DEF PublishMessage, DeleteOffset
<1>16. CASE UNCHANGED vars
  BY <1>16 DEF vars
<1> HIDE DEF TypeOK, Quiet, Goto, pageVars, passVars
<1> QED
  BY <1>2, <1>3, <1>4, <1>6, <1>7, <1>8, <1>9, <1>10, <1>11, <1>12, <1>13, <1>14, <1>15,
     <1>16 DEF Next, Step, Disturb

\* The page that ListMessages reads skips nothing that is not settled.
LEMMA ListedPage ==
    ASSUME IInv, [Next]_vars, NEW i \in Instances, ListMessages(i)
    PROVE  PassOk(i)'
<1>1. CASE EndPass(i, "sweep")
  BY <1>1, QuietKeepsPass DEF IInv, PassInv, Quiet, EndPass, Goto, TypeOK
<1> DEFINE o == offset[i]
<1>2. CASE ~EndPass(i, "sweep")
  <2>1. /\ offset' = offset /\ maxSeq'[i] = o /\ todo'[i] = Decoded(o)
        /\ poison'[i] = PoisonRow(o) /\ pc'[i] = "forward"
    BY <1>2 DEF ListMessages, Goto, IInv, TypeOK
  <2>2. UNCHANGED <<nextSeq, retained, disposed, excused>>
    BY DEF ListMessages, dbVars, histVars
  <2>3. /\ Settled(GroupOf[i])' = Settled(GroupOf[i])
        /\ Log' = Log
    BY <2>2 DEF Settled, Swept, Log
  <2>4. o \in Nat /\ 1..o \subseteq Settled(GroupOf[i])
    BY DEF IInv, TypeOK, PassInv, PassOk
  <2>5. ASSUME NEW m \in Rows(o), \A k \in Rows(o) : k < m => Kind[k] # "poison"
        PROVE  1..(m - 1) \subseteq Settled(GroupOf[i]) \cup Decoded(o)
    <3> SUFFICES ASSUME NEW k \in 1..(m - 1), k \notin Settled(GroupOf[i])
                 PROVE  k \in Decoded(o)
      OBVIOUS
    <3>1. m \in Log /\ m \in Nat /\ nextSeq - 1 \in Nat
      BY <2>4, PageRows, LogIsFinite DEF IInv, TypeOK
    <3>2. k \in Log /\ k \in Nat /\ k < m
      BY <3>1 DEF Log
    <3>3. k \in retained
      BY <3>2 DEF Settled, Swept
    <3>4. k > o
      BY <2>4, <3>2
    <3>5. k \in Rows(o)
      BY <2>4, <3>2, <3>3, <3>4, RowsClosed DEF IInv
    <3>6. \A x \in Rows(o) : x \in Nat
      BY <2>4, PageRows, LogIsFinite DEF IInv, TypeOK
    <3>7. \A x \in Rows(o) : x <= k => Kind[x] # "poison"
      BY <2>5, <3>1, <3>2, <3>6
    <3> QED
      BY <3>5, <3>7 DEF Decoded
  <2>r. \A m \in Rows(o) : m \in Nat /\ m \in Log
    BY <2>4, PageRows, LogIsFinite DEF IInv, TypeOK
  <2>6. ASSUME NEW m \in Decoded(o)
        PROVE  Reached(i, m)'
    <3>1. m \in Rows(o) /\ \A k \in Rows(o) : k < m => Kind[k] # "poison"
      BY <2>r DEF Decoded
    <3> QED
      BY <2>1, <2>3, <2>5, <3>1 DEF Reached
  <2>7. ASSUME PoisonRow(o) # 0
        PROVE  PoisonRow(o) \in Log /\ Reached(i, poison[i])'
    <3> DEFINE p == PoisonRow(o)
    <3>1. p \in Rows(o) /\ \A k \in Rows(o) : Kind[k] = "poison" => p <= k
      BY <2>4, <2>7, PageRows DEF IInv
    <3>2. \A k \in Rows(o) : k < p => Kind[k] # "poison"
      BY <2>r, <3>1
    <3>3. 1..(p - 1) \subseteq Settled(GroupOf[i]) \cup Decoded(o)
      <4> HIDE DEF p
      <4> QED
        BY <2>5, <3>1, <3>2
    <3> QED
      BY <2>1, <2>3, <2>r, <3>1, <3>3 DEF Reached
  <2>8. 1..offset'[i] \subseteq Settled(GroupOf[i])' /\ 1..maxSeq'[i] \subseteq Settled(GroupOf[i])'
    BY <2>1, <2>3, <2>4
  <2>9. (\A m \in todo[i] : Reached(i, m))'
    BY <2>1, <2>6
  <2>10. (poison[i] # 0 => poison[i] \in Log /\ Reached(i, poison[i]))'
    BY <2>1, <2>3, <2>7
  <2> QED
    BY <2>1, <2>8, <2>9, <2>10 DEF PassOk
<1> QED
  BY <1>1, <1>2

\* What the lane disposes of moves the page's position over settled messages.
LEMMA DisposedPage ==
    ASSUME IInv, [Next]_vars, NEW i \in Instances,
           NEW S, NEW late, Initial(i, S), Dispose(i, S, late),
           UNCHANGED <<offset, poison>>, pc'[i] # "park"
    PROVE  PassOk(i)'
<1> DEFINE g == GroupOf[i]
<1>1. g \in Groups /\ TypeOK /\ PassOk(i)
  BY SequenceRelayAssumption DEF IInv, PassInv
<1>2. /\ Settled(g) \subseteq Settled(g)' /\ Log \subseteq Log'
      /\ S \subseteq Settled(g)'
  BY <1>1, SettledGrows, SweptGrows DEF Dispose, Settled, TypeOK
<1>3. todo'[i] = todo[i] \ S /\ maxSeq'[i] = IF S = {} THEN maxSeq[i] ELSE Max(S)
  BY <1>1 DEF Dispose, TypeOK
<1>4. ASSUME NEW m, Reached(i, m)
      PROVE  Reached(i, m)'
  BY <1>2, <1>3, <1>4 DEF Reached
<1>5. ASSUME S # {}
      PROVE  1..Max(S) \subseteq Settled(g)'
  <2>1. S \in SUBSET Log /\ S \subseteq todo[i]
    BY <1>1 DEF Initial, TypeOK
  <2>2. Max(S) \in S
    BY <1>1, <1>5, <2>1, LogIsFinite, MaxIsGreatest
  <2>3. Max(S) \in Nat
    BY <1>1, <2>1, <2>2, LogIsFinite
  <2>4. 1..(Max(S) - 1) \subseteq Settled(g) \cup todo[i]
    BY <1>1, <2>1, <2>2 DEF PassOk, Reached
  <2>5. ASSUME NEW k \in 1..Max(S)
        PROVE  k \in Settled(g)'
    <3>1. CASE k = Max(S)
      BY <1>2, <2>2, <3>1
    <3>2. CASE k # Max(S)
      <4>1. k \in 1..(Max(S) - 1) /\ k < Max(S)
        BY <2>3, <3>2
      <4>2. k \in Settled(g) \/ k \in S
        BY <2>2, <2>4, <4>1 DEF Initial
      <4> QED
        BY <1>2, <4>2
    <3> QED
      BY <3>1, <3>2
  <2> QED
    BY <2>5
<1>6. 1..offset'[i] \subseteq Settled(g)' /\ 1..maxSeq'[i] \subseteq Settled(g)'
  BY <1>1, <1>2, <1>3, <1>5 DEF PassOk
<1>7. (\A m \in todo[i] : Reached(i, m))'
  BY <1>1, <1>3, <1>4 DEF PassOk
<1>8. (poison[i] # 0 => poison[i] \in Log /\ Reached(i, poison[i]))'
  BY <1>1, <1>2, <1>4 DEF PassOk, Reached
<1> QED
  BY <1>6, <1>7, <1>8 DEF PassOk

\* Every step keeps a pass from counting a message that is not settled.
LEMMA PassStep == IInv /\ [Next]_vars => PassInv'
<1> SUFFICES ASSUME IInv, [Next]_vars, NEW i \in Instances
             PROVE  PassOk(i)'
  BY DEF PassInv
<1> DEFINE g == GroupOf[i]
<1>1. g \in Groups /\ TypeOK /\ PassOk(i)
  BY SequenceRelayAssumption DEF IInv, PassInv
<1>2. Settled(g) \subseteq Settled(g)' /\ Log \subseteq Log'
  BY <1>1, SettledGrows, SweptGrows
<1>3. CASE Quiet(i)
  BY <1>1, <1>3, QuietKeepsPass
<1>4. CASE ReadOffset(i) \/ InitOffsetLatest(i)
  <2>1. offset'[i] = offset[i] \/ 1..offset'[i] \subseteq Settled(g)'
    <3>1. CASE g \in Registered
      BY <1>1, <1>2, <1>4, <3>1
         DEF ReadOffset, InitOffsetLatest, IInv, AtLeastOnce, Settled, TypeOK
    <3>2. CASE g \notin Registered /\ ReadOffset(i)
      BY <3>2 DEF ReadOffset
    <3>3. CASE g \notin Registered /\ InitOffsetLatest(i)
      BY <1>1, <3>3 DEF InitOffsetLatest, RegisterAt, Settled, TypeOK
    <3> QED
      BY <1>4, <3>1, <3>2, <3>3
  <2>2. UNCHANGED <<maxSeq, todo, poison>> /\ pc'[i] # "park"
    BY <1>1, <1>4 DEF ReadOffset, InitOffsetLatest, Goto, pageVars, TypeOK
  <2> QED
    BY <1>1, <1>2, <2>1, <2>2 DEF PassOk, Reached
<1>5. CASE ListMessages(i)
  BY <1>5, ListedPage
<1>6. CASE LaneSend(i) \/ LaneSendBatch(i) \/ ForwardCanceled(i)
  <2>1. UNCHANGED <<offset, poison>> /\ pc'[i] \in {"forward", "commit"}
    <3>1. UNCHANGED <<offset, poison>>
      BY <1>6 DEF LaneSend, LaneSendBatch, ForwardCanceled
    <3>2. \/ pc[i] = "forward" /\ pc' = pc
          \/ pc' = [pc EXCEPT ![i] = "commit"]
      BY <1>6 DEF LaneSend, LaneSendBatch, ForwardCanceled, StopLane, Goto
    <3> QED
      BY <1>1, <3>1, <3>2 DEF TypeOK
  <2>2. CASE \E S, late \in SUBSET todo[i] : Initial(i, S) /\ Dispose(i, S, late)
    BY <2>1, <2>2, DisposedPage
  <2>3. CASE UNCHANGED <<todo, maxSeq, disposed, stale>>
    <3>1. Quiet(i)
      BY <2>1, <2>3 DEF Quiet
    <3> QED
      BY <1>1, <3>1, QuietKeepsPass
  <2> QED
    BY <1>1, <1>6, <2>2, <2>3, LaneDisposes
<1>7. CASE ParkPoison(i)
  <2>1. /\ UNCHANGED <<offset, todo, poison>> /\ pc'[i] = "commit"
        /\ \/ maxSeq'[i] = maxSeq[i]
           \/ maxSeq'[i] = poison[i] /\ poison[i] \in disposed'[g]
    BY <1>1, <1>7 DEF ParkPoison, Goto, TypeOK
  <2>2. todo[i] = {} /\ poison[i] \in Log /\ 1..(poison[i] - 1) \subseteq Settled(g)
    BY <1>1, <1>7 DEF ParkPoison, PassOk, Reached
  <2>3. maxSeq'[i] = poison[i] /\ poison[i] \in disposed'[g] =>
          1..maxSeq'[i] \subseteq Settled(g)'
    <3> SUFFICES ASSUME poison[i] \in disposed'[g], NEW k \in 1..poison[i]
                 PROVE  k \in Settled(g)'
      OBVIOUS
    <3>1. poison[i] \in Nat
      BY <1>1 DEF TypeOK
    <3>2. k = poison[i] \/ k \in 1..(poison[i] - 1)
      BY <3>1
    <3> QED
      BY <1>2, <2>2, <3>2 DEF Settled
  <2> QED
    BY <1>1, <1>2, <2>1, <2>2, <2>3 DEF PassOk, Reached
<1> QED
  BY <1>1, <1>3, <1>4, <1>5, <1>6, <1>7, QuietSteps
-----------------------------------------------------------------------------
(***************************************************************************)
(* The watermarks.                                                         *)
(***************************************************************************)

\* Every write of an offset row is at a settled position; the one that
\* registers a group excuses what was swept before.
LEMMA OffsetStep ==
    ASSUME IInv, [Next]_vars, NEW g \in Groups, offsets'[g] # NoRow
    PROVE  /\ \/ offsets'[g] = offsets[g]
              \/ 1..offsets'[g] \subseteq disposed'[g] \cup excused'[g] \cup Swept
           /\ g \in Registered => offsets'[g] >= offsets[g]
           /\ g \notin Registered => Swept' = Swept /\ Swept \subseteq excused'[g]
<1> DEFINE Goal == /\ \/ offsets'[g] = offsets[g]
                      \/ 1..offsets'[g] \subseteq disposed'[g] \cup excused'[g] \cup Swept
                   /\ g \in Registered => offsets'[g] >= offsets[g]
                   /\ g \notin Registered => Swept' = Swept /\ Swept \subseteq excused'[g]
<1>1. TypeOK /\ offsets[g] \in Int /\ g \in DOMAIN excused /\ g \in DOMAIN offsets
  BY DEF IInv, TypeOK, NoRow
<1>2. ASSUME offsets'[g] = offsets[g]
      PROVE  Goal
  BY <1>1, <1>2 DEF Registered
<1>3. ASSUME NEW h \in Groups \ Registered, RegisterAt(h, Latest), UNCHANGED <<nextSeq, retained>>
      PROVE  Goal
  <2>1. CASE g = h
    <3>1. /\ offsets'[g] = Latest /\ excused'[g] = excused[g] \cup (1..Latest) \cup Swept
          /\ Swept' = Swept
      BY <1>1, <1>3, <2>1 DEF RegisterAt, Swept, Log
    <3> QED
      BY <1>3, <2>1, <3>1
  <2>2. CASE g # h
    BY <1>1, <1>2, <1>3, <2>2 DEF RegisterAt
  <2> QED
    BY <2>1, <2>2
<1>4. ASSUME NEW i \in Instances, NEW seq \in Nat, CommitOffset(i, seq),
             1..seq \subseteq Settled(GroupOf[i]), UNCHANGED <<nextSeq, retained, disposed>>
      PROVE  Goal
  <2>1. CASE g = GroupOf[i] /\ g \in Registered
    <3>1. offsets'[g] = (IF seq > offsets[g] THEN seq ELSE offsets[g]) /\ excused' = excused
      BY <1>1, <1>4, <2>1 DEF CommitOffset
    <3> QED
      BY <1>1, <1>2, <1>4, <2>1, <3>1 DEF Settled
  <2>2. CASE g = GroupOf[i] /\ g \notin Registered
    <3>1. offsets'[g] = seq /\ excused'[g] = excused[g] \cup Swept /\ Swept' = Swept
      BY <1>1, <1>4, <2>2 DEF CommitOffset, Swept, Log
    <3> QED
      BY <1>4, <2>2, <3>1 DEF Settled
  <2>3. CASE g # GroupOf[i]
    BY <1>1, <1>2, <1>4, <2>3 DEF CommitOffset
  <2> QED
    BY <2>1, <2>2, <2>3
<1>5. ASSUME NEW i \in Instances,
             InitOffsetLatest(i) \/ RegisterFromBeginning(i) \/ PrimeFails(i)
      PROVE  Goal
  <2>1. GroupOf[i] \in Groups /\ 1..0 \subseteq Settled(GroupOf[i]) /\ 0 \in Nat
    BY SequenceRelayAssumption
  <2>2. UNCHANGED <<nextSeq, retained, disposed>>
    BY <1>5 DEF InitOffsetLatest, RegisterFromBeginning, PrimeFails
  <2>3. \/ UNCHANGED offsets
        \/ GroupOf[i] \notin Registered /\ RegisterAt(GroupOf[i], Latest)
        \/ CommitOffset(i, 0)
    BY <1>5 DEF InitOffsetLatest, RegisterFromBeginning, PrimeFails
  <2> HIDE DEF Goal
  <2> QED
    BY <1>2, <1>3, <1>4, <2>1, <2>2, <2>3
<1>6. ASSUME NEW i \in Instances, CommitPage(i)
      PROVE  Goal
  <2>1. maxSeq[i] \in Nat /\ 1..maxSeq[i] \subseteq Settled(GroupOf[i])
    BY DEF IInv, TypeOK, PassInv, PassOk
  <2>2. UNCHANGED <<nextSeq, retained, disposed>>
    BY <1>6 DEF CommitPage
  <2>3. UNCHANGED offsets \/ CommitOffset(i, maxSeq[i])
    BY <1>6 DEF CommitPage
  <2> HIDE DEF Goal
  <2> QED
    BY <1>2, <1>4, <2>1, <2>2, <2>3
<1>7. ASSUME NEW h \in Groups, DeleteOffset(h)
      PROVE  Goal
  <2>1. offsets'[g] = offsets[g]
    BY <1>1, <1>7 DEF DeleteOffset
  <2> QED
    BY <1>2, <2>1
<1> QED
  <2> HIDE DEF Goal
  <2>1. Goal
    BY <1>2, <1>5, <1>6, <1>7, OnlyRegistrationExcuses
  <2> QED
    BY <2>1 DEF Goal

\* The invariant holds at the start.
LEMMA IInvInit == Init => IInv
<1> SUFFICES ASSUME Init
             PROVE  IInv
  OBVIOUS
<1>1. TypeOK
  BY SequenceRelayAssumption DEF Init, TypeOK, Log, PCs
<1>2. PassInv
  BY DEF Init, PassInv, PassOk, Reached
<1>3. AtLeastOnce /\ SweptInv
  BY DEF Init, AtLeastOnce, SweptInv, Registered
<1> QED
  BY <1>1, <1>2, <1>3 DEF IInv

\* Every step keeps it.
LEMMA IInvStep == IInv /\ [Next]_vars => IInv'
<1> SUFFICES ASSUME IInv, [Next]_vars
             PROVE  IInv'
  OBVIOUS
<1>1. TypeOK' /\ PassInv'
  BY TypeStep, PassStep DEF IInv
<1>2. ASSUME NEW g \in Groups, offsets'[g] # NoRow
      PROVE  /\ Swept \subseteq disposed'[g] \cup excused'[g]
             /\ 1..offsets'[g] \subseteq disposed'[g] \cup excused'[g]
             /\ Swept' \subseteq disposed'[g] \cup excused'[g]
  <2>1. disposed[g] \subseteq disposed'[g] /\ excused[g] \subseteq excused'[g]
    BY SettledGrows DEF IInv
  <2>2. Swept \subseteq disposed'[g] \cup excused'[g]
    BY <1>2, <2>1, OffsetStep DEF IInv, SweptInv
  <2>3. 1..offsets'[g] \subseteq disposed'[g] \cup excused'[g]
    <3>1. CASE offsets'[g] = offsets[g]
      BY <1>2, <2>1, <3>1 DEF IInv, AtLeastOnce, Registered
    <3>2. CASE offsets'[g] # offsets[g]
      BY <1>2, <2>2, <3>2, OffsetStep
    <3> QED
      BY <3>1, <3>2
  <2>4. ASSUME NEW m \in Sweepable, g \in Registered
        PROVE  m \in disposed'[g] \cup excused'[g]
    <3>1. m \in Nat /\ m > 0 /\ offsets[g] \in Int /\ m <= offsets[g]
      BY <2>4, LogIsFinite DEF IInv, TypeOK, Sweepable, NoRow
    <3>2. m \in 1..offsets[g]
      BY <3>1
    <3> QED
      BY <2>1, <2>4, <3>2 DEF IInv, AtLeastOnce
  <2>5. Swept' \subseteq disposed'[g] \cup excused'[g]
    <3>1. CASE g \notin Registered
      BY <1>2, <2>2, <3>1, OffsetStep
    <3>2. CASE g \in Registered
      BY <2>2, <2>4, <3>2, SweptGrows DEF IInv
    <3> QED
      BY <3>1, <3>2
  <2> QED
    BY <2>2, <2>3, <2>5
<1>3. AtLeastOnce' /\ SweptInv'
  BY <1>2 DEF AtLeastOnce, SweptInv, Registered
<1> QED
  BY <1>1, <1>3 DEF IInv

\* The inductive invariant of the relay.
LEMMA Invariance == Spec => []IInv
  BY IInvInit, IInvStep, PTL DEF Spec
-----------------------------------------------------------------------------
(***************************************************************************)
(* What holds of every relay.                                              *)
(***************************************************************************)

(***************************************************************************)
(* Every value keeps its type in every reachable state of the relay.       *)
(***************************************************************************)
THEOREM TypeCorrect == Spec => []TypeOK
<1>1. IInv => TypeOK
  BY DEF IInv
<1> QED
  BY <1>1, Invariance, PTL

(***************************************************************************)
(* At least once: no offset row ever passes a message that was neither     *)
(* delivered to its group, nor parked for it, nor one it was never owed,   *)
(* for any number of replicas, faults, steals, crashes and deletions, with *)
(* or without the fence, one send at a time or batched.                    *)
(***************************************************************************)
THEOREM AtLeastOnceHolds == Spec => []AtLeastOnce
<1>1. IInv => AtLeastOnce
  BY DEF IInv
<1> QED
  BY <1>1, Invariance, PTL

(***************************************************************************)
(* SweepMessages deletes no row that a registered group still needs.       *)
(***************************************************************************)
THEOREM SweepKeepsUndeliveredHolds == Spec => []SweepKeepsUndelivered
<1>1. IInv => SweepKeepsUndelivered
  BY DEF IInv, SweptInv, Swept, SweepKeepsUndelivered
<1> QED
  BY <1>1, Invariance, PTL

(***************************************************************************)
(* A commit never moves a watermark back, fenced or not.                   *)
(***************************************************************************)
THEOREM WatermarkMonotoneHolds == Spec => WatermarkMonotone
<1>1. IInv /\ [Next]_vars =>
        [\A g \in Registered : offsets'[g] = NoRow \/ offsets'[g] >= offsets[g]]_vars
  BY OffsetStep DEF Registered
<1> QED
  BY <1>1, Invariance, PTL DEF Spec, WatermarkMonotone
-----------------------------------------------------------------------------
(***************************************************************************)
(* One send at a time.                                                     *)
(***************************************************************************)

\* The serial lane touches the head of the page and nothing behind it.
LEMMA SerialLane ==
    ASSUME TypeOK, Batching = {}, NEW i \in Instances,
           LaneSend(i) \/ LaneSendBatch(i) \/ ForwardCanceled(i)
    PROVE  \/ UNCHANGED <<todo, maxSeq, disposed, stale>>
           \/ /\ todo[i] # {} /\ Min(todo[i]) \in todo[i]
              /\ \A k \in todo[i] : Min(todo[i]) <= k
              /\ \/ Dispose(i, {Min(todo[i])}, {})
                 \/ /\ \E late \in SUBSET {Min(todo[i])} : Dispose(i, {}, late)
                    /\ Goto(i, "commit")
<1> DEFINE h == Min(todo[i])
<1>1. todo[i] # {} => h \in todo[i] /\ \A k \in todo[i] : h <= k
  BY PageParts
<1>2. CASE LaneSend(i)
  <2>1. todo[i] # {}
    BY <1>2 DEF LaneSend
  <2>2. \/ Dispose(i, {h}, {})
        \/ (\E late \in SUBSET {h} : Dispose(i, {}, late)) /\ Goto(i, "commit")
    BY <1>2 DEF LaneSend, StopLane
  <2> QED
    BY <1>1, <2>1, <2>2
<1>3. CASE LaneSendBatch(i)
  BY <1>3 DEF LaneSendBatch
<1>4. CASE ForwardCanceled(i)
  <2>1. CASE todo[i] = {}
    BY <1>4, <2>1 DEF ForwardCanceled
  <2>2. CASE todo[i] # {}
    <3>1. PICK n \in 0..0 :
            \E late \in SUBSET {Min(todo[i] \ Prefix(i, n))} : Dispose(i, Prefix(i, n), late)
      BY <1>4, <2>2 DEF ForwardCanceled
    <3>2. n = 0 /\ Prefix(i, 0) = {} /\ todo[i] \ {} = todo[i]
      BY <3>1, EmptyPrefix
    <3>3. \E late \in SUBSET {h} : Dispose(i, {}, late)
      BY <3>1, <3>2
    <3>4. Goto(i, "commit")
      BY <1>4, <2>2 DEF ForwardCanceled, StopLane
    <3> QED
      BY <1>1, <2>2, <3>3, <3>4
  <2> QED
    BY <2>1, <2>2
<1> QED
  BY <1>2, <1>3, <1>4

\* Sending one at a time, a disposal has everything before it settled.
LEMMA OrderStep ==
    ASSUME Batching = {}, IInv, OrderInv, [Next]_vars
    PROVE  OrderInv'
<1> SUFFICES ASSUME NEW g \in Groups, NEW m \in disposed'[g]
             PROVE  1..(m - 1) \subseteq Settled(g)'
  BY DEF OrderInv
<1>1. TypeOK /\ Settled(g) \subseteq Settled(g)'
  BY SettledGrows DEF IInv
<1>2. CASE m \in disposed[g]
  BY <1>1, <1>2 DEF OrderInv
<1>3. ASSUME NEW i \in Instances, m \notin disposed[g],
             LaneSend(i) \/ LaneSendBatch(i) \/ ForwardCanceled(i)
      PROVE  1..(m - 1) \subseteq Settled(g)
  <2>1. CASE UNCHANGED disposed
    BY <1>3, <2>1
  <2>2. CASE ~UNCHANGED disposed
    <3>1. /\ Min(todo[i]) \in todo[i] /\ \A k \in todo[i] : Min(todo[i]) <= k
          /\ \E late \in SUBSET {Min(todo[i])} :
               Dispose(i, {Min(todo[i])}, {}) \/ Dispose(i, {}, late)
      BY <1>1, <1>3, <2>2, SerialLane
    <3>2. g = GroupOf[i] /\ m = Min(todo[i])
      BY <1>1, <1>3, <3>1 DEF Dispose, TypeOK
    <3>3. 1..(m - 1) \subseteq Settled(g) \cup todo[i]
      BY <3>1, <3>2 DEF IInv, PassInv, PassOk, Reached
    <3>4. \A k \in todo[i] : k \in Nat /\ m \in Nat /\ k \notin 1..(m - 1)
      BY <1>1, <3>1, <3>2, LogIsFinite DEF TypeOK
    <3> QED
      BY <3>3, <3>4
  <2> QED
    BY <2>1, <2>2
<1>4. ASSUME NEW i \in Instances, m \notin disposed[g], ParkPoison(i)
      PROVE  1..(m - 1) \subseteq Settled(g)
  <2>1. g = GroupOf[i] /\ m = poison[i]
    BY <1>1, <1>4 DEF ParkPoison, TypeOK
  <2> QED
    BY <1>4, <2>1 DEF ParkPoison, IInv, PassInv, PassOk, Reached
<1> QED
  BY <1>1, <1>2, <1>3, <1>4, OnlyTheLaneDisposes

(***************************************************************************)
(* Stop-the-lane: a group whose replicas send one message at a time never  *)
(* receives a message before every earlier one it is owed, even while a    *)
(* superseded leader still forwards its page beside the new one.           *)
(***************************************************************************)
THEOREM NoSkipAheadHolds ==
    ASSUME Batching = {}
    PROVE  Spec => []NoSkipAhead
<1>1. Init => OrderInv
  BY DEF Init, OrderInv
<1>2. IInv /\ OrderInv /\ [Next]_vars => OrderInv'
  BY OrderStep
<1>3. IInv /\ OrderInv => NoSkipAhead
  BY DEF IInv, OrderInv, SweptInv, Settled, NoSkipAhead, Registered
<1> QED
  BY <1>1, <1>2, <1>3, Invariance, PTL DEF Spec
-----------------------------------------------------------------------------
(***************************************************************************)
(* The overlap of a superseded leader.                                     *)
(***************************************************************************)

\* A page, its poison row included, has at most BatchSize rows.
LEMMA PageBound ==
    ASSUME TypeOK, NEW o \in Nat
    PROVE  /\ Cardinality(Decoded(o)) \in Nat
           /\ Cardinality(Decoded(o)) + (IF PoisonRow(o) = 0 THEN 0 ELSE 1) <= BatchSize
<1> DEFINE Past == {k \in retained : o < k}
<1>1. nextSeq - 1 \in Nat /\ Past \in SUBSET (0..(nextSeq - 1)) /\ BatchSize \in Nat
  BY LogIsFinite, SequenceRelayAssumption DEF TypeOK
<1>2. \A m \in Rows(o) : m \in Past /\ Cardinality({k \in Past : k < m}) < BatchSize
  <2> SUFFICES ASSUME NEW m \in Rows(o)
               PROVE  m \in Past /\ Cardinality({k \in Past : k < m}) < BatchSize
    OBVIOUS
  <2>1. m \in retained /\ m \in Nat /\ m > o
    BY LogIsFinite, PageRows DEF Rows, TypeOK
  <2>2. {k \in Past : k < m} = {k \in retained : o < k /\ k < m}
    OBVIOUS
  <2> QED
    BY <2>1, <2>2 DEF Rows
<1>3. IsFiniteSet(Rows(o)) /\ Cardinality(Rows(o)) \in Nat /\ Cardinality(Rows(o)) <= BatchSize
  <2> HIDE DEF Past
  <2>1. Rows(o) \in SUBSET Past
    BY <1>2
  <2> QED
    BY <1>1, <1>2, <2>1, FirstElements
<1>4. Decoded(o) \subseteq Rows(o)
  BY PageRows
<1>5. /\ IsFiniteSet(Decoded(o)) /\ Cardinality(Decoded(o)) \in Nat
      /\ Cardinality(Decoded(o)) <= Cardinality(Rows(o))
  BY <1>3, <1>4, FS_Subset, FS_CardinalityType
<1>6. CASE PoisonRow(o) = 0
  BY <1>1, <1>3, <1>5, <1>6
<1>7. CASE PoisonRow(o) # 0
  <2> DEFINE p == PoisonRow(o)
  <2>1. p \in Rows(o) /\ Kind[p] = "poison" /\ p <= p
    BY <1>7, PageRows
  <2>2. p \notin Decoded(o)
    BY <2>1 DEF Decoded
  <2> HIDE DEF p
  <2>3. Decoded(o) \cup {p} \subseteq Rows(o)
    BY <1>4, <2>1
  <2>4. Cardinality(Decoded(o) \cup {p}) = Cardinality(Decoded(o)) + 1
    BY <1>5, <2>2, FS_AddElement
  <2>5. Cardinality(Decoded(o) \cup {p}) <= Cardinality(Rows(o))
    BY <1>3, <2>3, FS_Subset
  <2> QED
    BY <1>1, <1>3, <1>5, <1>7, <2>4, <2>5
<1> QED
  BY <1>6, <1>7

\* A step that forwards nothing: it starts no page, and a phase that precedes the
\* drain begins with a renewed lease.
Calm(i) ==
    /\ stale'[i] \in {0, stale[i]}
    /\ pc'[i] \in Early => stale'[i] = 0 \/ pc[i] \in Early
    /\ pc'[i] \in {"forward", "park"} =>
         pc[i] \in {"forward", "park"} /\ todo'[i] = todo[i] /\ poison'[i] = poison[i]

\* All but the steps of the drain leave what an instance may still forward alone.
LEMMA CalmSteps ==
    ASSUME TypeOK, [Next]_vars, NEW j \in Instances
    PROVE  \/ Calm(j)
           \/ ListMessages(j) \/ LaneSend(j) \/ LaneSendBatch(j) \/ ForwardCanceled(j)
              \/ ParkPoison(j)
<1> USE DEF TypeOK, Calm, Early, Goto, pageVars, passVars, histVars
<1>1. ASSUME NEW i \in Instances, NEW label \in {"idle", "sweep", "release", "down"},
             EndPass(i, label), UNCHANGED stale \/ stale' = [stale EXCEPT ![i] = 0]
      PROVE  Calm(j)
  BY <1>1 DEF EndPass
<1>2. ASSUME NEW i \in Instances, TryAcquire(i) \/ TryAcquireUnknown(i)
      PROVE  Calm(j)
  BY <1>2 DEF TryAcquire, TryAcquireUnknown
<1>3. ASSUME NEW i \in Instances, ReadOffset(i) \/ InitOffsetLatest(i)
      PROVE  Calm(j)
  BY <1>3 DEF ReadOffset, InitOffsetLatest
<1>4. ASSUME NEW i \in Instances, RegisterFromBeginning(i) \/ PrimeFails(i)
      PROVE  Calm(j)
  BY <1>4 DEF RegisterFromBeginning, PrimeFails
<1>5. ASSUME NEW i \in Instances, EndSequence(i), pc[i] \in Early,
             UNCHANGED stale \/ stale' = [stale EXCEPT ![i] = 0]
      PROVE  Calm(j)
  BY <1>1, <1>5 DEF EndSequence
<1>6. ASSUME NEW i \in Instances, Sequence(i) \/ SequenceFails(i)
      PROVE  Calm(j)
  <2>1. UNCHANGED stale /\ pc[i] \in Early
    BY <1>6 DEF Sequence, SequenceFails
  <2>2. EndSequence(i) \/ pc' = [pc EXCEPT ![i] = "renewSeq"]
    BY <1>6 DEF Sequence, SequenceFails
  <2>3. ASSUME pc' = [pc EXCEPT ![i] = "renewSeq"], Sequence(i)
        PROVE  UNCHANGED <<todo, poison>> \/ EndSequence(i)
    BY <2>3 DEF Sequence
  <2>4. SequenceFails(i) => EndSequence(i)
    BY DEF SequenceFails
  <2> QED
    BY <1>5, <1>6, <2>1, <2>2, <2>3, <2>4
<1>7. ASSUME NEW i \in Instances, RenewSequence(i) \/ RenewDrain(i)
      PROVE  Calm(j)
  <2>1. ASSUME NEW label \in {"sequence", "list"}, NextPage(i, label), RenewHeld(i)
        PROVE  Calm(j)
    BY <2>1 DEF NextPage, RenewHeld
  <2>2. RenewHeld(i) => stale' = [stale EXCEPT ![i] = 0]
    BY DEF RenewHeld
  <2>3. RenewLost(i) => EndPass(i, "idle") /\ UNCHANGED stale
    BY DEF RenewLost
  <2>4. RenewSequence(i) => pc[i] \in Early
    BY DEF RenewSequence
  <2> QED
    BY <1>1, <1>5, <1>7, <2>1, <2>2, <2>3, <2>4 DEF RenewSequence, RenewDrain
<1>8. ASSUME NEW i \in Instances, i # j, ListMessages(i)
      PROVE  Calm(j)
  BY <1>1, <1>8 DEF ListMessages
<1>9. ASSUME NEW i \in Instances, ListFails(i) \/ SweepDone(i) \/ Shutdown(i) \/ Crash(i)
      PROVE  Calm(j)
  BY <1>1, <1>9 DEF ListFails, SweepDone, Shutdown, Crash
<1>10. ASSUME NEW i \in Instances, i # j,
              LaneSend(i) \/ LaneSendBatch(i) \/ ForwardCanceled(i)
       PROVE  Calm(j)
  <2>1. todo'[j] = todo[j] /\ stale'[j] = stale[j]
    <3>1. ASSUME NEW S, NEW late, Dispose(i, S, late)
          PROVE  todo'[j] = todo[j] /\ stale'[j] = stale[j]
      BY <1>10, <3>1 DEF Dispose
    <3> QED
      BY <1>10, <3>1, LaneDisposes
  <2>2. UNCHANGED poison /\ pc'[j] = pc[j]
    BY <1>10 DEF LaneSend, LaneSendBatch, ForwardCanceled, StopLane
  <2> QED
    BY <2>1, <2>2
<1>11. ASSUME NEW i \in Instances, PageForwarded(i)
       PROVE  Calm(j)
  BY <1>11 DEF PageForwarded
<1>12. ASSUME NEW i \in Instances, i # j, ParkPoison(i)
       PROVE  Calm(j)
  BY <1>12 DEF ParkPoison
<1>13. ASSUME NEW i \in Instances, CommitPage(i)
       PROVE  Calm(j)
  <2>1. UNCHANGED stale
    BY <1>13 DEF CommitPage
  <2>2. ASSUME PageCommitted(i)
        PROVE  Calm(j)
    BY <1>1, <2>1, <2>2 DEF PageCommitted
  <2> QED
    BY <1>1, <1>13, <2>1, <2>2 DEF CommitPage
<1>14. ASSUME NEW i \in Instances, SweepMessages(i) \/ Release(i) \/ Start(i) \/ Cancel(i)
       PROVE  Calm(j)
  BY <1>14 DEF SweepMessages, Release, Start, Cancel
<1>15. ASSUME PublishMessage \/ \E g \in Groups : DeleteOffset(g)
       PROVE  Calm(j)
  BY <1>15 DEF PublishMessage, DeleteOffset
<1>16. CASE UNCHANGED vars
  BY <1>16 DEF vars
<1> HIDE DEF TypeOK, Calm, Early, Goto, pageVars, passVars, histVars
<1> QED
  BY <1>2, <1>3, <1>4, <1>6, <1>7, <1>8, <1>9, <1>10, <1>11, <1>12, <1>13, <1>14, <1>15,
     <1>16 DEF Next, Step, Disturb

\* Every step keeps a superseded instance within its page.
LEMMA StaleStep ==
    ASSUME Batching = {}, IInv, StaleInv, [Next]_vars
    PROVE  StaleInv'
<1> SUFFICES ASSUME NEW i \in Instances
             PROVE  StaleOk(i)'
  BY DEF StaleInv
<1>1. TypeOK /\ TypeOK' /\ StaleOk(i)
  BY TypeStep DEF IInv, StaleInv
<1>2. /\ stale[i] \in Nat /\ stale'[i] \in Nat /\ BatchSize \in Nat \ {0}
      /\ poison[i] \in Nat /\ pc \in [Instances -> PCs] /\ stale \in [Instances -> Nat]
  BY <1>1, SequenceRelayAssumption DEF TypeOK
<1>3. todo[i] \in SUBSET Log /\ IsFiniteSet(todo[i]) /\ Cardinality(todo[i]) \in Nat
  BY <1>1, LogIsFinite DEF TypeOK
<1>4. CASE Calm(i)
  <2>1. stale'[i] <= BatchSize
    BY <1>1, <1>2, <1>4 DEF Calm, StaleOk
  <2>2. pc'[i] \in Early => stale'[i] = 0
    BY <1>1, <1>4 DEF Calm, StaleOk
  <2>3. ASSUME pc'[i] \in {"forward", "park"}
        PROVE  stale'[i] + Ahead(i)' <= BatchSize
    <3>1. Ahead(i)' = Ahead(i) /\ Ahead(i) \in Nat
      BY <1>3, <1>4, <2>3 DEF Calm, Ahead
    <3>2. stale[i] + Ahead(i) <= BatchSize
      BY <1>1, <1>4, <2>3 DEF Calm, StaleOk
    <3> QED
      BY <1>2, <1>4, <3>1, <3>2 DEF Calm
  <2> QED
    BY <2>1, <2>2, <2>3 DEF StaleOk
<1>5. CASE ListMessages(i)
  <2>1. pc[i] = "list" /\ stale' = stale /\ stale[i] = 0
    BY <1>1, <1>5 DEF ListMessages, histVars, StaleOk, Early
  <2>2. CASE EndPass(i, "sweep")
    <3>1. pc'[i] = "sweep"
      BY <1>2, <2>2 DEF EndPass, Goto
    <3> QED
      BY <1>2, <2>1, <3>1 DEF StaleOk, Early
  <2>3. CASE ~EndPass(i, "sweep")
    <3> DEFINE o == offset[i]
    <3>1. pc'[i] = "forward" /\ todo'[i] = Decoded(o) /\ poison'[i] = PoisonRow(o)
      BY <1>1, <1>5, <2>3 DEF ListMessages, Goto, TypeOK
    <3>2. o \in Nat
      BY <1>1 DEF TypeOK
    <3>3. /\ Cardinality(Decoded(o)) \in Nat
          /\ Cardinality(Decoded(o)) + (IF PoisonRow(o) = 0 THEN 0 ELSE 1) <= BatchSize
      BY <1>1, <3>2, PageBound
    <3>4. Ahead(i)' \in Nat /\ Ahead(i)' <= BatchSize
      BY <3>1, <3>3 DEF Ahead
    <3> QED
      BY <1>2, <2>1, <3>1, <3>4 DEF StaleOk, Early
  <2> QED
    BY <2>2, <2>3
<1>6. CASE LaneSend(i) \/ LaneSendBatch(i) \/ ForwardCanceled(i)
  <2>1. pc[i] \in {"forward", "park"} /\ pc'[i] \in {pc[i], "commit"} /\ poison' = poison
    <3>1. pc[i] \in {"forward", "park"} /\ poison' = poison
      BY <1>6 DEF LaneSend, LaneSendBatch, ForwardCanceled
    <3>2. pc' = pc \/ pc' = [pc EXCEPT ![i] = "commit"]
      BY <1>6 DEF LaneSend, LaneSendBatch, ForwardCanceled, StopLane, Goto
    <3> QED
      BY <1>2, <3>1, <3>2
  <2>2. Ahead(i) \in Nat /\ stale[i] + Ahead(i) <= BatchSize
    BY <1>1, <1>3, <2>1 DEF StaleOk, Ahead
  <2>3. CASE UNCHANGED <<todo, stale>>
    <3>1. Ahead(i)' = Ahead(i)
      BY <2>1, <2>3 DEF Ahead
    <3> QED
      BY <1>1, <2>1, <2>2, <2>3, <3>1 DEF StaleOk, Early
  <2>4. CASE ~UNCHANGED <<todo, stale>>
    <3> DEFINE h == Min(todo[i])
    <3>1. /\ h \in todo[i]
          /\ \/ Dispose(i, {h}, {})
             \/ (\E late \in SUBSET {h} : Dispose(i, {}, late)) /\ Goto(i, "commit")
      BY <1>1, <1>6, <2>4, SerialLane
    <3> HIDE DEF h
    <3>2. Ahead(i) >= 1 /\ Cardinality(todo[i] \ {h}) = Cardinality(todo[i]) - 1
      <4>1. Cardinality(todo[i] \ {h}) = Cardinality(todo[i]) - 1
        <5> DEFINE T == todo[i]
        <5>1. IsFiniteSet(T) /\ h \in T
          BY <1>3, <3>1
        <5> HIDE DEF T
        <5>2. Cardinality(T \ {h}) = Cardinality(T) - 1
          BY <5>1, FS_RemoveElement
        <5> QED
          BY <5>2 DEF T
      <4>2. Cardinality(todo[i] \ {h}) \in Nat
        BY <1>1, <1>3, LogIsFinite
      <4> QED
        BY <1>3, <4>1, <4>2 DEF Ahead
    <3>3. \A S \in SUBSET {h} : Cardinality(S) \in {0, 1}
      <4>1. \A S \in SUBSET {h} : S = {} \/ S = {h}
        OBVIOUS
      <4> QED
        BY <4>1, FS_EmptySet, FS_Singleton
    <3>4. CASE Dispose(i, {h}, {})
      <4>1. stale'[i] \in {stale[i], stale[i] + Cardinality({h})} /\ todo'[i] = todo[i] \ {h}
        BY <1>1, <3>4 DEF Dispose, TypeOK
      <4>2. stale'[i] <= stale[i] + 1
        BY <1>2, <3>3, <4>1
      <4>3. Ahead(i)' = Ahead(i) - 1
        BY <1>3, <2>1, <3>2, <4>1 DEF Ahead
      <4>4. stale'[i] + Ahead(i)' <= BatchSize /\ stale'[i] <= BatchSize
        BY <1>2, <2>2, <3>2, <4>2, <4>3
      <4> QED
        BY <2>1, <4>4 DEF StaleOk, Early
    <3>5. CASE (\E late \in SUBSET {h} : Dispose(i, {}, late)) /\ Goto(i, "commit")
      <4>1. PICK late \in SUBSET {h} : Dispose(i, {}, late)
        BY <3>5
      <4>2. stale'[i] \in {stale[i], stale[i] + Cardinality(late)}
        BY <1>1, <4>1 DEF Dispose, TypeOK
      <4>3. stale'[i] <= stale[i] + 1
        BY <1>2, <3>3, <4>2
      <4>4. pc'[i] = "commit"
        BY <1>2, <3>5 DEF Goto
      <4> QED
        BY <1>2, <2>2, <3>2, <4>3, <4>4 DEF StaleOk, Early
    <3> QED
      BY <3>1, <3>4, <3>5
  <2> QED
    BY <2>3, <2>4
<1>7. CASE ParkPoison(i)
  <2>1. pc[i] = "park" /\ pc'[i] = "commit" /\ stale'[i] \in {stale[i], stale[i] + 1}
    BY <1>1, <1>7 DEF ParkPoison, Goto, TypeOK
  <2>2. poison[i] # 0
    BY <2>1 DEF IInv, PassInv, PassOk
  <2>3. stale[i] + Ahead(i) <= BatchSize /\ Ahead(i) \in Nat /\ Ahead(i) >= 1
    BY <1>1, <1>3, <2>1, <2>2 DEF StaleOk, Ahead
  <2> QED
    BY <1>2, <2>1, <2>3 DEF StaleOk, Early
<1> QED
  BY <1>1, <1>4, <1>5, <1>6, <1>7, CalmSteps

(***************************************************************************)
(* renewLease between pages: an instance that sends one message at a time  *)
(* forwards at most one page after it lost its lease, however long it was  *)
(* paused, whatever it was doing when the lease was taken.                 *)
(***************************************************************************)
THEOREM StaleOverlapBoundedHolds ==
    ASSUME Batching = {}
    PROVE  Spec => []StaleOverlapBounded
<1>1. Init => StaleInv
  <2>1. BatchSize \in Nat
    BY SequenceRelayAssumption
  <2> QED
    BY <2>1 DEF Init, StaleInv, StaleOk, Early
<1>2. IInv /\ StaleInv /\ [Next]_vars => StaleInv'
  BY StaleStep
<1>3. StaleInv => StaleOverlapBounded
  BY DEF StaleInv, StaleOk, StaleOverlapBounded
<1> QED
  BY <1>1, <1>2, <1>3, Invariance, PTL DEF Spec
-----------------------------------------------------------------------------
(***************************************************************************)
(* A group that is alone on the log.                                       *)
(***************************************************************************)

\* Its replicas all replay from the beginning, or none does; a replica that does
\* not must not get past its registration by an error.
OwnLog ==
    /\ \E g : Groups = {g}
    /\ MaxDeletes = 0
    /\ \/ StartFromBeginning = Instances
       \/ StartFromBeginning = {} /\ "prime" \notin FaultPoints

\* Without deletions a registered group stays registered.
LEMMA RegisteredGrows ==
    ASSUME TypeOK, MaxDeletes = 0, [Next]_vars
    PROVE  Registered \subseteq Registered'
<1> SUFFICES ASSUME NEW g \in Groups, offsets[g] # NoRow
             PROVE  offsets'[g] # NoRow
  BY DEF Registered
<1>1. Latest \in Nat /\ \A n \in Nat : n # NoRow
  BY LatestInLog, LogIsFinite DEF NoRow
<1>2. ASSUME NEW h, RegisterAt(h, Latest)
      PROVE  offsets'[g] # NoRow
  BY <1>1, <1>2 DEF RegisterAt, TypeOK
<1>3. ASSUME NEW i \in Instances, NEW seq \in Nat, CommitOffset(i, seq)
      PROVE  offsets'[g] # NoRow
  BY <1>1, <1>3 DEF CommitOffset, TypeOK
<1>4. ASSUME NEW h \in Groups, DeleteOffset(h)
      PROVE  FALSE
  BY <1>4 DEF DeleteOffset, TypeOK
<1>5. ASSUME NEW i \in Instances, \/ InitOffsetLatest(i) \/ RegisterFromBeginning(i)
                                  \/ PrimeFails(i) \/ CommitPage(i)
      PROVE  offsets'[g] # NoRow
  <2>1. maxSeq[i] \in Nat /\ 0 \in Nat
    BY DEF TypeOK
  <2>2. \/ UNCHANGED offsets
        \/ RegisterAt(GroupOf[i], Latest)
        \/ CommitOffset(i, 0) \/ CommitOffset(i, maxSeq[i])
    BY <1>5 DEF InitOffsetLatest, RegisterFromBeginning, PrimeFails, CommitPage
  <2> QED
    BY <1>2, <1>3, <2>1, <2>2
<1> QED
  BY <1>4, <1>5, OnlyRegistrationExcuses

\* A step that excuses registers the group, and excuses what was swept and, unless
\* it replays, what is below the latest row.
LEMMA ExcusingStep ==
    ASSUME TypeOK, [Next]_vars, NEW g \in Groups, excused'[g] # excused[g]
    PROVE  /\ g \notin Registered
           /\ \/ excused'[g] = excused[g] \cup Swept
              \/ /\ StartFromBeginning # Instances
                 /\ excused'[g] = excused[g] \cup (1..Latest) \cup Swept
<1>1. ASSUME NEW i \in Instances, i \notin StartFromBeginning,
             GroupOf[i] \notin Registered, RegisterAt(GroupOf[i], Latest)
      PROVE  /\ g \notin Registered
             /\ StartFromBeginning # Instances
             /\ excused'[g] = excused[g] \cup (1..Latest) \cup Swept
  BY <1>1 DEF RegisterAt, TypeOK
<1>2. ASSUME NEW i \in Instances, NEW seq, CommitOffset(i, seq)
      PROVE  g \notin Registered /\ excused'[g] = excused[g] \cup Swept
  BY <1>2 DEF CommitOffset, TypeOK
<1>3. ASSUME NEW i \in Instances, \/ InitOffsetLatest(i) \/ RegisterFromBeginning(i)
                                  \/ PrimeFails(i) \/ CommitPage(i)
      PROVE  \/ /\ i \notin StartFromBeginning /\ GroupOf[i] \notin Registered
                /\ RegisterAt(GroupOf[i], Latest)
             \/ \E seq : CommitOffset(i, seq)
  BY <1>3 DEF InitOffsetLatest, RegisterFromBeginning, PrimeFails, CommitPage
<1>4. ASSUME NEW h \in Groups, DeleteOffset(h)
      PROVE  FALSE
  BY <1>4 DEF DeleteOffset, histVars
<1> QED
  BY <1>1, <1>2, <1>3, <1>4, OnlyRegistrationExcuses

\* Who may reach the sequencing phase, and who sequences.
LEMMA SequencingStep ==
    ASSUME TypeOK, [Next]_vars, StartFromBeginning = {}, "prime" \notin FaultPoints
    PROVE  /\ nextSeq' # nextSeq => \E i \in Instances : pc[i] = "sequence"
           /\ \A j \in Instances : pc'[j] \in {"sequence", "renewSeq"} =>
                pc[j] \in {"sequence", "renewSeq"} \/ GroupOf[j] \in Registered'
<1>1. nextSeq' # nextSeq => \E i \in Instances : pc[i] = "sequence"
  <2>1. ASSUME NEW i \in Instances, Sequence(i) \/ SequenceFails(i)
        PROVE  pc[i] = "sequence"
    BY <2>1 DEF Sequence, SequenceFails
  <2>2. ASSUME NEW i \in Instances,
               LaneSend(i) \/ LaneSendBatch(i) \/ ForwardCanceled(i) \/ ParkPoison(i)
        PROVE  UNCHANGED nextSeq
    BY <2>2 DEF LaneSend, LaneSendBatch, ForwardCanceled, ParkPoison, dbVars
  <2>3. ASSUME NEW i \in Instances, RenewSequence(i) \/ RenewDrain(i)
        PROVE  UNCHANGED nextSeq
    BY <2>3 DEF RenewSequence, RenewDrain, RenewHeld, RenewLost, dbVars
  <2>4. ASSUME NEW i \in Instances,
               \/ InitOffsetLatest(i) \/ RegisterFromBeginning(i)
               \/ PrimeFails(i) \/ CommitPage(i)
        PROVE  UNCHANGED nextSeq
    BY <2>4 DEF InitOffsetLatest, RegisterFromBeginning, PrimeFails, CommitPage
  <2> QED
    BY <2>1, <2>2, <2>3, <2>4
       DEF Next, Step, Disturb, vars, dbVars, TryAcquire, TryAcquireUnknown, ReadOffset,
           ListMessages, ListFails, PageForwarded, SweepMessages, SweepDone, Start, Cancel,
           Shutdown, Release, Crash, PublishMessage, DeleteOffset
<1>2. ASSUME NEW j \in Instances, pc'[j] \in {"sequence", "renewSeq"},
             pc[j] \notin {"sequence", "renewSeq"}
      PROVE  GroupOf[j] \in Registered'
  <2> USE <1>2 DEF Goto
  <2>p. pc \in [Instances -> PCs]
    BY DEF TypeOK
  <2>1. ASSUME NEW i \in Instances, NEW label, label \notin {"sequence", "renewSeq"},
               EndPass(i, label) \/ pc' = [pc EXCEPT ![i] = label]
        PROVE  FALSE
    BY <2>1, <2>p DEF EndPass
  <2>2. ASSUME NEW i \in Instances, ReadOffset(i)
        PROVE  GroupOf[j] \in Registered'
    <3>1. GroupOf[i] \in Registered /\ i = j
      BY <2>2, <2>p, <2>1 DEF ReadOffset
    <3> QED
      BY <2>2, <3>1 DEF ReadOffset, dbVars, Registered
  <2>3. ASSUME NEW i \in Instances, InitOffsetLatest(i)
        PROVE  GroupOf[j] \in Registered'
    <3>1. i = j /\ GroupOf[i] \in Groups
      BY <2>3, <2>p, SequenceRelayAssumption DEF InitOffsetLatest
    <3>2. Latest # NoRow
      BY LatestInLog, LogIsFinite DEF NoRow
    <3> QED
      BY <2>3, <3>1, <3>2 DEF InitOffsetLatest, RegisterAt, Registered, TypeOK
  <2>4. ASSUME NEW i \in Instances, RegisterFromBeginning(i) \/ PrimeFails(i)
        PROVE  FALSE
    BY <2>4 DEF RegisterFromBeginning, PrimeFails, Fault
  <2>5. ASSUME NEW i \in Instances,
               \/ Sequence(i) \/ SequenceFails(i) \/ RenewSequence(i) \/ RenewDrain(i)
        PROVE  FALSE
    <3>1. CASE Sequence(i) \/ SequenceFails(i) \/ RenewSequence(i)
      <4>1. pc[i] \in {"sequence", "renewSeq"} /\ i # j
        BY <3>1 DEF Sequence, SequenceFails, RenewSequence
      <4>2. \E label : pc' = [pc EXCEPT ![i] = label]
        BY <3>1 DEF Sequence, SequenceFails, RenewSequence, EndSequence, NextPage, RenewLost,
                    EndPass
      <4> QED
        BY <2>p, <4>1, <4>2
    <3>2. CASE RenewDrain(i)
      BY <2>1, <3>2 DEF RenewDrain, NextPage, RenewLost
    <3> QED
      BY <2>5, <3>1, <3>2
  <2>6. ASSUME NEW i \in Instances, \/ LaneSend(i) \/ LaneSendBatch(i) \/ ForwardCanceled(i)
                                    \/ ParkPoison(i) \/ PageForwarded(i)
        PROVE  FALSE
    <3>1. pc' = pc \/ \E label \in {"commit", "park"} : pc' = [pc EXCEPT ![i] = label]
      BY <2>6 DEF LaneSend, LaneSendBatch, ForwardCanceled, StopLane, ParkPoison,
                  PageForwarded
    <3> QED
      BY <2>1, <3>1
  <2>7. ASSUME NEW i \in Instances, ListMessages(i) \/ ListFails(i) \/ CommitPage(i)
        PROVE  FALSE
    <3>1. \E label \in {"sweep", "idle", "forward", "renewDrain"} :
            EndPass(i, label) \/ pc' = [pc EXCEPT ![i] = label]
      BY <2>7 DEF ListMessages, ListFails, CommitPage, PageCommitted
    <3> QED
      BY <2>1, <3>1
  <2>8. ASSUME NEW i \in Instances,
               \/ TryAcquire(i) \/ SweepDone(i) \/ Shutdown(i) \/ Release(i)
               \/ Start(i) \/ Crash(i)
        PROVE  FALSE
    <3>1. \E label \in {"prime", "idle", "release", "down"} :
            EndPass(i, label) \/ pc' = [pc EXCEPT ![i] = label]
      BY <2>8 DEF TryAcquire, SweepDone, Shutdown, Release, Start, Crash
    <3> QED
      BY <2>1, <3>1
  <2>9. ASSUME NEW i \in Instances, TryAcquireUnknown(i) \/ SweepMessages(i) \/ Cancel(i)
        PROVE  FALSE
    BY <2>9 DEF TryAcquireUnknown, SweepMessages, Cancel, passVars
  <2>10. ASSUME PublishMessage \/ \E g \in Groups : DeleteOffset(g)
         PROVE  FALSE
    BY <2>10 DEF PublishMessage, DeleteOffset, passVars
  <2>11. ASSUME UNCHANGED vars
         PROVE  FALSE
    BY <2>11 DEF vars
  <2> QED
    BY <2>2, <2>3, <2>4, <2>5, <2>6, <2>7, <2>8, <2>9, <2>10, <2>11 DEF Next, Step, Disturb
<1> QED
  BY <1>1, <1>2

\* Every step keeps a group that is alone on the log owed all of it.
LEMMA FreshStep ==
    ASSUME OwnLog, IInv, FreshInv, [Next]_vars
    PROVE  FreshInv'
<1>1. TypeOK /\ Registered \subseteq Registered'
  BY RegisteredGrows DEF IInv, OwnLog
<1>2. ASSUME NEW g \in Groups, g \notin Registered
      PROVE  Registered = {} /\ Swept = {} /\ Swept' = {}
  <2>1. Registered = {}
    BY <1>2 DEF OwnLog, Registered
  <2>2. Swept = {}
    BY <1>2 DEF FreshInv
  <2>3. Sweepable = {}
    BY <2>1 DEF Sweepable
  <2> QED
    BY <1>1, <2>1, <2>2, <2>3, SweptGrows
<1>3. nextSeq = 1 => Latest = 0
  BY <1>1 DEF TypeOK, Log, Latest
<1>4. ASSUME NEW g \in Groups
      PROVE  excused'[g] = {}
  <2>1. CASE excused'[g] = excused[g]
    BY <2>1 DEF FreshInv
  <2>2. CASE excused'[g] # excused[g]
    <3>1. g \notin Registered
      BY <1>1, <2>2, ExcusingStep
    <3>2. excused[g] = {} /\ Swept = {}
      BY <1>2, <3>1 DEF FreshInv
    <3>3. StartFromBeginning # Instances => 1..Latest = {}
      BY <1>3, <3>1 DEF FreshInv
    <3> QED
      BY <1>1, <2>2, <3>2, <3>3, ExcusingStep
  <2> QED
    BY <2>1, <2>2
<1>5. ASSUME NEW g \in Groups, g \notin Registered', StartFromBeginning # Instances
      PROVE  nextSeq' = 1
  <2>1. g \notin Registered /\ nextSeq = 1
    BY <1>1, <1>5 DEF FreshInv
  <2>2. \A i \in Instances : pc[i] # "sequence"
    <3>1. \A i \in Instances : GroupOf[i] = g
      BY SequenceRelayAssumption DEF OwnLog
    <3> QED
      BY <1>5, <2>1, <3>1 DEF FreshInv
  <2> QED
    BY <1>1, <1>5, <2>1, <2>2, SequencingStep DEF OwnLog
<1>6. ASSUME NEW i \in Instances, GroupOf[i] \notin Registered', StartFromBeginning # Instances
      PROVE  pc'[i] \notin {"sequence", "renewSeq"}
  <2>1. GroupOf[i] \notin Registered
    BY <1>1, <1>6
  <2> QED
    BY <1>1, <1>6, <2>1, SequencingStep DEF FreshInv, OwnLog
<1>7. ASSUME NEW g \in Groups, g \notin Registered'
      PROVE  Swept' = {}
  BY <1>1, <1>2, <1>7
<1> QED
  BY <1>4, <1>5, <1>6, <1>7 DEF FreshInv

(***************************************************************************)
(* primeOffset registers a group before the log is sequenced: a group that *)
(* is alone on the log is owed everything ever committed, whichever of its *)
(* replicas registers it, and however often they crash or lose the lease   *)
(* in between.  The hypothesis leaves out what breaks this: a second group *)
(* that sequences first, a deleted offset, and a registration that fails.  *)
(***************************************************************************)
THEOREM FreshGroupOwedBacklogHolds ==
    ASSUME OwnLog
    PROVE  Spec => []FreshGroupOwedBacklog
<1>1. Init => FreshInv
  BY DEF Init, FreshInv, Swept, Log
<1>2. IInv /\ FreshInv /\ [Next]_vars => FreshInv'
  BY FreshStep
<1>3. FreshInv => FreshGroupOwedBacklog
  BY DEF FreshInv, FreshGroupOwedBacklog
<1> QED
  BY <1>1, <1>2, <1>3, Invariance, PTL DEF Spec
=============================================================================
