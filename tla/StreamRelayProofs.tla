------------------------- MODULE StreamRelayProofs -------------------------
(***************************************************************************)
(* Proofs about StreamRelay, for every number of replicas, every oplog,    *)
(* every window size and any number of failed calls, crashes, truncations  *)
(* and resets of the group.                                                *)
(*                                                                         *)
(* A replica carries positions from one call to the next: the open stream, *)
(* the position to save, the loaded token and the baseline.  Once a group  *)
(* has a row, none of them may be past an event that is still owed; before *)
(* that, only one replica, the lock holder, carries any, and they count    *)
(* from the first position at which it opened the stream.                  *)
(***************************************************************************)
EXTENDS StreamRelay, MinMax

\* What the group need not be sent any more.
Settled == disposed \cup excused

\* No owed event after lo and up to p is unsettled.
Clean(lo, p) == \A q \in Owed : lo < q /\ q <= p => q \in Settled

\* No event after lo was disposed of before an earlier one that is owed.
OrderFrom(lo) == \A m \in disposed : Clean(lo, m - 1)

\* Where the obligations of replica i begin.
Floor(i) == IF Registered THEN 0 ELSE first[i]

(***************************************************************************)
(* Types.  The positions that the row and the replicas hold are of the     *)
(* oplog as it is now.                                                     *)
(***************************************************************************)
Here == (0..head) \cup {NoTok}
RowsHere == [tok : Here, ct : Times]

DbType ==
    /\ head \in Positions /\ oldest \in 0..head
    /\ row \in RowsHere
    /\ holder \in Instances \cup {None}
    /\ troubles \in 0..MaxTroubles
PassType ==
    /\ pc \in [Instances -> PCs]
    /\ live \in [Instances -> BOOLEAN]
    /\ stream \in [Instances -> Here]
    /\ baseline \in [Instances -> Here]
    /\ lastSaved \in [Instances -> Tokens]
    /\ committedCT \in [Instances -> Times]
    /\ loaded \in [Instances -> RowsHere]
    /\ handled \in [Instances -> 0..TokenBatchSize]
    /\ lastTok \in [Instances -> Here]
    /\ lastCT \in [Instances -> Times]
    /\ ending \in [Instances -> Endings]
    /\ first \in [Instances -> Here]
HistType == disposed \subseteq 1..head /\ excused \subseteq 1..head

\* Which position a replica has at which call.
Carries(i) ==
    /\ pc[i] # "save" => handled[i] < TokenBatchSize
    /\ pc[i] \in {"next", "save"} => stream[i] # NoTok
    /\ pc[i] \in {"down", "release", "load", "watch"} => stream[i] = NoTok
    /\ pc[i] = "save" => lastTok[i] # NoTok
    /\ pc[i] \notin {"next", "save"} => lastTok[i] = NoTok
    /\ pc[i] # "watch" => loaded[i] = NoRow
    /\ pc[i] = "down" => holder # i /\ baseline[i] = NoTok /\ first[i] = NoTok

TypeInv ==
    /\ DbType /\ PassType /\ HistType
    /\ \A i \in Instances : Carries(i)
    /\ row.tok = NoTok => row = NoRow

(***************************************************************************)
(* Safety, when a live leader keeps its lease until the group has a row.   *)
(***************************************************************************)

\* A replica about to open its stream knows whether the group has a row.
Informed(i) == pc[i] = "watch" => (loaded[i].tok # NoTok <=> Registered)

\* Before the group has a row, only the lock holder has a position.
Starting(i) ==
    /\ baseline[i] = first[i]
    /\ first[i] = NoTok => stream[i] = NoTok
    /\ holder # i => first[i] = NoTok /\ pc[i] \in {"down", "idle", "release"}

\* A replica's positions are past no event that is still owed.
PassesNone(i) ==
    /\ Clean(Floor(i), stream[i])
    /\ Clean(Floor(i), lastTok[i])
    /\ Clean(Floor(i), loaded[i].tok)

ReplicaOk(i) ==
    /\ Informed(i)
    /\ PassesNone(i)
    /\ ~Registered => Starting(i)
    /\ ~Registered /\ first[i] # NoTok => OrderFrom(first[i])

RowOk == Clean(0, row.tok) /\ (Registered => OrderFrom(0))

IInv == TypeInv /\ RowOk /\ \A i \in Instances : ReplicaOk(i)
-----------------------------------------------------------------------------
(***************************************************************************)
(* Type correctness.                                                       *)
(***************************************************************************)

\* Positions and their commit times are in range.
LEMMA Ranges ==
    ASSUME DbType
    PROVE  /\ head \in Nat /\ head <= MaxHead /\ oldest \in Nat
           /\ head \in Here /\ NoTok \in Here /\ 1..head \subseteq Here
           /\ Here \subseteq Tokens /\ RowsHere \subseteq Rows /\ NoRow \in RowsHere
           /\ \A p \in 0..head : p \in Here /\ CommitTime(p) \in Times
           /\ \A p \in Here : p \in Int /\ (p # NoTok => p \in 0..head)
           /\ 0 \in Times
<1>1. head \in Nat /\ head <= MaxHead /\ MaxHead \in Nat /\ oldest \in Nat
  BY StreamRelayAssumption DEF DbType, Positions
<1>2. head \in Here /\ NoTok \in Here /\ 1..head \subseteq Here /\ Here \subseteq Tokens
  BY <1>1 DEF Here, Tokens, Positions
<1>3. \A p \in 0..head : p \in Here /\ CommitTime(p) \in Times
  BY <1>1 DEF Here, CommitTime, Times
<1>4. \A p \in Here : p \in Int /\ (p # NoTok => p \in 0..head)
  BY <1>1 DEF Here, NoTok
<1>5. 0 \in Times
  BY <1>1 DEF Times
<1>6. RowsHere \subseteq Rows /\ NoRow \in RowsHere
  BY <1>2, <1>5 DEF RowsHere, Rows, NoRow
<1> QED
  BY <1>1, <1>2, <1>3, <1>4, <1>5, <1>6

\* The next entry is the first one behind the stream that the stream shows.
LEMMA NextEntryIsFirst ==
    ASSUME TypeInv, NEW i \in Instances, pc[i] = "next", Waiting(i) # {}
    PROVE  /\ NextEntry(i) \in 1..head /\ NextEntry(i) > stream[i]
           /\ \A q \in Waiting(i) : NextEntry(i) <= q
<1>1. DbType /\ stream[i] \in Here /\ stream[i] # NoTok
  BY DEF TypeInv, PassType, Carries
<1>2. head \in Nat /\ stream[i] \in 0..head
  BY <1>1, Ranges
<1>3. Waiting(i) \in SUBSET Nat /\ \A q \in Waiting(i) : q \in 1..head /\ q > stream[i]
  BY <1>2 DEF Waiting
<1>4. NextEntry(i) \in Waiting(i) /\ \A q \in Waiting(i) : NextEntry(i) <= q
  <2> HIDE DEF Waiting
  <2> QED
    BY <1>3, MinIsLeast DEF NextEntry
<1> QED
  BY <1>3, <1>4

\* The end of a pass resets the window within its types.
LEMMA EndPassType ==
    ASSUME DbType, PassType, NEW i \in Instances, NEW label \in PCs, NEW pos \in Here,
           EndPass(i, label, pos), head' = head
    PROVE  /\ pc' \in [Instances -> PCs]
           /\ stream' \in [Instances -> Here]
           /\ loaded' \in [Instances -> RowsHere]
           /\ handled' \in [Instances -> 0..TokenBatchSize]
           /\ lastTok' \in [Instances -> Here]
           /\ lastCT' \in [Instances -> Times]
           /\ ending' \in [Instances -> Endings]
<1>1. TokenBatchSize \in Nat
  BY StreamRelayAssumption
<1> QED
  BY <1>1, Ranges DEF EndPass, FreshWindow, Goto, PassType, Endings

\* A pass that ends leaves nothing behind but, perhaps, an open stream.
LEMMA EndPassCarries ==
    ASSUME PassType, NEW i \in Instances, NEW label \in PCs, NEW pos, EndPass(i, label, pos),
           \A j \in Instances : Carries(j),
           label \in {"idle", "next", "down", "release"},
           label = "next" => pos # NoTok,
           label \in {"down", "release"} => pos = NoTok,
           \A j \in Instances : j # i =>
              /\ baseline'[j] = baseline[j] /\ first'[j] = first[j]
              /\ holder # j => holder' # j,
           label = "down" => holder' # i /\ baseline'[i] = NoTok /\ first'[i] = NoTok
    PROVE  \A j \in Instances : Carries(j)'
<1> SUFFICES ASSUME NEW j \in Instances
             PROVE  Carries(j)'
  OBVIOUS
<1>1. TokenBatchSize \in Nat \ {0}
  BY StreamRelayAssumption
<1>2. CASE j = i
  BY <1>1, <1>2 DEF EndPass, FreshWindow, Goto, PassType, Carries
<1>3. CASE j # i
  <2>1. /\ pc'[j] = pc[j] /\ stream'[j] = stream[j] /\ lastTok'[j] = lastTok[j]
        /\ loaded'[j] = loaded[j] /\ handled'[j] = handled[j]
    BY <1>3 DEF EndPass, FreshWindow, Goto, PassType
  <2> QED
    BY <1>3, <2>1 DEF Carries
<1> QED
  BY <1>2, <1>3

\* So does the end of a window.
LEMMA BreakType ==
    ASSUME TypeInv, NEW i \in Instances, NEW why \in Endings, pc[i] = "next",
           Break(i, why), UNCHANGED <<head, holder, live, trackVars, first>>
    PROVE  PassType' /\ \A j \in Instances : Carries(j)'
<1>1. DbType /\ PassType /\ \A j \in Instances : Carries(j)
  BY DEF TypeInv
<1>2. UNCHANGED <<baseline, lastSaved, committedCT>> /\ NoTok \in Here /\ Here' = Here
  BY <1>1, Ranges DEF trackVars, Here
<1>3. CASE lastTok[i] = NoTok
  <2>1. PICK label \in {"idle", "release"} : EndPass(i, label, NoTok)
    BY <1>3 DEF Break, CloseStream
  <2>2. label \in PCs
    BY DEF PCs
  <2>3. PassType'
    <3>1. UNCHANGED RowsHere
      BY <1>2 DEF RowsHere
    <3> QED
      BY <1>1, <1>2, <2>1, <2>2, <3>1, EndPassType DEF PassType
  <2>4. \A j \in Instances : Carries(j)'
    BY <1>1, <1>2, <2>1, <2>2, EndPassCarries
  <2> QED
    BY <2>3, <2>4
<1>4. CASE lastTok[i] # NoTok
  <2>1. /\ pc' = [pc EXCEPT ![i] = "save"] /\ ending' = [ending EXCEPT ![i] = why]
        /\ UNCHANGED <<stream, loaded, handled, lastTok, lastCT>>
    BY <1>4 DEF Break, Goto
  <2>2. PassType'
    BY <1>1, <1>2, <2>1 DEF PassType, PCs, RowsHere
  <2>3. \A j \in Instances : Carries(j)'
    BY <1>1, <1>2, <1>4, <2>1 DEF PassType, Carries
  <2> QED
    BY <2>2, <2>3
<1> QED
  BY <1>3, <1>4

\* The window moves over one entry within its types.
LEMMA AdvanceType ==
    ASSUME TypeInv, NEW i \in Instances, NEW ct \in Times, pc[i] = "next", Waiting(i) # {},
           Advance(i, ct), UNCHANGED <<head, holder, live, trackVars, first, loaded>>
    PROVE  PassType' /\ \A j \in Instances : Carries(j)'
<1>1. DbType /\ PassType /\ \A j \in Instances : Carries(j)
  BY DEF TypeInv
<1>2. /\ UNCHANGED <<baseline, lastSaved, committedCT>> /\ Here' = Here
      /\ NextEntry(i) \in Here /\ NextEntry(i) # NoTok
  <2>1. NextEntry(i) \in 1..head /\ head \in Nat
    BY <1>1, NextEntryIsFirst, Ranges
  <2> QED
    BY <2>1 DEF trackVars, Here, NoTok
<1>3. handled[i] \in Nat /\ handled[i] < TokenBatchSize /\ TokenBatchSize \in Nat
  BY <1>1, StreamRelayAssumption DEF PassType, Carries
<1>4. pc' = [pc EXCEPT ![i] = IF handled[i] + 1 = TokenBatchSize THEN "save" ELSE "next"]
  BY DEF Advance, Goto
<1>5. /\ stream' = [stream EXCEPT ![i] = NextEntry(i)]
      /\ lastTok' = [lastTok EXCEPT ![i] = NextEntry(i)]
      /\ lastCT' = [lastCT EXCEPT ![i] = ct]
      /\ handled' = [handled EXCEPT ![i] = handled[i] + 1]
      /\ ending' = ending
  BY <1>1 DEF Advance, PassType
<1>6. PassType'
  <2>1. handled[i] + 1 \in 0..TokenBatchSize /\ RowsHere' = RowsHere
    BY <1>2, <1>3 DEF RowsHere
  <2> HIDE DEF NextEntry
  <2> QED
    BY <1>1, <1>2, <1>4, <1>5, <2>1 DEF PassType, PCs
<1>7. ASSUME NEW j \in Instances
      PROVE  Carries(j)'
  <2>1. CASE j = i
    BY <1>1, <1>2, <1>3, <1>4, <1>5, <2>1 DEF PassType, Carries
  <2>2. CASE j # i
    BY <1>1, <1>2, <1>4, <1>5, <2>2 DEF PassType, Carries
  <2> QED
    BY <2>1, <2>2
<1> QED
  BY <1>6, <1>7

\* Every step keeps the types, and what a window carries.
LEMMA TypeStep == TypeInv /\ [Next]_vars => TypeInv'
<1> DEFINE Carry == \A j \in Instances : Carries(j)
           RowForm == row.tok = NoTok => row = NoRow
<1> SUFFICES ASSUME TypeInv, [Next]_vars
             PROVE  (DbType /\ PassType /\ HistType /\ Carry /\ RowForm)'
  BY DEF TypeInv
<1>a. DbType /\ PassType /\ HistType /\ Carry /\ RowForm
  BY DEF TypeInv
<1>b. /\ head \in Nat /\ head <= MaxHead /\ MaxHead \in Nat /\ NoTok \in Here
      /\ TokenBatchSize \in Nat \ {0} /\ None \notin Instances /\ MaxTroubles \in Nat
  BY <1>a, Ranges, StreamRelayAssumption
<1>c. ASSUME NEW what, Trouble(what)
      PROVE  troubles' \in 0..MaxTroubles
  BY <1>a, <1>b, <1>c DEF Trouble, DbType
<1>d. ASSUME UNCHANGED <<head, oldest, row>>, holder' \in Instances \cup {None},
             \/ UNCHANGED troubles
             \/ \E what : Trouble(what)
      PROVE  DbType' /\ RowForm'
  BY <1>a, <1>c, <1>d DEF DbType, RowsHere, Here
<1>e. ASSUME UNCHANGED <<head, disposed, excused>>
      PROVE  HistType'
  BY <1>a, <1>e DEF HistType
<1>f. ASSUME head' = head
      PROVE  Here' = Here /\ RowsHere' = RowsHere
  BY <1>f DEF Here, RowsHere
<1> HIDE DEF RowForm
<1>1. ASSUME NEW i \in Instances, TryAcquire(i) \/ NotLeader(i)
      PROVE  (DbType /\ PassType /\ HistType /\ Carry /\ RowForm)'
  <2>1. /\ UNCHANGED <<head, oldest, row, live, baseline, lastSaved, committedCT, disposed,
                       excused, first>>
        /\ holder' \in {holder, i}
        /\ UNCHANGED troubles \/ \E what : Trouble(what)
    BY <1>1 DEF TryAcquire, NotLeader, TakeLock, Rival, trackVars, histVars
  <2>2. DbType' /\ RowForm'
    BY <1>a, <1>d, <2>1 DEF DbType
  <2>3. HistType'
    BY <1>e, <2>1
  <2>4. CASE NotLeader(i)
    <3>1. EndPass(i, "idle", NoTok) /\ "idle" \in PCs
      BY <2>4 DEF NotLeader, PCs
    <3>2. PassType'
      BY <1>a, <1>b, <1>f, <2>1, <3>1, EndPassType DEF PassType
    <3>3. Carry'
      BY <1>a, <2>1, <3>1, EndPassCarries
    <3> QED
      BY <2>2, <2>3, <3>2, <3>3
  <2>5. CASE TryAcquire(i)
    <3>1. /\ UNCHANGED <<stream, loaded, handled, lastTok, lastCT, ending>> /\ holder' = i
          /\ pc' = [pc EXCEPT ![i] = IF stream[i] = NoTok THEN "load" ELSE "next"]
          /\ pc[i] = "idle"
      BY <2>5 DEF TryAcquire, TakeLock, Goto, windowVars
    <3>2. PassType'
      BY <1>a, <1>f, <2>1, <3>1 DEF PassType, PCs
    <3>3. Carry'
      BY <1>a, <2>1, <3>1 DEF PassType, Carries
    <3> QED
      BY <2>2, <2>3, <3>2, <3>3
  <2> QED
    BY <1>1, <2>4, <2>5
<1>2. ASSUME NEW i \in Instances, LoadToken(i)
      PROVE  (DbType /\ PassType /\ HistType /\ Carry /\ RowForm)'
  <2>1. /\ UNCHANGED <<head, oldest, row, holder, troubles, live, stream, baseline, lastSaved,
                       committedCT, handled, lastTok, lastCT, ending, disposed, excused, first>>
        /\ pc[i] = "load" /\ pc' = [pc EXCEPT ![i] = "watch"]
        /\ loaded' = [loaded EXCEPT ![i] = row]
    BY <1>2 DEF LoadToken, dbVars, trackVars, windowVars, histVars, Goto
  <2>2. DbType' /\ RowForm' /\ HistType'
    BY <1>a, <1>d, <1>e, <2>1 DEF DbType
  <2>3. PassType'
    BY <1>a, <1>f, <2>1 DEF PassType, DbType, PCs
  <2>4. Carry'
    BY <1>a, <2>1 DEF PassType, Carries
  <2> QED
    BY <2>2, <2>3, <2>4
<1>3. ASSUME NEW i \in Instances, Resume(i)
      PROVE  (DbType /\ PassType /\ HistType /\ Carry /\ RowForm)'
  <2>1. /\ UNCHANGED <<head, oldest, row, holder, troubles, live, baseline, disposed, excused,
                       first>>
        /\ EndPass(i, "next", ResumeToken(i)) /\ "next" \in PCs
    BY <1>3 DEF Resume, dbVars, histVars, EndPass, PCs
  <2>2. DbType' /\ RowForm' /\ HistType'
    BY <1>a, <1>d, <1>e, <2>1 DEF DbType
  <2>3. /\ ResumeToken(i) \in Here /\ ResumeToken(i) # NoTok
        /\ loaded[i].tok = NoTok => baseline[i] \in 0..head
    <3>1. loaded[i].tok \in Here /\ baseline[i] \in Here
      BY <1>a DEF PassType, RowsHere
    <3>2. ResumeToken(i) >= oldest /\ oldest \in Nat
      BY <1>3, <1>a, Ranges DEF Resume
    <3> QED
      BY <1>a, <3>1, <3>2, Ranges DEF ResumeToken, NoTok
  <2>4. PassType'
    <3>1. committedCT' \in [Instances -> Times]
      <4>1. loaded[i].ct \in Times
        BY <1>a DEF PassType, RowsHere
      <4>2. loaded[i].tok = NoTok => CommitTime(baseline[i]) \in Times
        BY <1>a, <2>3, Ranges
      <4> QED
        BY <1>3, <1>a, <4>1, <4>2 DEF Resume, PassType
    <3>2. lastSaved' \in [Instances -> Tokens]
      <4>1. loaded[i].tok \in Tokens
        BY <1>a, Ranges DEF PassType, RowsHere
      <4> QED
        BY <1>3, <1>a, <4>1 DEF Resume, Seed, PassType
    <3> HIDE DEF ResumeToken
    <3> QED
      BY <1>a, <1>f, <2>1, <2>3, <3>1, <3>2, EndPassType DEF PassType
  <2>5. Carry'
    BY <1>a, <2>1, <2>3, EndPassCarries
  <2> QED
    BY <2>2, <2>4, <2>5
<1>4. ASSUME NEW i \in Instances, ResumeLost(i) \/ OpenFails(i) \/ Shutdown(i)
      PROVE  (DbType /\ PassType /\ HistType /\ Carry /\ RowForm)'
  <2>1. /\ UNCHANGED <<head, oldest, row, holder, live, baseline, lastSaved, committedCT,
                       disposed, excused, first>>
        /\ UNCHANGED troubles \/ \E what : Trouble(what)
    BY <1>4 DEF ResumeLost, OpenFails, Shutdown, dbVars, trackVars, histVars
  <2>2. PICK label \in {"idle", "release"} : EndPass(i, label, NoTok)
    BY <1>4 DEF ResumeLost, OpenFails, Shutdown, CloseStream
  <2>3. DbType' /\ RowForm' /\ HistType'
    BY <1>a, <1>d, <1>e, <2>1 DEF DbType
  <2>4. label \in PCs
    BY DEF PCs
  <2>5. PassType'
    BY <1>a, <1>b, <1>f, <2>1, <2>2, <2>4, EndPassType DEF PassType
  <2>6. Carry'
    BY <1>a, <2>1, <2>2, <2>4, EndPassCarries
  <2> QED
    BY <2>3, <2>5, <2>6
<1>5. ASSUME NEW i \in Instances, OpenFresh(i)
      PROVE  (DbType /\ PassType /\ HistType /\ Carry /\ RowForm)'
  <2>1. /\ UNCHANGED <<head, oldest, row, holder, troubles, live, handled, disposed, excused>>
        /\ pc[i] = "watch" /\ pc' = [pc EXCEPT ![i] = "save"]
        /\ stream' = [stream EXCEPT ![i] = head]
        /\ lastTok' = [lastTok EXCEPT ![i] = head]
        /\ loaded' = [loaded EXCEPT ![i] = NoRow]
        /\ baseline' = [baseline EXCEPT ![i] = head]
        /\ first' = [first EXCEPT ![i] = IF first[i] = NoTok THEN head ELSE first[i]]
    BY <1>5, <1>a DEF OpenFresh, dbVars, Goto, PassType
  <2>2. DbType' /\ RowForm' /\ HistType'
    BY <1>a, <1>d, <1>e, <2>1 DEF DbType
  <2>3. head \in Here /\ CommitTime(head) \in Times /\ 0 \in Times /\ NoTok \in Tokens /\ head # NoTok
        /\ NoRow \in RowsHere
    <3>1. head \in 0..head /\ head # NoTok
      BY <1>b DEF NoTok
    <3> QED
      BY <1>a, <3>1, Ranges DEF Tokens
  <2>4. PassType'
    <3>1. /\ lastSaved' = [lastSaved EXCEPT ![i] = NoTok]
          /\ committedCT' = [committedCT EXCEPT ![i] = 0]
          /\ lastCT' = [lastCT EXCEPT ![i] = CommitTime(head)]
          /\ ending' = [ending EXCEPT ![i] = "baseline"]
      BY <1>5 DEF OpenFresh
    <3> QED
      BY <1>a, <1>f, <2>1, <2>3, <3>1 DEF PassType, PCs, Endings
  <2>5. Carry'
    BY <1>a, <2>1, <2>3 DEF PassType, Carries
  <2> QED
    BY <2>2, <2>4, <2>5
<1>6. ASSUME NEW i \in Instances, LaneSend(i) \/ ParkPoison(i)
      PROVE  (DbType /\ PassType /\ HistType /\ Carry /\ RowForm)'
  <2>1. /\ UNCHANGED <<head, oldest, row, holder, live, trackVars, excused, first>>
        /\ UNCHANGED troubles \/ \E what : Trouble(what)
        /\ pc[i] = "next" /\ Waiting(i) # {}
        /\ disposed' \subseteq disposed \cup {NextEntry(i)}
    BY <1>6 DEF LaneSend, ParkPoison, Parkable, NextIs, dbVars
  <2>2. NextEntry(i) \in 1..head
    BY <2>1, NextEntryIsFirst
  <2>3. DbType' /\ RowForm'
    BY <1>a, <1>d, <2>1 DEF DbType
  <2>4. HistType'
    BY <1>a, <2>1, <2>2 DEF HistType
  <2>5. \/ \E ct \in Times : Advance(i, ct) /\ UNCHANGED loaded
        \/ Break(i, "closed")
    <3>1. /\ CommitTime(NextEntry(i)) \in Times
          /\ lastCT[i] \in Times /\ committedCT[i] \in Times
      <4>1. NextEntry(i) \in 0..head
        BY <1>b, <2>2
      <4> QED
        BY <1>a, <4>1, Ranges DEF PassType
    <3>2. CASE LaneSend(i)
      BY <3>1, <3>2 DEF LaneSend
    <3>3. CASE ParkPoison(i)
      BY <3>1, <3>3 DEF ParkPoison
    <3> QED
      BY <1>6, <3>2, <3>3
  <2>6. "closed" \in Endings
    BY DEF Endings
  <2>7. PassType' /\ Carry'
    BY <2>1, <2>5, <2>6, AdvanceType, BreakType
  <2> QED
    BY <2>3, <2>4, <2>7
<1>7. ASSUME NEW i \in Instances,
             Unparkable(i) \/ NextLost(i) \/ NextFails(i) \/ WindowCanceled(i)
      PROVE  (DbType /\ PassType /\ HistType /\ Carry /\ RowForm)'
  <2>1. /\ UNCHANGED <<head, oldest, row, holder, live, trackVars, excused, first>>
        /\ UNCHANGED troubles \/ \E what : Trouble(what)
        /\ pc[i] = "next"
        /\ \/ UNCHANGED disposed
           \/ Waiting(i) # {} /\ disposed' = disposed \cup {NextEntry(i)}
    BY <1>7 DEF Unparkable, NextLost, NextFails, WindowCanceled, NextIs, dbVars, histVars
  <2>2. DbType' /\ RowForm'
    BY <1>a, <1>d, <2>1 DEF DbType
  <2>3. Waiting(i) # {} => NextEntry(i) \in 1..head
    BY <2>1, NextEntryIsFirst
  <2>4. HistType'
    BY <1>a, <2>1, <2>3 DEF HistType
  <2>5. \E why \in Endings : Break(i, why)
    BY <1>7 DEF Unparkable, NextLost, NextFails, WindowCanceled, Endings
  <2>6. PassType' /\ Carry'
    BY <2>1, <2>5, BreakType
  <2> QED
    BY <2>2, <2>4, <2>6
<1>8. ASSUME NEW i \in Instances, EmptyWindow(i)
      PROVE  (DbType /\ PassType /\ HistType /\ Carry /\ RowForm)'
  <2>1. /\ UNCHANGED <<head, oldest, row, holder, troubles, live, baseline, lastSaved,
                       disposed, excused, first>>
        /\ pc[i] = "next"
    BY <1>8 DEF EmptyWindow, dbVars, histVars
  <2>2. DbType' /\ RowForm' /\ HistType'
    BY <1>a, <1>d, <1>e, <2>1 DEF DbType
  <2>3. head \in Here /\ head # NoTok /\ CommitTime(head) \in Times /\ {"idle", "save"} \subseteq PCs
    <3>1. head \in 0..head /\ head # NoTok
      BY <1>b DEF NoTok
    <3> QED
      BY <1>a, <3>1, Ranges DEF PCs
  <2>4. CASE lastTok[i] = NoTok /\ head = lastSaved[i]
    <3>1. /\ EndPass(i, "idle", head)
          /\ committedCT' = [committedCT EXCEPT ![i] = CommitTime(head)]
      BY <1>8, <2>4 DEF EmptyWindow
    <3>2. PassType'
      BY <1>a, <1>f, <2>1, <2>3, <3>1, EndPassType DEF PassType
    <3>3. Carry'
      BY <1>a, <2>1, <2>3, <3>1, EndPassCarries
    <3> QED
      BY <2>2, <3>2, <3>3
  <2>5. CASE ~(lastTok[i] = NoTok /\ head = lastSaved[i])
    <3>1. /\ stream' = [stream EXCEPT ![i] = head]
          /\ lastTok' = [lastTok EXCEPT ![i] = IF lastTok[i] = NoTok THEN head ELSE lastTok[i]]
          /\ lastCT' = [lastCT EXCEPT ![i] =
                           IF lastTok[i] = NoTok THEN CommitTime(head) ELSE lastCT[i]]
          /\ pc' = [pc EXCEPT ![i] = "save"]
          /\ UNCHANGED <<committedCT, loaded, handled, ending>>
      BY <1>8, <1>a, <2>5 DEF EmptyWindow, Goto, PassType
    <3>2. PassType'
      BY <1>a, <1>f, <2>1, <2>3, <3>1 DEF PassType
    <3>3. Carry'
      BY <1>a, <2>1, <2>3, <3>1 DEF PassType, Carries
    <3> QED
      BY <2>2, <3>2, <3>3
  <2> QED
    BY <2>4, <2>5
<1>9. ASSUME NEW i \in Instances, SaveToken(i)
      PROVE  (DbType /\ PassType /\ HistType /\ Carry /\ RowForm)'
  <2>1. /\ UNCHANGED <<head, oldest, holder, live, disposed, first>>
        /\ UNCHANGED troubles \/ \E what : Trouble(what)
        /\ pc[i] = "save" /\ lastTok[i] # NoTok /\ stream[i] # NoTok
        /\ WriteToken(i) \/ UNCHANGED <<row, excused>>
    BY <1>9, <1>a DEF SaveToken, Carries
  <2>2. lastTok[i] \in Here /\ lastCT[i] \in Times /\ stream[i] \in Here /\ first[i] \in Here
    BY <1>a DEF PassType
  <2>3. DbType' /\ RowForm'
    <3>1. CASE UNCHANGED row
      BY <1>a, <1>d, <2>1, <3>1 DEF DbType
    <3>2. CASE WriteToken(i)
      <4>1. row' \in RowsHere /\ row'.tok # NoTok
        BY <2>1, <2>2, <3>2 DEF WriteToken, RowsHere
      <4>2. troubles' \in 0..MaxTroubles
        BY <1>a, <1>c, <2>1 DEF DbType
      <4> QED
        BY <1>a, <1>f, <2>1, <4>1, <4>2 DEF DbType, RowForm
    <3> QED
      BY <2>1, <3>1, <3>2
  <2>4. HistType'
    <3>1. 1..first[i] \subseteq 1..head
      BY <1>a, <1>b, <2>2, Ranges DEF Here, NoTok
    <3> QED
      BY <1>a, <2>1, <3>1 DEF HistType, WriteToken
  <2>5. PICK label \in {"idle", "next", "release"}, pos \in {stream[i], NoTok} :
          EndPass(i, label, pos) /\ (label = "next" => pos # NoTok)
                                 /\ (label = "release" => pos = NoTok)
    BY <1>9, <2>1 DEF SaveToken, AfterSave, CloseStream
  <2>6. label \in PCs /\ pos \in Here
    BY <1>b, <2>2 DEF PCs
  <2>7. \A j \in Instances : j # i => baseline'[j] = baseline[j]
    BY <1>9, <1>a DEF SaveToken, trackVars, PassType
  <2>8. PassType'
    <3>1. baseline' \in [Instances -> Here]
      BY <1>9, <1>a, <1>b DEF SaveToken, trackVars, PassType
    <3>2. lastSaved' \in [Instances -> Tokens]
      BY <1>9, <1>a, <2>2, Ranges DEF SaveToken, trackVars, PassType
    <3>3. committedCT' \in [Instances -> Times]
      BY <1>9, <1>a, <2>2 DEF SaveToken, trackVars, PassType
    <3> QED
      BY <1>a, <1>f, <2>1, <2>5, <2>6, <3>1, <3>2, <3>3, EndPassType DEF PassType
  <2>9. Carry'
    BY <1>a, <2>1, <2>5, <2>6, <2>7, EndPassCarries
  <2> QED
    BY <2>3, <2>4, <2>8, <2>9
<1>10. ASSUME NEW i \in Instances, Start(i) \/ Cancel(i)
       PROVE  (DbType /\ PassType /\ HistType /\ Carry /\ RowForm)'
  <2>1. /\ UNCHANGED <<head, oldest, row, holder, stream, baseline, lastSaved, committedCT,
                       loaded, handled, lastTok, lastCT, ending, disposed, excused, first>>
        /\ UNCHANGED troubles \/ \E what : Trouble(what)
        /\ UNCHANGED pc \/ (pc[i] = "down" /\ pc' = [pc EXCEPT ![i] = "idle"])
        /\ \E b \in BOOLEAN : live' = [live EXCEPT ![i] = b]
    BY <1>10 DEF Start, Cancel, dbVars, trackVars, windowVars, histVars, Goto
  <2>2. DbType' /\ RowForm' /\ HistType'
    BY <1>a, <1>d, <1>e, <2>1 DEF DbType
  <2>3. PassType'
    BY <1>a, <1>f, <2>1 DEF PassType, PCs
  <2>4. Carry'
    BY <1>a, <2>1 DEF PassType, Carries
  <2> QED
    BY <2>2, <2>3, <2>4
<1>11. ASSUME NEW i \in Instances, Release(i) \/ Crash(i)
       PROVE  (DbType /\ PassType /\ HistType /\ Carry /\ RowForm)'
  <2>1. /\ UNCHANGED <<head, oldest, row, disposed, excused>>
        /\ UNCHANGED troubles \/ \E what : Trouble(what)
        /\ baseline' = [baseline EXCEPT ![i] = NoTok]
        /\ first' = [first EXCEPT ![i] = NoTok]
        /\ lastSaved' = [lastSaved EXCEPT ![i] = NoTok]
        /\ committedCT' = [committedCT EXCEPT ![i] = 0]
        /\ live' = [live EXCEPT ![i] = FALSE]
        /\ holder' = IF holder = i THEN None ELSE holder
    BY <1>11 DEF Release, Crash, Forget, LeaveLock
  <2>2. DbType' /\ RowForm' /\ HistType'
    BY <1>a, <1>d, <1>e, <2>1 DEF DbType
  <2>3. 0 \in Times /\ NoTok \in Tokens /\ "down" \in PCs
    BY <1>a, Ranges DEF Tokens, PCs
  <2>4. CASE Crash(i)
    <3>1. EndPass(i, "down", NoTok)
      BY <2>4 DEF Crash
    <3>2. PassType'
      BY <1>a, <1>b, <1>f, <2>1, <2>3, <3>1, EndPassType DEF PassType
    <3>3. Carry'
      <4>1. holder' # i /\ baseline'[i] = NoTok /\ first'[i] = NoTok
        BY <1>a, <1>b, <2>1 DEF PassType
      <4>2. \A j \in Instances : j # i =>
              /\ baseline'[j] = baseline[j] /\ first'[j] = first[j]
              /\ holder # j => holder' # j
        BY <1>a, <1>b, <2>1 DEF PassType
      <4> QED
        BY <1>a, <2>3, <3>1, <4>1, <4>2, EndPassCarries
    <3> QED
      BY <2>2, <3>2, <3>3
  <2>5. CASE Release(i)
    <3>1. /\ pc[i] = "release" /\ pc' = [pc EXCEPT ![i] = "down"]
          /\ UNCHANGED <<stream, loaded, handled, lastTok, lastCT, ending>>
      BY <2>5 DEF Release, Goto, windowVars
    <3>2. PassType'
      BY <1>a, <1>b, <1>f, <2>1, <2>3, <3>1 DEF PassType
    <3>3. Carry'
      BY <1>a, <1>b, <2>1, <3>1 DEF PassType, Carries
    <3> QED
      BY <2>2, <3>2, <3>3
  <2> QED
    BY <1>11, <2>4, <2>5
<1>12. CASE Append
  <2>1. /\ head' = head + 1 /\ head < MaxHead
        /\ UNCHANGED <<oldest, row, holder, pc, live, stream, baseline, lastSaved, committedCT,
                       loaded, handled, lastTok, lastCT, ending, disposed, excused, first,
                       troubles>>
    BY <1>12 DEF Append, trackVars, windowVars, histVars
  <2>2. Here \subseteq Here' /\ RowsHere \subseteq RowsHere'
    BY <1>b, <2>1 DEF Here, RowsHere
  <2>3. DbType'
    BY <1>a, <1>b, <2>1, <2>2 DEF DbType, Positions
  <2>4. PassType'
    BY <1>a, <2>1, <2>2 DEF PassType
  <2>5. HistType'
    BY <1>a, <1>b, <2>1 DEF HistType
  <2>6. Carry' /\ RowForm'
    BY <1>a, <2>1 DEF Carries, RowForm
  <2> QED
    BY <2>3, <2>4, <2>5, <2>6
<1>13. CASE Truncate \/ DeleteToken
  <2>1. /\ UNCHANGED <<head, holder, pc, live, stream, baseline, lastSaved, committedCT,
                       loaded, handled, lastTok, lastCT, ending, disposed, excused, first>>
        /\ \E what : Trouble(what)
        /\ oldest' = oldest \/ (oldest < head /\ oldest' = oldest + 1)
        /\ row' \in {row, NoRow}
    BY <1>13 DEF Truncate, DeleteToken, trackVars, windowVars, histVars
  <2>2. DbType'
    <3>1. oldest' \in 0..head /\ troubles' \in 0..MaxTroubles /\ row' \in RowsHere
      BY <1>a, <1>b, <1>c, <2>1, Ranges DEF DbType
    <3> QED
      BY <1>a, <1>f, <2>1, <3>1 DEF DbType
  <2>3. PassType'
    BY <1>a, <1>f, <2>1 DEF PassType
  <2>4. HistType' /\ Carry' /\ RowForm'
    BY <1>a, <1>e, <2>1 DEF Carries, RowForm
  <2> QED
    BY <2>2, <2>3, <2>4
<1>14. CASE UNCHANGED vars
  BY <1>a, <1>f, <1>14 DEF vars, DbType, PassType, HistType, Carries, RowForm
<1> QED
  BY <1>1, <1>2, <1>3, <1>4, <1>5, <1>6, <1>7, <1>8, <1>9, <1>10, <1>11, <1>12, <1>13, <1>14
     DEF Next, Step, Disturb

\* They hold at the start.
LEMMA TypeInit == Init => TypeInv
<1> SUFFICES ASSUME Init
             PROVE  TypeInv
  OBVIOUS
<1>1. MaxHead \in Nat /\ MaxTroubles \in Nat /\ TokenBatchSize \in Nat \ {0}
  BY StreamRelayAssumption
<1>2. DbType
  BY <1>1 DEF Init, DbType, Positions, RowsHere, NoRow, Here, Times
<1>3. PassType
  BY <1>1 DEF Init, PassType, PCs, Here, NoTok, Tokens, Positions, Times, NoRow, RowsHere,
              Endings
<1>4. HistType /\ \A i \in Instances : Carries(i)
  BY <1>1, StreamRelayAssumption DEF Init, HistType, Carries
<1> QED
  BY <1>2, <1>3, <1>4 DEF TypeInv, Init

\* The types, with what a window carries, are an invariant.
LEMMA TypeInvariance == Spec => []TypeInv
  BY TypeInit, TypeStep, PTL DEF Spec

\* They imply TypeOK.
LEMMA TypesHold ==
    ASSUME TypeInv
    PROVE  TypeOK
<1>1. DbType /\ PassType /\ HistType
  BY DEF TypeInv
<1> QED
  BY <1>1, Ranges DEF DbType, PassType, HistType, TypeOK

(***************************************************************************)
(* Every value keeps its type in every reachable state of the stream       *)
(* relay, contended start or not: a window never counts past               *)
(* TokenBatchSize and no position is ahead of the oplog.                   *)
(***************************************************************************)
THEOREM TypeCorrect == Spec => []TypeOK
  BY TypeInvariance, TypesHold, PTL

(***************************************************************************)
(* SaveToken's keyed guard: the stored token never moves back, although    *)
(* two leaders may save in any order and the write is not fenced.          *)
(***************************************************************************)
THEOREM TokenMonotoneHolds == Spec => TokenMonotone
<1>1. TypeInv /\ [Next]_vars => [Registered /\ row' # NoRow => row'.tok >= row.tok]_vars
  <2> SUFFICES ASSUME TypeInv, [Next]_vars, row' # NoRow
               PROVE  row'.tok >= row.tok
    OBVIOUS
  <2>1. row.tok \in Int /\ \A i \in Instances : lastTok[i] \in Int
    BY Ranges DEF TypeInv, DbType, PassType, RowsHere
  <2>2. ASSUME NEW i \in Instances, WriteToken(i)
        PROVE  row'.tok >= row.tok
    BY <2>1, <2>2 DEF WriteToken, Newer
  <2>3. \/ UNCHANGED row
        \/ row' = NoRow
        \/ \E i \in Instances : WriteToken(i)
    BY DEF Next, Step, Disturb, vars, dbVars, TryAcquire, NotLeader, LoadToken, Resume,
           ResumeLost, OpenFresh, OpenFails, LaneSend, ParkPoison, Unparkable, NextLost,
           NextFails, EmptyWindow, WindowCanceled, SaveToken, Shutdown, Release, Start,
           Cancel, Crash, Append, Truncate, DeleteToken
  <2> QED
    BY <2>1, <2>2, <2>3
<1> QED
  BY <1>1, TypeInvariance, PTL DEF Spec, TokenMonotone
-----------------------------------------------------------------------------
(***************************************************************************)
(* What is settled only grows.                                             *)
(***************************************************************************)

\* Clean and OrderFrom in the next state, of values of this one.
CleanNext(lo, p) == \A q \in Owed' : lo < q /\ q <= p => q \in Settled'
OrderNext(lo) == \A m \in disposed' : CleanNext(lo, m - 1)

\* Only the next entry of a window is disposed of.
LEMMA WindowDisposes ==
    ASSUME [Next]_vars
    PROVE  \/ UNCHANGED disposed
           \/ \E i \in Instances :
                /\ pc[i] = "next" /\ Waiting(i) # {}
                /\ disposed \subseteq disposed' /\ disposed' \subseteq disposed \cup {NextEntry(i)}
                /\ UNCHANGED <<head, row, holder, excused, first>>
<1>1. ASSUME NEW i \in Instances, LaneSend(i) \/ ParkPoison(i) \/ WindowCanceled(i)
      PROVE  \/ UNCHANGED disposed
             \/ /\ pc[i] = "next" /\ Waiting(i) # {}
                /\ disposed \subseteq disposed' /\ disposed' \subseteq disposed \cup {NextEntry(i)}
                /\ UNCHANGED <<head, row, holder, excused, first>>
  <2>1. CASE LaneSend(i)
    BY <2>1 DEF LaneSend, NextIs, dbVars
  <2>2. CASE ParkPoison(i)
    BY <2>2 DEF ParkPoison, Parkable, NextIs, dbVars
  <2>3. CASE WindowCanceled(i)
    BY <2>3 DEF WindowCanceled, NextIs, dbVars
  <2> QED
    BY <1>1, <2>1, <2>2, <2>3
<1> QED
  BY <1>1 DEF Next, Step, Disturb, vars, histVars, TryAcquire, NotLeader, LoadToken, Resume,
       ResumeLost, OpenFresh, OpenFails, Unparkable, NextLost, NextFails, EmptyWindow,
       SaveToken, Shutdown, Release, Start, Cancel, Crash, Append, Truncate, DeleteToken

\* What is delivered, parked or excused stays so, and the oplog only grows.
LEMMA SettledGrows ==
    ASSUME TypeInv, [Next]_vars
    PROVE  /\ disposed \subseteq disposed' /\ excused \subseteq excused'
           /\ Settled \subseteq Settled'
           /\ head' = head \/ head' = head + 1
<1>1. disposed \subseteq disposed'
  BY WindowDisposes
<1>2. excused \subseteq excused'
  BY DEF Next, Step, Disturb, vars, histVars, TryAcquire, NotLeader, LoadToken, Resume,
       ResumeLost, OpenFresh, OpenFails, LaneSend, ParkPoison, Unparkable, NextLost,
       NextFails, EmptyWindow, WindowCanceled, SaveToken, WriteToken, Shutdown, Release,
       Start, Cancel, Crash, Append, Truncate, DeleteToken
<1>3. head' = head \/ head' = head + 1
  BY DEF Next, Step, Disturb, vars, dbVars, TryAcquire, NotLeader, LoadToken, Resume,
       ResumeLost, OpenFresh, OpenFails, LaneSend, ParkPoison, Unparkable, NextLost,
       NextFails, EmptyWindow, WindowCanceled, SaveToken, Shutdown, Release,
       Start, Cancel, Crash, Append, Truncate, DeleteToken
<1> QED
  BY <1>1, <1>2, <1>3 DEF Settled

\* A position that passes no owed event goes on passing none.
LEMMA CleanKept ==
    ASSUME TypeInv, [Next]_vars, NEW lo, NEW p \in Int, p <= head, Clean(lo, p)
    PROVE  CleanNext(lo, p)
<1> SUFFICES ASSUME NEW q \in Owed', lo < q, q <= p
             PROVE  q \in Settled'
  BY DEF CleanNext
<1>1. head \in Nat /\ (head' = head \/ head' = head + 1) /\ Settled \subseteq Settled'
  BY SettledGrows, Ranges DEF TypeInv
<1>2. q \in 1..head' /\ Kind[q] \in EventKinds
  BY DEF Owed
<1>3. q \in Owed
  BY <1>1, <1>2 DEF Owed
<1> QED
  BY <1>1, <1>3 DEF Clean

\* Nothing is owed between the stream and the next entry, or the head.
LEMMA CleanBehindStream ==
    ASSUME TypeInv, NEW i \in Instances, pc[i] = "next", NEW lo, Clean(lo, stream[i])
    PROVE  /\ Waiting(i) # {} => Clean(lo, NextEntry(i) - 1)
           /\ Waiting(i) = {} => Clean(lo, head)
<1>1. head \in Nat /\ stream[i] \in 0..head
  BY Ranges DEF TypeInv, PassType, Carries
<1>2. ASSUME NEW q \in Owed, q > stream[i]
      PROVE  q \in Waiting(i) /\ q \in Int
  BY <1>1, <1>2 DEF Owed, Waiting, EventKinds, Undecodable
<1>3. \A q \in Owed : q \in Int
  BY DEF Owed
<1>4. ASSUME Waiting(i) # {}
      PROVE  Clean(lo, NextEntry(i) - 1)
  <2>1. NextEntry(i) \in 1..head /\ \A q \in Waiting(i) : NextEntry(i) <= q
    BY <1>4, NextEntryIsFirst
  <2>2. \A q \in Owed : q <= NextEntry(i) - 1 => q <= stream[i]
    BY <1>1, <1>2, <1>3, <2>1
  <2> QED
    BY <2>2 DEF Clean
<1>5. ASSUME Waiting(i) = {}
      PROVE  Clean(lo, head)
  <2>1. \A q \in Owed : q <= stream[i]
    BY <1>1, <1>2, <1>3, <1>5
  <2> QED
    BY <2>1 DEF Clean
<1> QED
  BY <1>4, <1>5

\* Disposals stay in commit order while open streams pass no owed event.
LEMMA OrderKept ==
    ASSUME TypeInv, [Next]_vars, NEW lo, OrderFrom(lo),
           \A i \in Instances : pc[i] = "next" => Clean(lo, stream[i])
    PROVE  OrderNext(lo)
<1> SUFFICES ASSUME NEW m \in disposed'
             PROVE  CleanNext(lo, m - 1)
  BY DEF OrderNext
<1>1. head \in Nat /\ disposed \subseteq 1..head
  BY Ranges DEF TypeInv, HistType
<1>2. CASE m \in disposed
  BY <1>1, <1>2, CleanKept DEF OrderFrom
<1>3. CASE m \notin disposed
  <2>1. PICK i \in Instances : pc[i] = "next" /\ Waiting(i) # {} /\ m = NextEntry(i)
    BY <1>3, WindowDisposes
  <2>2. Clean(lo, NextEntry(i) - 1) /\ NextEntry(i) \in 1..head
    BY <2>1, CleanBehindStream, NextEntryIsFirst
  <2> QED
    BY <1>1, <2>1, <2>2, CleanKept
<1> QED
  BY <1>2, <1>3
-----------------------------------------------------------------------------
(***************************************************************************)
(* The replicas.                                                           *)
(***************************************************************************)

\* A step that leaves the positions of a replica alone, or drops some.
Calm(j) ==
    /\ stream'[j] \in {NoTok, stream[j]}
    /\ lastTok'[j] \in {NoTok, lastTok[j]}
    /\ loaded'[j] \in {NoRow, loaded[j]}
    /\ \/ first'[j] = first[j] /\ (baseline'[j] = baseline[j] \/ (pc[j] = "save" /\ WriteToken(j)))
       \/ pc'[j] = "down"
    /\ pc'[j] = "watch" => pc[j] = "watch" /\ loaded'[j] = loaded[j]

\* The event at the head of the window is disposed of.
Handles(j) ==
    /\ pc[j] = "next" /\ Waiting(j) # {}
    /\ NextEntry(j) \in disposed'
    /\ stream'[j] = NextEntry(j) /\ lastTok'[j] = NextEntry(j)
    /\ UNCHANGED <<row, first, baseline, loaded, holder>>
    /\ pc'[j] \in {"save", "next"}

\* All but six steps leave the positions of a replica alone, or drop them.
LEMMA CalmSteps ==
    ASSUME TypeInv, [Next]_vars, NEW j \in Instances
    PROVE  \/ Calm(j)
           \/ Handles(j)
           \/ LoadToken(j) \/ Resume(j) \/ OpenFresh(j) \/ EmptyWindow(j)
<1>t. PassType
  BY DEF TypeInv
<1> USE <1>t DEF PassType, Calm, Goto, dbVars, trackVars, windowVars, histVars
<1>1. ASSUME NEW i \in Instances, NEW label, label # "watch", NEW pos \in {NoTok, stream[i]},
             EndPass(i, label, pos), UNCHANGED <<baseline, first>>
      PROVE  Calm(j)
  BY <1>1 DEF EndPass, FreshWindow
<1>2. ASSUME NEW i \in Instances, TryAcquire(i) \/ NotLeader(i)
      PROVE  Calm(j)
  BY <1>1, <1>2 DEF TryAcquire, NotLeader
<1>3. ASSUME NEW i \in Instances, i # j, LoadToken(i) \/ Resume(i) \/ OpenFresh(i)
      PROVE  Calm(j)
  BY <1>3 DEF LoadToken, Resume, OpenFresh, FreshWindow
<1>4. ASSUME NEW i \in Instances, ResumeLost(i) \/ OpenFails(i) \/ Shutdown(i)
      PROVE  Calm(j)
  BY <1>1, <1>4 DEF ResumeLost, OpenFails, Shutdown, CloseStream
<1>5. ASSUME NEW i \in Instances, NEW why, Break(i, why), UNCHANGED <<baseline, first>>
      PROVE  Calm(j)
  <2>1. CASE lastTok[i] = NoTok
    BY <1>1, <1>5, <2>1 DEF Break, CloseStream
  <2>2. CASE lastTok[i] # NoTok
    BY <1>5, <2>2 DEF Break
  <2> QED
    BY <2>1, <2>2
<1>6. ASSUME NEW i \in Instances, LaneSend(i) \/ ParkPoison(i)
      PROVE  Calm(j) \/ Handles(j)
  <2>1. CASE \E why : Break(i, why)
    BY <1>5, <1>6, <2>1 DEF LaneSend, ParkPoison
  <2>2. CASE \E ct : Advance(i, ct) /\ NextEntry(i) \in disposed' /\ UNCHANGED loaded
    <3>1. UNCHANGED <<row, first, baseline, holder>> /\ pc[i] = "next" /\ Waiting(i) # {}
      BY <1>6 DEF LaneSend, ParkPoison, Parkable, NextIs
    <3>2. CASE i = j
      BY <2>2, <3>1, <3>2 DEF Advance, Handles
    <3>3. CASE i # j
      BY <2>2, <3>1, <3>3 DEF Advance
    <3> QED
      BY <3>2, <3>3
  <2> QED
    BY <1>6, <2>1, <2>2 DEF LaneSend, ParkPoison
<1>7. ASSUME NEW i \in Instances,
             Unparkable(i) \/ NextLost(i) \/ NextFails(i) \/ WindowCanceled(i)
      PROVE  Calm(j)
  BY <1>5, <1>7 DEF Unparkable, NextLost, NextFails, WindowCanceled
<1>8. ASSUME NEW i \in Instances, i # j, EmptyWindow(i)
      PROVE  Calm(j)
  BY <1>8 DEF EmptyWindow, EndPass, FreshWindow
<1>9. ASSUME NEW i \in Instances, SaveToken(i)
      PROVE  Calm(j)
  <2>1. /\ UNCHANGED first
        /\ \/ UNCHANGED baseline
           \/ /\ pc[i] = "save" /\ WriteToken(i)
              /\ baseline' = [baseline EXCEPT ![i] = NoTok]
    BY <1>9 DEF SaveToken
  <2>2. \E label \in {"idle", "next", "release"}, pos \in {NoTok, stream[i]} :
          EndPass(i, label, pos)
    BY <1>9 DEF SaveToken, AfterSave, CloseStream
  <2> QED
    BY <2>1, <2>2 DEF EndPass, FreshWindow
<1>10. ASSUME NEW i \in Instances, Start(i) \/ Cancel(i)
       PROVE  Calm(j)
  BY <1>10 DEF Start, Cancel
<1>11. ASSUME NEW i \in Instances, Release(i) \/ Crash(i)
       PROVE  Calm(j)
  BY <1>11 DEF Release, Crash, Forget, EndPass, FreshWindow
<1>12. CASE Append \/ Truncate \/ DeleteToken
  BY <1>12 DEF Append, Truncate, DeleteToken
<1>13. CASE UNCHANGED vars
  BY <1>13 DEF vars
<1> HIDE DEF PassType, Calm, Goto, dbVars, trackVars, windowVars, histVars
<1> QED
  BY <1>2, <1>3, <1>4, <1>6, <1>7, <1>8, <1>9, <1>10, <1>11, <1>12, <1>13
     DEF Next, Step, Disturb

\* While the group has no row, the lock holder keeps the lock until it is gone, and
\* nobody else gets past the election.
LEMMA HolderStep ==
    ASSUME ContendedStart = FALSE, TypeInv, [Next]_vars, ~Registered, NEW j \in Instances,
           holder' # j
    PROVE  /\ holder = j => pc'[j] = "down"
           /\ pc[j] \in {"down", "idle", "release"} => pc'[j] \in {"down", "idle", "release"}
<1> DEFINE Off == {"down", "idle", "release"}
           Goal == /\ holder = j => pc'[j] = "down"
                   /\ pc[j] \in Off => pc'[j] \in Off
<1>t. pc \in [Instances -> PCs] /\ None \notin Instances
  BY StreamRelayAssumption DEF TypeInv, PassType
<1> USE <1>t DEF Goto, dbVars
<1>1. ASSUME NEW i \in Instances, holder' = holder, NEW label, pc' = [pc EXCEPT ![i] = label],
             pc[i] \notin Off \/ label \in Off
      PROVE  Goal
  BY <1>1
<1>2. ASSUME holder' = holder, pc' = pc
      PROVE  Goal
  BY <1>2
<1>3. ASSUME NEW i \in Instances, TryAcquire(i)
      PROVE  Goal
  <2>1. holder' = i /\ holder \in {None, i} /\ i # j
    BY <1>3 DEF TryAcquire, TakeLock, Rival
  <2>2. pc'[j] = pc[j]
    BY <1>3, <2>1 DEF TryAcquire
  <2> QED
    BY <2>1, <2>2
<1>4. ASSUME NEW i \in Instances, NotLeader(i)
      PROVE  Goal
  <2>1. holder' \in {holder, i} /\ (holder' # holder => holder \in {None, i})
    BY <1>4 DEF NotLeader, Rival
  <2>2. pc' = [pc EXCEPT ![i] = "idle"]
    BY <1>4 DEF NotLeader, EndPass
  <2> QED
    BY <2>1, <2>2
<1>5. ASSUME NEW i \in Instances, LoadToken(i) \/ Resume(i) \/ ResumeLost(i) \/ OpenFresh(i)
                                  \/ OpenFails(i)
      PROVE  Goal
  <2>1. holder' = holder /\ pc[i] \in {"load", "watch"}
        /\ \E label : pc' = [pc EXCEPT ![i] = label]
    BY <1>5 DEF LoadToken, Resume, ResumeLost, OpenFresh, OpenFails, CloseStream, EndPass
  <2> QED
    BY <1>1, <2>1
<1>6. ASSUME NEW i \in Instances, \/ LaneSend(i) \/ ParkPoison(i) \/ Unparkable(i) \/ NextLost(i)
                                  \/ NextFails(i) \/ EmptyWindow(i) \/ WindowCanceled(i)
      PROVE  Goal
  <2>1. holder' = holder /\ pc[i] = "next"
    BY <1>6 DEF LaneSend, ParkPoison, Unparkable, NextLost, NextFails, EmptyWindow,
                WindowCanceled
  <2>2. \E label : pc' = [pc EXCEPT ![i] = label]
    <3>1. ASSUME NEW why, Break(i, why)
          PROVE  \E label : pc' = [pc EXCEPT ![i] = label]
      BY <3>1 DEF Break, CloseStream, EndPass
    <3>2. ASSUME NEW ct, Advance(i, ct)
          PROVE  \E label : pc' = [pc EXCEPT ![i] = label]
      BY <3>2 DEF Advance
    <3>3. ASSUME EmptyWindow(i)
          PROVE  \E label : pc' = [pc EXCEPT ![i] = label]
      BY <3>3 DEF EmptyWindow, EndPass
    <3> QED
      BY <1>6, <3>1, <3>2, <3>3
         DEF LaneSend, ParkPoison, Unparkable, NextLost, NextFails, WindowCanceled
  <2> QED
    BY <1>1, <2>1, <2>2
<1>7. ASSUME NEW i \in Instances, SaveToken(i)
      PROVE  Goal
  <2>1. holder' = holder /\ pc[i] = "save" /\ \E label : pc' = [pc EXCEPT ![i] = label]
    BY <1>7 DEF SaveToken, AfterSave, CloseStream, EndPass
  <2> QED
    BY <1>1, <2>1
<1>8. ASSUME NEW i \in Instances, Start(i) \/ Shutdown(i)
      PROVE  Goal
  <2>1. holder' = holder /\ \E label \in Off : pc' = [pc EXCEPT ![i] = label]
    BY <1>8 DEF Start, Shutdown, CloseStream, EndPass
  <2> QED
    BY <1>1, <2>1
<1>9. ASSUME NEW i \in Instances, Release(i) \/ Crash(i)
      PROVE  Goal
  <2>1. /\ holder' = IF holder = i THEN None ELSE holder
        /\ pc' = [pc EXCEPT ![i] = "down"]
    BY <1>9 DEF Release, Crash, Forget, LeaveLock, EndPass
  <2> QED
    BY <2>1
<1>10. ASSUME NEW i \in Instances, Cancel(i)
       PROVE  Goal
  BY <1>2, <1>10 DEF Cancel
<1>11. ASSUME Append \/ Truncate \/ DeleteToken
       PROVE  Goal
  BY <1>2, <1>11 DEF Append, Truncate, DeleteToken
<1>12. ASSUME UNCHANGED vars
       PROVE  Goal
  BY <1>2, <1>12 DEF vars
<1>13. Goal
  <2> HIDE DEF Goal
  <2> QED
    BY <1>3, <1>4, <1>5, <1>6, <1>7, <1>8, <1>9, <1>10, <1>11, <1>12 DEF Next, Step, Disturb
<1> QED
  BY <1>13

\* Who writes the row.
LEMMA RowStep ==
    ASSUME TypeInv, [Next]_vars
    PROVE  \/ UNCHANGED <<row, excused>>
           \/ \E i \in Instances : SaveToken(i) /\ WriteToken(i) /\ Registered'
           \/ row' = NoRow /\ excused' = excused /\ \A j \in Instances : pc'[j] = "down"
<1>1. ASSUME NEW i \in Instances, SaveToken(i)
      PROVE  UNCHANGED <<row, excused>> \/ (WriteToken(i) /\ Registered')
  <2>1. lastTok[i] # NoTok
    BY <1>1 DEF TypeInv, Carries, SaveToken
  <2>2. WriteToken(i) => Registered'
    BY <2>1 DEF WriteToken, Registered, NoRow
  <2> QED
    BY <1>1, <2>2 DEF SaveToken
<1> QED
  BY <1>1 DEF Next, Step, Disturb, vars, dbVars, histVars, TryAcquire, NotLeader, LoadToken,
       Resume, ResumeLost, OpenFresh, OpenFails, LaneSend, ParkPoison, Unparkable, NextLost,
       NextFails, EmptyWindow, WindowCanceled, Shutdown, Release, Start, Cancel, Crash,
       Append, Truncate, DeleteToken

\* Positions are integers, and a position that is none is behind every event.
LEMMA PositionFacts ==
    ASSUME TypeInv
    PROVE  /\ head \in Nat /\ row.tok \in Int /\ row.tok <= head
           /\ \A i \in Instances :
                /\ stream[i] \in Int /\ stream[i] <= head
                /\ lastTok[i] \in Int /\ lastTok[i] <= head
                /\ loaded[i].tok \in Int /\ loaded[i].tok <= head
                /\ first[i] \in Int /\ first[i] <= head
           /\ \A lo \in Int : CleanNext(lo, NoTok) /\ CleanNext(lo, lo)
<1>1. head \in Nat /\ \A p \in Here : p \in Int /\ p <= head
  BY Ranges DEF TypeInv, NoTok
<1>2. \A q \in Owed' : q \in Int /\ q >= 1
  BY DEF Owed
<1>3. \A lo \in Int : CleanNext(lo, NoTok)
  BY <1>2 DEF CleanNext, NoTok
<1>4. \A lo \in Int : CleanNext(lo, lo)
  BY <1>2 DEF CleanNext
<1> QED
  BY <1>1, <1>3, <1>4 DEF TypeInv, DbType, PassType, RowsHere

\* The step that registers the group.
LEMMA RegisteringStep ==
    ASSUME IInv, [Next]_vars, ~Registered, NEW i \in Instances, SaveToken(i), WriteToken(i),
           Registered'
    PROVE  RowOk' /\ \A j \in Instances : ReplicaOk(j)'
<1>1. /\ TypeInv /\ RowOk /\ \A j \in Instances : ReplicaOk(j)
      /\ TypeInv' /\ pc[i] = "save" /\ lastTok[i] # NoTok
  BY TypeStep DEF IInv, SaveToken, TypeInv, Carries
<1>2. UNCHANGED <<head, disposed, first>>
  BY DEF SaveToken
<1>3. holder = i /\ first[i] # NoTok
  BY <1>1 DEF ReplicaOk, Starting, SaveToken, TypeInv, Carries
<1>4. 1..first[i] \subseteq Settled' /\ first[i] \in Int
  BY <1>1, PositionFacts DEF WriteToken, Settled
<1>5. ASSUME NEW p \in Int, p <= head, Clean(first[i], p)
      PROVE  CleanNext(0, p)
  <2>1. CleanNext(first[i], p)
    BY <1>1, <1>5, CleanKept
  <2>2. \A q \in Owed' : q \in Int /\ (q <= first[i] => q \in 1..first[i])
    BY <1>4 DEF Owed
  <2> QED
    BY <1>4, <2>1, <2>2 DEF CleanNext
<1>6. CleanNext(0, lastTok[i]) /\ CleanNext(0, stream[i])
  BY <1>1, <1>5, PositionFacts DEF ReplicaOk, PassesNone, Floor
<1>7. OrderNext(0)
  <2>1. OrderFrom(first[i])
    BY <1>1, <1>3 DEF ReplicaOk
  <2>2. \A m \in disposed : m - 1 \in Int /\ m - 1 <= head
    <3>1. head \in Nat /\ disposed \subseteq 1..head
      BY <1>1, PositionFacts DEF TypeInv, HistType
    <3> QED
      BY <3>1
  <2> QED
    BY <1>2, <1>5, <2>1, <2>2 DEF OrderFrom, OrderNext
<1>8. RowOk'
  <2>1. row'.tok = lastTok[i]
    BY DEF WriteToken
  <2> QED
    BY <1>6, <1>7, <2>1 DEF RowOk, Clean, CleanNext, OrderFrom, OrderNext
<1>9. ASSUME NEW j \in Instances
      PROVE  ReplicaOk(j)'
  <2>1. \A p \in {NoTok, stream[i], lastTok[i]} : CleanNext(0, p)
    BY <1>1, <1>6, PositionFacts
  <2>2. /\ stream'[j] \in {NoTok, stream[i]} /\ lastTok'[j] \in {NoTok, lastTok[i]}
        /\ pc'[j] # "watch"
    <3>1. Calm(j)
      <4>1. row' # row
        BY DEF Registered
      <4> QED
        BY <1>1, <4>1, CalmSteps DEF Handles, LoadToken, Resume, OpenFresh, EmptyWindow, dbVars
    <3>2. CASE j = i
      BY <1>1, <3>1, <3>2 DEF Calm
    <3>3. CASE j # i
      <4>1. stream[j] = NoTok /\ lastTok[j] = NoTok /\ pc[j] \in {"down", "idle", "release"}
        BY <1>1, <1>3, <3>3 DEF ReplicaOk, Starting, TypeInv, Carries
      <4> QED
        BY <3>1, <4>1 DEF Calm
    <3> QED
      BY <3>2, <3>3
  <2>3. loaded'[j].tok = NoTok
    BY <1>1, <2>2 DEF TypeInv, Carries, NoRow
  <2>4. Floor(j)' = 0
    BY DEF Floor
  <2>5. PassesNone(j)'
    BY <2>1, <2>2, <2>3, <2>4 DEF PassesNone, Clean, CleanNext
  <2> QED
    BY <2>2, <2>5 DEF ReplicaOk, Informed
<1> QED
  BY <1>8, <1>9

\* A reset of the group, with its replicas stopped.
LEMMA ResetStep ==
    ASSUME IInv, [Next]_vars, row' = NoRow, \A j \in Instances : pc'[j] = "down"
    PROVE  RowOk' /\ \A j \in Instances : ReplicaOk(j)'
<1>1. TypeInv /\ TypeInv'
  BY TypeStep DEF IInv
<1>2. \A lo \in Int : CleanNext(lo, NoTok)
  BY <1>1, PositionFacts
<1>3. RowOk'
  <2>1. row'.tok = NoTok /\ ~Registered'
    BY DEF NoRow, Registered
  <2> QED
    BY <1>2, <2>1 DEF RowOk, Clean, CleanNext
<1>4. ASSUME NEW j \in Instances
      PROVE  ReplicaOk(j)'
  <2>1. /\ stream'[j] = NoTok /\ lastTok'[j] = NoTok /\ loaded'[j] = NoRow
        /\ baseline'[j] = NoTok /\ first'[j] = NoTok /\ pc'[j] = "down"
    BY <1>1 DEF TypeInv, Carries
  <2>2. loaded'[j].tok = NoTok /\ Floor(j)' = NoTok /\ NoTok \in Int
    BY <2>1 DEF Floor, Registered, NoRow, NoTok
  <2>3. PassesNone(j)'
    BY <1>2, <2>1, <2>2 DEF PassesNone, Clean, CleanNext
  <2> QED
    BY <2>1, <2>3 DEF ReplicaOk, Informed, Starting
<1> QED
  BY <1>3, <1>4

\* Any other step: the group is registered after it if it was before.
LEMMA RowKept ==
    ASSUME IInv, [Next]_vars, Registered' <=> Registered,
           \/ UNCHANGED <<row, excused>>
           \/ \E i \in Instances : SaveToken(i) /\ WriteToken(i) /\ Registered
    PROVE  RowOk'
<1>1. TypeInv /\ RowOk /\ \A j \in Instances : ReplicaOk(j)
  BY DEF IInv
<1>2. CleanNext(0, row'.tok)
  <2>1. CASE UNCHANGED row
    BY <1>1, <2>1, PositionFacts, CleanKept DEF RowOk
  <2>2. ASSUME NEW i \in Instances, WriteToken(i), Registered
        PROVE  CleanNext(0, row'.tok)
    <3>1. row'.tok = lastTok[i] /\ Clean(0, lastTok[i])
      BY <1>1, <2>2 DEF WriteToken, ReplicaOk, PassesNone, Floor
    <3> QED
      BY <1>1, <3>1, PositionFacts, CleanKept
  <2> QED
    BY <2>1, <2>2
<1>3. Registered => OrderNext(0)
  <2>1. Registered => \A i \in Instances : Clean(0, stream[i])
    BY <1>1 DEF ReplicaOk, PassesNone, Floor
  <2> QED
    BY <1>1, <2>1, OrderKept DEF RowOk
<1> QED
  BY <1>2, <1>3 DEF RowOk, Clean, CleanNext, OrderFrom, OrderNext

\* No position of a replica comes to pass an owed event.
LEMMA PositionsKept ==
    ASSUME IInv, [Next]_vars, Registered' <=> Registered, NEW j \in Instances
    PROVE  PassesNone(j)'
<1>1. TypeInv /\ RowOk /\ ReplicaOk(j) /\ PassesNone(j) /\ TypeInv'
  BY TypeStep DEF IInv, ReplicaOk
<1> DEFINE lo == Floor(j)
<1>2. lo \in Int /\ head \in Nat /\ lo <= head
  BY <1>1, PositionFacts DEF Floor
<1>3. ASSUME NEW p \in Int, p <= head, Clean(lo, p)
      PROVE  CleanNext(lo, p)
  BY <1>1, <1>2, <1>3, CleanKept
<1>4. \A p \in {NoTok, stream[j], lastTok[j], loaded[j].tok} : CleanNext(lo, p)
  BY <1>1, <1>2, <1>3, PositionFacts DEF PassesNone
<1>5. SUFFICES ASSUME pc'[j] # "down"
               PROVE  /\ CleanNext(Floor(j)', stream'[j]) /\ CleanNext(Floor(j)', lastTok'[j])
                      /\ CleanNext(Floor(j)', loaded'[j].tok)
  <2>1. CASE pc'[j] = "down"
    <3>1. stream'[j] = NoTok /\ lastTok'[j] = NoTok /\ loaded'[j] = NoRow /\ first'[j] = NoTok
      BY <1>1, <2>1 DEF TypeInv, Carries
    <3>2. loaded'[j].tok = NoTok /\ Floor(j)' \in Int
      BY <3>1 DEF Floor, NoRow, NoTok
    <3>3. CleanNext(Floor(j)', NoTok)
      BY <1>1, <3>2, PositionFacts
    <3> QED
      BY <3>1, <3>2, <3>3 DEF PassesNone, Clean, CleanNext
  <2> QED
    BY <2>1 DEF PassesNone, Clean, CleanNext
<1>6. ASSUME first'[j] = first[j]
      PROVE  Floor(j)' = lo
  BY <1>6 DEF Floor
<1> HIDE DEF lo
<1>7. NoRow.tok = NoTok
  BY DEF NoRow
<1>8. CASE Calm(j)
  <2>1. Floor(j)' = lo
    BY <1>5, <1>6, <1>8 DEF Calm
  <2> QED
    BY <1>4, <1>7, <1>8, <2>1 DEF Calm
<1>9. CASE Handles(j)
  <2> DEFINE e == NextEntry(j)
  <2>1. Floor(j)' = lo /\ pc[j] = "next" /\ Waiting(j) # {} /\ e \in Settled'
    BY <1>6, <1>9 DEF Handles, Settled
  <2>2. e \in 1..head /\ Clean(lo, e - 1)
    BY <1>1, <2>1, NextEntryIsFirst, CleanBehindStream DEF PassesNone, lo
  <2> HIDE DEF e
  <2>3. CleanNext(lo, e - 1)
    BY <1>2, <1>3, <2>2
  <2>4. CleanNext(lo, e)
    <3>1. \A q \in Owed' : q \in Int /\ (q <= e => q = e \/ q <= e - 1)
      BY <2>2 DEF Owed
    <3> QED
      BY <2>1, <2>3, <3>1 DEF CleanNext
  <2> QED
    BY <1>4, <1>9, <2>1, <2>4 DEF Handles, e
<1>10. CASE LoadToken(j)
  <2>1. /\ UNCHANGED <<stream, lastTok, first>> /\ loaded'[j] = row
    BY <1>1, <1>10 DEF LoadToken, windowVars, histVars, TypeInv, PassType
  <2>2. CleanNext(lo, row.tok)
    <3>1. CASE Registered
      BY <1>1, <1>3, <3>1, PositionFacts DEF RowOk, Floor, lo
    <3>2. CASE ~Registered
      BY <1>4, <1>7, <3>2 DEF Registered
    <3> QED
      BY <3>1, <3>2
  <2> QED
    BY <1>4, <1>6, <2>1, <2>2
<1>11. CASE Resume(j)
  <2>1. /\ UNCHANGED first /\ stream'[j] = ResumeToken(j)
        /\ lastTok'[j] = NoTok /\ loaded'[j] = NoRow /\ pc[j] = "watch"
    BY <1>1, <1>11 DEF Resume, FreshWindow, histVars, TypeInv, PassType
  <2>2. CleanNext(lo, ResumeToken(j))
    <3>1. CASE loaded[j].tok # NoTok
      BY <1>4, <3>1 DEF ResumeToken
    <3>2. CASE loaded[j].tok = NoTok
      <4>1. ~Registered /\ ResumeToken(j) = first[j]
        BY <1>1, <2>1, <3>2 DEF ReplicaOk, Informed, Starting, ResumeToken
      <4>2. ResumeToken(j) = lo
        BY <4>1 DEF Floor, lo
      <4> QED
        BY <1>1, <1>2, <4>2, PositionFacts
    <3> QED
      BY <3>1, <3>2
  <2> QED
    BY <1>4, <1>6, <1>7, <2>1, <2>2
<1>12. CASE OpenFresh(j)
  <2>1. /\ stream'[j] = head /\ lastTok'[j] = head /\ loaded'[j] = NoRow /\ pc[j] = "watch"
        /\ first'[j] = IF first[j] = NoTok THEN head ELSE first[j]
        /\ ResumeToken(j) = NoTok
    BY <1>1, <1>12 DEF OpenFresh, TypeInv, PassType
  <2>2. ~Registered /\ first[j] = NoTok
    BY <1>1, <2>1 DEF ReplicaOk, Informed, Starting, ResumeToken
  <2>3. Floor(j)' = head
    BY <2>1, <2>2 DEF Floor
  <2> QED
    BY <1>1, <1>2, <1>7, <2>1, <2>3, PositionFacts
<1>13. CASE EmptyWindow(j)
  <2>1. /\ UNCHANGED first /\ stream'[j] = head
        /\ lastTok'[j] \in {NoTok, lastTok[j], head} /\ loaded'[j] \in {NoRow, loaded[j]}
        /\ pc[j] = "next" /\ Waiting(j) = {}
    BY <1>1, <1>13 DEF EmptyWindow, EndPass, FreshWindow, histVars, TypeInv, PassType
  <2>2. CleanNext(lo, head)
    BY <1>1, <1>2, <1>3, <2>1, CleanBehindStream DEF PassesNone, lo
  <2> QED
    BY <1>4, <1>6, <1>7, <2>1, <2>2
<1> QED
  BY <1>1, <1>8, <1>9, <1>10, <1>11, <1>12, <1>13, CalmSteps

\* An uncontended fresh group keeps the start of its first stream.
LEMMA StartingKept ==
    ASSUME ContendedStart = FALSE, IInv, [Next]_vars, ~Registered, ~Registered',
           NEW j \in Instances
    PROVE  Starting(j)'
<1>1. TypeInv /\ ReplicaOk(j) /\ Starting(j) /\ TypeInv'
  BY TypeStep DEF IInv, ReplicaOk
<1>2. ~\E i \in Instances : WriteToken(i) /\ pc[i] = "save"
  <2> SUFFICES ASSUME NEW i \in Instances, WriteToken(i), pc[i] = "save"
               PROVE  FALSE
    OBVIOUS
  <2>1. lastTok[i] # NoTok
    BY <1>1 DEF TypeInv, Carries
  <2> QED
    BY <2>1 DEF WriteToken, Registered, NoRow
<1>3. CASE pc'[j] = "down"
  BY <1>1, <1>3 DEF TypeInv, Carries, Starting
<1>4. CASE pc'[j] # "down" /\ Calm(j)
  <2>1. first'[j] = first[j] /\ baseline'[j] = baseline[j] /\ stream'[j] \in {NoTok, stream[j]}
    BY <1>2, <1>4 DEF Calm
  <2>2. holder' # j => holder # j /\ (pc[j] \in {"down", "idle", "release"} =>
                                        pc'[j] \in {"down", "idle", "release"})
    BY <1>1, <1>4, HolderStep
  <2> QED
    BY <1>1, <2>1, <2>2 DEF Starting
<1>5. ASSUME pc[j] \in {"load", "watch", "next"}, holder' = holder,
             baseline'[j] = first'[j], first'[j] = NoTok => stream'[j] = NoTok
      PROVE  Starting(j)'
  BY <1>1, <1>5 DEF Starting
<1>6. CASE Handles(j)
  BY <1>1, <1>5, <1>6 DEF Handles, Starting, TypeInv, Carries
<1>7. CASE LoadToken(j)
  BY <1>1, <1>5, <1>7 DEF LoadToken, dbVars, trackVars, histVars, Starting
<1>8. CASE Resume(j)
  <2>1. ResumeToken(j) = first[j] /\ pc[j] = "watch"
    BY <1>1, <1>8 DEF Resume, ReplicaOk, Informed, Starting, ResumeToken
  <2>2. UNCHANGED <<holder, baseline, first>> /\ stream'[j] = ResumeToken(j)
    BY <1>1, <1>8 DEF Resume, dbVars, histVars, TypeInv, PassType
  <2> QED
    BY <1>1, <1>5, <2>1, <2>2 DEF Starting
<1>9. CASE OpenFresh(j)
  <2>1. pc[j] = "watch" /\ first[j] = NoTok
    BY <1>1, <1>9 DEF OpenFresh, ReplicaOk, Informed, Starting, ResumeToken
  <2>2. holder' = holder /\ baseline'[j] = head /\ first'[j] = head /\ head # NoTok
    <3>1. head # NoTok
      BY <1>1, PositionFacts DEF NoTok
    <3> QED
      BY <1>1, <1>9, <2>1, <3>1 DEF OpenFresh, dbVars, TypeInv, PassType
  <2> QED
    BY <1>5, <2>1, <2>2
<1>10. CASE EmptyWindow(j)
  <2>1. UNCHANGED <<holder, baseline, first>> /\ pc[j] = "next"
    BY <1>10 DEF EmptyWindow, dbVars, histVars
  <2>2. first[j] # NoTok
    BY <1>1, <2>1 DEF Starting, TypeInv, Carries
  <2> QED
    BY <1>1, <1>5, <2>1, <2>2 DEF Starting
<1> QED
  BY <1>1, <1>3, <1>4, <1>6, <1>7, <1>8, <1>9, <1>10, CalmSteps

\* Every step keeps what is known of a replica.
LEMMA ReplicaKept ==
    ASSUME ContendedStart = FALSE, IInv, [Next]_vars, Registered' <=> Registered,
           NEW j \in Instances
    PROVE  ReplicaOk(j)'
<1>1. /\ TypeInv /\ TypeInv' /\ ReplicaOk(j)
      /\ row.tok # NoTok <=> Registered
  <2>1. TypeInv /\ NoRow.tok = NoTok
    BY DEF IInv, NoRow
  <2> QED
    BY <2>1, TypeStep DEF IInv, TypeInv, Registered
<1>2. Informed(j)'
  <2> SUFFICES ASSUME pc'[j] = "watch"
               PROVE  loaded'[j].tok # NoTok <=> Registered
    BY DEF Informed
  <2>1. CASE Calm(j)
    BY <1>1, <2>1 DEF Calm, ReplicaOk, Informed
  <2>2. CASE LoadToken(j)
    BY <1>1, <2>2 DEF LoadToken, TypeInv, PassType
  <2>3. ~(Handles(j) \/ Resume(j) \/ OpenFresh(j) \/ EmptyWindow(j))
    BY <1>1 DEF Handles, Resume, OpenFresh, EmptyWindow, EndPass, Goto, TypeInv, PassType
  <2> QED
    BY <1>1, <2>1, <2>2, <2>3, CalmSteps
<1>3. PassesNone(j)'
  BY PositionsKept
<1>4. ~Registered => Starting(j)'
  BY StartingKept
<1>5. ASSUME ~Registered, first'[j] # NoTok
      PROVE  OrderNext(first'[j])
  <2>0. pc'[j] # "down"
    BY <1>1, <1>5 DEF TypeInv, Carries
  <2>1. CASE OpenFresh(j)
    <3>1. first'[j] = head /\ disposed' = disposed
      <4>1. first[j] = NoTok
        BY <1>1, <1>5, <2>1 DEF OpenFresh, ReplicaOk, Informed, Starting, ResumeToken
      <4> QED
        BY <1>1, <2>1, <4>1 DEF OpenFresh, TypeInv, PassType
    <3>2. disposed \subseteq 1..head /\ head \in Nat
      BY <1>1, PositionFacts DEF TypeInv, HistType
    <3>3. \A q \in Owed' : q \in Int
      BY DEF Owed
    <3> QED
      BY <3>1, <3>2, <3>3 DEF OrderNext, CleanNext
  <2>2. CASE ~OpenFresh(j)
    <3>1. first'[j] = first[j]
      <4>1. Resume(j) \/ EmptyWindow(j) \/ LoadToken(j) => first' = first
        BY DEF Resume, EmptyWindow, LoadToken, histVars
      <4> QED
        BY <1>1, <2>0, <2>2, <4>1, CalmSteps DEF Calm, Handles
    <3>2. OrderFrom(first[j]) /\ holder = j
      BY <1>1, <1>5, <3>1 DEF ReplicaOk, Starting
    <3>3. ASSUME NEW i \in Instances, pc[i] = "next"
          PROVE  Clean(first[j], stream[i])
      <4>1. i = j
        BY <1>5, <3>2, <3>3 DEF IInv, ReplicaOk, Starting
      <4> QED
        BY <1>1, <1>5, <4>1 DEF ReplicaOk, PassesNone, Floor
    <3> QED
      BY <1>1, <3>1, <3>2, <3>3, OrderKept
  <2> QED
    BY <2>1, <2>2
<1>6. ~Registered /\ first'[j] # NoTok => OrderFrom(first[j])'
  BY <1>5 DEF OrderFrom, OrderNext, Clean, CleanNext
<1> QED
  BY <1>2, <1>3, <1>4, <1>6 DEF ReplicaOk

\* Every step keeps the invariant.
LEMMA IInvStep ==
    ASSUME ContendedStart = FALSE, IInv, [Next]_vars
    PROVE  IInv'
<1>1. TypeInv /\ TypeInv'
  BY TypeStep DEF IInv
<1>2. CASE UNCHANGED <<row, excused>>
  <2>1. Registered' <=> Registered
    BY <1>2 DEF Registered
  <2> QED
    BY <1>1, <1>2, <2>1, RowKept, ReplicaKept DEF IInv
<1>3. ASSUME NEW i \in Instances, SaveToken(i), WriteToken(i), Registered'
      PROVE  IInv'
  <2>1. CASE Registered
    BY <1>1, <1>3, <2>1, RowKept, ReplicaKept DEF IInv
  <2>2. CASE ~Registered
    BY <1>1, <1>3, <2>2, RegisteringStep DEF IInv
  <2> QED
    BY <2>1, <2>2
<1>4. CASE row' = NoRow /\ \A j \in Instances : pc'[j] = "down"
  BY <1>1, <1>4, ResetStep DEF IInv
<1> QED
  BY <1>1, <1>2, <1>3, <1>4, RowStep

\* The inductive invariant of the stream relay, for an uncontended start.
LEMMA Invariance ==
    ASSUME ContendedStart = FALSE
    PROVE  Spec => []IInv
<1>1. Init => RowOk /\ \A i \in Instances : ReplicaOk(i)
  <2> SUFFICES ASSUME Init
               PROVE  RowOk /\ \A i \in Instances : ReplicaOk(i)
    OBVIOUS
  <2>1. Owed = {} /\ ~Registered
    BY DEF Init, Owed, Registered
  <2>2. RowOk
    BY <2>1 DEF RowOk, Clean
  <2>3. ASSUME NEW i \in Instances
        PROVE  ReplicaOk(i)
    <3>1. PassesNone(i)
      BY <2>1 DEF PassesNone, Clean
    <3> QED
      BY <2>1, <3>1 DEF Init, ReplicaOk, Informed, Starting
  <2> QED
    BY <2>2, <2>3
<1>2. Init => IInv
  BY <1>1, TypeInit DEF IInv
<1>3. IInv /\ [Next]_vars => IInv'
  BY IInvStep
<1> QED
  BY <1>2, <1>3, PTL DEF Spec
-----------------------------------------------------------------------------
(***************************************************************************)
(* At least once: the stored token never passes an event that was neither  *)
(* delivered, nor parked, nor written before the group first opened its    *)
(* stream - after any failed save or park, a save whose answer was lost, a *)
(* restart between two saves, a superseded leader's late save, or a reset. *)
(* The hypothesis is that a live leader keeps its lease until the group's  *)
(* first row is saved; MCStreamRelay_fresh shows what happens without it.  *)
(***************************************************************************)
THEOREM TokenNeverSkipsHolds ==
    ASSUME ContendedStart = FALSE
    PROVE  Spec => []TokenNeverSkips
<1>1. IInv => TokenNeverSkips
  <2> SUFFICES ASSUME IInv, NEW q \in Owed \cap 1..row.tok
               PROVE  q \in disposed \cup excused
    BY DEF TokenNeverSkips
  <2>1. row.tok \in Int
    BY PositionFacts DEF IInv
  <2>2. 0 < q /\ q <= row.tok
    BY <2>1
  <2> QED
    BY <2>2 DEF IInv, RowOk, Clean, Settled
<1> QED
  BY <1>1, Invariance, PTL

(***************************************************************************)
(* Commit order: a registered group receives no event before an earlier    *)
(* one it is owed, across reopened streams and successive leaders, even    *)
(* while a superseded leader still drains its window.                      *)
(***************************************************************************)
THEOREM CommitOrderHolds ==
    ASSUME ContendedStart = FALSE
    PROVE  Spec => []CommitOrder
<1>1. IInv => CommitOrder
  <2> SUFFICES ASSUME IInv, Registered, NEW m \in disposed, NEW q \in Owed \cap 1..(m - 1)
               PROVE  q \in disposed \cup excused
    BY DEF CommitOrder
  <2>1. m \in Int
    BY DEF IInv, TypeInv, HistType
  <2>2. 0 < q /\ q <= m - 1
    BY <2>1
  <2> QED
    BY <2>2 DEF IInv, RowOk, OrderFrom, Clean, Settled
<1> QED
  BY <1>1, Invariance, PTL
====
