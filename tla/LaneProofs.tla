----------------------------- MODULE LaneProofs -----------------------------
(***************************************************************************)
(* What Lane promises, for every set of callers, channels and messages,    *)
(* every sender and relay configuration, and every number of troubles:     *)
(* the types, the confirmed prefix and the confirm mode of RabbitSender's  *)
(* calls, that the lane never passes a message it did not dispose of, and  *)
(* that the stuck tracker keeps the episode of a message it is stuck at.   *)
(***************************************************************************)
EXTENDS Lane, RabbitSenderProofs

StuckSet == [position : 0..Len(config.log), active : BOOLEAN, identified : BOOLEAN,
             age : 0..Threshold, escalated : BOOLEAN]

\* The lane's part of TypeOK.
LaneTypes ==
    /\ config \in LaneCases
    /\ live \in BOOLEAN
    /\ saved \in 0..Len(config.log) /\ pos \in 0..Len(config.log)
    /\ lane \in {"idle", "sending", "park", "save", "stop", "canceled", "done", "down"}
    /\ stuck \in StuckSet
    /\ parked \subseteq Messages /\ alarms \subseteq Messages

\* The relay's call is about the page at the lane's position; what it parks is in the log.
Aligned ==
    /\ config.sender = sender /\ HooksValid(config)
    /\ saved <= pos
    /\ lane = "sending" => Answer.msgs = Page
    /\ lane = "park" => pos < Len(config.log) /\ config.poison

IInv == SenderInv /\ LaneTypes /\ Aligned /\ LaneDisposes

-----------------------------------------------------------------------------
\* What a configuration of a case is.
LEMMA ConfigFacts ==
    ASSUME config \in LaneCases
    PROVE  /\ config.log \in Seq(Messages) /\ Len(config.log) \in Nat
           /\ config.page \in Nat /\ config.page > 0 /\ config.poison \in BOOLEAN
           /\ config.identified \in BOOLEAN
           /\ \A i \in 1..Len(config.log) : config.log[i] \in Messages
           /\ Relay \in Callers /\ Threshold \in Nat /\ Threshold > 0
<1>1. config \in LaneCaseSet /\ Relay \in Callers /\ Threshold \in Nat \ {0}
  BY LaneAssumption
<1>2. config.log \in Seq(Messages) /\ config.page \in Nat \ {0} /\ config.poison \in BOOLEAN
      /\ config.identified \in BOOLEAN
  BY <1>1 DEF LaneCaseSet
<1> QED
  BY <1>1, <1>2

\* A page is the run of messages of the log after the lane's position.
LEMMA PageFacts ==
    ASSUME config \in LaneCases, pos \in 0..Len(config.log)
    PROVE  /\ Page \in Seq(Messages) /\ Len(Page) \in Nat
           /\ pos + Len(Page) <= Len(config.log)
           /\ \A i \in 1..Len(Page) : Page[i] = config.log[pos + i]
<1> DEFINE S == {pos + config.page, Len(config.log)}
           e == Min(S)
<1>0. /\ config.log \in Seq(Messages) /\ Len(config.log) \in Nat /\ pos \in Nat
      /\ config.page \in Nat /\ pos <= Len(config.log)
      /\ \A i \in 1..Len(config.log) : config.log[i] \in Messages
  BY ConfigFacts
<1>1. e \in Nat /\ e <= Len(config.log) /\ pos <= e
  <2>1. S \in SUBSET Nat /\ S # {} /\ Len(config.log) \in S /\ \A x \in S : x >= pos
    BY <1>0
  <2> HIDE DEF S
  <2>2. e \in S /\ \A x \in S : e <= x
    BY <2>1, MinIsLeast
  <2> QED
    BY <2>1, <2>2
<1>2. Page = SubSeq(config.log, pos + 1, e)
  BY DEF Page
<1> HIDE DEF e
<1>3. \A i \in (pos + 1)..e : config.log[i] \in Messages
  BY <1>0, <1>1
<1>4. pos + 1 \in Int /\ e \in Int
  BY <1>0, <1>1
<1>5. /\ Page \in Seq(Messages)
      /\ Len(Page) = IF pos + 1 <= e THEN e - (pos + 1) + 1 ELSE 0
      /\ \A i \in 1..(e - (pos + 1) + 1) : Page[i] = config.log[(pos + 1) + i - 1]
  BY <1>2, <1>3, <1>4, SubSeqProperties
<1>6. Len(Page) = e - pos
  BY <1>0, <1>1, <1>5
<1>7. ASSUME NEW i \in 1..Len(Page) PROVE Page[i] = config.log[pos + i]
  <2>1. i \in 1..(e - (pos + 1) + 1) /\ (pos + 1) + i - 1 = pos + i
    BY <1>0, <1>1, <1>6
  <2> QED
    BY <1>5, <2>1
<1> QED
  BY <1>0, <1>1, <1>5, <1>6, <1>7

\* The smaller of two numbers.
LEMMA MinOfTwo ==
    ASSUME NEW a \in Nat, NEW b \in Nat
    PROVE  Min({a, b}) \in Nat /\ Min({a, b}) <= a /\ Min({a, b}) <= b
<1>1. {a, b} \in SUBSET Nat /\ {a, b} # {} /\ a \in {a, b} /\ b \in {a, b}
  OBVIOUS
<1>2. Min({a, b}) \in {a, b} /\ \A x \in {a, b} : Min({a, b}) <= x
  BY <1>1, MinIsLeast
<1> QED
  BY <1>1, <1>2

\* Progress over a page, one position after the other.
LEMMA ProgressOverUnfolds ==
    ASSUME NEW t, NEW p, NEW n \in Nat
    PROVE  \E d : /\ d[0] = t /\ \A k \in 1..n : d[k] = Progress(d[k - 1], p + k)
                  /\ ProgressOver(t, p, n) = d[n]
<1> DEFINE V == {t, NotStuck}
           Fix(j, f) == f = [k \in 0..j |-> IF k = 0 THEN t ELSE Progress(f[k - 1], p + k)]
           G == {j \in Nat : \E f \in [0..j -> V] : Fix(j, f)}
<1>0. \A q : \A x \in V : Progress(x, q) \in V
  BY DEF Progress
<1> HIDE DEF V
<1>a. t \in V
  BY DEF V
<1>1. 0 \in G
  <2> DEFINE f == [k \in 0..0 |-> t]
  <2>1. f \in [0..0 -> V] /\ Fix(0, f)
    BY <1>a
  <2> QED
    BY <2>1
<1>2. ASSUME NEW j \in Nat, j \in G
      PROVE  j + 1 \in G
  <2>1. PICK f \in [0..j -> V] : Fix(j, f)
    BY <1>2
  <2> DEFINE g == [k \in 0..(j + 1) |-> IF k = j + 1 THEN Progress(f[j], p + k) ELSE f[k]]
  <2>2. g \in [0..(j + 1) -> V]
    BY <1>0, <2>1
  <2>3. ASSUME NEW k \in 0..(j + 1)
        PROVE  g[k] = IF k = 0 THEN t ELSE Progress(g[k - 1], p + k)
    <3>1. CASE k = j + 1
      BY <3>1
    <3>2. CASE k # j + 1
      <4>1. k \in 0..j /\ g[k] = f[k] /\ (k # 0 => k - 1 \in 0..j /\ g[k - 1] = f[k - 1])
        BY <3>2
      <4> QED
        BY <2>1, <4>1
    <3> QED
      BY <3>1, <3>2
  <2>4. Fix(j + 1, g)
    BY <2>3
  <2> HIDE DEF g, Fix
  <2> QED
    BY <2>2, <2>4
<1>3. n \in G
  <2> HIDE DEF G
  <2> QED
    BY <1>1, <1>2, NatSetInduction
<1>4. PICK f : f \in [0..n -> V] /\ Fix(n, f)
  BY <1>3
<1> DEFINE d == CHOOSE h : Fix(n, h)
<1>5. Fix(n, d)
  <2> HIDE DEF Fix
  <2> QED
    BY <1>4
<1>6. ProgressOver(t, p, n) = d[n]
  BY Zenon DEF ProgressOver
<1> HIDE DEF d
<1>7. d[0] = t
  BY <1>5
<1>8. ASSUME NEW k \in 1..n PROVE d[k] = Progress(d[k - 1], p + k)
  <2>1. k \in 0..n /\ k # 0
    OBVIOUS
  <2> QED
    BY <1>5, <2>1
<1> QED
  BY <1>6, <1>7, <1>8

\* The tracker after progress is as it was, or not stuck: an episode that was active has
\* ended if any progress was made, for an unidentified one, or if progress was made at its key.
LEMMA ProgressOverFacts ==
    ASSUME NEW t, NEW p, NEW n \in Nat
    PROVE  /\ ProgressOver(t, p, n) \in {t, NotStuck}
           /\ t.active => ProgressOver(t, p, n) =
                 IF n > 0 /\ (~t.identified \/ \E i \in 1..n : Key(p + i) = t.position)
                 THEN NotStuck ELSE t
<1>1. PICK d : /\ d[0] = t /\ \A k \in 1..n : d[k] = Progress(d[k - 1], p + k)
               /\ ProgressOver(t, p, n) = d[n]
  BY ProgressOverUnfolds
<1>2. ~NotStuck.active
  BY DEF NotStuck
<1> DEFINE Ended(k) == k > 0 /\ (~t.identified \/ \E i \in 1..k : Key(p + i) = t.position)
           Holds(k) == /\ d[k] \in {t, NotStuck}
                       /\ t.active => d[k] = IF Ended(k) THEN NotStuck ELSE t
           H == {k \in Nat : k > n \/ Holds(k)}
<1>3. 0 \in H
  BY <1>1
<1>4. ASSUME NEW k \in Nat, k \in H
      PROVE  k + 1 \in H
  <2>1. CASE k + 1 > n
    BY <2>1
  <2>2. CASE k + 1 <= n
    <3>1. k + 1 \in 1..n /\ (k + 1) - 1 = k /\ Holds(k)
      BY <1>4, <2>2
    <3>2. d[k + 1] = Progress(d[k], p + (k + 1))
      BY <1>1, <3>1
    <3>3. Ended(k + 1) <=> Ended(k) \/ ~t.identified \/ Key(p + (k + 1)) = t.position
      <4>1. \A i : i \in 1..(k + 1) <=> i \in 1..k \/ i = k + 1
        OBVIOUS
      <4>2. k + 1 > 0 /\ (k = 0 => 1..k = {})
        OBVIOUS
      <4>3. (\E i \in 1..(k + 1) : Key(p + i) = t.position) <=>
              (\E i \in 1..k : Key(p + i) = t.position) \/ Key(p + (k + 1)) = t.position
        BY <4>1
      <4>4. (\E i \in 1..k : Key(p + i) = t.position) => k > 0
        BY <4>2
      <4> QED
        BY <4>2, <4>3, <4>4
    <3> HIDE DEF Ended
    <3>4. Holds(k + 1)
      BY <1>2, <3>1, <3>2, <3>3 DEF Progress
    <3> QED
      BY <3>4
  <2> QED
    BY <2>1, <2>2
<1>5. n \in H
  <2> HIDE DEF H
  <2> QED
    BY <1>3, <1>4, NatSetInduction
<1> QED
  BY <1>1, <1>5

\* Progress and stops leave a tracker; an escalation names a message of the log.
LEMMA StuckFacts ==
    ASSUME config \in LaneCases, NEW t \in StuckSet
    PROVE  /\ NotStuck \in StuckSet
           /\ \A p : Progress(t, p) \in StuckSet
           /\ \A p, n \in Nat : ProgressOver(t, p, n) \in StuckSet
           /\ \A p \in 1..Len(config.log) : StuckAt(t, p) \in StuckSet
<1>0. Len(config.log) \in Nat /\ Threshold \in Nat /\ config.identified \in BOOLEAN
  BY ConfigFacts
<1>1. NotStuck \in StuckSet
  BY <1>0 DEF NotStuck, StuckSet
<1>2. ASSUME NEW p PROVE Progress(t, p) \in StuckSet
  BY <1>1 DEF Progress
<1>3. ASSUME NEW p \in Nat, NEW n \in Nat PROVE ProgressOver(t, p, n) \in StuckSet
  BY <1>1, ProgressOverFacts
<1>4. ASSUME NEW p \in 1..Len(config.log) PROVE StuckAt(t, p) \in StuckSet
  <2>1. Key(p) \in 0..Len(config.log)
    BY <1>0 DEF Key
  <2>2. [position |-> Key(p), active |-> TRUE, identified |-> config.identified, age |-> 0,
         escalated |-> FALSE] \in StuckSet
    BY <1>0, <2>1 DEF StuckSet
  <2>3. ASSUME NEW e \in BOOLEAN PROVE [t EXCEPT !.escalated = e] \in StuckSet
    BY DEF StuckSet
  <2>4. (t.escalated \/ Escalates(t, p)) \in BOOLEAN
    OBVIOUS
  <2>5. [t EXCEPT !.escalated = @ \/ Escalates(t, p)] \in StuckSet
    BY <2>3, <2>4
  <2> QED
    BY <2>2, <2>5, Zenon DEF StuckAt
<1> QED
  BY <1>1, <1>2, <1>3, <1>4

\* What a step must leave behind when it keeps the configuration.
LEMMA LaneRestored ==
    ASSUME IInv, SenderInv', config' = config, sender' = sender,
           live' \in BOOLEAN, saved' \in 0..Len(config.log), pos' \in 0..Len(config.log),
           lane' \in {"idle", "sending", "park", "save", "stop", "canceled", "done", "down"},
           stuck' \in StuckSet, parked' \subseteq Messages, alarms' \subseteq Messages,
           saved' <= pos', lane' = "sending" => Answer'.msgs = Page',
           lane' = "park" => pos' < Len(config.log) /\ config.poison,
           sender.confirms => \A i \in 1..pos' : config.log[i] \in taken' \cup parked'
    PROVE  IInv'
<1>1. LaneTypes'
  BY DEF IInv, LaneTypes, StuckSet
<1>2. Aligned'
  BY DEF IInv, Aligned, HooksValid
<1>3. LaneDisposes'
  BY DEF LaneDisposes, Disposed
<1> QED
  BY <1>1, <1>2, <1>3 DEF IInv

\* What IInv says, part by part.
LEMMA LaneFacts ==
    ASSUME IInv
    PROVE  /\ SenderInv /\ config \in LaneCases /\ live \in BOOLEAN
           /\ saved \in 0..Len(config.log) /\ pos \in 0..Len(config.log) /\ saved <= pos
           /\ lane \in {"idle", "sending", "park", "save", "stop", "canceled", "done", "down"}
           /\ stuck \in StuckSet /\ parked \subseteq Messages /\ alarms \subseteq Messages
           /\ HooksValid(config)
           /\ lane = "sending" => Answer.msgs = Page
           /\ lane = "park" => pos < Len(config.log) /\ config.poison
           /\ sender.confirms => \A i \in 1..pos : config.log[i] \in taken \cup parked
  BY DEF IInv, LaneTypes, Aligned, LaneDisposes, Disposed

\* A step of the sender that leaves the lane where it is.
LEMMA SenderOnly ==
    ASSUME IInv, SenderInv', sender' = sender, taken \subseteq taken', UNCHANGED laneVars,
           lane = "sending" => call'[Relay].msgs = call[Relay].msgs
    PROVE  IInv'
<1>0. UNCHANGED <<config, live, saved, pos, lane, stuck, parked, alarms>>
  BY DEF laneVars
<1>1. lane' = "sending" => Answer'.msgs = Page'
  BY <1>0, LaneFacts DEF Answer, Page
<1>2. sender.confirms => \A i \in 1..pos' : config.log[i] \in taken' \cup parked'
  BY <1>0, LaneFacts
<1> QED
  BY <1>0, <1>1, <1>2, LaneFacts, LaneRestored

\* The relay's call begins about the page at its position.
LEMMA SendPageStep ==
    ASSUME IInv, SendPage
    PROVE  IInv'
<1>0. /\ SendBatch(Relay, Page) /\ lane' = "sending"
      /\ UNCHANGED <<config, live, saved, pos, stuck, parked, alarms>>
  BY DEF SendPage
<1>1. Page \in Seq(Messages) /\ Relay \in Callers
  BY LaneFacts, PageFacts, ConfigFacts
<1>2. SenderInv' /\ sender' = sender /\ taken' = taken /\ call'[Relay].msgs = Page
  BY <1>0, <1>1, LaneFacts, SendBatchStep
<1>3. Answer'.msgs = Page'
  BY <1>0, <1>2 DEF Answer, Page
<1> QED
  BY <1>0, <1>2, <1>3, LaneFacts, LaneRestored

\* An idle relay: its answer is read.
LEMMA AnswerRead ==
    ASSUME SenderInv, Relay \in Callers, call' = [call EXCEPT ![Relay] = IdleCall],
           UNCHANGED <<sender, chan, known, orphans, taken, routed, troubles>>
    PROVE  SenderInv'
<1>0. sender \in SenderCases
  BY SenderTypes
<1>1. IdleCall \in CallSet
  <2>1. <<>> \in Seq(Messages) /\ <<>> \in Seq({"pending", "ack", "nack"})
    OBVIOUS
  <2> QED
    BY <1>0, <2>1, SenderFacts DEF IdleCall, CallSet
<1>2. IdleCall.pc = "idle" /\ IdleCall.base = 0 /\ IdleCall.acked = 0 /\ IdleCall.window = 0
      /\ IdleCall.conf = <<>> /\ IdleCall.msgs = <<>>
  BY DEF IdleCall
<1>3. Shaped(sender, IdleCall) /\ Backed(sender, IdleCall, taken, routed)
  BY <1>2 DEF Shaped, Backed
<1>4. Sound(sender, Relay, IdleCall, chan, taken, routed)
  BY <1>2, <1>3, QuietSound
<1>5. Restores
  BY <1>1, <1>4, AloneStep
<1> QED
  BY <1>5, Restored, SenderTypes

\* The lane advances over what the answer counts, and no further.
LEMMA PageAnsweredStep ==
    ASSUME IInv, PageAnswered
    PROVE  IInv'
<1> DEFINE n == Min({Delivered(Relay), Len(Answer.msgs)})
           p == pos + n + 1
           t == ProgressOver(stuck, pos, n)
<1>0. /\ lane = "sending" /\ pos' = pos + n
      /\ call' = [call EXCEPT ![Relay] = IdleCall]
      /\ UNCHANGED <<sender, chan, known, orphans, taken, routed, troubles, config, live,
                     saved, parked>>
      /\ \/ lane' = "save" /\ stuck' = t /\ UNCHANGED alarms
         \/ lane' = "canceled" /\ stuck' = t /\ UNCHANGED alarms
         \/ /\ n # Len(Answer.msgs) /\ Permanent(Answer.err)
            /\ lane' = "park" /\ stuck' = t /\ UNCHANGED alarms
         \/ n # Len(Answer.msgs) /\ lane' = "stop" /\ Stuck(t, p)
  BY Zenon DEF PageAnswered
<1>1. /\ SenderInv /\ config \in LaneCases /\ pos \in 0..Len(config.log) /\ saved <= pos
      /\ saved \in 0..Len(config.log) /\ live \in BOOLEAN
      /\ stuck \in StuckSet /\ parked \subseteq Messages /\ alarms \subseteq Messages
      /\ HooksValid(config) /\ Answer.msgs = Page
      /\ sender.confirms => \A i \in 1..pos : config.log[i] \in taken \cup parked
  BY <1>0, LaneFacts
<1>2. /\ Len(config.log) \in Nat /\ Relay \in Callers /\ config.poison \in BOOLEAN
      /\ \A i \in 1..Len(config.log) : config.log[i] \in Messages
  BY <1>1, ConfigFacts
<1>3. /\ Len(Page) \in Nat /\ pos + Len(Page) <= Len(config.log)
      /\ \A i \in 1..Len(Page) : Page[i] = config.log[pos + i]
  BY <1>1, PageFacts
<1>4. Answer \in CallSet /\ Backed(sender, Answer, taken, routed)
  BY <1>1, <1>2, SenderTypes DEF Answer
<1>5. Delivered(Relay) \in Nat /\ Delivered(Relay) = Answer.base + Answer.acked
  BY <1>4 DEF Delivered, Answer, CallSet
<1>6. n \in Nat /\ n <= Delivered(Relay) /\ n <= Len(Page)
  BY <1>1, <1>3, <1>5, MinOfTwo
<1>7. t \in StuckSet
  <2>1. pos \in Nat
    BY <1>1
  <2> HIDE DEF n
  <2> QED
    BY <1>1, <1>6, <2>1, StuckFacts
<1> HIDE DEF n, t
<1>8. SenderInv'
  BY <1>0, <1>1, <1>2, AnswerRead
<1>9. pos' \in 0..Len(config.log) /\ saved' <= pos' /\ saved' = saved
  BY <1>0, <1>1, <1>2, <1>3, <1>6
<1>10. sender.confirms => \A i \in 1..pos' : config.log[i] \in taken' \cup parked'
  <2>1. ASSUME sender.confirms, NEW i \in 1..pos' PROVE config.log[i] \in taken \cup parked
    <3>1. CASE i \in 1..pos
      BY <1>1, <2>1, <3>1
    <3>2. CASE i \notin 1..pos
      <4>1. /\ i - pos \in 1..n /\ i - pos \in 1..Len(Page) /\ pos + (i - pos) = i
            /\ i - pos \in 1..(Answer.base + Answer.acked)
        BY <1>0, <1>1, <1>3, <1>5, <1>6, <3>2
      <4>2. Answer.msgs[i - pos] \in taken
        BY <1>4, <2>1, <4>1 DEF Backed
      <4> QED
        BY <1>1, <1>3, <4>1, <4>2
    <3> QED
      BY <3>1, <3>2
  <2> QED
    BY <1>0, <2>1
<1>11. n # Len(Answer.msgs) => p \in 1..Len(config.log) /\ pos' < Len(config.log)
  BY <1>0, <1>1, <1>2, <1>3, <1>6
<1>12. Permanent(Answer.err) => config.poison
  BY <1>1 DEF Permanent, HooksValid
<1> HIDE DEF p
<1>13. stuck' \in StuckSet /\ alarms' \subseteq Messages
  <2>1. CASE stuck' = t /\ UNCHANGED alarms
    BY <1>1, <1>7, <2>1
  <2>2. CASE n # Len(Answer.msgs) /\ Stuck(t, p)
    <3>1. stuck' = StuckAt(t, p) /\ alarms' \in {alarms, alarms \cup {config.log[p]}}
      BY <2>2 DEF Stuck
    <3>2. StuckAt(t, p) \in StuckSet /\ config.log[p] \in Messages
      BY <1>1, <1>2, <1>7, <1>11, <2>2, StuckFacts
    <3> QED
      BY <1>1, <3>1, <3>2
  <2> QED
    BY <1>0, <2>1, <2>2
<1> QED
  BY <1>0, <1>1, <1>8, <1>9, <1>10, <1>11, <1>12, <1>13, LaneRestored

\* A confirmed park advances by one; a failed one stops the lane where it is.
LEMMA ParkStep ==
    ASSUME IInv, Park
    PROVE  IInv'
<1> DEFINE p == pos + 1
<1>0. /\ lane = "park"
      /\ UNCHANGED <<sender, chan, known, call, orphans, taken, routed, config, live, saved>>
      /\ \/ /\ pos' = pos + 1 /\ lane' = "save" /\ stuck' = Progress(stuck, p)
            /\ parked' = IF config.poison THEN parked \cup {config.log[p]} ELSE parked
            /\ UNCHANGED <<alarms, troubles>>
         \/ /\ Trouble("park") /\ Stuck(stuck, p) /\ lane' = "stop"
            /\ UNCHANGED <<pos, parked>>
  BY DEF Park
<1>1. /\ SenderInv /\ config \in LaneCases /\ pos \in 0..Len(config.log) /\ saved <= pos
      /\ saved \in 0..Len(config.log) /\ live \in BOOLEAN /\ stuck \in StuckSet
      /\ parked \subseteq Messages /\ alarms \subseteq Messages
      /\ pos < Len(config.log) /\ config.poison
      /\ sender.confirms => \A i \in 1..pos : config.log[i] \in taken \cup parked
  BY <1>0, LaneFacts
<1>2. Len(config.log) \in Nat /\ \A i \in 1..Len(config.log) : config.log[i] \in Messages
  BY <1>1, ConfigFacts
<1>3. p \in 1..Len(config.log) /\ p \in 0..Len(config.log) /\ config.log[p] \in Messages
  BY <1>1, <1>2
<1>4. troubles' \in 0..MaxTroubles
  BY <1>0, <1>1, TroubleBound DEF AllTroubles
<1>5. SenderInv'
  BY <1>0, <1>1, <1>4 DEF SenderInv, SenderTypeOK
<1>6. StuckAt(stuck, p) \in StuckSet /\ Progress(stuck, p) \in StuckSet
  BY <1>1, <1>3, StuckFacts
<1>7. ASSUME pos' = pos + 1, lane' = "save", stuck' = Progress(stuck, p),
             parked' = parked \cup {config.log[p]}, UNCHANGED alarms
      PROVE  IInv'
  <2>1. sender.confirms => \A i \in 1..pos' : config.log[i] \in taken' \cup parked'
    <3>1. \A i \in 1..pos' : i \in 1..pos \/ i = p
      BY <1>1, <1>7
    <3> QED
      BY <1>0, <1>1, <1>7, <3>1
  <2>2. saved' <= pos' /\ pos' \in 0..Len(config.log) /\ saved' = saved
    BY <1>0, <1>1, <1>2, <1>7
  <2>3. parked' \subseteq Messages
    BY <1>1, <1>3, <1>7
  <2> QED
    BY <1>0, <1>1, <1>5, <1>6, <1>7, <2>1, <2>2, <2>3, LaneRestored
<1>8. ASSUME Stuck(stuck, p), lane' = "stop", UNCHANGED <<pos, parked>>
      PROVE  IInv'
  <2>1. stuck' = StuckAt(stuck, p) /\ alarms' \in {alarms, alarms \cup {config.log[p]}}
    BY <1>8 DEF Stuck
  <2>2. stuck' \in StuckSet /\ alarms' \subseteq Messages
    BY <1>1, <1>3, <1>6, <2>1
  <2>3. sender.confirms => \A i \in 1..pos' : config.log[i] \in taken' \cup parked'
    BY <1>0, <1>1, <1>8
  <2> QED
    BY <1>0, <1>1, <1>5, <1>8, <2>2, <2>3, LaneRestored
<1> HIDE DEF p
<1> QED
  BY <1>0, <1>1, <1>7, <1>8

\* The position is saved, or the next pass starts from one saved earlier.
LEMMA SaveStep ==
    ASSUME IInv, Save
    PROVE  IInv'
<1>0. /\ lane' \in {"idle", "done", "down"} /\ saved' \in {pos, saved} /\ pos' \in {pos, saved'}
      /\ UNCHANGED <<senderVars, config, live, stuck, parked, alarms>>
  BY DEF Save
<1>1. UNCHANGED <<sender, chan, known, call, orphans, taken, routed, troubles>>
  BY <1>0 DEF senderVars
<1>2. SenderInv'
  BY <1>1, LaneFacts DEF SenderInv, SenderTypeOK
<1>3. pos \in Nat /\ saved \in Nat /\ saved <= pos
  BY LaneFacts
<1>4. saved' <= pos' /\ 1..pos' \subseteq 1..pos
  BY <1>0, <1>3
<1>5. sender.confirms => \A i \in 1..pos' : config.log[i] \in taken' \cup parked'
  BY <1>0, <1>1, <1>4, LaneFacts
<1> QED
  BY <1>0, <1>1, <1>2, <1>4, <1>5, LaneFacts, LaneRestored

\* Time passes for an episode, up to the threshold.
LEMMA TickStep ==
    ASSUME IInv, Tick
    PROVE  IInv'
<1>0. /\ stuck.age < Threshold /\ stuck' = [stuck EXCEPT !.age = @ + 1]
      /\ UNCHANGED <<senderVars, config, live, saved, pos, lane, parked, alarms>>
  BY DEF Tick
<1>1. UNCHANGED <<sender, chan, known, call, orphans, taken, routed, troubles>>
  BY <1>0 DEF senderVars
<1>2. SenderInv'
  BY <1>1, LaneFacts DEF SenderInv, SenderTypeOK
<1>3. stuck' \in StuckSet
  <2>1. Threshold \in Nat /\ stuck \in StuckSet
    BY LaneFacts, ConfigFacts
  <2>2. stuck.age + 1 \in 0..Threshold
    BY <1>0, <2>1 DEF StuckSet
  <2>3. ASSUME NEW a \in 0..Threshold PROVE [stuck EXCEPT !.age = a] \in StuckSet
    BY <2>1 DEF StuckSet
  <2> QED
    BY <1>0, <2>2, <2>3
<1>4. lane' = "sending" => Answer'.msgs = Page'
  BY <1>0, <1>1, LaneFacts DEF Answer, Page
<1> QED
  BY <1>0, <1>1, <1>2, <1>3, <1>4, LaneFacts, LaneRestored

\* Cancellation ends the relay's deadline, not what its call is about.
LEMMA CancelStep ==
    ASSUME IInv, Cancel
    PROVE  IInv'
<1> DEFINE e == call[Relay].expired \/ Answer.pc \notin {"idle", "returned"}
<1>0. /\ Trouble("cancel") /\ live' = FALSE
      /\ call' = [call EXCEPT ![Relay].expired = e]
      /\ lane' = IF lane = "idle" THEN "down" ELSE lane
      /\ UNCHANGED <<sender, chan, known, orphans, taken, routed, config, saved, pos, stuck,
                     parked, alarms>>
  BY DEF Cancel
<1>1. SenderInv /\ config \in LaneCases /\ Relay \in Callers
  BY LaneFacts, ConfigFacts
<1>2. e \in BOOLEAN
  OBVIOUS
<1> HIDE DEF e
<1>3. Restores /\ SameMessages
  BY <1>0, <1>1, <1>2, ExpireCall
<1>4. troubles' \in 0..MaxTroubles
  BY <1>0, <1>1, TroubleBound DEF AllTroubles
<1>5. SenderInv'
  BY <1>0, <1>1, <1>3, <1>4, Restored, SenderTypes
<1>6. lane' = "sending" => Answer'.msgs = Page'
  <2>1. Answer'.msgs = Answer.msgs
    BY <1>1, <1>3 DEF SameMessages, Answer
  <2>2. Page' = Page
    BY <1>0 DEF Page
  <2> QED
    BY <1>0, <2>1, <2>2, LaneFacts
<1>7. lane' = "park" => lane = "park"
  BY <1>0
<1>8. lane' \in {"idle", "sending", "park", "save", "stop", "canceled", "done", "down"}
  BY <1>0, LaneFacts
<1> QED
  BY <1>0, <1>5, <1>6, <1>7, <1>8, LaneFacts, LaneRestored

\* Another caller's call is its own.
LEMMA OtherSendsStep ==
    ASSUME IInv, NEW c \in Callers \ {Relay}, OtherSends(c)
    PROVE  IInv'
<1>0. SendBatch(c, <<Others[c]>>) /\ UNCHANGED laneVars
  BY DEF OtherSends
<1>1. <<Others[c]>> \in Seq(Messages)
  <2>1. Others[c] \in Messages
    BY LaneAssumption
  <2> QED
    BY <2>1
<1>2. /\ SenderInv' /\ sender' = sender /\ taken' = taken
      /\ \A d \in Callers \ {c} : call'[d] = call[d]
  BY <1>0, <1>1, LaneFacts, SendBatchStep
<1>3. call'[Relay] = call[Relay]
  BY <1>2, LaneFacts, ConfigFacts
<1> QED
  BY <1>0, <1>2, <1>3, SenderOnly

-----------------------------------------------------------------------------
\* The invariant holds at the start.
LEMMA IInvInit == Init => IInv
<1> SUFFICES ASSUME Init
             PROVE  IInv
  OBVIOUS
<1>0. /\ SenderInit /\ config \in LaneCases /\ config.sender = sender /\ HooksValid(config)
      /\ live = TRUE /\ saved = 0 /\ pos = 0 /\ lane = "idle" /\ stuck = NotStuck
      /\ parked = {} /\ alarms = {}
  BY DEF Init
<1>1. SenderInv
  BY <1>0, SenderInvInit
<1>2. Len(config.log) \in Nat /\ Threshold \in Nat
  BY <1>0, ConfigFacts
<1>3. NotStuck \in StuckSet
  BY <1>2 DEF NotStuck, StuckSet
<1>4. LaneTypes
  BY <1>0, <1>2, <1>3 DEF LaneTypes
<1>5. Aligned /\ LaneDisposes
  BY <1>0 DEF Aligned, LaneDisposes
<1> QED
  BY <1>1, <1>4, <1>5 DEF IInv

\* Every step of the lane, the sender and the other callers keeps it.
LEMMA IInvStep == IInv /\ [Next]_vars => IInv'
<1> SUFFICES ASSUME IInv, [Next]_vars
             PROVE  IInv'
  OBVIOUS
<1>1. CASE LaneStep
  BY <1>1, SendPageStep, PageAnsweredStep, ParkStep, SaveStep DEF LaneStep
<1>2. CASE Tick \/ Cancel
  BY <1>2, TickStep, CancelStep
<1>3. CASE \E c \in Callers \ {Relay} : OtherSends(c)
  BY <1>3, OtherSendsStep
<1>4. CASE SenderNext /\ UNCHANGED laneVars
  <2>1. SenderInv' /\ SameMessages /\ sender' = sender /\ taken \subseteq taken'
    BY <1>4, LaneFacts, SenderStep
  <2>2. call'[Relay].msgs = call[Relay].msgs
    BY <2>1, LaneFacts, ConfigFacts DEF SameMessages
  <2> QED
    BY <1>4, <2>1, <2>2, SenderOnly
<1>5. CASE UNCHANGED vars
  <2>1. UNCHANGED <<sender, chan, known, call, orphans, taken, routed, troubles>>
        /\ UNCHANGED laneVars
    BY <1>5 DEF vars, senderVars
  <2>2. SenderInv'
    BY <2>1, LaneFacts DEF SenderInv, SenderTypeOK
  <2> QED
    BY <2>1, <2>2, SenderOnly
<1> QED
  BY <1>1, <1>2, <1>3, <1>4, <1>5 DEF Next

\* The inductive invariant of the lane and its sender.
LEMMA Invariance == Spec => []IInv
<1>1. Init => IInv
  BY IInvInit
<1>2. IInv /\ [Next]_vars => IInv'
  BY IInvStep
<1> QED
  BY <1>1, <1>2, PTL DEF Spec

(***************************************************************************)
(* The state of the sender and of the lane stays within its types,         *)
(* whatever the log, the page size and the numbers of callers and          *)
(* channels: in particular the position never runs past the log, and the   *)
(* tracker's episode is at a message of it.                                *)
(***************************************************************************)
THEOREM TypeCorrect == Spec => []TypeOK
<1>1. IInv => TypeOK
  BY DEF IInv, LaneTypes, TypeOK, SenderInv, StuckSet
<1> QED
  BY <1>1, Invariance, PTL

(***************************************************************************)
(* The count SendBatch answers with is never optimistic (confirm.go): each *)
(* message of the prefix was acknowledged by the broker, and routed when   *)
(* publishing is mandatory.  The argument is Sound: an acknowledged        *)
(* publish that was not routed has its return still on the channel, which  *)
(* its caller has locked, so nobody else can have read it.                 *)
(***************************************************************************)
THEOREM ConfirmedPrefixHolds == Spec => []ConfirmedPrefix
<1>1. IInv => ConfirmedPrefix
  BY SenderPromises DEF IInv
<1> QED
  BY <1>1, Invariance, PTL

(***************************************************************************)
(* A caller publishes, or waits for a confirm, only on a channel in        *)
(* confirm mode (Confirms.Enable), also when another caller started the    *)
(* handshake: an enabled handshake is never forgotten by its channel.      *)
(***************************************************************************)
THEOREM ConfirmModeHolds == Spec => []ConfirmMode
<1>1. IInv => ConfirmMode
  BY SenderPromises DEF IInv
<1> QED
  BY <1>1, Invariance, PTL

(***************************************************************************)
(* The lane never passes a message that was not disposed of (lane.go):     *)
(* with confirms, everything at or before its position was acknowledged or *)
(* its park was confirmed.  A page's answer counts only confirmed          *)
(* messages, a park advances by one only with a handler (Hooks.Validate),  *)
(* and a stop goes back to a position saved earlier.                       *)
(***************************************************************************)
THEOREM LaneDisposesHolds == Spec => []LaneDisposes
<1>1. IInv => LaneDisposes
  BY DEF IInv
<1> QED
  BY <1>1, Invariance, PTL

-----------------------------------------------------------------------------
(***************************************************************************)
(* Where an episode is.  While saves get through, the next pass begins at  *)
(* the message the last one stopped at, so that there is no prefix to      *)
(* deliver again.                                                          *)
(***************************************************************************)
Tracked ==
    stuck.active =>
        /\ stuck.identified = config.identified
        /\ ~config.identified => stuck.position = 0
        /\ config.identified /\ config.saves => stuck.position = pos + 1

\* What a stop at q makes of a tracker.
LEMMA StuckAtFacts ==
    ASSUME config \in LaneCases, NEW t \in StuckSet, NEW q
    PROVE  /\ StuckAt(t, q).active /\ StuckAt(t, q).position = Key(q)
           /\ IF t.active /\ t.position = Key(q)
              THEN /\ StuckAt(t, q).identified = t.identified /\ StuckAt(t, q).age = t.age
                   /\ t.escalated => StuckAt(t, q).escalated
              ELSE StuckAt(t, q).identified = config.identified
<1>1. CASE ~t.active \/ t.position # Key(q)
  BY <1>1 DEF StuckAt
<1>2. CASE t.active /\ t.position = Key(q)
  <2>1. StuckAt(t, q) = [t EXCEPT !.escalated = @ \/ Escalates(t, q)]
    BY <1>2 DEF StuckAt
  <2>2. /\ StuckAt(t, q).active = t.active /\ StuckAt(t, q).position = t.position
        /\ StuckAt(t, q).identified = t.identified /\ StuckAt(t, q).age = t.age
        /\ StuckAt(t, q).escalated = (t.escalated \/ Escalates(t, q))
    BY <2>1 DEF StuckSet
  <2> QED
    BY <1>2, <2>2
<1> QED
  BY <1>1, <1>2

\* A step over the next n messages, and a stop behind them or none.
LEMMA Advance ==
    ASSUME config \in LaneCases, stuck \in StuckSet, Tracked, pos \in Nat,
           NEW n \in Nat, pos' = pos + n, UNCHANGED config,
           NEW t, t \in {stuck, NotStuck},
           stuck.active => t = IF n > 0 /\ (~stuck.identified
                                            \/ \E i \in 1..n : Key(pos + i) = stuck.position)
                               THEN NotStuck ELSE stuck,
           stuck' = t \/ stuck' = StuckAt(t, pos + n + 1)
    PROVE  Tracked' /\ KeepsEpisode
<1> DEFINE q == pos + n + 1
<1>0. /\ NotStuck \in StuckSet /\ t \in StuckSet /\ ~NotStuck.active
      /\ stuck.position \in Nat /\ stuck.age \in Nat /\ config.identified \in BOOLEAN
  <2>1. NotStuck \in StuckSet /\ Len(config.log) \in Nat /\ Threshold \in Nat
        /\ config.identified \in BOOLEAN
    BY StuckFacts, ConfigFacts
  <2>2. ~NotStuck.active
    BY DEF NotStuck
  <2>3. t \in StuckSet
    BY <2>1
  <2>4. stuck.position \in Nat /\ stuck.age \in Nat
    BY <2>1 DEF StuckSet
  <2> QED
    BY <2>1, <2>2, <2>3, <2>4
<1>1. /\ StuckAt(t, q).active /\ StuckAt(t, q).position = Key(q)
      /\ IF t.active /\ t.position = Key(q)
         THEN /\ StuckAt(t, q).identified = t.identified /\ StuckAt(t, q).age = t.age
              /\ t.escalated => StuckAt(t, q).escalated
         ELSE StuckAt(t, q).identified = config.identified
  BY <1>0, StuckAtFacts
<1>2. q \in Nat /\ q = pos' + 1 /\ q > pos + n /\ Key(q) = IF config.identified THEN q ELSE 0
  BY DEF Key
<1>3. t.active => stuck.active /\ t = stuck
  BY <1>0
<1>4. ASSUME stuck.active, config.identified
      PROVE  IF stuck.position \in (pos + 1)..(pos + n) THEN t = NotStuck ELSE t = stuck
  <2>1. stuck.identified
    BY <1>4 DEF Tracked
  <2>2. (\E i \in 1..n : Key(pos + i) = stuck.position)
           <=> stuck.position \in (pos + 1)..(pos + n)
    <3>1. \A i \in 1..n : Key(pos + i) = pos + i
      BY <1>4 DEF Key
    <3>2. ASSUME stuck.position \in (pos + 1)..(pos + n)
          PROVE  \E i \in 1..n : pos + i = stuck.position
      <4>1. stuck.position - pos \in 1..n /\ pos + (stuck.position - pos) = stuck.position
        BY <1>0, <3>2
      <4> QED
        BY <4>1
    <3>3. ASSUME NEW i \in 1..n, pos + i = stuck.position
          PROVE  stuck.position \in (pos + 1)..(pos + n)
      BY <3>3
    <3> QED
      BY <3>1, <3>2, <3>3
  <2>3. stuck.position \in (pos + 1)..(pos + n) => n > 0
    OBVIOUS
  <2> QED
    BY <1>4, <2>1, <2>2, <2>3
<1>5. ASSUME stuck.active, ~config.identified
      PROVE  /\ stuck.position = 0 /\ ~stuck.identified
             /\ t = IF n > 0 THEN NotStuck ELSE stuck
  BY <1>5 DEF Tracked
<1>6. ASSUME t.active, config.identified, config.saves
      PROVE  n = 0 /\ stuck.position = q
  <2>1. stuck.active /\ t = stuck /\ stuck.position = pos + 1
    BY <1>3, <1>6 DEF Tracked
  <2>2. stuck.position \notin (pos + 1)..(pos + n)
    BY <1>0, <1>4, <1>6, <2>1
  <2> QED
    BY <2>1, <2>2
<1> HIDE DEF q
<1>7. Tracked'
  <2>1. CASE stuck' = t
    BY <1>2, <1>3, <1>6, <2>1 DEF Tracked
  <2>2. CASE stuck' = StuckAt(t, q)
    BY <1>1, <1>2, <1>3, <2>2 DEF Tracked
  <2> QED
    BY <2>1, <2>2 DEF q
<1>8. ASSUME stuck.active PROVE KeepsEpisode
  <2>1. CASE ~config.identified /\ n > 0
    <3>1. pos' > pos
      BY <2>1
    <3> QED
      BY <1>5, <1>8, <2>1, <3>1 DEF KeepsEpisode
  <2>2. CASE config.identified /\ stuck.position <= pos'
    <3>1. stuck.identified /\ pos' >= stuck.position
      BY <1>0, <1>8, <2>2 DEF Tracked
    <3> QED
      BY <3>1 DEF KeepsEpisode
  <2>3. CASE stuck' = stuck
    BY <1>0, <1>8, <2>3 DEF KeepsEpisode, EpisodeGoesOn
  <2>4. CASE stuck' = StuckAt(stuck, q) /\ t = stuck /\ stuck.position = Key(q)
    BY <1>0, <1>1, <1>8, <2>4 DEF KeepsEpisode, EpisodeGoesOn
  <2>5. CASE config.identified /\ stuck.position > pos'
    <3>1. t = stuck
      <4>1. stuck.position \notin (pos + 1)..(pos + n)
        BY <1>0, <2>5
      <4> QED
        BY <1>4, <1>8, <2>5, <4>1
    <3>2. CASE stuck' = StuckAt(t, q) /\ stuck.position # q
      <4>1. stuck'.active /\ stuck'.position = q /\ q < stuck.position
        BY <1>0, <1>1, <1>2, <2>5, <3>2
      <4>2. ~config.saves
        BY <1>6, <1>8, <2>5, <3>1, <3>2
      <4> QED
        BY <4>1, <4>2 DEF KeepsEpisode
    <3> QED
      BY <1>2, <2>3, <2>4, <2>5, <3>1, <3>2 DEF q
  <2>6. CASE ~config.identified /\ n = 0
    BY <1>2, <1>5, <1>8, <2>3, <2>4, <2>6 DEF q
  <2> QED
    BY <1>0, <2>1, <2>2, <2>5, <2>6
<1> QED
  BY <1>7, <1>8 DEF KeepsEpisode

\* A step that touches neither the tracker nor, while saves get through, the position.
LEMMA EpisodeUntouched ==
    ASSUME config \in LaneCases, stuck \in StuckSet, Tracked, UNCHANGED <<config, stuck>>,
           config.saves => pos' = pos
    PROVE  Tracked' /\ KeepsEpisode
<1>1. Tracked'
  BY DEF Tracked
<1>2. stuck.age \in Nat
  <2>1. Threshold \in Nat
    BY ConfigFacts
  <2> QED
    BY <2>1 DEF StuckSet
<1> QED
  BY <1>1, <1>2 DEF KeepsEpisode, EpisodeGoesOn

\* Every step keeps the episode where the tracker says it is.
LEMMA EpisodeStep ==
    ASSUME IInv, Tracked, [Next]_vars
    PROVE  Tracked' /\ KeepsEpisode
<1>0. config \in LaneCases /\ stuck \in StuckSet /\ pos \in Nat
  BY LaneFacts
<1>1. CASE PageAnswered
  <2> DEFINE n == Min({Delivered(Relay), Len(Answer.msgs)})
             t == ProgressOver(stuck, pos, n)
  <2>1. /\ pos' = pos + n /\ UNCHANGED config /\ lane = "sending"
        /\ stuck' = t \/ stuck' = StuckAt(t, pos + n + 1)
    BY <1>1, Zenon DEF PageAnswered, Stuck
  <2>2. n \in Nat
    <3>1. Answer.msgs = Page /\ Len(Page) \in Nat /\ Relay \in Callers /\ SenderInv
      BY <2>1, LaneFacts, PageFacts, ConfigFacts
    <3>2. Answer \in CallSet
      BY <3>1, SenderTypes DEF Answer
    <3>3. Delivered(Relay) \in Nat
      BY <3>2 DEF Delivered, Answer, CallSet
    <3> QED
      BY <3>1, <3>3, MinOfTwo
  <2> HIDE DEF n
  <2>3. /\ t \in {stuck, NotStuck}
        /\ stuck.active => t = IF n > 0 /\ (~stuck.identified
                                            \/ \E i \in 1..n : Key(pos + i) = stuck.position)
                               THEN NotStuck ELSE stuck
    BY <2>2, ProgressOverFacts
  <2> HIDE DEF t
  <2> QED
    BY <1>0, <2>1, <2>2, <2>3, Advance
<1>2. CASE Park
  <2>1. CASE pos' = pos + 1 /\ stuck' = Progress(stuck, pos + 1) /\ UNCHANGED config
    <3> DEFINE t == Progress(stuck, pos + 1)
    <3>1. \A i : i \in 1..1 <=> i = 1
      OBVIOUS
    <3>2. /\ t \in {stuck, NotStuck}
          /\ stuck.active => t = IF 1 > 0 /\ (~stuck.identified
                                              \/ \E i \in 1..1 : Key(pos + i) = stuck.position)
                                 THEN NotStuck ELSE stuck
      BY <3>1 DEF Progress
    <3> HIDE DEF t
    <3>3. stuck' = t
      BY <2>1 DEF t
    <3> QED
      BY <1>0, <2>1, <3>2, <3>3, Advance
  <2>2. CASE pos' = pos /\ stuck' = StuckAt(stuck, pos + 1) /\ UNCHANGED config
    <3>1. pos' = pos + 0 /\ pos + 1 = pos + 0 + 1
      BY <1>0, <2>2
    <3>2. stuck' = StuckAt(stuck, pos + 0 + 1)
      BY <2>2, <3>1
    <3> QED
      BY <1>0, <2>2, <3>1, <3>2, Advance
  <2> QED
    BY <1>2, <2>1, <2>2 DEF Park, Stuck
<1>3. CASE Save
  BY <1>0, <1>3, EpisodeUntouched DEF Save
<1>4. CASE Tick
  <2>1. /\ UNCHANGED <<config, pos>> /\ stuck' = [stuck EXCEPT !.age = @ + 1]
        /\ stuck.age \in Nat
    <3>1. Threshold \in Nat
      BY <1>0, ConfigFacts
    <3> QED
      BY <1>0, <1>4, <3>1 DEF Tick, StuckSet
  <2>2. /\ stuck'.active = stuck.active /\ stuck'.position = stuck.position
        /\ stuck'.identified = stuck.identified /\ stuck'.escalated = stuck.escalated
        /\ stuck'.age = stuck.age + 1
    BY <1>0, <2>1 DEF StuckSet
  <2> QED
    BY <2>1, <2>2 DEF Tracked, KeepsEpisode, EpisodeGoesOn
<1>5. CASE SendPage \/ Cancel
  <2>1. UNCHANGED <<config, stuck, pos>>
    BY <1>5 DEF SendPage, Cancel
  <2> QED
    BY <1>0, <2>1, EpisodeUntouched
<1>6. CASE UNCHANGED laneVars
  <2>1. UNCHANGED <<config, stuck, pos>>
    BY <1>6 DEF laneVars
  <2> QED
    BY <1>0, <2>1, EpisodeUntouched
<1> QED
  BY <1>1, <1>2, <1>3, <1>4, <1>5, <1>6 DEF Next, LaneStep, OtherSends, vars

(***************************************************************************)
(* An episode of the stuck tracker, with its age and its one escalation,   *)
(* goes on until the lane gets past its message, in every configuration,   *)
(* except what EpisodeKept names (notify/stuck.go, Progress and Stuck).    *)
(* The argument is Tracked: while saves get through, the message a lane is *)
(* stuck at is always the next one.                                        *)
(***************************************************************************)
THEOREM EpisodeKeptHolds == Spec => EpisodeKept
<1>1. Init => Tracked
  BY DEF Init, Tracked, NotStuck
<1>2. IInv /\ Tracked /\ [Next]_vars => Tracked' /\ [KeepsEpisode]_vars
  BY EpisodeStep
<1> QED
  BY <1>1, <1>2, Invariance, PTL DEF Spec, EpisodeKept
=============================================================================
