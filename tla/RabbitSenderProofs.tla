------------------------ MODULE RabbitSenderProofs -------------------------
(***************************************************************************)
(* Lemmas about RabbitSender, for every set of callers, channels and       *)
(* messages: what its steps keep true of every call.  LaneProofs composes  *)
(* them with the relay that is one of the callers.                         *)
(***************************************************************************)
EXTENDS RabbitSender, MinMax, SequenceTheorems

(***************************************************************************)
(* The state of a call k of caller c, under sender s, channels cn, and the *)
(* messages T taken and R routed by the broker.                            *)
(***************************************************************************)

\* How far the command of a call has come.
Shaped(s, k) ==
    /\ k.base + k.acked <= Len(k.msgs) /\ k.base + k.window <= Len(k.msgs)
    /\ Len(k.conf) <= k.window
    /\ k.pc \notin {"idle", "returned"} => k.window > 0 /\ k.acked <= k.window
    /\ k.pc \in {"enable", "handshake", "lock", "publish", "collect"} => k.ch \in Chans
    /\ k.pc \notin {"publish", "collect"} => k.conf = <<>>
    /\ k.pc \in {"enable", "handshake", "lock", "publish"} => ~k.pubErr
    /\ k.pc = "publish" => Len(k.conf) < k.window
    /\ k.pc = "collect" /\ ~k.pubErr => Len(k.conf) = k.window
    /\ \A i \in 1..k.window : s.fate[k.msgs[k.base + i]] # "bad"
    /\ s.mandatory => k.window <= 1

\* The messages a call counts as sent were taken, and routed when that is mandatory.
Backed(s, k, T, R) ==
    s.confirms => \A i \in 1..(k.base + k.acked) : /\ k.msgs[i] \in T
                                                   /\ s.mandatory => k.msgs[i] \in R

\* An acknowledged publish was taken; if it was not routed, its return is there to be read.
Answered(s, k, cn, T, R) ==
    \A i \in DOMAIN k.conf :
        k.conf[i] = "ack" =>
            /\ k.msgs[k.base + i] \in T
            /\ s.mandatory /\ k.msgs[k.base + i] \notin R => cn[k.ch].returns > 0

\* Mandatory publishing holds its channel, and confirmed publishing is in confirm mode.
Prepares(s, c, k, cn) ==
    /\ s.mandatory /\ k.pc \in {"publish", "collect"} => cn[k.ch].lock = c
    /\ s.confirms /\ k.pc \in {"lock", "publish", "collect"} => cn[k.ch].confirming

Sound(s, c, k, cn, T, R) ==
    Shaped(s, k) /\ Backed(s, k, T, R) /\ Answered(s, k, cn, T, R) /\ Prepares(s, c, k, cn)

SenderInv ==
    /\ SenderTypeOK
    /\ SetupAccepts(sender)
    /\ \A ch \in Chans : chan[ch].handshake = "enabled" => chan[ch].confirming
    /\ \A c \in Callers : Sound(sender, c, call[c], chan, taken, routed)

-----------------------------------------------------------------------------
(***************************************************************************)
(* The commands of a call.                                                 *)
(***************************************************************************)

\* What a sender of a case is.
LEMMA SenderFacts ==
    ASSUME sender \in SenderCases
    PROVE  /\ sender.confirms \in BOOLEAN /\ sender.mandatory \in BOOLEAN
           /\ sender.fate \in [Messages -> Fates]
           /\ None \notin Callers /\ None \notin Chans
           /\ MaxAttempts \in Nat /\ MaxAttempts > 0 /\ MaxTroubles \in Nat
  BY RabbitSenderAssumption

\* The messages prepared for a command are sendable and within the run.
LEMMA PreparedFacts ==
    ASSUME NEW msgs \in Seq(Messages), NEW base \in 0..Len(msgs)
    PROVE  /\ Prepared(msgs, base + 1) \in Nat
           /\ base + Prepared(msgs, base + 1) <= Len(msgs)
           /\ \A i \in 1..Prepared(msgs, base + 1) : sender.fate[msgs[base + i]] # "bad"
           /\ sender.mandatory => Prepared(msgs, base + 1) <= 1
<1> DEFINE k == base + 1
           I == {i \in k..Len(msgs) : sender.fate[msgs[i]] = "bad"}
           bad == IF I # {} THEN Min(I) ELSE 0
           upTo == IF bad = 0 THEN Len(msgs) ELSE bad - 1
           n == Prepared(msgs, base + 1)
<1>1. base \in Nat /\ Len(msgs) \in Nat /\ base <= Len(msgs) /\ k \in Nat
  OBVIOUS
<1>2. n = IF Pipelined \/ upTo < k THEN upTo - k + 1 ELSE 1
  BY Zenon DEF Prepared, SelectInSubSeq
<1>3. I # {} => Min(I) \in I /\ \A j \in I : Min(I) <= j
  <2>1. I \in SUBSET Nat
    BY <1>1
  <2> HIDE DEF I
  <2> QED
    BY <2>1, MinIsLeast
<1>4. /\ upTo \in Int /\ base <= upTo /\ upTo <= Len(msgs)
      /\ \A i \in k..upTo : sender.fate[msgs[i]] # "bad"
  <2>1. CASE I = {}
    BY <1>1, <2>1
  <2>2. CASE I # {}
    <3>1. bad \in k..Len(msgs) /\ bad # 0 /\ \A i \in I : bad <= i
      BY <1>1, <1>3, <2>2
    <3> HIDE DEF bad
    <3>2. \A i \in k..(bad - 1) : i \notin I /\ i \in k..Len(msgs)
      BY <1>1, <3>1
    <3> QED
      BY <1>1, <3>1, <3>2
  <2> QED
    BY <2>1, <2>2
<1> HIDE DEF upTo, n
<1>5. n \in Nat /\ base + n <= Len(msgs) /\ n <= upTo - k + 1 
  BY <1>1, <1>2, <1>4
<1>6. sender.mandatory => n <= 1
  BY <1>1, <1>2, <1>4 DEF Pipelined
<1>7. ASSUME NEW i \in 1..n PROVE sender.fate[msgs[base + i]] # "bad"
  <2>1. base + i \in k..upTo
    BY <1>1, <1>4, <1>5
  <2> QED
    BY <1>4, <2>1
<1> QED
  BY <1>5, <1>6, <1>7 DEF n

\* A call that is not publishing has nothing to answer for but what it counts as sent.
LEMMA QuietSound ==
    ASSUME NEW s, NEW c, NEW k, NEW cn, NEW T, NEW R,
           Shaped(s, k), Backed(s, k, T, R), k.conf = <<>>,
           k.pc \notin {"lock", "publish", "collect"}
    PROVE  Sound(s, c, k, cn, T, R)
<1>1. Answered(s, k, cn, T, R)
  BY DEF Answered
<1>2. Prepares(s, c, k, cn)
  BY DEF Prepares
<1> QED
  BY <1>1, <1>2 DEF Sound

\* The next command of a call counts no message it did not count before.
LEMMA NextCommandFacts ==
    ASSUME sender \in SenderCases,
           NEW msgs \in Seq(Messages), NEW base \in 0..Len(msgs), NEW expired \in BOOLEAN
    PROVE  LET k == NextCommand(msgs, base, expired)
           IN  /\ k \in CallSet /\ k.msgs = msgs /\ k.base = base /\ k.acked = 0 /\ k.conf = <<>>
               /\ k.pc \in {"returned", "acquire"} /\ Shaped(sender, k)
<1> DEFINE n == Prepared(msgs, base + 1)
           next == [IdleCall EXCEPT !.msgs = msgs, !.base = base]
           k == NextCommand(msgs, base, expired)
<1>0. MaxAttempts \in Nat /\ MaxAttempts > 0
  BY SenderFacts
<1>1. /\ n \in Nat /\ base + n <= Len(msgs) /\ (sender.mandatory => n <= 1)
      /\ \A i \in 1..n : sender.fate[msgs[base + i]] # "bad"
  BY PreparedFacts
<1>2. base \in Nat /\ Len(msgs) \in Nat /\ base <= Len(msgs)
  OBVIOUS
<1>3. k = CASE base = Len(msgs) -> [next EXCEPT !.pc = "returned"]
            [] base < Len(msgs) /\ n = 0 -> [next EXCEPT !.pc = "returned", !.err = "unsendable"]
            [] base < Len(msgs) /\ n > 0 ->
                 [next EXCEPT !.pc = "acquire", !.window = n, !.attempt = 1, !.expired = expired]
  BY Zenon DEF NextCommand
<1> HIDE DEF n, k
<1> DEFINE Goal == /\ k \in CallSet /\ k.msgs = msgs /\ k.base = base /\ k.acked = 0
                   /\ k.conf = <<>> /\ k.pc \in {"returned", "acquire"} /\ Shaped(sender, k)
<1>4. ASSUME base = Len(msgs)
      PROVE  Goal
  <2>1. k = [next EXCEPT !.pc = "returned"]
    BY <1>2, <1>3, <1>4
  <2>2. k = [pc |-> "returned", msgs |-> msgs, base |-> base, window |-> 0, attempt |-> 0,
             ch |-> None, conf |-> <<>>, acked |-> 0, pubErr |-> FALSE, expired |-> FALSE,
             err |-> "none"]
    BY <2>1 DEF IdleCall
  <2>3. k \in CallSet
    BY <1>0, <1>2, <2>2 DEF CallSet
  <2>4. k.msgs = msgs /\ k.base = base /\ k.acked = 0 /\ k.conf = <<>>
        /\ k.pc = "returned" /\ k.window = 0
    BY <2>2
  <2>5. Shaped(sender, k)
    BY <1>0, <1>2, <2>4 DEF Shaped
  <2> QED
    BY <2>3, <2>4, <2>5
<1>5. ASSUME base < Len(msgs) /\ n = 0
      PROVE  Goal
  <2>1. k = [next EXCEPT !.pc = "returned", !.err = "unsendable"]
    BY <1>2, <1>3, <1>5
  <2>2. k = [pc |-> "returned", msgs |-> msgs, base |-> base, window |-> 0, attempt |-> 0,
             ch |-> None, conf |-> <<>>, acked |-> 0, pubErr |-> FALSE, expired |-> FALSE,
             err |-> "unsendable"]
    BY <2>1 DEF IdleCall
  <2>3. k \in CallSet
    BY <1>0, <1>2, <2>2 DEF CallSet
  <2>4. k.msgs = msgs /\ k.base = base /\ k.acked = 0 /\ k.conf = <<>>
        /\ k.pc = "returned" /\ k.window = 0
    BY <2>2
  <2>5. Shaped(sender, k)
    BY <1>0, <1>2, <2>4 DEF Shaped
  <2> QED
    BY <2>3, <2>4, <2>5
<1>6. ASSUME base < Len(msgs) /\ n > 0
      PROVE  Goal
  <2>1. k = [next EXCEPT !.pc = "acquire", !.window = n, !.attempt = 1, !.expired = expired]
    BY <1>1, <1>2, <1>3, <1>6
  <2>2. k = [pc |-> "acquire", msgs |-> msgs, base |-> base, window |-> n, attempt |-> 1,
             ch |-> None, conf |-> <<>>, acked |-> 0, pubErr |-> FALSE, expired |-> expired,
             err |-> "none"]
    BY <2>1 DEF IdleCall
  <2>3. k \in CallSet
    BY <1>0, <1>1, <1>2, <1>6, <2>2 DEF CallSet
  <2>4. k.msgs = msgs /\ k.base = base /\ k.acked = 0 /\ k.conf = <<>>
        /\ k.pc = "acquire" /\ k.window = n
    BY <2>2
  <2>5. Shaped(sender, k)
    BY <1>0, <1>1, <1>2, <1>6, <2>4 DEF Shaped
  <2> QED
    BY <2>3, <2>4, <2>5
<1> QED
  BY <1>1, <1>2, <1>4, <1>5, <1>6 DEF k

-----------------------------------------------------------------------------
(***************************************************************************)
(* Frames: what the other calls rely on.                                   *)
(***************************************************************************)

\* Caller c's hold on the channels survives from cn to cm.
Keeps(c, cn, cm) ==
    \A ch \in Chans :
        /\ cn[ch].confirming => cm[ch].confirming
        /\ cn[ch].lock = c => cm[ch].lock = c /\ cm[ch].returns >= cn[ch].returns

\* A call is as sound on channels that keep its hold, whatever else is taken or routed.
LEMMA Framed ==
    ASSUME NEW s, NEW c, NEW k \in CallSet, NEW cn \in [Chans -> ChanSet],
           NEW cm \in [Chans -> ChanSet], NEW T, NEW R, NEW T1, NEW R1,
           Sound(s, c, k, cn, T, R), Keeps(c, cn, cm), T \subseteq T1, R \subseteq R1
    PROVE  Sound(s, c, k, cm, T1, R1)
<1>0. Shaped(s, k) /\ Backed(s, k, T, R) /\ Answered(s, k, cn, T, R) /\ Prepares(s, c, k, cn)
  BY DEF Sound
<1>1. Backed(s, k, T1, R1)
  BY <1>0 DEF Backed
<1>2. Prepares(s, c, k, cm)
  BY <1>0 DEF Prepares, Shaped, Keeps
<1>3. Answered(s, k, cm, T1, R1)
  <2>1. SUFFICES ASSUME NEW i \in DOMAIN k.conf, k.conf[i] = "ack",
                        s.mandatory, k.msgs[k.base + i] \notin R1
                 PROVE  cm[k.ch].returns > 0
    BY <1>0 DEF Answered
  <2>2. k.pc \in {"publish", "collect"}
    <3>1. k.conf # <<>>
      BY <2>1 DEF CallSet
    <3> QED
      BY <1>0, <3>1 DEF Shaped
  <2>3. cn[k.ch].lock = c /\ k.ch \in Chans
    BY <1>0, <2>1, <2>2 DEF Prepares, Shaped
  <2>4. cn[k.ch].returns > 0
    BY <1>0, <2>1 DEF Answered
  <2>5. cm[k.ch].returns >= cn[k.ch].returns
    BY <2>3 DEF Keeps
  <2>6. cn[k.ch].returns \in Nat /\ cm[k.ch].returns \in Nat
    BY <2>3 DEF ChanSet
  <2> QED
    BY <2>4, <2>5, <2>6
<1> QED
  BY <1>0, <1>1, <1>2, <1>3 DEF Sound

\* Every call is about the messages it was made with.
SameMessages == \A c \in Callers : call'[c].msgs = call[c].msgs

\* One caller's step: the others rely on the channels only.
LEMMA OneCaller ==
    ASSUME SenderInv, NEW c \in Callers, NEW k \in CallSet,
           call' = [call EXCEPT ![c] = k], sender' = sender,
           chan' \in [Chans -> ChanSet],
           \A d \in Callers \ {c} : Keeps(d, chan, chan'),
           taken \subseteq taken', routed \subseteq routed',
           Sound(sender, c, k, chan', taken', routed')
    PROVE  /\ call' \in [Callers -> CallSet]
           /\ \A d \in Callers : Sound(sender', d, call'[d], chan', taken', routed')
           /\ k.msgs = call[c].msgs => SameMessages
<1>0. call \in [Callers -> CallSet] /\ chan \in [Chans -> ChanSet]
  BY DEF SenderInv, SenderTypeOK
<1>1. call' \in [Callers -> CallSet] /\ call'[c] = k
      /\ \A d \in Callers \ {c} : call'[d] = call[d]
  BY <1>0
<1>2. ASSUME NEW d \in Callers \ {c}
      PROVE  Sound(sender', d, call'[d], chan', taken', routed')
  <2>1. Sound(sender, d, call[d], chan, taken, routed) /\ call[d] \in CallSet
    BY <1>0 DEF SenderInv
  <2>2. Sound(sender, d, call[d], chan', taken', routed')
    BY <1>0, <2>1, Framed
  <2> QED
    BY <1>1, <2>2
<1>3. k.msgs = call[c].msgs => SameMessages
  BY <1>1 DEF SameMessages
<1> QED
  BY <1>1, <1>2, <1>3
-----------------------------------------------------------------------------
(***************************************************************************)
(* The steps of a caller.                                                  *)
(***************************************************************************)

\* What a step leaves behind, apart from known, taken, routed and troubles.
Restores ==
    /\ sender' = sender
    /\ chan' \in [Chans -> ChanSet]
    /\ \A ch \in Chans : chan'[ch].handshake = "enabled" => chan'[ch].confirming
    /\ call' \in [Callers -> CallSet]
    /\ \A o \in orphans' : o \in Chans \X Messages
    /\ \A c \in Callers : Sound(sender', c, call'[c], chan', taken', routed')

\* With the bookkeeping in its types, what Restores says is the invariant.
LEMMA Restored ==
    ASSUME SenderInv, Restores, known' \subseteq Chans,
           routed' \subseteq taken', taken' \subseteq Messages, troubles' \in 0..MaxTroubles
    PROVE  SenderInv'
  BY DEF SenderInv, SenderTypeOK, Restores, SetupAccepts

\* What SenderInv says, part by part.
LEMMA SenderTypes ==
    ASSUME SenderInv
    PROVE  /\ sender \in SenderCases /\ SetupAccepts(sender)
           /\ chan \in [Chans -> ChanSet] /\ call \in [Callers -> CallSet]
           /\ known \subseteq Chans /\ troubles \in 0..MaxTroubles
           /\ \A o \in orphans : o \in Chans \X Messages
           /\ routed \subseteq taken /\ taken \subseteq Messages
           /\ \A ch \in Chans : chan[ch].handshake = "enabled" => chan[ch].confirming
           /\ \A c \in Callers : /\ Sound(sender, c, call[c], chan, taken, routed)
                                 /\ Shaped(sender, call[c]) /\ Backed(sender, call[c], taken, routed)
                                 /\ Answered(sender, call[c], chan, taken, routed)
                                 /\ Prepares(sender, c, call[c], chan)
  BY DEF SenderInv, SenderTypeOK, Sound

\* A caller's step that leaves the channels as they are.
LEMMA AloneStep ==
    ASSUME SenderInv, NEW c \in Callers, NEW k \in CallSet,
           call' = [call EXCEPT ![c] = k],
           UNCHANGED <<sender, chan, orphans, taken, routed>>,
           Sound(sender, c, k, chan, taken, routed)
    PROVE  Restores /\ (k.msgs = call[c].msgs => SameMessages)
<1>0. chan \in [Chans -> ChanSet]
  BY SenderTypes
<1>1. \A d \in Callers : Keeps(d, chan, chan')
  BY <1>0 DEF Keeps, ChanSet
<1>2. Sound(sender, c, k, chan', taken', routed')
  OBVIOUS
<1>3. /\ call' \in [Callers -> CallSet]
      /\ \A d \in Callers : Sound(sender', d, call'[d], chan', taken', routed')
      /\ k.msgs = call[c].msgs => SameMessages
  BY <1>0, <1>1, <1>2, OneCaller
<1> QED
  BY <1>3, SenderTypes DEF Restores

\* A message of the command that is published is a message.
LEMMA CommandMessage ==
    ASSUME NEW s, NEW k \in CallSet, Shaped(s, k), NEW i \in 1..k.window
    PROVE  k.msgs[k.base + i] \in Messages
  BY DEF Shaped, CallSet

\* A caller gives up its locks.
LEMMA Released ==
    ASSUME SenderInv, NEW c \in Callers,
           chan' = [ch \in Chans |-> IF chan[ch].lock = c THEN [chan[ch] EXCEPT !.lock = None]
                                     ELSE chan[ch]]
    PROVE  /\ chan' \in [Chans -> ChanSet]
           /\ \A ch \in Chans : chan'[ch].handshake = "enabled" => chan'[ch].confirming
           /\ \A d \in Callers \ {c} : Keeps(d, chan, chan')
<1>0. chan \in [Chans -> ChanSet]
      /\ \A ch \in Chans : chan[ch].handshake = "enabled" => chan[ch].confirming
  BY SenderTypes
<1>1. ASSUME NEW ch \in Chans
      PROVE  /\ chan'[ch] \in ChanSet
             /\ chan'[ch].handshake = chan[ch].handshake
             /\ chan'[ch].confirming = chan[ch].confirming
             /\ chan'[ch].returns = chan[ch].returns /\ chan[ch].returns \in Nat
             /\ chan[ch].lock # c => chan'[ch].lock = chan[ch].lock
  BY <1>0 DEF ChanSet
<1>2. chan' \in [Chans -> ChanSet]
  <2>1. chan' = [ch \in Chans |-> chan'[ch]]
    OBVIOUS
  <2> QED
    BY <1>1, <2>1
<1>3. ASSUME NEW d \in Callers \ {c}
      PROVE  Keeps(d, chan, chan')
  <2>1. ASSUME NEW ch \in Chans
        PROVE  /\ chan[ch].confirming => chan'[ch].confirming
               /\ chan[ch].lock = d => chan'[ch].lock = d /\ chan'[ch].returns >= chan[ch].returns
    <3>1. d # c
      OBVIOUS
    <3>2. chan'[ch].returns >= chan[ch].returns
      <4>1. chan'[ch].returns = chan[ch].returns /\ chan[ch].returns \in Nat
        BY <1>1
      <4>2. \A n \in Nat : n >= n
        OBVIOUS
      <4> QED
        BY <4>1, <4>2, Zenon
    <3> QED
      BY <1>1, <3>1, <3>2
  <2> QED
    BY <2>1 DEF Keeps
<1> QED
  BY <1>0, <1>1, <1>2, <1>3

\* Calls that are answered, and calls that are run again.
LEMMA AnswerTypes ==
    ASSUME MaxAttempts \in Nat
    PROVE  /\ \A a \in Seq(Messages), b \in Nat, d \in Nat,
                 err \in {"none", "unsendable", "unroutable", "failed"} :
                [IdleCall EXCEPT !.pc = "returned", !.msgs = a, !.base = b, !.acked = d,
                                 !.err = err] \in CallSet
           /\ \A k \in CallSet, n \in 0..MaxAttempts :
                [k EXCEPT !.pc = "acquire", !.attempt = n, !.conf = <<>>] \in CallSet
<1>1. IdleCall \in CallSet
  <2>1. <<>> \in Seq(Messages) /\ <<>> \in Seq({"pending", "ack", "nack"})
    OBVIOUS
  <2> QED
    BY <2>1 DEF IdleCall, CallSet
<1>2. ASSUME NEW idle \in CallSet, NEW a \in Seq(Messages), NEW b \in Nat, NEW d \in Nat,
             NEW err \in {"none", "unsendable", "unroutable", "failed"}
      PROVE  [idle EXCEPT !.pc = "returned", !.msgs = a, !.base = b, !.acked = d, !.err = err]
               \in CallSet
  BY DEF CallSet
<1>3. ASSUME NEW k \in CallSet, NEW n \in 0..MaxAttempts,
             NEW conf \in Seq({"pending", "ack", "nack"})
      PROVE  [k EXCEPT !.pc = "acquire", !.attempt = n, !.conf = conf] \in CallSet
  BY DEF CallSet
<1>4. <<>> \in Seq({"pending", "ack", "nack"})
  OBVIOUS
<1> QED
  BY <1>1, <1>2, <1>3, <1>4

\* The command of a call fails, and the call answers or is run again.
LEMMA FailStep ==
    ASSUME SenderInv, NEW c \in Callers, NEW err \in {"unroutable", "failed"}, Fail(c, err),
           call[c].pc \notin {"idle", "returned"}, UNCHANGED <<sender, taken, routed>>
    PROVE  Restores /\ SameMessages
<1> DEFINE k == call[c]
           answer == [IdleCall EXCEPT !.pc = "returned", !.msgs = k.msgs, !.base = k.base,
                                      !.acked = k.acked, !.err = err]
           again == [k EXCEPT !.pc = "acquire", !.attempt = @ + 1, !.conf = <<>>]
<1>0. k \in CallSet /\ Shaped(sender, k) /\ Backed(sender, k, taken, routed)
      /\ call \in [Callers -> CallSet] /\ sender \in SenderCases
  BY SenderTypes
<1>1. /\ chan' \in [Chans -> ChanSet]
      /\ \A ch \in Chans : chan'[ch].handshake = "enabled" => chan'[ch].confirming
      /\ \A d \in Callers \ {c} : Keeps(d, chan, chan')
  BY Released DEF Fail
<1>2. \A o \in orphans' : o \in Chans \X Messages
  <2>1. ASSUME NEW i \in Unanswered(c)
        PROVE  <<call[c].ch, Message(c, i)>> \in Chans \X Messages
    <3>1. i \in 1..Len(k.conf) /\ k.conf # <<>>
      BY <1>0 DEF Unanswered, CallSet
    <3>2. k.ch \in Chans /\ i \in 1..k.window
      BY <1>0, <3>1 DEF Shaped, CallSet
    <3>3. k.msgs[k.base + i] \in Messages
      BY <1>0, <3>2, CommandMessage
    <3> QED
      BY <3>2, <3>3 DEF Message
  <2>2. orphans' = orphans \cup {<<call[c].ch, Message(c, i)>> : i \in Unanswered(c)}
    BY DEF Fail
  <2> QED
    BY <2>1, <2>2, SenderTypes
<1>3. ASSUME NEW j \in CallSet, call' = [call EXCEPT ![c] = j],
             Sound(sender, c, j, chan', taken', routed'), j.msgs = k.msgs
      PROVE  Restores /\ SameMessages
  <2>1. /\ call' \in [Callers -> CallSet]
        /\ \A d \in Callers : Sound(sender', d, call'[d], chan', taken', routed')
        /\ SameMessages
    BY <1>1, <1>3, OneCaller
  <2> QED
    BY <1>1, <1>2, <2>1 DEF Restores
<1>4. ASSUME call' = [call EXCEPT ![c] = answer]
      PROVE  Restores /\ SameMessages
  <2> DEFINE j == answer
  <2>1. /\ j.pc = "returned" /\ j.msgs = k.msgs /\ j.base = k.base /\ j.window = 0
        /\ j.conf = <<>> /\ j.acked = k.acked
    BY DEF IdleCall
  <2>2. j \in CallSet
    <3>1. k.msgs \in Seq(Messages) /\ k.base \in Nat /\ k.acked \in Nat
      BY <1>0 DEF CallSet
    <3> QED
      BY <1>0, <3>1, SenderFacts, AnswerTypes
  <2> HIDE DEF answer
  <2>3. Shaped(sender, j)
    <3>1. k.base + k.acked <= Len(k.msgs) /\ k.base \in Nat /\ k.acked \in Nat /\ Len(k.msgs) \in Nat
      BY <1>0 DEF Shaped, CallSet
    <3> QED
      BY <2>1, <3>1 DEF Shaped
  <2>4. Backed(sender, j, taken, routed)
    BY <1>0, <2>1 DEF Backed
  <2>5. Sound(sender, c, j, chan', taken', routed')
    BY <2>1, <2>3, <2>4, QuietSound
  <2> QED
    BY <1>3, <1>4, <2>1, <2>2, <2>5
<1>5. ASSUME call' = [call EXCEPT ![c] = again], k.attempt < MaxAttempts
      PROVE  Restores /\ SameMessages
  <2> DEFINE j == again
  <2>1. /\ j.pc = "acquire" /\ j.conf = <<>> /\ j.attempt = k.attempt + 1 /\ j.msgs = k.msgs
        /\ j.base = k.base /\ j.window = k.window /\ j.acked = k.acked
    BY <1>0 DEF CallSet
  <2>2. j \in CallSet
    <3>1. k.attempt + 1 \in 0..MaxAttempts
      BY <1>0, <1>5, SenderFacts DEF CallSet
    <3> QED
      BY <1>0, <3>1, SenderFacts, AnswerTypes
  <2> HIDE DEF j
  <2>3. Shaped(sender, j)
    BY <1>0, <2>1 DEF Shaped, CallSet
  <2>4. Backed(sender, j, taken, routed)
    BY <1>0, <2>1 DEF Backed
  <2>5. Sound(sender, c, j, chan', taken', routed')
    BY <2>1, <2>3, <2>4, QuietSound
  <2> QED
    BY <1>3, <1>5, <2>1, <2>2, <2>5 DEF j
<1>6. \/ call' = [call EXCEPT ![c] = answer]
      \/ k.attempt < MaxAttempts
         /\ call' = [call EXCEPT ![c].pc = "acquire", ![c].attempt = @ + 1, ![c].conf = <<>>]
  BY DEF Fail
<1>7. [call EXCEPT ![c].pc = "acquire", ![c].attempt = @ + 1, ![c].conf = <<>>]
        = [call EXCEPT ![c] = again]
  BY <1>0 DEF CallSet
<1> HIDE DEF answer, again
<1> QED
  BY <1>4, <1>5, <1>6, <1>7

\* A call that differs only in its deadline and attempt is as sound.
LEMMA SameSound ==
    ASSUME NEW s, NEW c, NEW k, NEW j, NEW cn, NEW T, NEW R, Sound(s, c, k, cn, T, R),
           j.pc = k.pc, j.msgs = k.msgs, j.base = k.base, j.window = k.window, j.ch = k.ch,
           j.conf = k.conf, j.acked = k.acked, j.pubErr = k.pubErr
    PROVE  Sound(s, c, j, cn, T, R)
<1>0. Shaped(s, k) /\ Backed(s, k, T, R) /\ Answered(s, k, cn, T, R) /\ Prepares(s, c, k, cn)
  BY DEF Sound
<1>1. Shaped(s, j)
  BY <1>0 DEF Shaped
<1>2. Backed(s, j, T, R)
  BY <1>0 DEF Backed
<1>3. Answered(s, j, cn, T, R)
  BY <1>0 DEF Answered
<1>4. Prepares(s, c, j, cn)
  BY <1>0 DEF Prepares
<1> QED
  BY <1>1, <1>2, <1>3, <1>4 DEF Sound

\* The caller's deadline passes: nothing it relies on changes.
LEMMA ExpireCall ==
    ASSUME SenderInv, NEW c \in Callers, NEW e \in BOOLEAN,
           call' = [call EXCEPT ![c].expired = e],
           UNCHANGED <<sender, chan, orphans, taken, routed>>
    PROVE  Restores /\ SameMessages
<1> DEFINE k == call[c]
           j == [k EXCEPT !.expired = e]
<1>0. k \in CallSet /\ call \in [Callers -> CallSet]
      /\ Sound(sender, c, k, chan, taken, routed)
  BY SenderTypes
<1>1. j \in CallSet
  BY <1>0 DEF CallSet
<1>2. /\ j.pc = k.pc /\ j.msgs = k.msgs /\ j.base = k.base /\ j.window = k.window
      /\ j.ch = k.ch /\ j.conf = k.conf /\ j.acked = k.acked /\ j.pubErr = k.pubErr
  BY <1>0 DEF CallSet
<1>3. call' = [call EXCEPT ![c] = j]
  BY <1>0
<1> HIDE DEF j
<1>4. Sound(sender, c, j, chan, taken, routed)
  BY <1>0, <1>2, SameSound
<1> QED
  BY <1>1, <1>2, <1>3, <1>4, AloneStep

\* SendBatch: the first command of a call.
LEMMA SendBatchStep ==
    ASSUME SenderInv, NEW c \in Callers, NEW msgs \in Seq(Messages), SendBatch(c, msgs)
    PROVE  /\ SenderInv' /\ sender' = sender /\ taken' = taken
           /\ call'[c].msgs = msgs /\ call'[c].pc # "idle"
           /\ \A d \in Callers \ {c} : call'[d] = call[d]
<1> DEFINE j == NextCommand(msgs, 0, FALSE)
<1>0. call \in [Callers -> CallSet] /\ sender \in SenderCases
  BY SenderTypes
<1>1. /\ j \in CallSet /\ j.msgs = msgs /\ j.base = 0 /\ j.acked = 0 /\ j.conf = <<>>
      /\ j.pc \in {"returned", "acquire"} /\ Shaped(sender, j)
  <2>1. 0 \in 0..Len(msgs)
    OBVIOUS
  <2> QED
    BY <1>0, <2>1, NextCommandFacts
<1>2. call' = [call EXCEPT ![c] = j]
  BY DEF SendBatch
<1>3. UNCHANGED <<sender, chan, known, orphans, taken, routed, troubles>>
  BY DEF SendBatch
<1> HIDE DEF j
<1>4. Backed(sender, j, taken, routed)
  BY <1>1 DEF Backed
<1>5. Sound(sender, c, j, chan, taken, routed)
  BY <1>1, <1>4, QuietSound
<1>6. Restores
  BY <1>1, <1>2, <1>3, <1>5, AloneStep
<1>7. SenderInv'
  BY <1>3, <1>6, Restored, SenderTypes
<1> QED
  BY <1>0, <1>1, <1>2, <1>3, <1>7

\* The command starts from nothing on a channel that is lent.
LEMMA AcquireStep ==
    ASSUME SenderInv, NEW c \in Callers, Acquire(c)
    PROVE  Restores /\ SameMessages
<1>0. call[c] \in CallSet /\ call \in [Callers -> CallSet] /\ chan \in [Chans -> ChanSet]
      /\ Shaped(sender, call[c]) /\ Backed(sender, call[c], taken, routed)
      /\ SetupAccepts(sender) /\ sender \in SenderCases
      /\ \A ch \in Chans : chan[ch].handshake = "enabled" => chan[ch].confirming
  BY SenderTypes
<1> DEFINE k == call[c]
           pc == IF sender.confirms THEN "enable" ELSE "publish"
<1>1. PICK ch \in Chans :
          /\ chan' = [chan EXCEPT ![ch].state = "open"]
          /\ call' = [call EXCEPT ![c].pc = pc, ![c].ch = ch, ![c].acked = 0, ![c].conf = <<>>,
                                  ![c].pubErr = FALSE]
  BY DEF Acquire
<1> DEFINE j == [k EXCEPT !.pc = pc, !.ch = ch, !.acked = 0, !.conf = <<>>, !.pubErr = FALSE]
<1>2. k.pc = "acquire" /\ UNCHANGED <<sender, orphans, taken, routed>>
  BY DEF Acquire
<1>3. call' = [call EXCEPT ![c] = j]
  BY <1>0, <1>1
<1>4. j.pc = pc /\ j.msgs = k.msgs /\ j.base = k.base /\ j.window = k.window /\ j.ch = ch
      /\ j.acked = 0 /\ j.conf = <<>> /\ ~j.pubErr
  BY <1>0 DEF CallSet
<1>5. j \in CallSet
  <2>1. <<>> \in Seq({"pending", "ack", "nack"}) /\ FALSE \in BOOLEAN
    OBVIOUS
  <2>2. ASSUME NEW conf \in Seq({"pending", "ack", "nack"}), NEW p \in {"enable", "publish"}
        PROVE  [k EXCEPT !.pc = p, !.ch = ch, !.acked = 0, !.conf = conf, !.pubErr = FALSE]
                 \in CallSet
    BY <1>0 DEF CallSet
  <2> QED
    BY <2>1, <2>2
<1> HIDE DEF j
<1>6. Shaped(sender, j)
  <2>1. k.base \in Nat /\ k.acked \in Nat /\ k.window \in Nat /\ Len(k.msgs) \in Nat
    BY <1>0 DEF CallSet
  <2>2. k.base + k.window <= Len(k.msgs) /\ k.window > 0
        /\ (sender.mandatory => k.window <= 1)
        /\ \A i \in 1..k.window : sender.fate[k.msgs[k.base + i]] # "bad"
    BY <1>0, <1>2 DEF Shaped
  <2> QED
    BY <1>4, <2>1, <2>2 DEF Shaped
<1>7. Backed(sender, j, taken, routed)
  <2>1. k.base \in Nat /\ k.acked \in Nat
    BY <1>0 DEF CallSet
  <2>2. \A i \in 1..k.base : i \in 1..(k.base + k.acked)
    BY <2>1
  <2>3. k.base + 0 = k.base
    BY <2>1
  <2> QED
    BY <1>0, <1>4, <2>2, <2>3 DEF Backed
<1>8. Sound(sender, c, j, chan', taken, routed)
  <2>1. Answered(sender, j, chan', taken, routed)
    BY <1>4 DEF Answered
  <2>2. Prepares(sender, c, j, chan')
    BY <1>0, <1>4 DEF Prepares, SetupAccepts
  <2> QED
    BY <1>6, <1>7, <2>1, <2>2 DEF Sound
<1>9. /\ chan' \in [Chans -> ChanSet]
      /\ \A x \in Chans : chan'[x].handshake = "enabled" => chan'[x].confirming
      /\ \A d \in Callers \ {c} : Keeps(d, chan, chan')
  <2>1. chan' \in [Chans -> ChanSet]
    BY <1>0, <1>1 DEF ChanSet
  <2>2. ASSUME NEW x \in Chans
        PROVE  /\ chan'[x].handshake = chan[x].handshake /\ chan'[x].lock = chan[x].lock
               /\ chan'[x].confirming = chan[x].confirming
               /\ chan'[x].returns = chan[x].returns /\ chan[x].returns \in Nat
    BY <1>0, <1>1 DEF ChanSet
  <2>3. \A n \in Nat : n >= n
    OBVIOUS
  <2>4. ASSUME NEW d \in Callers PROVE Keeps(d, chan, chan')
    BY <2>2, <2>3, Zenon DEF Keeps
  <2> QED
    BY <1>0, <2>1, <2>2, <2>4
<1>10. /\ call' \in [Callers -> CallSet]
       /\ \A d \in Callers : Sound(sender', d, call'[d], chan', taken', routed')
       /\ SameMessages
  BY <1>2, <1>3, <1>4, <1>5, <1>8, <1>9, OneCaller
<1> QED
  BY <1>2, <1>9, <1>10, SenderTypes DEF Restores

\* Nothing is lent: the call answers with what it had counted.
LEMMA AcquireFailsStep ==
    ASSUME SenderInv, NEW c \in Callers, AcquireFails(c)
    PROVE  Restores /\ SameMessages
<1> DEFINE k == call[c]
           j == [IdleCall EXCEPT !.pc = "returned", !.msgs = k.msgs, !.base = k.base,
                                 !.acked = k.acked, !.err = "failed"]
<1>0. k \in CallSet /\ Shaped(sender, k) /\ Backed(sender, k, taken, routed)
      /\ call \in [Callers -> CallSet] /\ sender \in SenderCases
  BY SenderTypes
<1>1. call' = [call EXCEPT ![c] = j] /\ UNCHANGED <<sender, chan, orphans, taken, routed>>
  BY DEF AcquireFails
<1>2. /\ j.pc = "returned" /\ j.msgs = k.msgs /\ j.base = k.base /\ j.window = 0
      /\ j.conf = <<>> /\ j.acked = k.acked
  BY DEF IdleCall
<1>3. k.msgs \in Seq(Messages) /\ k.base \in Nat /\ k.acked \in Nat
  BY <1>0 DEF CallSet
<1>4. j \in CallSet
  BY <1>0, <1>3, SenderFacts, AnswerTypes
<1> HIDE DEF j
<1>5. Shaped(sender, j)
  <2>1. k.base + k.acked <= Len(k.msgs) /\ Len(k.msgs) \in Nat
    BY <1>0, <1>3 DEF Shaped
  <2> QED
    BY <1>2, <1>3, <2>1 DEF Shaped
<1>6. Backed(sender, j, taken, routed)
  BY <1>0, <1>2 DEF Backed
<1>7. Sound(sender, c, j, chan, taken, routed)
  BY <1>2, <1>5, <1>6, QuietSound
<1> QED
  BY <1>1, <1>2, <1>4, <1>7, AloneStep

\* A command goes on from one phase to the next before it has published anything.
LEMMA PhaseStep ==
    ASSUME SenderInv, NEW c \in Callers, NEW pc \in {"handshake", "lock", "publish"},
           call[c].pc \in {"enable", "handshake", "lock"}, Step(c, pc),
           UNCHANGED <<sender, orphans, taken, routed>>,
           chan' \in [Chans -> ChanSet],
           \A ch \in Chans : chan'[ch].handshake = "enabled" => chan'[ch].confirming,
           \A d \in Callers \ {c} : Keeps(d, chan, chan'),
           pc = "publish" /\ sender.mandatory => chan'[call[c].ch].lock = c,
           pc # "handshake" /\ sender.confirms => chan'[call[c].ch].confirming
    PROVE  Restores /\ SameMessages
<1> DEFINE k == call[c]
           j == [k EXCEPT !.pc = pc]
<1>0. k \in CallSet /\ call \in [Callers -> CallSet]
      /\ Shaped(sender, k) /\ Backed(sender, k, taken, routed)
  BY SenderTypes
<1>1. call' = [call EXCEPT ![c] = j]
  BY <1>0 DEF Step
<1>2. j \in CallSet
  BY <1>0 DEF CallSet
<1>3. /\ j.pc = pc /\ j.msgs = k.msgs /\ j.base = k.base /\ j.window = k.window /\ j.ch = k.ch
      /\ j.acked = k.acked /\ j.conf = k.conf /\ j.pubErr = k.pubErr
  BY <1>0 DEF CallSet
<1> HIDE DEF j
<1>4. k.conf = <<>> /\ k.window > 0 /\ k.ch \in Chans /\ ~k.pubErr /\ k.acked <= k.window
  BY <1>0 DEF Shaped
<1>5. Shaped(sender, j)
  <2>1. Len(k.conf) = 0
    BY <1>4
  <2> QED
    BY <1>0, <1>3, <1>4, <2>1 DEF Shaped
<1>6. Backed(sender, j, taken, routed)
  BY <1>0, <1>3 DEF Backed
<1>7. Answered(sender, j, chan', taken, routed)
  BY <1>3, <1>4 DEF Answered
<1>8. Prepares(sender, c, j, chan')
  BY <1>3 DEF Prepares
<1>9. Sound(sender, c, j, chan', taken', routed')
  BY <1>5, <1>6, <1>7, <1>8 DEF Sound
<1>10. /\ call' \in [Callers -> CallSet]
       /\ \A d \in Callers : Sound(sender', d, call'[d], chan', taken', routed')
       /\ SameMessages
  BY <1>1, <1>2, <1>3, <1>9, OneCaller
<1> QED
  BY <1>10, SenderTypes DEF Restores

\* The same, when the channels stay as they are.
LEMMA PhaseAlone ==
    ASSUME SenderInv, NEW c \in Callers, Step(c, Locked),
           call[c].pc \in {"enable", "handshake"}, chan[call[c].ch].handshake = "enabled",
           UNCHANGED <<sender, chan, orphans, taken, routed>>
    PROVE  Restores /\ SameMessages
<1>0. chan \in [Chans -> ChanSet] /\ Shaped(sender, call[c])
      /\ \A ch \in Chans : chan[ch].handshake = "enabled" => chan[ch].confirming
  BY SenderTypes
<1>1. Locked \in {"handshake", "lock", "publish"} /\ (sender.mandatory => Locked = "lock")
  BY DEF Locked
<1>2. \A d \in Callers \ {c} : Keeps(d, chan, chan')
  BY <1>0 DEF Keeps, ChanSet
<1>3. call[c].ch \in Chans
  BY <1>0 DEF Shaped
<1> QED
  BY <1>0, <1>1, <1>2, <1>3, PhaseStep

\* Confirms.Enable: known forgets closed channels, the caller goes on, fails or waits.
LEMMA EnableStep ==
    ASSUME SenderInv, NEW c \in Callers, Enable(c)
    PROVE  Restores /\ SameMessages /\ known' \subseteq Chans
<1> DEFINE ch == call[c].ch
           hs == IF ch \in known THEN chan[ch].handshake ELSE "none"
<1>0. chan \in [Chans -> ChanSet] /\ Shaped(sender, call[c]) /\ known \subseteq Chans
      /\ \A x \in Chans : chan[x].handshake = "enabled" => chan[x].confirming
  BY SenderTypes
<1>1. call[c].pc = "enable" /\ StateFor(ch) /\ UNCHANGED <<sender, taken, routed>>
  BY DEF Enable
<1>2. ch \in Chans
  BY <1>0, <1>1 DEF Shaped
<1>3. known' \subseteq Chans
  BY <1>0, <1>1, <1>2 DEF StateFor
<1>4. \/ hs = "enabled" /\ Step(c, Locked) /\ UNCHANGED <<chan, orphans>>
      \/ Fail(c, "failed")
      \/ /\ Step(c, "handshake") /\ UNCHANGED orphans
         /\ chan' = [chan EXCEPT ![ch].handshake = "inFlight"]
  BY Zenon DEF Enable
<1>5. ASSUME hs = "enabled", Step(c, Locked), UNCHANGED <<chan, orphans>>
      PROVE  Restores /\ SameMessages
  <2>1. chan[call[c].ch].handshake = "enabled"
    BY <1>5
  <2> QED
    BY <1>1, <1>5, <2>1, PhaseAlone
<1>6. ASSUME Fail(c, "failed")
      PROVE  Restores /\ SameMessages
  BY <1>1, <1>6, FailStep
<1>7. ASSUME Step(c, "handshake"), UNCHANGED orphans,
             chan' = [chan EXCEPT ![ch].handshake = "inFlight"]
      PROVE  Restores /\ SameMessages
  <2>1. chan' \in [Chans -> ChanSet]
    BY <1>0, <1>2, <1>7 DEF ChanSet
  <2>2. ASSUME NEW x \in Chans
        PROVE  /\ chan'[x].handshake \in {chan[x].handshake, "inFlight"}
               /\ chan'[x].confirming = chan[x].confirming /\ chan'[x].lock = chan[x].lock
               /\ chan'[x].returns = chan[x].returns /\ chan[x].returns \in Nat
    BY <1>0, <1>2, <1>7 DEF ChanSet
  <2>3. \A x \in Chans : chan'[x].handshake = "enabled" => chan'[x].confirming
    BY <1>0, <2>2
  <2>4. \A n \in Nat : n >= n
    OBVIOUS
  <2>5. \A d \in Callers \ {c} : Keeps(d, chan, chan')
    BY <2>2, <2>4, Zenon DEF Keeps
  <2> QED
    BY <1>1, <1>7, <2>1, <2>3, <2>5, PhaseStep
<1> HIDE DEF hs
<1> QED
  BY <1>3, <1>4, <1>5, <1>6, <1>7

\* The handshake is over, or the caller's deadline passes.
LEMMA AwaitHandshakeStep ==
    ASSUME SenderInv, NEW c \in Callers, AwaitHandshake(c)
    PROVE  Restores /\ SameMessages
<1>1. call[c].pc = "handshake" /\ UNCHANGED <<sender, taken, routed>>
  BY DEF AwaitHandshake
<1>2. \/ /\ chan[call[c].ch].handshake = "enabled" /\ Step(c, Locked)
         /\ UNCHANGED <<chan, orphans>>
      \/ Fail(c, "failed")
  BY DEF AwaitHandshake
<1>3. CASE Fail(c, "failed")
  BY <1>1, <1>3, FailStep
<1>4. CASE ~Fail(c, "failed")
  BY <1>1, <1>2, <1>4, PhaseAlone
<1> QED
  BY <1>3, <1>4

\* Watch.Lock: the channel was free, and what it drains is nobody's.
LEMMA LockStep ==
    ASSUME SenderInv, NEW c \in Callers, Lock(c)
    PROVE  Restores /\ SameMessages
<1> DEFINE ch == call[c].ch
<1>0. chan \in [Chans -> ChanSet] /\ Shaped(sender, call[c]) /\ Prepares(sender, c, call[c], chan)
      /\ sender \in SenderCases
      /\ \A x \in Chans : chan[x].handshake = "enabled" => chan[x].confirming
  BY SenderTypes
<1>1. call[c].pc = "lock" /\ UNCHANGED <<sender, orphans, taken, routed>>
      /\ chan[ch].lock = None /\ Step(c, "publish")
      /\ chan' = [chan EXCEPT ![ch].lock = c, ![ch].returns = 0]
  BY DEF Lock
<1>2. ch \in Chans
  BY <1>0, <1>1 DEF Shaped
<1>3. chan' \in [Chans -> ChanSet]
  BY <1>0, <1>1, <1>2 DEF ChanSet
<1>4. ASSUME NEW x \in Chans
      PROVE  /\ chan'[x].handshake = chan[x].handshake
             /\ chan'[x].confirming = chan[x].confirming
             /\ x # ch => chan'[x].lock = chan[x].lock /\ chan'[x].returns = chan[x].returns
             /\ chan'[ch].lock = c /\ chan[x].returns \in Nat
  BY <1>0, <1>1, <1>2 DEF ChanSet
<1>5. \A n \in Nat : n >= n
  OBVIOUS
<1>6. ASSUME NEW d \in Callers \ {c} PROVE Keeps(d, chan, chan')
  <2>1. d # None
    BY <1>0, SenderFacts
  <2> QED
    BY <1>1, <1>4, <1>5, <2>1, Zenon DEF Keeps
<1>7. \A x \in Chans : chan'[x].handshake = "enabled" => chan'[x].confirming
  BY <1>0, <1>4
<1>8. sender.confirms => chan'[ch].confirming
  BY <1>0, <1>1, <1>2, <1>4 DEF Prepares
<1>9. chan'[ch].lock = c
  BY <1>2, <1>4
<1> QED
  BY <1>1, <1>3, <1>6, <1>7, <1>8, <1>9, PhaseStep

\* The command of a call is done, and every message of it counts as sent.
LEMMA SentSound ==
    ASSUME SenderInv, NEW c \in Callers, NEW cn, call[c].pc \notin {"idle", "returned"},
           sender.confirms => call[c].acked = call[c].window
    PROVE  Sent(c) \in CallSet /\ Sent(c).msgs = call[c].msgs
           /\ Sound(sender, c, Sent(c), cn, taken, routed)
<1> DEFINE k == call[c]
           j == NextCommand(k.msgs, k.base + k.window, k.expired)
<1>0. k \in CallSet /\ Shaped(sender, k) /\ Backed(sender, k, taken, routed)
      /\ sender \in SenderCases
  BY SenderTypes
<1>1. /\ k.msgs \in Seq(Messages) /\ k.base + k.window \in 0..Len(k.msgs)
      /\ k.expired \in BOOLEAN
  BY <1>0 DEF CallSet, Shaped
<1>2. /\ j \in CallSet /\ j.msgs = k.msgs /\ j.base = k.base + k.window /\ j.acked = 0
      /\ j.conf = <<>> /\ j.pc \in {"returned", "acquire"} /\ Shaped(sender, j)
  BY <1>0, <1>1, NextCommandFacts
<1>3. Sent(c) = j
  BY DEF Sent, Expired
<1> HIDE DEF j
<1>4. Backed(sender, j, taken, routed)
  <2>1. j.base + j.acked = k.base + k.window
    BY <1>1, <1>2
  <2> QED
    BY <1>0, <1>2, <2>1 DEF Backed
<1>5. Sound(sender, c, j, cn, taken, routed)
  BY <1>2, <1>4, QuietSound
<1> QED
  BY <1>2, <1>3, <1>5

\* Without confirms a written frame is a sent message.
LEMMA PublishUnconfirmedStep ==
    ASSUME SenderInv, NEW c \in Callers, PublishUnconfirmed(c)
    PROVE  Restores /\ SameMessages
<1>1. /\ call[c].pc = "publish" /\ ~sender.confirms /\ UNCHANGED <<sender, taken, routed>>
      /\ \/ Fail(c, "failed")
         \/ call' = [call EXCEPT ![c] = Sent(c)] /\ UNCHANGED <<chan, orphans>>
  BY DEF PublishUnconfirmed
<1>2. CASE Fail(c, "failed")
  BY <1>1, <1>2, FailStep
<1>3. CASE ~Fail(c, "failed")
  <2>1. Sent(c) \in CallSet /\ Sent(c).msgs = call[c].msgs
        /\ Sound(sender, c, Sent(c), chan, taken, routed)
    BY <1>1, SentSound
  <2> QED
    BY <1>1, <1>3, <2>1, AloneStep
<1> QED
  BY <1>2, <1>3

\* One publish, whose confirm is pending; a failed one ends the loop.
LEMMA PublishStep ==
    ASSUME SenderInv, NEW c \in Callers, Publish(c)
    PROVE  Restores /\ SameMessages
<1> DEFINE k == call[c]
           pc == IF Len(k.conf) + 1 = k.window THEN "collect" ELSE "publish"
           broken == [k EXCEPT !.pc = "collect", !.pubErr = TRUE]
           more == [k EXCEPT !.conf = Append(@, "pending"), !.pc = pc]
<1>0. /\ k \in CallSet /\ call \in [Callers -> CallSet] /\ Shaped(sender, k)
      /\ Backed(sender, k, taken, routed) /\ Answered(sender, k, chan, taken, routed)
      /\ Prepares(sender, c, k, chan)
  BY SenderTypes
<1>1. /\ k.pc = "publish" /\ UNCHANGED <<sender, chan, orphans, taken, routed>>
      /\ \/ call' = [call EXCEPT ![c].pc = "collect", ![c].pubErr = TRUE]
         \/ call' = [call EXCEPT ![c].conf = Append(@, "pending"), ![c].pc = pc]
  BY DEF Publish
<1>2. call' = [call EXCEPT ![c] = broken] \/ call' = [call EXCEPT ![c] = more]
  BY <1>0, <1>1
<1>3. /\ k.base \in Nat /\ k.acked \in Nat /\ k.window \in Nat /\ Len(k.msgs) \in Nat
      /\ k.conf \in Seq({"pending", "ack", "nack"}) /\ Len(k.conf) \in Nat
  BY <1>0 DEF CallSet
<1>4. /\ Len(k.conf) < k.window /\ ~k.pubErr /\ k.ch \in Chans /\ k.acked <= k.window
      /\ k.window > 0
  BY <1>0, <1>1 DEF Shaped
<1>5. ASSUME call' = [call EXCEPT ![c] = broken]
      PROVE  Restores /\ SameMessages
  <2> DEFINE j == broken
  <2>1. j \in CallSet
    BY <1>0 DEF CallSet
  <2>2. /\ j.pc = "collect" /\ j.msgs = k.msgs /\ j.base = k.base /\ j.window = k.window
        /\ j.ch = k.ch /\ j.acked = k.acked /\ j.conf = k.conf /\ j.pubErr
    BY <1>0 DEF CallSet
  <2> HIDE DEF j
  <2>3. Shaped(sender, j)
    BY <1>0, <1>1, <2>2 DEF Shaped
  <2>4. Backed(sender, j, taken, routed) /\ Answered(sender, j, chan, taken, routed)
    BY <1>0, <2>2 DEF Backed, Answered
  <2>5. Prepares(sender, c, j, chan)
    BY <1>0, <1>1, <2>2 DEF Prepares
  <2>6. Sound(sender, c, j, chan, taken, routed)
    BY <2>3, <2>4, <2>5 DEF Sound
  <2> QED
    BY <1>1, <1>5, <2>1, <2>2, <2>6, AloneStep DEF j
<1>6. ASSUME call' = [call EXCEPT ![c] = more]
      PROVE  Restores /\ SameMessages
  <2> DEFINE j == more
  <2>1. /\ Append(k.conf, "pending") \in Seq({"pending", "ack", "nack"})
        /\ Len(Append(k.conf, "pending")) = Len(k.conf) + 1
        /\ \A i \in 1..Len(k.conf) : Append(k.conf, "pending")[i] = k.conf[i]
        /\ Append(k.conf, "pending")[Len(k.conf) + 1] = "pending"
    BY <1>3
  <2>2. j \in CallSet
    BY <1>0, <2>1 DEF CallSet
  <2>3. /\ j.pc = pc /\ j.msgs = k.msgs /\ j.base = k.base /\ j.window = k.window
        /\ j.ch = k.ch /\ j.acked = k.acked /\ j.conf = Append(k.conf, "pending")
        /\ j.pubErr = k.pubErr
    BY <1>0 DEF CallSet
  <2> HIDE DEF j
  <2>4. Shaped(sender, j)
    <3>1. Len(j.conf) = Len(k.conf) + 1 /\ Len(j.conf) <= k.window
      BY <1>3, <1>4, <2>1, <2>3
    <3> QED
      BY <1>0, <1>3, <1>4, <2>3, <3>1 DEF Shaped
  <2>5. Backed(sender, j, taken, routed)
    BY <1>0, <2>3 DEF Backed
  <2>6. Prepares(sender, c, j, chan)
    BY <1>0, <1>1, <2>3 DEF Prepares
  <2>7. Answered(sender, j, chan, taken, routed)
    <3>1. ASSUME NEW i \in DOMAIN j.conf, j.conf[i] = "ack"
          PROVE  i \in DOMAIN k.conf /\ k.conf[i] = "ack"
      <4>1. i \in 1..(Len(k.conf) + 1)
        BY <2>1, <2>3
      <4>2. i # Len(k.conf) + 1
        BY <2>1, <2>3, <3>1
      <4>3. i \in 1..Len(k.conf)
        BY <1>3, <4>1, <4>2
      <4> QED
        BY <1>3, <2>1, <2>3, <3>1, <4>3
    <3> QED
      BY <1>0, <2>3, <3>1 DEF Answered
  <2>8. Sound(sender, c, j, chan, taken, routed)
    BY <2>4, <2>5, <2>6, <2>7 DEF Sound
  <2> QED
    BY <1>1, <1>6, <2>2, <2>3, <2>8, AloneStep DEF j
<1> HIDE DEF broken, more
<1> QED
  BY <1>2, <1>5, <1>6

\* Collecting the confirms: the count grows by an acknowledged, unreturned publish.
LEMMA CollectStep ==
    ASSUME SenderInv, NEW c \in Callers, Collect(c)
    PROVE  Restores /\ SameMessages
<1> DEFINE k == call[c]
           next == k.acked + 1
<1>0. /\ k \in CallSet /\ call \in [Callers -> CallSet] /\ Shaped(sender, k)
      /\ Backed(sender, k, taken, routed) /\ Answered(sender, k, chan, taken, routed)
      /\ Prepares(sender, c, k, chan)
  BY SenderTypes
<1>1. k.pc = "collect" /\ UNCHANGED <<sender, taken, routed>>
  BY DEF Collect
<1>2. \/ Fail(c, "unroutable") \/ Fail(c, "failed")
      \/ /\ next <= Len(k.conf) /\ k.conf[next] = "ack" /\ ~Returned(c)
         /\ call' = [call EXCEPT ![c].acked = next] /\ UNCHANGED <<chan, orphans>>
      \/ /\ next > Len(k.conf) /\ ~k.pubErr
         /\ call' = [call EXCEPT ![c] = Sent(c)]
         /\ chan' = [ch \in Chans |-> IF chan[ch].lock = c
                                        THEN [chan[ch] EXCEPT !.lock = None] ELSE chan[ch]]
         /\ UNCHANGED orphans
  BY Zenon DEF Collect
<1>3. /\ k.base \in Nat /\ k.acked \in Nat /\ k.window \in Nat /\ Len(k.msgs) \in Nat
      /\ k.conf \in Seq({"pending", "ack", "nack"}) /\ Len(k.conf) \in Nat
  BY <1>0 DEF CallSet
<1>4. Len(k.conf) <= k.window /\ k.ch \in Chans /\ k.acked <= k.window
      /\ k.base + k.window <= Len(k.msgs)
  BY <1>0, <1>1 DEF Shaped
<1>5. ASSUME NEW err \in {"unroutable", "failed"}, Fail(c, err)
      PROVE  Restores /\ SameMessages
  BY <1>1, <1>5, FailStep
<1>6. ASSUME next <= Len(k.conf), k.conf[next] = "ack", ~Returned(c),
             call' = [call EXCEPT ![c].acked = next], UNCHANGED <<chan, orphans>>
      PROVE  Restores /\ SameMessages
  <2> DEFINE j == [k EXCEPT !.acked = next]
  <2>1. call' = [call EXCEPT ![c] = j]
    BY <1>0, <1>6
  <2>2. j \in CallSet
    <3>1. next \in Nat
      BY <1>3
    <3> HIDE DEF next
    <3> QED
      BY <1>0, <3>1 DEF CallSet
  <2>3. /\ j.pc = k.pc /\ j.msgs = k.msgs /\ j.base = k.base /\ j.window = k.window
        /\ j.ch = k.ch /\ j.acked = next /\ j.conf = k.conf /\ j.pubErr = k.pubErr
    BY <1>0 DEF CallSet
  <2> HIDE DEF j
  <2>4. Shaped(sender, j)
    <3>1. next <= Len(k.conf) /\ next = k.acked + 1
      BY <1>6
    <3> HIDE DEF k, next
    <3>2. k.base + next <= Len(k.msgs) /\ next <= k.window
      BY <1>3, <1>4, <3>1
    <3>3. j.base + j.acked <= Len(j.msgs) /\ j.acked <= j.window
      BY <2>3, <3>2
    <3> QED
      BY <1>0, <2>3, <3>3 DEF Shaped
  <2>5. Answered(sender, j, chan, taken, routed) /\ Prepares(sender, c, j, chan)
    BY <1>0, <2>3 DEF Answered, Prepares
  <2>6. Backed(sender, j, taken, routed)
    <3>1. next \in DOMAIN k.conf
      BY <1>3, <1>6
    <3>2. k.msgs[k.base + next] \in taken
          /\ (sender.mandatory /\ k.msgs[k.base + next] \notin routed => chan[k.ch].returns > 0)
      BY <1>0, <1>6, <3>1 DEF Answered
    <3>3. sender.mandatory => k.msgs[k.base + next] \in routed
      BY <1>6, <3>2 DEF Returned
    <3>4. ASSUME NEW i \in 1..(j.base + j.acked)
          PROVE  i \in 1..(k.base + k.acked) \/ i = k.base + next
      <4>1. i \in 1..(k.base + next) /\ next = k.acked + 1
        BY <2>3
      <4> HIDE DEF k, next
      <4> QED
        BY <1>3, <4>1
    <3> QED
      BY <1>0, <2>3, <3>2, <3>3, <3>4 DEF Backed
  <2>7. Sound(sender, c, j, chan, taken, routed)
    BY <2>4, <2>5, <2>6 DEF Sound
  <2> QED
    BY <1>1, <1>6, <2>1, <2>2, <2>3, <2>7, AloneStep
<1>7. ASSUME next > Len(k.conf), ~k.pubErr, call' = [call EXCEPT ![c] = Sent(c)],
             chan' = [ch \in Chans |-> IF chan[ch].lock = c
                                         THEN [chan[ch] EXCEPT !.lock = None] ELSE chan[ch]],
             UNCHANGED orphans
      PROVE  Restores /\ SameMessages
  <2>1. k.acked = k.window
    <3>1. Len(k.conf) = k.window
      BY <1>0, <1>1, <1>7 DEF Shaped
    <3> QED
      BY <1>3, <1>4, <1>7, <3>1
  <2>2. Sent(c) \in CallSet /\ Sent(c).msgs = call[c].msgs
        /\ Sound(sender, c, Sent(c), chan', taken', routed')
    BY <1>1, <2>1, SentSound
  <2>3. /\ chan' \in [Chans -> ChanSet]
        /\ \A ch \in Chans : chan'[ch].handshake = "enabled" => chan'[ch].confirming
        /\ \A d \in Callers \ {c} : Keeps(d, chan, chan')
    BY <1>7, Released
  <2>4. /\ call' \in [Callers -> CallSet]
        /\ \A d \in Callers : Sound(sender', d, call'[d], chan', taken', routed')
        /\ SameMessages
    BY <1>1, <1>7, <2>2, <2>3, OneCaller
  <2> QED
    BY <1>1, <1>7, <2>3, <2>4, SenderTypes DEF Restores
<1> QED
  BY <1>2, <1>5, <1>6, <1>7

-----------------------------------------------------------------------------
(***************************************************************************)
(* The steps of the broker and of the connection.                          *)
(***************************************************************************)

\* A channel that closes answers what was pending on it, and acknowledges nothing.
LEMMA CloseChannelStep ==
    ASSUME SenderInv, NEW ch \in Chans, CloseChannel(ch), UNCHANGED <<sender, taken, routed>>
    PROVE  Restores /\ SameMessages
<1> DEFINE conf(c) == [i \in DOMAIN call[c].conf |-> IF call[c].conf[i] = "pending" THEN "nack"
                                                     ELSE call[c].conf[i]]
<1>0. /\ chan \in [Chans -> ChanSet] /\ call \in [Callers -> CallSet]
      /\ \A x \in Chans : chan[x].handshake = "enabled" => chan[x].confirming
  BY SenderTypes
<1>1. /\ chan' = [chan EXCEPT ![ch].state = "closed"]
      /\ call' = [c \in Callers |-> IF call[c].ch # ch THEN call[c]
                                    ELSE [call[c] EXCEPT !.conf = conf(c)]]
      /\ orphans' = {o \in orphans : o[1] # ch}
  BY DEF CloseChannel
<1>2. chan' \in [Chans -> ChanSet]
  BY <1>0, <1>1 DEF ChanSet
<1>3. ASSUME NEW x \in Chans
      PROVE  /\ chan'[x].handshake = chan[x].handshake /\ chan'[x].lock = chan[x].lock
             /\ chan'[x].confirming = chan[x].confirming
             /\ chan'[x].returns = chan[x].returns /\ chan[x].returns \in Nat
  BY <1>0, <1>1 DEF ChanSet
<1>4. \A n \in Nat : n >= n
  OBVIOUS
<1>5. ASSUME NEW c \in Callers PROVE Keeps(c, chan, chan')
  BY <1>3, <1>4, Zenon DEF Keeps
<1>6. ASSUME NEW c \in Callers
      PROVE  /\ call'[c] \in CallSet /\ call'[c].msgs = call[c].msgs
             /\ Sound(sender', c, call'[c], chan', taken', routed')
  <2> DEFINE k == call[c]
  <2>0. k \in CallSet /\ Sound(sender, c, k, chan, taken, routed)
    BY SenderTypes
  <2>1. Sound(sender, c, k, chan', taken, routed)
    BY <1>0, <1>2, <1>5, <2>0, Framed
  <2>2. CASE k.ch # ch
    BY <1>1, <2>0, <2>1, <2>2
  <2>3. ASSUME k.ch = ch
        PROVE  /\ call'[c] \in CallSet /\ call'[c].msgs = call[c].msgs
               /\ Sound(sender', c, call'[c], chan', taken', routed')
    <3> DEFINE j == [k EXCEPT !.conf = conf(c)]
    <3>1. call'[c] = j
      BY <1>1, <2>3
    <3>2. k.conf \in Seq({"pending", "ack", "nack"})
      BY <2>0 DEF CallSet
    <3>3. /\ conf(c) \in Seq({"pending", "ack", "nack"}) /\ Len(conf(c)) = Len(k.conf)
          /\ DOMAIN conf(c) = DOMAIN k.conf
          /\ \A i \in DOMAIN k.conf : conf(c)[i] = "ack" => k.conf[i] = "ack"
      <4>1. DOMAIN k.conf = 1..Len(k.conf) /\ Len(k.conf) \in Nat
            /\ \A i \in 1..Len(k.conf) : k.conf[i] \in {"pending", "ack", "nack"}
        BY <3>2
      <4>2. conf(c) \in [1..Len(k.conf) -> {"pending", "ack", "nack"}]
        BY <4>1
      <4>3. \A i \in DOMAIN k.conf : conf(c)[i] = "ack" => k.conf[i] = "ack"
        BY <4>1
      <4>4. DOMAIN conf(c) = DOMAIN k.conf
        OBVIOUS
      <4> HIDE DEF conf
      <4>5. conf(c) \in Seq({"pending", "ack", "nack"}) /\ Len(conf(c)) = Len(k.conf)
        BY <4>1, <4>2
      <4> QED
        BY <4>3, <4>4, <4>5
    <3> HIDE DEF conf
    <3>4. j \in CallSet
      BY <2>0, <3>3 DEF CallSet
    <3>5. /\ j.pc = k.pc /\ j.msgs = k.msgs /\ j.base = k.base /\ j.window = k.window
          /\ j.ch = k.ch /\ j.acked = k.acked /\ j.conf = conf(c) /\ j.pubErr = k.pubErr
      BY <2>0 DEF CallSet
    <3> HIDE DEF j
    <3>6. Shaped(sender, k) /\ Backed(sender, k, taken, routed)
          /\ Answered(sender, k, chan', taken, routed) /\ Prepares(sender, c, k, chan')
      BY <2>1 DEF Sound
    <3>7. Shaped(sender, j)
      <4>1. k.conf = <<>> => j.conf = <<>>
        BY <3>3, <3>5
      <4>2. Len(j.conf) = Len(k.conf)
        BY <3>3, <3>5
      <4> QED
        BY <3>5, <3>6, <4>1, <4>2 DEF Shaped
    <3>8. Backed(sender, j, taken, routed) /\ Prepares(sender, c, j, chan')
      BY <3>5, <3>6 DEF Backed, Prepares
    <3>9. Answered(sender, j, chan', taken, routed)
      BY <3>3, <3>5, <3>6 DEF Answered
    <3>10. Sound(sender, c, j, chan', taken, routed)
      BY <3>7, <3>8, <3>9 DEF Sound
    <3> QED
      BY <3>1, <3>4, <3>5, <3>10
  <2> QED
    BY <2>2, <2>3
<1>7. call' \in [Callers -> CallSet]
  <2>1. call' = [c \in Callers |-> call'[c]]
    BY <1>1
  <2> QED
    BY <1>6, <2>1
<1>8. \A o \in orphans' : o \in Chans \X Messages
  BY <1>1, SenderTypes
<1>9. \A x \in Chans : chan'[x].handshake = "enabled" => chan'[x].confirming
  BY <1>0, <1>3
<1> QED
  BY <1>2, <1>6, <1>7, <1>8, <1>9 DEF Restores, SameMessages

\* The broker takes a message: no caller loses what it relies on.
LEMMA TakeFrame ==
    ASSUME SenderInv, NEW ch \in Chans, NEW m \in Messages, Take(ch, m), UNCHANGED sender
    PROVE  /\ chan' \in [Chans -> ChanSet]
           /\ \A x \in Chans : chan'[x].handshake = "enabled" => chan'[x].confirming
           /\ \A d \in Callers : Keeps(d, chan, chan')
           /\ m \in taken' /\ taken \subseteq taken' /\ routed \subseteq routed'
           /\ taken' \subseteq Messages /\ routed' \subseteq taken'
           /\ sender.fate[m] = "good" => m \in routed'
           /\ sender.mandatory /\ sender.fate[m] = "unroutable" => chan'[ch].returns > 0
<1> DEFINE ret == IF sender.mandatory /\ sender.fate[m] = "unroutable" THEN 1
                  ELSE chan[ch].returns
<1>0. /\ chan \in [Chans -> ChanSet] /\ routed \subseteq taken /\ taken \subseteq Messages
      /\ \A x \in Chans : chan[x].handshake = "enabled" => chan[x].confirming
  BY SenderTypes
<1>1. chan' = [chan EXCEPT ![ch].returns = ret]
  BY DEF Take
<1>2. /\ taken' = taken \cup {m}
      /\ routed' = IF sender.fate[m] = "good" THEN routed \cup {m} ELSE routed
  BY DEF Take
<1>3. ret \in 0..1 /\ ret >= chan[ch].returns
  BY <1>0 DEF ChanSet
<1>4. sender.mandatory /\ sender.fate[m] = "unroutable" => ret > 0
  OBVIOUS
<1> HIDE DEF ret
<1>5. chan' \in [Chans -> ChanSet]
  BY <1>0, <1>1, <1>3 DEF ChanSet
<1>6. ASSUME NEW x \in Chans
      PROVE  /\ chan'[x].handshake = chan[x].handshake /\ chan'[x].lock = chan[x].lock
             /\ chan'[x].confirming = chan[x].confirming
             /\ chan'[x].returns = IF x = ch THEN ret ELSE chan[x].returns
             /\ chan[x].returns \in Nat
  BY <1>0, <1>1, <1>3 DEF ChanSet
<1>7. ASSUME NEW x \in Chans PROVE chan'[x].returns >= chan[x].returns
  <2>1. \A n \in Nat : n >= n
    OBVIOUS
  <2> QED
    BY <1>3, <1>6, <2>1, Zenon
<1>8. ASSUME NEW d \in Callers PROVE Keeps(d, chan, chan')
  BY <1>6, <1>7, Zenon DEF Keeps
<1>9. \A x \in Chans : chan'[x].handshake = "enabled" => chan'[x].confirming
  BY <1>0, <1>6
<1>10. sender.mandatory /\ sender.fate[m] = "unroutable" => chan'[ch].returns > 0
  BY <1>4, <1>6
<1>11. /\ m \in taken' /\ taken \subseteq taken' /\ routed \subseteq routed'
       /\ taken' \subseteq Messages /\ routed' \subseteq taken'
       /\ sender.fate[m] = "good" => m \in routed'
  BY <1>0, <1>2
<1> QED
  BY <1>5, <1>8, <1>9, <1>10, <1>11

\* A confirm is resolved: an acknowledged message was taken, and its return came first.
LEMMA ConfirmStep ==
    ASSUME SenderInv, NEW c \in Callers, NEW i \in DOMAIN call[c].conf, Confirm(c, i)
    PROVE  /\ Restores /\ SameMessages /\ known' = known
           /\ routed' \subseteq taken' /\ taken' \subseteq Messages /\ taken \subseteq taken'
<1> DEFINE k == call[c]
           m == k.msgs[k.base + i]
<1>0. /\ k \in CallSet /\ call \in [Callers -> CallSet] /\ chan \in [Chans -> ChanSet]
      /\ Shaped(sender, k) /\ sender \in SenderCases
      /\ Sound(sender, c, k, chan, taken, routed)
      /\ routed \subseteq taken /\ taken \subseteq Messages
      /\ \A x \in Chans : chan[x].handshake = "enabled" => chan[x].confirming
  BY SenderTypes
<1>1. k.conf \in Seq({"pending", "ack", "nack"}) /\ DOMAIN k.conf = 1..Len(k.conf)
      /\ Len(k.conf) \in Nat /\ i \in 1..Len(k.conf) /\ k.conf # <<>>
  BY <1>0 DEF CallSet
<1>2. i \in 1..k.window /\ k.ch \in Chans /\ k.pc \in {"publish", "collect"}
  BY <1>0, <1>1 DEF Shaped, CallSet
<1>3. m \in Messages /\ sender.fate[m] # "bad"
  <2>1. m \in Messages
    BY <1>0, <1>2, CommandMessage
  <2> QED
    BY <1>0, <1>2, <2>1 DEF Shaped
<1>4. UNCHANGED <<sender, known>>
  BY DEF Confirm
<1>5. \/ /\ sender.fate[m] # "noExchange" /\ Take(k.ch, m)
         /\ call' = [call EXCEPT ![c].conf[i] = "ack"] /\ UNCHANGED orphans
      \/ /\ call' = [call EXCEPT ![c].conf[i] = "nack"]
         /\ UNCHANGED <<chan, orphans, taken, routed>>
      \/ CloseChannel(k.ch) /\ UNCHANGED <<taken, routed>>
  BY DEF Confirm, Message
\* The answer a to the publish, given that what it says is true.
<1>6. ASSUME NEW a \in {"ack", "nack"}, call' = [call EXCEPT ![c].conf[i] = a], UNCHANGED orphans,
             chan' \in [Chans -> ChanSet], \A d \in Callers : Keeps(d, chan, chan'),
             \A x \in Chans : chan'[x].handshake = "enabled" => chan'[x].confirming,
             taken \subseteq taken', routed \subseteq routed',
             a = "ack" => /\ m \in taken'
                          /\ sender.mandatory /\ m \notin routed' => chan'[k.ch].returns > 0
      PROVE  Restores /\ SameMessages
  <2> DEFINE conf == [k.conf EXCEPT ![i] = a]
             j == [k EXCEPT !.conf = conf]
  <2>1. call' = [call EXCEPT ![c] = j]
    BY <1>0, <1>6
  <2>2. /\ conf \in Seq({"pending", "ack", "nack"}) /\ Len(conf) = Len(k.conf)
        /\ DOMAIN conf = DOMAIN k.conf /\ conf[i] = a
        /\ \A x \in DOMAIN k.conf \ {i} : conf[x] = k.conf[x]
    BY <1>1
  <2> HIDE DEF conf
  <2>3. j \in CallSet
    BY <1>0, <2>2 DEF CallSet
  <2>4. /\ j.pc = k.pc /\ j.msgs = k.msgs /\ j.base = k.base /\ j.window = k.window
        /\ j.ch = k.ch /\ j.acked = k.acked /\ j.conf = conf /\ j.pubErr = k.pubErr
    BY <1>0 DEF CallSet
  <2> HIDE DEF j
  <2>5. Sound(sender, c, k, chan', taken', routed')
    BY <1>0, <1>6, Framed
  <2>6. Shaped(sender, k) /\ Backed(sender, k, taken', routed')
        /\ Answered(sender, k, chan', taken', routed') /\ Prepares(sender, c, k, chan')
    BY <2>5 DEF Sound
  <2>7. Shaped(sender, j)
    BY <1>2, <2>2, <2>4, <2>6 DEF Shaped
  <2>8. Backed(sender, j, taken', routed') /\ Prepares(sender, c, j, chan')
    BY <2>4, <2>6 DEF Backed, Prepares
  <2>9. Answered(sender, j, chan', taken', routed')
    <3>1. ASSUME NEW x \in DOMAIN j.conf, j.conf[x] = "ack"
          PROVE  /\ j.msgs[j.base + x] \in taken'
                 /\ sender.mandatory /\ j.msgs[j.base + x] \notin routed'
                      => chan'[j.ch].returns > 0
      <4>1. CASE x = i
        BY <1>6, <2>2, <2>4, <3>1, <4>1
      <4>2. CASE x # i
        <5>1. x \in DOMAIN k.conf /\ k.conf[x] = "ack"
          BY <2>2, <2>4, <3>1, <4>2
        <5> QED
          BY <2>4, <2>6, <5>1 DEF Answered
      <4> QED
        BY <4>1, <4>2
    <3> QED
      BY <3>1 DEF Answered
  <2>10. Sound(sender, c, j, chan', taken', routed')
    BY <2>7, <2>8, <2>9 DEF Sound
  <2>11. /\ call' \in [Callers -> CallSet]
         /\ \A d \in Callers : Sound(sender', d, call'[d], chan', taken', routed')
         /\ SameMessages
    BY <1>4, <1>6, <2>1, <2>3, <2>4, <2>10, OneCaller
  <2> QED
    BY <1>4, <1>6, <2>11, SenderTypes DEF Restores
<1>7. ASSUME sender.fate[m] # "noExchange", Take(k.ch, m), UNCHANGED orphans,
             call' = [call EXCEPT ![c].conf[i] = "ack"]
      PROVE  /\ Restores /\ SameMessages
             /\ routed' \subseteq taken' /\ taken' \subseteq Messages /\ taken \subseteq taken'
  <2>1. sender.fate[m] \in {"good", "unroutable"}
    BY <1>0, <1>3, <1>7, SenderFacts DEF Fates
  <2> HIDE DEF m
  <2>2. /\ chan' \in [Chans -> ChanSet]
        /\ \A x \in Chans : chan'[x].handshake = "enabled" => chan'[x].confirming
        /\ \A d \in Callers : Keeps(d, chan, chan')
        /\ m \in taken' /\ taken \subseteq taken' /\ routed \subseteq routed'
        /\ taken' \subseteq Messages /\ routed' \subseteq taken'
        /\ sender.fate[m] = "good" => m \in routed'
        /\ sender.mandatory /\ sender.fate[m] = "unroutable" => chan'[k.ch].returns > 0
    BY <1>2, <1>3, <1>4, <1>7, TakeFrame
  <2>3. sender.mandatory /\ m \notin routed' => chan'[k.ch].returns > 0
    BY <2>1, <2>2
  <2>4. Restores /\ SameMessages
    BY <1>6, <1>7, <2>2, <2>3
  <2> QED
    BY <2>2, <2>4
<1>8. ASSUME call' = [call EXCEPT ![c].conf[i] = "nack"],
             UNCHANGED <<chan, orphans, taken, routed>>
      PROVE  Restores /\ SameMessages
  <2>1. \A d \in Callers : Keeps(d, chan, chan')
    BY <1>0, <1>8 DEF Keeps, ChanSet
  <2> HIDE DEF m
  <2> QED
    BY <1>0, <1>6, <1>8, <2>1
<1>9. ASSUME CloseChannel(k.ch), UNCHANGED <<taken, routed>>
      PROVE  Restores /\ SameMessages
  BY <1>2, <1>4, <1>9, CloseChannelStep
<1> HIDE DEF m
<1> QED
  BY <1>0, <1>4, <1>5, <1>7, <1>8, <1>9

\* The broker gets to a publish nobody waits for.
LEMMA ConfirmOrphanStep ==
    ASSUME SenderInv, NEW o \in orphans, ConfirmOrphan(o)
    PROVE  /\ Restores /\ SameMessages
           /\ routed' \subseteq taken' /\ taken' \subseteq Messages /\ taken \subseteq taken'
<1>0. /\ o[1] \in Chans /\ o[2] \in Messages /\ chan \in [Chans -> ChanSet]
      /\ call \in [Callers -> CallSet] /\ routed \subseteq taken /\ taken \subseteq Messages
      /\ \A x \in orphans : x \in Chans \X Messages
      /\ \A d \in Callers : Sound(sender, d, call[d], chan, taken, routed)
  BY SenderTypes
<1>1. /\ UNCHANGED sender
      /\ \/ CloseChannel(o[1]) /\ UNCHANGED <<taken, routed>>
         \/ Take(o[1], o[2]) /\ orphans' = orphans \ {o} /\ UNCHANGED call
  BY DEF ConfirmOrphan
<1>2. ASSUME CloseChannel(o[1]), UNCHANGED <<taken, routed>>
      PROVE  Restores /\ SameMessages
  BY <1>0, <1>1, <1>2, CloseChannelStep
<1>3. ASSUME Take(o[1], o[2]), orphans' = orphans \ {o}, UNCHANGED call
      PROVE  /\ Restores /\ SameMessages
             /\ routed' \subseteq taken' /\ taken' \subseteq Messages /\ taken \subseteq taken'
  <2>1. /\ chan' \in [Chans -> ChanSet]
        /\ \A x \in Chans : chan'[x].handshake = "enabled" => chan'[x].confirming
        /\ \A d \in Callers : Keeps(d, chan, chan')
        /\ taken \subseteq taken' /\ routed \subseteq routed'
        /\ taken' \subseteq Messages /\ routed' \subseteq taken'
    BY <1>0, <1>1, <1>3, TakeFrame
  <2>2. ASSUME NEW d \in Callers PROVE Sound(sender', d, call'[d], chan', taken', routed')
    <3>1. Sound(sender, d, call[d], chan', taken', routed')
      BY <1>0, <2>1, Framed
    <3> QED
      BY <1>1, <1>3, <3>1
  <2>3. Restores
    BY <1>0, <1>1, <1>3, <2>1, <2>2 DEF Restores
  <2> QED
    BY <1>3, <2>1, <2>3 DEF SameMessages
<1> QED
  BY <1>0, <1>1, <1>2, <1>3

\* The confirm.select goroutine ends: an enabled handshake puts its channel in confirm mode.
LEMMA HandshakeEndsStep ==
    ASSUME SenderInv, NEW ch \in Chans, HandshakeEnds(ch)
    PROVE  Restores /\ SameMessages
<1>0. /\ chan \in [Chans -> ChanSet] /\ call \in [Callers -> CallSet]
      /\ \A x \in Chans : chan[x].handshake = "enabled" => chan[x].confirming
      /\ \A x \in orphans : x \in Chans \X Messages
      /\ \A d \in Callers : Sound(sender, d, call[d], chan, taken, routed)
  BY SenderTypes
<1>1. /\ \/ chan' = [chan EXCEPT ![ch].handshake = "enabled", ![ch].confirming = TRUE]
         \/ chan' = [chan EXCEPT ![ch].handshake = "refused"]
      /\ UNCHANGED <<sender, call, orphans, taken, routed>>
  BY DEF HandshakeEnds
<1>2. chan' \in [Chans -> ChanSet]
  BY <1>0, <1>1 DEF ChanSet
<1>3. ASSUME NEW x \in Chans
      PROVE  /\ chan'[x].lock = chan[x].lock /\ (chan[x].confirming => chan'[x].confirming)
             /\ chan'[x].handshake = "enabled" => chan'[x].confirming
             /\ chan'[x].returns = chan[x].returns /\ chan[x].returns \in Nat
  <2>1. CASE chan' = [chan EXCEPT ![ch].handshake = "enabled", ![ch].confirming = TRUE]
    BY <1>0, <2>1 DEF ChanSet
  <2>2. CASE chan' = [chan EXCEPT ![ch].handshake = "refused"]
    BY <1>0, <2>2 DEF ChanSet
  <2> QED
    BY <1>1, <2>1, <2>2
<1>4. \A n \in Nat : n >= n
  OBVIOUS
<1>5. ASSUME NEW d \in Callers PROVE Keeps(d, chan, chan')
  BY <1>3, <1>4, Zenon DEF Keeps
<1>6. ASSUME NEW d \in Callers PROVE Sound(sender', d, call'[d], chan', taken', routed')
  <2>1. Sound(sender, d, call[d], chan', taken, routed)
    BY <1>0, <1>2, <1>5, Framed
  <2> QED
    BY <1>1, <2>1
<1> QED
  BY <1>0, <1>1, <1>2, <1>3, <1>6 DEF Restores, SameMessages

-----------------------------------------------------------------------------
(***************************************************************************)
(* The sender as a whole.                                                  *)
(***************************************************************************)

\* The invariant holds of a sender nobody has called.
LEMMA SenderInvInit == SenderInit => SenderInv
<1> SUFFICES ASSUME SenderInit
             PROVE  SenderInv
  OBVIOUS
<1>0. /\ sender \in SenderCases /\ SetupAccepts(sender)
      /\ chan = [ch \in Chans |-> FreshChan] /\ call = [c \in Callers |-> IdleCall]
      /\ known = {} /\ orphans = {} /\ taken = {} /\ routed = {} /\ troubles = 0
  BY DEF SenderInit
<1>1. FreshChan \in ChanSet /\ FreshChan.handshake = "none"
  BY DEF FreshChan, ChanSet
<1>2. IdleCall \in CallSet
  <2>1. <<>> \in Seq(Messages) /\ <<>> \in Seq({"pending", "ack", "nack"})
    OBVIOUS
  <2> QED
    BY <1>0, <2>1, SenderFacts DEF IdleCall, CallSet
<1>3. IdleCall.pc = "idle" /\ IdleCall.base = 0 /\ IdleCall.acked = 0 /\ IdleCall.window = 0
      /\ IdleCall.conf = <<>> /\ IdleCall.msgs = <<>>
  BY DEF IdleCall
<1>4. Shaped(sender, IdleCall) /\ Backed(sender, IdleCall, taken, routed)
  BY <1>3 DEF Shaped, Backed
<1>5. ASSUME NEW c \in Callers PROVE Sound(sender, c, IdleCall, chan, taken, routed)
  BY <1>3, <1>4, QuietSound
<1>6. 0 \in 0..MaxTroubles
  BY <1>0, SenderFacts
<1>7. SenderTypeOK
  BY <1>0, <1>1, <1>2, <1>6 DEF SenderTypeOK
<1> QED
  BY <1>0, <1>1, <1>5, <1>7 DEF SenderInv

\* Something goes wrong, within the bound.
LEMMA TroubleBound ==
    ASSUME SenderInv, \/ UNCHANGED troubles
                      \/ \E what \in AllTroubles : Trouble(what)
    PROVE  troubles' \in 0..MaxTroubles
<1>1. troubles \in 0..MaxTroubles /\ MaxTroubles \in Nat
  BY SenderTypes, SenderFacts
<1> QED
  BY <1>1 DEF Trouble

\* Every step of the sender keeps its invariant, and what each call is about.
LEMMA SenderStep ==
    ASSUME SenderInv, SenderNext
    PROVE  SenderInv' /\ SameMessages /\ sender' = sender /\ taken \subseteq taken'
<1>0. known \subseteq Chans /\ routed \subseteq taken /\ taken \subseteq Messages
  BY SenderTypes
<1>1. ASSUME Restores, SameMessages, known' \subseteq Chans, routed' \subseteq taken',
             taken' \subseteq Messages, taken \subseteq taken', troubles' \in 0..MaxTroubles
      PROVE  SenderInv' /\ SameMessages /\ sender' = sender /\ taken \subseteq taken'
  BY <1>1, Restored DEF Restores
<1>2. ASSUME NEW c \in Callers, CallerStep(c)
      PROVE  SenderInv' /\ SameMessages /\ sender' = sender /\ taken \subseteq taken'
  <2>1. CASE Acquire(c)
    <3>1. UNCHANGED <<known, taken, routed, troubles>>
      BY <2>1 DEF Acquire
    <3> QED
      BY <1>0, <1>1, <2>1, <3>1, AcquireStep, TroubleBound
  <2>2. CASE AcquireFails(c)
    <3>1. UNCHANGED <<known, taken, routed>> /\ (UNCHANGED troubles \/ Trouble("pool"))
      BY <2>2 DEF AcquireFails
    <3>2. troubles' \in 0..MaxTroubles
      BY <3>1, TroubleBound DEF AllTroubles
    <3> QED
      BY <1>0, <1>1, <2>2, <3>1, <3>2, AcquireFailsStep
  <2>3. CASE Enable(c)
    <3>1. UNCHANGED <<taken, routed, troubles>>
      BY <2>3 DEF Enable
    <3> QED
      BY <1>0, <1>1, <2>3, <3>1, EnableStep, TroubleBound
  <2>4. CASE AwaitHandshake(c)
    <3>1. UNCHANGED <<known, taken, routed, troubles>>
      BY <2>4 DEF AwaitHandshake
    <3> QED
      BY <1>0, <1>1, <2>4, <3>1, AwaitHandshakeStep, TroubleBound
  <2>5. CASE Lock(c)
    <3>1. UNCHANGED <<known, taken, routed, troubles>>
      BY <2>5 DEF Lock
    <3> QED
      BY <1>0, <1>1, <2>5, <3>1, LockStep, TroubleBound
  <2>6. CASE PublishUnconfirmed(c)
    <3>1. UNCHANGED <<known, taken, routed, troubles>>
      BY <2>6 DEF PublishUnconfirmed
    <3> QED
      BY <1>0, <1>1, <2>6, <3>1, PublishUnconfirmedStep, TroubleBound
  <2>7. CASE Publish(c)
    <3>1. UNCHANGED <<known, taken, routed, troubles>>
      BY <2>7 DEF Publish
    <3> QED
      BY <1>0, <1>1, <2>7, <3>1, PublishStep, TroubleBound
  <2>8. CASE Collect(c)
    <3>1. UNCHANGED <<known, taken, routed, troubles>>
      BY <2>8 DEF Collect
    <3> QED
      BY <1>0, <1>1, <2>8, <3>1, CollectStep, TroubleBound
  <2> QED
    BY <1>2, <2>1, <2>2, <2>3, <2>4, <2>5, <2>6, <2>7, <2>8 DEF CallerStep
<1>3. ASSUME NEW c \in Callers, Expire(c)
      PROVE  SenderInv' /\ SameMessages /\ sender' = sender /\ taken \subseteq taken'
  <2>1. /\ call' = [call EXCEPT ![c].expired = TRUE]
        /\ UNCHANGED <<sender, chan, known, orphans, taken, routed, troubles>>
    BY <1>3 DEF Expire
  <2>2. Restores /\ SameMessages
    BY <2>1, ExpireCall
  <2> QED
    BY <1>0, <1>1, <2>1, <2>2, TroubleBound
<1>4. ASSUME NEW c \in Callers, NEW i \in DOMAIN call[c].conf, Confirm(c, i)
      PROVE  SenderInv' /\ SameMessages /\ sender' = sender /\ taken \subseteq taken'
  <2>1. UNCHANGED troubles \/ Trouble("nack")
    BY <1>4 DEF Confirm
  <2>2. troubles' \in 0..MaxTroubles
    BY <2>1, TroubleBound DEF AllTroubles
  <2>3. /\ Restores /\ SameMessages /\ known' = known
        /\ routed' \subseteq taken' /\ taken' \subseteq Messages /\ taken \subseteq taken'
    BY <1>4, ConfirmStep
  <2> QED
    BY <1>0, <1>1, <2>2, <2>3
<1>5. ASSUME NEW ch \in Chans, HandshakeEnds(ch)
      PROVE  SenderInv' /\ SameMessages /\ sender' = sender /\ taken \subseteq taken'
  <2>1. UNCHANGED <<known, taken, routed>> /\ (UNCHANGED troubles \/ Trouble("refuse"))
    BY <1>5 DEF HandshakeEnds
  <2>2. troubles' \in 0..MaxTroubles
    BY <2>1, TroubleBound DEF AllTroubles
  <2> QED
    BY <1>0, <1>1, <1>5, <2>1, <2>2, HandshakeEndsStep
<1>6. ASSUME NEW ch \in Chans, ChannelLost(ch)
      PROVE  SenderInv' /\ SameMessages /\ sender' = sender /\ taken \subseteq taken'
  <2>1. /\ UNCHANGED <<sender, known, taken, routed>> /\ Trouble("channel") /\ CloseChannel(ch)
    BY <1>6 DEF ChannelLost
  <2>2. troubles' \in 0..MaxTroubles
    BY <2>1, TroubleBound DEF AllTroubles
  <2>3. Restores /\ SameMessages
    BY <2>1, CloseChannelStep
  <2> QED
    BY <1>0, <1>1, <2>1, <2>2, <2>3
<1>7. ASSUME NEW o \in orphans, ConfirmOrphan(o)
      PROVE  SenderInv' /\ SameMessages /\ sender' = sender /\ taken \subseteq taken'
  <2>1. UNCHANGED <<known, troubles>>
    BY <1>7 DEF ConfirmOrphan
  <2>2. /\ Restores /\ SameMessages
        /\ routed' \subseteq taken' /\ taken' \subseteq Messages /\ taken \subseteq taken'
    BY <1>7, ConfirmOrphanStep
  <2> QED
    BY <1>0, <1>1, <2>1, <2>2, TroubleBound
<1> QED
  BY <1>2, <1>3, <1>4, <1>5, <1>6, <1>7 DEF SenderNext

\* What the invariant says of an answer and of a caller that waits for a confirm.
LEMMA SenderPromises == SenderInv => ConfirmedPrefix /\ ConfirmMode
<1> SUFFICES ASSUME SenderInv
             PROVE  ConfirmedPrefix /\ ConfirmMode
  OBVIOUS
<1>1. ASSUME NEW c \in Callers
      PROVE  Backed(sender, call[c], taken, routed) /\ Prepares(sender, c, call[c], chan)
  BY SenderTypes
<1>2. ConfirmedPrefix
  BY <1>1 DEF ConfirmedPrefix, Delivered, Backed
<1>3. ConfirmMode
  BY <1>1 DEF ConfirmMode, Prepares
<1> QED
  BY <1>2, <1>3
=============================================================================
