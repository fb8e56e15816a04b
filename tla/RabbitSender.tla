---------------------------- MODULE RabbitSender ----------------------------
(***************************************************************************)
(* rabbitmq.Sender with the channel bookkeeping of internal/publish:       *)
(* callers publish runs of messages through pooled channels and wait for   *)
(* publisher confirms under a deadline of their own.                       *)
(*                                                                         *)
(*   prepare, acquire -> enable -> (lock) -> publish* -> collect* ->       *)
(*   an answer (n, err)                                                    *)
(*                                                                         *)
(* Send is a run of one.  SendBatch with confirms pipelines the prefix it  *)
(* can prepare; without confirms, or with mandatory publishing, it sends   *)
(* one message at a time.  amqpx, amqp091 and the broker are external.     *)
(***************************************************************************)
EXTENDS Integers, FiniteSets, Sequences, SequencesExt

CONSTANTS
    Messages,
    Callers,
    Chans,          \* channels the pool ever opens
    None,           \* no channel, no caller
    SenderCases,    \* the sender options, the messages' fates and the troubles to check
    MaxTroubles,    \* bound: things that go wrong
    MaxAttempts     \* bound: times amqpx runs a command

(***************************************************************************)
(* A message can be published and routed; or cannot be marshaled or has no *)
(* service and event in its type; or no queue is bound for it; or its      *)
(* exchange does not exist, which the broker answers by closing the        *)
(* channel.                                                                *)
(***************************************************************************)
Fates == {"good", "bad", "unroutable", "noExchange"}
AllTroubles == {"channel", "pool", "refuse", "nack", "park", "cancel"}
ASSUME RabbitSenderAssumption ==
    /\ None \notin Callers \cup Chans
    /\ \A s \in SenderCases : /\ s.confirms \in BOOLEAN
                              /\ s.mandatory \in BOOLEAN
                              /\ s.fate \in [Messages -> Fates]
                              /\ s.troubles \subseteq AllTroubles
    /\ MaxTroubles \in Nat /\ MaxAttempts \in Nat \ {0}

VARIABLES
    sender,     \* the sender's options, the fate of each message, what may go wrong
    chan,       \* per channel: its state, and the Confirms entry for it
    known,      \* channels with an entry in Confirms.state
    call,       \* per caller: the command it runs, or its answer
    orphans,    \* publishes abandoned while their confirm was pending
    taken,      \* messages the broker has acknowledged
    routed,     \* messages the broker has put into a queue
    troubles    \* how many things went wrong

senderVars == <<sender, chan, known, call, orphans, taken, routed, troubles>>

FreshChan == [state |-> "fresh", confirming |-> FALSE, handshake |-> "none",
              returns |-> 0, lock |-> None]
IdleCall == [pc |-> "idle", msgs |-> <<>>, base |-> 0, window |-> 0, attempt |-> 0,
             ch |-> None, conf |-> <<>>, acked |-> 0, pubErr |-> FALSE, expired |-> FALSE,
             err |-> "none"]

\* Something goes wrong, within the bound.
Trouble(what) ==
    /\ what \in sender.troubles
    /\ troubles < MaxTroubles
    /\ troubles' = troubles + 1

\* Setup rejects mandatory publishing without confirms.
SetupAccepts(s) == s.mandatory => s.confirms

SenderInit ==
    /\ sender \in {s \in SenderCases : SetupAccepts(s)}
    /\ chan = [ch \in Chans |-> FreshChan]
    /\ known = {}
    /\ call = [c \in Callers |-> IdleCall]
    /\ orphans = {}
    /\ taken = {}
    /\ routed = {}
    /\ troubles = 0

Step(c, pc) == call' = [call EXCEPT ![c].pc = pc]
Expired(c) == call[c].expired
Closed(ch) == chan[ch].state = "closed"
Pipelined == sender.confirms /\ ~sender.mandatory
-----------------------------------------------------------------------------
(***************************************************************************)
(* Send, SendBatch and sendSerial.                                         *)
(***************************************************************************)

\* How many messages from the k-th on are marshaled and routed for one command.
Prepared(msgs, k) ==
    LET bad == SelectInSubSeq(msgs, k, Len(msgs), LAMBDA m : sender.fate[m] = "bad")
        upTo == IF bad = 0 THEN Len(msgs) ELSE bad - 1
    IN  IF Pipelined \/ upTo < k THEN upTo - k + 1 ELSE 1

(***************************************************************************)
(* The next command of a call, once base messages are sent: it answers     *)
(* when none is left, or with the failure of one that cannot be prepared.  *)
(***************************************************************************)
NextCommand(msgs, base, expired) ==
    LET n == Prepared(msgs, base + 1)
        next == [IdleCall EXCEPT !.msgs = msgs, !.base = base]
    IN  CASE base = Len(msgs) -> [next EXCEPT !.pc = "returned"]
          [] base < Len(msgs) /\ n = 0 -> [next EXCEPT !.pc = "returned", !.err = "unsendable"]
          [] base < Len(msgs) /\ n > 0 ->
               [next EXCEPT !.pc = "acquire", !.window = n, !.attempt = 1, !.expired = expired]

SendBatch(c, msgs) ==
    /\ call[c].pc = "idle"
    /\ call' = [call EXCEPT ![c] = NextCommand(msgs, 0, FALSE)]
    /\ UNCHANGED <<sender, chan, known, orphans, taken, routed, troubles>>

\* The caller's deadline passes.
Expire(c) ==
    /\ call[c].pc \notin {"idle", "returned"} /\ ~Expired(c)
    /\ call' = [call EXCEPT ![c].expired = TRUE]
    /\ UNCHANGED <<sender, chan, known, orphans, taken, routed, troubles>>
-----------------------------------------------------------------------------
(***************************************************************************)
(* amqpx.Client.Process: it borrows a channel and runs the command, and    *)
(* may run it again on another channel when the first one is gone.         *)
(***************************************************************************)

Unanswered(c) == {i \in DOMAIN call[c].conf : call[c].conf[i] = "pending"}
Message(c, i) == call[c].msgs[call[c].base + i]

\* The command fails: its lock is released and what is pending is abandoned.
Fail(c, err) ==
    /\ orphans' = orphans \cup {<<call[c].ch, Message(c, i)>> : i \in Unanswered(c)}
    /\ chan' = [ch \in Chans |-> IF chan[ch].lock = c THEN [chan[ch] EXCEPT !.lock = None]
                                 ELSE chan[ch]]
    /\ \/ call' = [call EXCEPT ![c] = [IdleCall EXCEPT !.pc = "returned", !.msgs = call[c].msgs,
                                          !.base = call[c].base, !.acked = call[c].acked,
                                          !.err = err]]
       \/ /\ call[c].ch # None /\ Closed(call[c].ch) /\ ~Expired(c)
          /\ call[c].attempt < MaxAttempts
          /\ call' = [call EXCEPT ![c].pc = "acquire", ![c].attempt = @ + 1, ![c].conf = <<>>]

\* Any channel in use may be lent again, or a new one is opened.
Lent(ch) ==
    \/ chan[ch].state = "open"
    \/ ch = CHOOSE x \in Chans : chan[x].state = "fresh"

\* The command starts from nothing on every attempt, and not on a dead context.
Acquire(c) ==
    /\ call[c].pc = "acquire" /\ ~Expired(c)
    /\ \E ch \in {x \in Chans : ~Closed(x) /\ Lent(x)} :
          /\ chan' = [chan EXCEPT ![ch].state = "open"]
          /\ call' = [call EXCEPT ![c].pc = IF sender.confirms THEN "enable" ELSE "publish",
                                  ![c].ch = ch, ![c].acked = 0, ![c].conf = <<>>,
                                  ![c].pubErr = FALSE]
    /\ UNCHANGED <<sender, known, orphans, taken, routed, troubles>>

\* The pool has nothing to lend, or the command finds the context dead.
AcquireFails(c) ==
    /\ call[c].pc = "acquire"
    /\ \/ Expired(c) /\ UNCHANGED troubles
       \/ ~Expired(c) /\ (\A ch \in Chans : Closed(ch)) /\ UNCHANGED troubles
       \/ ~Expired(c) /\ (\E ch \in Chans : ~Closed(ch)) /\ Trouble("pool")
    /\ call' = [call EXCEPT ![c] = [IdleCall EXCEPT !.pc = "returned", !.msgs = call[c].msgs,
                                      !.base = call[c].base, !.acked = call[c].acked,
                                      !.err = "failed"]]
    /\ UNCHANGED <<sender, chan, known, orphans, taken, routed>>
-----------------------------------------------------------------------------
(***************************************************************************)
(* Confirms.Enable and Watch.Lock.                                         *)
(***************************************************************************)

Locked == IF sender.mandatory THEN "lock" ELSE "publish"

\* stateFor: on a miss the closed channels are forgotten.
StateFor(ch) ==
    known' = IF ch \in known THEN known ELSE {x \in known : ~Closed(x)} \cup {ch}

Enable(c) ==
    LET ch == call[c].ch
        hs == IF ch \in known THEN chan[ch].handshake ELSE "none"
    IN  /\ call[c].pc = "enable"
        /\ StateFor(ch)
        /\ \/ hs = "enabled" /\ Step(c, Locked) /\ UNCHANGED <<chan, orphans>>
           \/ hs = "refused" /\ Fail(c, "failed")
           \/ /\ hs \in {"none", "inFlight"}
              /\ Step(c, "handshake")
              /\ chan' = [chan EXCEPT ![ch].handshake = "inFlight"]
              /\ UNCHANGED orphans
        /\ UNCHANGED <<sender, taken, routed, troubles>>

\* The confirm.select goroutine of a channel ends; on a dead channel it is refused.
HandshakeEnds(ch) ==
    /\ chan[ch].handshake = "inFlight"
    /\ \/ /\ ~Closed(ch)
          /\ chan' = [chan EXCEPT ![ch].handshake = "enabled", ![ch].confirming = TRUE]
          /\ UNCHANGED troubles
       \/ /\ ~Closed(ch) /\ Trouble("refuse")
          /\ chan' = [chan EXCEPT ![ch].handshake = "refused"]
       \/ /\ Closed(ch)
          /\ chan' = [chan EXCEPT ![ch].handshake = "refused"]
          /\ UNCHANGED troubles
    /\ UNCHANGED <<sender, known, call, orphans, taken, routed>>

\* Mutation of AwaitHandshake: a caller whose deadline passes goes on to publish.
AwaitHandshakeOptimistic(c) ==
    LET hs == chan[call[c].ch].handshake
    IN  /\ call[c].pc = "handshake"
        /\ \/ hs = "enabled" /\ Step(c, Locked) /\ UNCHANGED <<chan, orphans>>
           \/ hs = "refused" /\ Fail(c, "failed")
           \/ Expired(c) /\ Step(c, Locked) /\ UNCHANGED <<chan, orphans>>
        /\ UNCHANGED <<sender, known, taken, routed, troubles>>

\* Mutation of AwaitHandshake: the handshake runs on the caller, which cannot give up.
AwaitHandshakeUnbounded(c) ==
    LET hs == chan[call[c].ch].handshake
    IN  /\ call[c].pc = "handshake"
        /\ \/ hs = "enabled" /\ Step(c, Locked) /\ UNCHANGED <<chan, orphans>>
           \/ hs = "refused" /\ Fail(c, "failed")
        /\ UNCHANGED <<sender, known, taken, routed, troubles>>

\* select: the handshake's end or the caller's deadline, either when both are there.
AwaitHandshake(c) ==
    LET hs == chan[call[c].ch].handshake
    IN  /\ call[c].pc = "handshake"
        /\ \/ hs = "enabled" /\ Step(c, Locked) /\ UNCHANGED <<chan, orphans>>
           \/ hs = "refused" /\ Fail(c, "failed")
           \/ Expired(c) /\ Fail(c, "failed")
        /\ UNCHANGED <<sender, known, taken, routed, troubles>>

\* Watch.Lock waits for the channel, and drains the returns left on it.
Lock(c) ==
    /\ call[c].pc = "lock"
    /\ chan[call[c].ch].lock = None
    /\ chan' = [chan EXCEPT ![call[c].ch].lock = c, ![call[c].ch].returns = 0]
    /\ Step(c, "publish")
    /\ UNCHANGED <<sender, known, orphans, taken, routed, troubles>>
-----------------------------------------------------------------------------
(***************************************************************************)
(* Publishing and collecting the confirms (publishPipelined; Send is the   *)
(* case of one).                                                           *)
(***************************************************************************)

Sent(c) == NextCommand(call[c].msgs, call[c].base + call[c].window, Expired(c))

\* Without confirms a written frame is a sent message.
PublishUnconfirmed(c) ==
    /\ call[c].pc = "publish" /\ ~sender.confirms
    /\ IF Closed(call[c].ch) \/ Expired(c) THEN Fail(c, "failed")
       ELSE call' = [call EXCEPT ![c] = Sent(c)] /\ UNCHANGED <<chan, orphans>>
    /\ UNCHANGED <<sender, known, taken, routed, troubles>>

\* One publish; a failed one ends the loop.
Publish(c) ==
    /\ call[c].pc = "publish" /\ sender.confirms
    /\ IF Closed(call[c].ch) \/ Expired(c)
         THEN call' = [call EXCEPT ![c].pc = "collect", ![c].pubErr = TRUE]
         ELSE call' = [call EXCEPT ![c].conf = Append(@, "pending"),
                                   ![c].pc = IF Len(call[c].conf) + 1 = call[c].window
                                               THEN "collect" ELSE "publish"]
    /\ UNCHANGED <<sender, chan, known, orphans, taken, routed, troubles>>

\* Took: after the confirm, a return on the locked channel is this publish's.
Returned(c) == sender.mandatory /\ chan[call[c].ch].returns > 0

\* Mutation of Collect: a nack is skipped, and a later ack counts toward the prefix.
CollectPastNack(c) ==
    LET next == call[c].acked + 1
        conf == call[c].conf
    IN  /\ call[c].pc = "collect"
        /\ \/ /\ next <= Len(conf) /\ conf[next] \in {"ack", "nack"}
              /\ call' = [call EXCEPT ![c].acked = next]
              /\ UNCHANGED <<chan, orphans>>
           \/ /\ next <= Len(conf)
              /\ Expired(c)
              /\ Fail(c, "failed")
           \/ /\ next > Len(conf)
              /\ IF call[c].pubErr THEN Fail(c, "failed")
                 ELSE call' = [call EXCEPT ![c] = Sent(c)] /\ UNCHANGED <<chan, orphans>>
        /\ UNCHANGED <<sender, known, taken, routed, troubles>>

Collect(c) ==
    LET next == call[c].acked + 1
        conf == call[c].conf
    IN  /\ call[c].pc = "collect"
        /\ \/ /\ next <= Len(conf) /\ conf[next] # "pending" /\ Returned(c)
              /\ Fail(c, "unroutable")
           \/ /\ next <= Len(conf) /\ conf[next] = "ack" /\ ~Returned(c)
              /\ call' = [call EXCEPT ![c].acked = next]
              /\ UNCHANGED <<chan, orphans>>
           \/ /\ next <= Len(conf)
              /\ Expired(c) \/ (conf[next] = "nack" /\ ~Returned(c))
              /\ Fail(c, "failed")
           \/ /\ next > Len(conf) /\ call[c].pubErr
              /\ Fail(c, "failed")
           \/ /\ next > Len(conf) /\ ~call[c].pubErr
              /\ call' = [call EXCEPT ![c] = Sent(c)]
              /\ chan' = [ch \in Chans |-> IF chan[ch].lock = c
                                             THEN [chan[ch] EXCEPT !.lock = None]
                                             ELSE chan[ch]]
              /\ UNCHANGED orphans
        /\ UNCHANGED <<sender, known, taken, routed, troubles>>
-----------------------------------------------------------------------------
(***************************************************************************)
(* The broker.                                                             *)
(***************************************************************************)

\* A channel closes: amqp091 nacks what is pending on it; a buffered return stays readable.
CloseChannel(ch) ==
    /\ chan' = [chan EXCEPT ![ch].state = "closed"]
    /\ call' = [c \in Callers |->
                  IF call[c].ch # ch THEN call[c]
                  ELSE [call[c] EXCEPT !.conf =
                          [i \in DOMAIN @ |-> IF @[i] = "pending" THEN "nack" ELSE @[i]]]]
    /\ orphans' = {o \in orphans : o[1] # ch}

\* The broker takes message m; an unroutable mandatory one is returned on ch first.
Take(ch, m) ==
    /\ taken' = taken \cup {m}
    /\ routed' = IF sender.fate[m] = "good" THEN routed \cup {m} ELSE routed
    /\ chan' = [chan EXCEPT ![ch].returns =
                  IF sender.mandatory /\ sender.fate[m] = "unroutable" THEN 1 ELSE @]

\* Confirms resolve in any order; a missing exchange closes the channel.
Confirm(c, i) ==
    LET ch == call[c].ch
        m == Message(c, i)
    IN  /\ i \in Unanswered(c) /\ ~Closed(ch)
        /\ \/ /\ sender.fate[m] # "noExchange"
              /\ Take(ch, m)
              /\ call' = [call EXCEPT ![c].conf[i] = "ack"]
              /\ UNCHANGED <<orphans, troubles>>
           \/ /\ sender.fate[m] # "noExchange" /\ Trouble("nack")
              /\ call' = [call EXCEPT ![c].conf[i] = "nack"]
              /\ UNCHANGED <<chan, orphans, taken, routed>>
           \/ /\ sender.fate[m] = "noExchange"
              /\ CloseChannel(ch)
              /\ UNCHANGED <<taken, routed, troubles>>
        /\ UNCHANGED <<sender, known>>

\* The broker gets to a publish nobody waits for any more.
ConfirmOrphan(o) ==
    /\ IF sender.fate[o[2]] = "noExchange"
         THEN CloseChannel(o[1]) /\ UNCHANGED <<taken, routed>>
         ELSE Take(o[1], o[2]) /\ orphans' = orphans \ {o} /\ UNCHANGED call
    /\ UNCHANGED <<sender, known, troubles>>

ChannelLost(ch) ==
    /\ chan[ch].state = "open"
    /\ Trouble("channel")
    /\ CloseChannel(ch)
    /\ UNCHANGED <<sender, known, taken, routed>>

CallerStep(c) ==
    \/ Acquire(c) \/ AcquireFails(c) \/ Enable(c) \/ AwaitHandshake(c)
    \/ Lock(c) \/ PublishUnconfirmed(c) \/ Publish(c) \/ Collect(c)

SenderNext ==
    \/ \E c \in Callers : \/ CallerStep(c) \/ Expire(c)
                          \/ \E i \in DOMAIN call[c].conf : Confirm(c, i)
    \/ \E ch \in Chans : HandshakeEnds(ch) \/ ChannelLost(ch)
    \/ \E o \in orphans : ConfirmOrphan(o)

(***************************************************************************)
(* Fairness: goroutines run, deadlines pass, and a mutex that is released  *)
(* again and again is acquired in the end (sync.Mutex does not starve).    *)
(* That every caller has a deadline is the relay's doing (SendTimeout);    *)
(* the Sender imposes none, so any other caller is assumed to bring a      *)
(* context that ends.  Nothing is assumed of the broker: it may never      *)
(* answer a publish or a handshake.                                        *)
(***************************************************************************)
SenderFairness == \A c \in Callers : /\ WF_senderVars(CallerStep(c))
                                     /\ SF_senderVars(Lock(c))
                                     /\ WF_senderVars(Expire(c))
-----------------------------------------------------------------------------
CallSet == [pc : {"idle", "acquire", "enable", "handshake", "lock",
                  "publish", "collect", "returned"},
            msgs : Seq(Messages), base : Nat, window : Nat, attempt : 0..MaxAttempts,
            ch : Chans \cup {None}, conf : Seq({"pending", "ack", "nack"}), acked : Nat,
            pubErr : BOOLEAN, expired : BOOLEAN,
            err : {"none", "unsendable", "unroutable", "failed"}]
ChanSet == [state : {"fresh", "open", "closed"}, confirming : BOOLEAN,
            handshake : {"none", "inFlight", "enabled", "refused"}, returns : 0..1,
            lock : Callers \cup {None}]

SenderTypeOK ==
    /\ sender \in SenderCases
    /\ chan \in [Chans -> ChanSet]
    /\ known \subseteq Chans
    /\ call \in [Callers -> CallSet]
    /\ \A o \in orphans : o \in Chans \X Messages
    /\ routed \subseteq taken /\ taken \subseteq Messages
    /\ troubles \in 0..MaxTroubles

\* The count of an answer.
Delivered(c) == call[c].base + call[c].acked

(***************************************************************************)
(* The count of an answer is never optimistic: every message in the prefix *)
(* SendBatch reports was acknowledged by the broker, and put into a queue  *)
(* when publishing is mandatory, whatever order the confirms came in, how  *)
(* many channels the command was run on, and whose returns were read.      *)
(***************************************************************************)
ConfirmedPrefix ==
    \A c \in Callers :
        call[c].pc = "returned" /\ sender.confirms =>
            \A i \in 1..Delivered(c) :
                /\ call[c].msgs[i] \in taken
                /\ sender.mandatory => call[c].msgs[i] \in routed

(***************************************************************************)
(* Nobody waits for a confirm that cannot come: a caller publishes only on *)
(* a channel in confirm mode, also when the handshake was started, and     *)
(* given up on, by another caller.                                         *)
(***************************************************************************)
ConfirmMode ==
    \A c \in Callers :
        sender.confirms /\ call[c].pc \in {"lock", "publish", "collect"} =>
            chan[call[c].ch].confirming

(***************************************************************************)
(* When every caller has a deadline, every call returns, whatever the      *)
(* broker does: no wait for a handshake or a confirm outlives the caller's *)
(* own context, and none for a channel's lock the contexts of the callers  *)
(* in front of it (Watch.Lock looks at no context, so a waiter may well    *)
(* outlive its own).                                                       *)
(***************************************************************************)
CallsReturn == \A c \in Callers : []<>(call[c].pc \in {"idle", "returned"})
====
