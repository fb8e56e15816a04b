--------------------------- MODULE RabbitConsume ---------------------------
(***************************************************************************)
(* A subscription over RabbitMQ: eventbus.Subscriber, the consume loop of  *)
(* internal/consume, and the acknowledge policy of rabbitmq.Receiver or of *)
(* parkinglot.Receiver, with the queues they share with the broker.        *)
(*                                                                         *)
(*   register -> Subscribe -> Setup -> Receive -> (deliver -> process ->   *)
(*   acknowledge)* -> drain -> down -> a new process                       *)
(*                                                                         *)
(* A message is named by a model value; of its headers only x-death,       *)
(* x-first-death-queue and x-delivery-count are kept.  amqpx and RabbitMQ  *)
(* are external: they are modelled by what the receivers rely on.          *)
(***************************************************************************)
EXTENDS Integers, FiniteSets, Sequences, SequencesExt

CONSTANTS
    Messages,
    None,          \* no delivery
    Events,        \* event types of the subscribed service
    Cases,         \* the receivers and messages to check
    MaxRetries,    \* WithMaxRetries
    Base, Cap,     \* WithRequeueBackoff
    Troubles,      \* what may go wrong
    MaxTroubles,   \* bound: things that go wrong
    MaxCount       \* bound: where the header counts stop growing

\* A handler succeeds, fails for a while or for good, or panics; or the body is garbled.
Kinds == {"ok", "flaky", "failing", "panic", "garbled"}
\* The shapes a broker, shovel or proxy gives an integer header.
Encodings == {"integer", "float", "digits", "other"}
(***************************************************************************)
(* The dead-letter headers a message comes with: those RabbitMQ writes for *)
(* this subscription; an x-first-death-queue that names another consumer's *)
(* queue, alone or with that consumer's x-death entry; an x-first-death-   *)
(* queue that is missing or no string; an x-death that is not an array.    *)
(***************************************************************************)
DeathHeaders == {"own", "first", "entry", "unnamed", "flattened"}
AllTroubles == {"setup", "channel", "unbind", "handshake", "unanswered", "nack", "silent",
                "shutdown", "drain"}
(***************************************************************************)
(* The options of the receiver under check; limit is the delivery limit of *)
(* its queue, 0 for none, and rival says that a receiver of the other kind *)
(* has declared the dead-letter exchange of the same queue name.           *)
(***************************************************************************)
OptionSet == [receiver : {"plain", "parkinglot"}, topology : BOOLEAN, bindings : BOOLEAN,
              dlx : BOOLEAN, requeue : BOOLEAN, limit : Nat, prefetch : Nat,
              rival : BOOLEAN]
\* rabbitmq.Receiver binds when it sets up its topology.
PlainOptions(o) == o.receiver = "plain" /\ o.bindings = o.topology
\* parkinglot.Receiver never requeues, and its dead-letter exchange is not an option.
ParkingLotOptions(o) == o.receiver = "parkinglot" /\ o.limit = 0 /\ ~o.dlx /\ ~o.requeue

(***************************************************************************)
(* A message: its event, what processing it comes to, how the counts in    *)
(* its headers arrive, and its dead-letter headers.                        *)
(***************************************************************************)
TraitSet == [event : Events, kind : Kinds, encoding : Encodings, death : DeathHeaders]

ASSUME RabbitConsumeAssumption ==
    /\ None \notin Messages
    /\ \A c \in Cases :
          /\ c.opts \in OptionSet
          /\ c.traits \in [Messages -> TraitSet]
          /\ PlainOptions(c.opts) \/ ParkingLotOptions(c.opts)
          /\ c.opts.limit < MaxCount
    /\ {MaxRetries, Base, Cap, MaxTroubles, MaxCount} \subseteq Nat
    /\ Troubles \subseteq AllTroubles

VARIABLES
    opts,        \* the receiver's options
    traits,      \* what each message is like
    \* the Subscriber of the running process
    handlers,    \* events with a registered handler
    serve,       \* Subscriber.serve
    infos,       \* what GetServiceInfo answered
    sub,         \* where Subscribe is
    live,        \* FALSE once the shutdown context is canceled
    \* the consumer
    open,        \* its channel is open
    group,       \* the consumer group's context is live
    enabled,     \* the channel is in confirm mode
    held,        \* prefetched deliveries, not handed to the handler
    cur,         \* the delivery the handler has, or None
    step,        \* where the handler is
    result,      \* the processing result of cur
    park,        \* the publish that parks cur
    \* the broker
    declared,    \* the exchanges, queues and bindings of a receiver's topology
    bound,       \* events bound to the incoming queue
    loc,         \* where each message is
    parked,      \* messages with a copy in the parking lot
    late,        \* abandoned park publishes the broker may still take
    count,       \* x-delivery-count of each message
    rejected,    \* x-death count of the incoming queue
    expired,     \* x-death count of the wait queue
    \* histories, for the properties
    handled,     \* messages a handler succeeded on
    waited,      \* how long the receiver paced each message
    troubles     \* how many things went wrong

caseVars == <<opts, traits>>
subVars == <<handlers, serve, infos, sub, live>>
chanVars == <<open, group, enabled>>
curVars == <<cur, step, result, park>>
queueVars == <<loc, count, rejected, expired>>
lotVars == <<parked, late>>
histVars == <<handled, waited>>
topologyVars == <<declared, bound>>
vars == <<opts, traits, handlers, serve, infos, sub, live, open, group, enabled, held, cur, step, result,
          park, declared, bound, loc, parked, late, count, rejected, expired, handled,
          waited, troubles>>

\* Something goes wrong, within the bound.
Trouble(what) ==
    /\ what \in Troubles
    /\ troubles < MaxTroubles
    /\ troubles' = troubles + 1

(***************************************************************************)
(* What Setup declares, in order.  The plain receiver's dead-letter        *)
(* exchange is a fanout and the parking lot's, of the same name, a topic:  *)
(* the one declared second is refused.                                     *)
(***************************************************************************)
PlainTopology ==
    (IF opts.dlx THEN <<"fanout", "dlxQueue", "bindDlx">> ELSE <<>>)
        \o <<"incoming">>
ParkingLotTopology ==
    <<"topic", "waitQueue", "parkingLotQueue", "incoming", "bindWait", "bindRetry",
      "bindParkingLot">>
Declarations == IF opts.receiver = "plain" THEN PlainTopology ELSE ParkingLotTopology
Conflict == \/ Declarations[1] = "fanout" /\ "topic" \in declared
            \/ Declarations[1] = "topic" /\ "fanout" \in declared

\* A topology the receiver does not set up is there before it.
Init ==
    /\ \E c \in Cases : opts = c.opts /\ traits = c.traits
    /\ handlers = {}
    /\ serve = FALSE
    /\ infos = {}
    /\ sub = "idle"
    /\ live = TRUE
    /\ open = FALSE
    /\ group = TRUE
    /\ enabled = FALSE
    /\ held = {}
    /\ cur = None
    /\ step = "none"
    /\ result = "none"
    /\ park = "none"
    /\ declared = (IF opts.topology THEN {} ELSE Range(Declarations))
                    \cup (IF opts.rival THEN {"fanout", "topic"} \ {Declarations[1]} ELSE {})
    /\ bound = IF opts.bindings THEN {} ELSE Events
    /\ loc = [m \in Messages |-> "unsent"]
    /\ parked = {}
    /\ late = {}
    /\ count = [m \in Messages |-> 0]
    /\ rejected = [m \in Messages |-> 0]
    /\ expired = [m \in Messages |-> 0]
    /\ handled = {}
    /\ waited = [m \in Messages |-> 0]
    /\ troubles = 0
-----------------------------------------------------------------------------
(***************************************************************************)
(* The Subscriber: registration, and Subscribe up to Receive.              *)
(***************************************************************************)

\* After Subscribe, and for a second handler of an event, register panics instead.
RegisterHandler(e) ==
    /\ ~serve
    /\ e \notin handlers
    /\ handlers' = handlers \cup {e}
    /\ UNCHANGED <<caseVars, serve, infos, sub, live, chanVars, held, curVars, topologyVars,
                   queueVars, lotVars, histVars, troubles>>

\* Mutation of Subscribe: registration stays open.
SubscribeUnlatched ==
    /\ sub = "idle"
    /\ sub' = "info"
    /\ UNCHANGED <<caseVars, handlers, serve, infos, live, chanVars, held, curVars, topologyVars,
                   queueVars, lotVars, histVars, troubles>>

Subscribe ==
    /\ sub = "idle"
    /\ serve' = TRUE
    /\ sub' = "info"
    /\ UNCHANGED <<caseVars, handlers, infos, live, chanVars, held, curVars, topologyVars,
                   queueVars, lotVars, histVars, troubles>>

\* Read without the mutex: only the latch keeps a registration from racing it.
GetServiceInfo ==
    /\ sub = "info"
    /\ infos' = handlers
    /\ sub' = "setup"
    /\ UNCHANGED <<caseVars, handlers, serve, live, chanVars, held, curVars, topologyVars,
                   queueVars, lotVars, histVars, troubles>>

\* WithDLX without WithTopologySetup is refused.
Refused == opts.receiver = "plain" /\ opts.dlx /\ ~opts.topology

Setup ==
    /\ sub = "setup"
    /\ ~Refused
    /\ opts.topology => ~Conflict
    /\ declared' = declared \cup (IF opts.topology THEN Range(Declarations) ELSE {})
    /\ bound' = bound \cup (IF opts.bindings THEN infos ELSE {})
    /\ sub' = "receive"
    /\ UNCHANGED <<caseVars, handlers, serve, infos, live, chanVars, held, curVars, queueVars,
                   lotVars, histVars, troubles>>

(***************************************************************************)
(* Subscribe returns Setup's error; what was declared or bound before it   *)
(* stands.  The events of a service are listed in no fixed order.          *)
(***************************************************************************)
SetupFails ==
    /\ sub = "setup"
    /\ \/ Refused /\ UNCHANGED <<topologyVars, troubles>>
       \/ opts.topology /\ Conflict /\ UNCHANGED <<topologyVars, troubles>>
       \/ /\ opts.topology /\ ~Conflict /\ Trouble("setup")
          /\ \E n \in 0..(Len(Declarations) - 1) :
                declared' = declared \cup Range(SubSeq(Declarations, 1, n))
          /\ UNCHANGED bound
       \/ /\ opts.bindings /\ (opts.topology => ~Conflict) /\ Trouble("setup")
          /\ declared' = declared \cup (IF opts.topology THEN Range(Declarations) ELSE {})
          /\ \E some \in SUBSET infos \ {infos} : bound' = bound \cup some
    /\ sub' = "down"
    /\ UNCHANGED <<caseVars, handlers, serve, infos, live, chanVars, held, curVars, queueVars,
                   lotVars, histVars>>

\* consume.Run: checkPrefetch, then amqpx opens the consumer.
Receive ==
    /\ sub = "receive"
    /\ sub' = IF opts.prefetch > 0 THEN "consuming" ELSE "down"
    /\ open' = (opts.prefetch > 0)
    /\ group' = TRUE
    /\ UNCHANGED <<caseVars, handlers, serve, infos, live, enabled, held, curVars, topologyVars,
                   queueVars, lotVars, histVars, troubles>>
-----------------------------------------------------------------------------
(***************************************************************************)
(* The broker: publishing, delivering, dead-lettering.                     *)
(***************************************************************************)

Publish(m) ==
    /\ loc[m] = "unsent"
    /\ traits[m].event \in bound
    /\ loc' = [loc EXCEPT ![m] = "queue"]
    /\ UNCHANGED <<caseVars, subVars, chanVars, held, curVars, topologyVars, count, rejected,
                   expired, lotVars, histVars, troubles>>

Deliver(m) ==
    /\ sub = "consuming" /\ open /\ group /\ live
    /\ loc[m] = "queue"
    /\ Cardinality(held) + (IF cur = None THEN 0 ELSE 1) < opts.prefetch
    /\ loc' = [loc EXCEPT ![m] = "unacked"]
    /\ held' = held \cup {m}
    /\ UNCHANGED <<caseVars, subVars, chanVars, curVars, topologyVars, count, rejected, expired,
                   lotVars, histVars, troubles>>

Counted(f, m) == [f EXCEPT ![m] = IF @ = MaxCount THEN @ ELSE @ + 1]

Acked(m) == loc' = [loc EXCEPT ![m] = "gone"] /\ UNCHANGED <<count, rejected, expired>>

\* A dead letter goes where the queue's arguments and the bindings send it.
DeadLettered(m) ==
    /\ loc' = [loc EXCEPT ![m] =
                 IF {"topic", "bindWait"} \subseteq declared /\ opts.receiver = "parkinglot"
                   THEN "wait"
                 ELSE IF opts.receiver = "plain" /\ opts.dlx THEN "dead" ELSE "discarded"]
    /\ rejected' = Counted(rejected, m)
    /\ UNCHANGED <<count, expired>>

\* Messages return to the queue, unless the delivery limit is spent.
Requeued(S) ==
    /\ loc' = [m \in Messages |->
                 IF m \notin S THEN loc[m]
                 ELSE IF opts.limit = 0 \/ count[m] < opts.limit THEN "queue"
                 ELSE IF opts.dlx THEN "dead" ELSE "discarded"]
    /\ count' = [m \in Messages |->
                   IF m \in S /\ count[m] < MaxCount THEN count[m] + 1 ELSE count[m]]
    /\ UNCHANGED <<rejected, expired>>

\* The wait queue's TTL dead-letters the message back to the incoming queue.
WaitExpires(m) ==
    /\ loc[m] = "wait"
    /\ loc' = [loc EXCEPT ![m] = IF "bindRetry" \in declared THEN "queue" ELSE "discarded"]
    /\ expired' = Counted(expired, m)
    /\ UNCHANGED <<caseVars, subVars, chanVars, held, curVars, topologyVars, count, rejected,
                   lotVars, histVars, troubles>>

\* An operator removes the parking-lot binding; only a new Setup brings it back.
Unbind ==
    /\ opts.topology /\ "bindParkingLot" \in declared
    /\ Trouble("unbind")
    /\ declared' = declared \ {"bindParkingLot"}
    /\ UNCHANGED <<caseVars, subVars, chanVars, held, curVars, bound, queueVars, lotVars,
                   histVars>>
-----------------------------------------------------------------------------
(***************************************************************************)
(* The consume loop and the Subscriber's processor.                        *)
(***************************************************************************)

\* amqpx hands over one delivery at a time; the drain hands over the prefetched ones.
Handle(m) ==
    /\ sub = "consuming" /\ open /\ group
    /\ cur = None
    /\ m \in held
    /\ cur' = m
    /\ held' = held \ {m}
    /\ step' = "process"
    /\ UNCHANGED <<caseVars, subVars, chanVars, result, park, topologyVars, queueVars, lotVars,
                   histVars, troubles>>

(***************************************************************************)
(* Unmarshal, process and dispatch: a garbled body, an event without a     *)
(* handler and a panic are unprocessable; any other error is transient.    *)
(***************************************************************************)
ProcessDelivery(m) ==
    IF traits[m].kind \in {"garbled", "panic"} \/ traits[m].event \notin handlers THEN {"unprocessable"}
    ELSE CASE traits[m].kind = "ok" -> {"ok"}
           [] traits[m].kind = "flaky" -> {"ok", "transient"}
           [] traits[m].kind = "failing" -> {"transient"}

HandlerDone == cur' = None /\ step' = "none" /\ result' = "none" /\ park' = "none"

\* consume.Requeue: a lost channel has requeued the delivery by itself.
Requeue(m) == IF open THEN Requeued({m}) ELSE UNCHANGED queueVars

\* Mutation of Process: a stopping group abandons the delivery it was handed.
ProcessAbandoning ==
    /\ step = "process"
    /\ \E res \in ProcessDelivery(cur) :
          /\ handled' = IF res = "ok" THEN handled \cup {cur} ELSE handled
          /\ IF group
               THEN result' = res /\ step' = "ack" /\ UNCHANGED <<cur, park>>
               ELSE HandlerDone
    /\ UNCHANGED <<caseVars, subVars, chanVars, held, topologyVars, queueVars, lotVars, waited,
                   troubles>>

Process ==
    /\ step = "process"
    /\ \E res \in ProcessDelivery(cur) :
          /\ handled' = IF res = "ok" THEN handled \cup {cur} ELSE handled
          /\ IF group
               THEN result' = res /\ step' = "ack" /\ UNCHANGED <<cur, park, queueVars>>
               ELSE Requeue(cur) /\ HandlerDone
    /\ UNCHANGED <<caseVars, subVars, chanVars, held, topologyVars, lotVars, waited, troubles>>

\* The disposition failed: requeue, and return the error, which stops the group.
AckFails ==
    /\ Requeue(cur)
    /\ HandlerDone
    /\ group' = FALSE
    /\ UNCHANGED <<caseVars, subVars, open, enabled, held, topologyVars, lotVars, histVars>>

-----------------------------------------------------------------------------
(***************************************************************************)
(* rabbitmq.Receiver.doAcknowledge.                                        *)
(***************************************************************************)

\* The redelivery count is read from an integer header only (MaxCount is below the clamp).
DeliveryCount(m) == IF traits[m].encoding = "integer" THEN count[m] ELSE 0

DoublingFrom(n) ==
    LET delay[k \in 0..n] == IF k = 0 THEN Base
                             ELSE IF delay[k - 1] >= Cap THEN Cap ELSE 2 * delay[k - 1]
    IN  delay[n]

\* Mutation of RequeueDelay: the shift runs past the cap, and wraps (here at 3 bits).
RequeueDelayWrapped(n) ==
    LET shifted == (Base * 2^n) % 8
        delay == IF shifted >= 4 THEN shifted - 8 ELSE shifted
    IN  IF Cap > 0 /\ delay > Cap THEN Cap ELSE delay

RequeueDelay(n) ==
    IF Base = 0 THEN 0
    ELSE IF Cap > 0 /\ DoublingFrom(n) > Cap THEN Cap ELSE DoublingFrom(n)

AckPlain ==
    /\ step = "ack" /\ open /\ opts.receiver = "plain"
    /\ \/ result = "ok" /\ Acked(cur) /\ UNCHANGED waited
       \/ result = "unprocessable" /\ DeadLettered(cur) /\ UNCHANGED waited
       \/ result = "transient" /\ ~opts.requeue /\ DeadLettered(cur) /\ UNCHANGED waited
       \/ /\ result = "transient" /\ opts.requeue
          /\ Requeued({cur})
          /\ waited' = IF live /\ count[cur] < MaxCount
                         THEN [waited EXCEPT ![cur] = @ + RequeueDelay(DeliveryCount(cur))]
                         ELSE waited
    /\ HandlerDone
    /\ UNCHANGED <<caseVars, subVars, chanVars, held, topologyVars, lotVars, handled, troubles>>
-----------------------------------------------------------------------------
(***************************************************************************)
(* parkinglot.Receiver.doAcknowledge.                                      *)
(***************************************************************************)

\* The x-death entries of a delivery; another consumer's entry never grows.
XDeath(m) ==
    (IF rejected[m] > 0 THEN {[queue |-> "incoming", count |-> rejected[m]]} ELSE {})
        \cup (IF expired[m] > 0 THEN {[queue |-> "wait", count |-> expired[m]]} ELSE {})
        \cup (IF traits[m].death = "entry" THEN {[queue |-> "foreign", count |-> 1]} ELSE {})

\* HeaderString: "" for a header that is absent or no string.
FirstDeathQueue(m) == CASE traits[m].death = "unnamed" -> ""
                        [] traits[m].death \in {"first", "entry"} -> "foreign"
                        [] OTHER -> "incoming"

\* x-death is an array.
DeathReadable(m) == traits[m].death # "flattened"

(***************************************************************************)
(* deathCount: whole numbers are read from integers, floats and digits.    *)
(* "other" is every count it does not read, and an entry that is no table. *)
(***************************************************************************)
CountReadable(m) == traits[m].encoding # "other"

\* Mutation of HasExceededRetryCount: only the entry of the first death counts.
ExceededByFirstDeathOnly(m) ==
    /\ DeathReadable(m)
    /\ \E d \in XDeath(m) : /\ d.queue = FirstDeathQueue(m)
                            /\ CountReadable(m)
                            /\ d.count >= MaxRetries

(***************************************************************************)
(* Never, when x-death is not an array or the queue of the first death has *)
(* no name; else by the count of that queue, or by the largest one when no *)
(* entry names it.                                                         *)
(***************************************************************************)
HasExceededRetryCount(m) ==
    LET first == {d \in XDeath(m) : d.queue = FirstDeathQueue(m)}
        deaths == IF first # {} THEN first ELSE XDeath(m)
    IN  /\ DeathReadable(m)
        /\ FirstDeathQueue(m) # ""
        /\ CountReadable(m) /\ \E d \in deaths : d.count >= MaxRetries

Parks == \/ result = "unprocessable"
         \/ result = "transient" /\ HasExceededRetryCount(cur)

AckParkingLot ==
    /\ step = "ack" /\ open /\ opts.receiver = "parkinglot"
    /\ ~Parks
    /\ IF result = "ok" THEN Acked(cur) ELSE DeadLettered(cur)
    /\ HandlerDone
    /\ UNCHANGED <<caseVars, subVars, chanVars, held, topologyVars, lotVars, histVars, troubles>>

\* Ack and Reject fail on a channel that is gone.
ChannelGone ==
    /\ step = "ack" /\ ~open
    /\ ~(opts.receiver = "parkinglot" /\ Parks)
    /\ AckFails
    /\ UNCHANGED troubles

(***************************************************************************)
(* putIntoParkingLot, first Enable: a channel not yet in confirm mode is   *)
(* asked for it, and the handler waits.                                    *)
(***************************************************************************)
ParkEnable ==
    /\ step = "ack" /\ opts.receiver = "parkinglot" /\ Parks
    /\ step' = IF enabled THEN "publish" ELSE "enable"
    /\ UNCHANGED <<caseVars, subVars, chanVars, held, cur, result, park, topologyVars,
                   queueVars, lotVars, histVars, troubles>>

\* The broker's part of confirm.select: it answers, or it never will.
Handshake ==
    /\ step = "enable" /\ open
    /\ \/ enabled' = TRUE /\ step' = "publish" /\ UNCHANGED troubles
       \/ step' = "unanswered" /\ Trouble("unanswered") /\ UNCHANGED enabled
    /\ UNCHANGED <<caseVars, subVars, open, group, held, cur, result, park, topologyVars,
                   queueVars, lotVars, histVars>>

(***************************************************************************)
(* The ways out of a wait for the handshake: the channel is gone, the      *)
(* broker refuses it, or the shutdown context, the only one Enable is      *)
(* given, is canceled.  A handshake that is answered after that changes    *)
(* nothing: the group has stopped and parks nothing else on this channel.  *)
(***************************************************************************)
ParkEnableFails ==
    /\ \/ step \in {"enable", "unanswered"} /\ (~open \/ ~live) /\ UNCHANGED troubles
       \/ step = "enable" /\ open /\ Trouble("handshake")
    /\ AckFails

\* Mandatory publish to the dead-letter exchange, on a detached context.
ParkPublish ==
    /\ step = "publish" /\ open
    /\ park' = "sent"
    /\ step' = "confirm"
    /\ UNCHANGED <<caseVars, subVars, chanVars, held, cur, result, topologyVars, queueVars,
                   lotVars, histVars, troubles>>

ParkPublishFails ==
    /\ step = "publish" /\ ~open
    /\ AckFails
    /\ UNCHANGED troubles

(***************************************************************************)
(* What the broker does with the publish: an unroutable one is returned    *)
(* and then acknowledged; or it nacks; or it stays silent and may store    *)
(* the message later.                                                      *)
(***************************************************************************)
BrokerPark ==
    /\ park = "sent" /\ open
    /\ \/ /\ park' = IF "bindParkingLot" \in declared THEN "acked" ELSE "returned"
          /\ parked' = IF "bindParkingLot" \in declared THEN parked \cup {cur} ELSE parked
          /\ UNCHANGED <<late, troubles>>
       \/ park' = "nacked" /\ Trouble("nack") /\ UNCHANGED lotVars
       \/ park' = "silent" /\ Trouble("silent") /\ late' = late \cup {cur}
          /\ UNCHANGED parked
    /\ UNCHANGED <<caseVars, subVars, chanVars, held, cur, step, result, topologyVars, queueVars,
                   histVars>>

LatePark(m) ==
    /\ m \in late
    /\ late' = late \ {m}
    /\ parked' = IF "bindParkingLot" \in declared THEN parked \cup {m} ELSE parked
    /\ UNCHANGED <<caseVars, subVars, chanVars, held, curVars, topologyVars, queueVars, histVars,
                   troubles>>

\* Mutation of ParkConfirmed: the return of an unroutable park is not looked at.
ParkConfirmedUnrouted ==
    /\ step = "confirm" /\ park \in {"acked", "returned"}
    /\ IF open THEN Acked(cur) ELSE UNCHANGED queueVars
    /\ HandlerDone
    /\ UNCHANGED <<caseVars, subVars, chanVars, held, topologyVars, lotVars, histVars, troubles>>

\* Confirmed and not returned: ack the original; a failed ack is only logged.
ParkConfirmed ==
    /\ step = "confirm" /\ park = "acked"
    /\ IF open THEN Acked(cur) ELSE UNCHANGED queueVars
    /\ HandlerDone
    /\ UNCHANGED <<caseVars, subVars, chanVars, held, topologyVars, lotVars, histVars, troubles>>

\* Mutation of ParkRefused: the wait for the confirm has no deadline.
ParkRefusedUnbounded ==
    /\ step = "confirm" /\ park \in {"returned", "nacked"}
    /\ AckFails
    /\ UNCHANGED troubles

\* Returned, nacked, or no answer within parkConfirmTimeout: the original is kept.
ParkRefused ==
    /\ step = "confirm" /\ park \in {"returned", "nacked", "silent"}
    /\ AckFails
    /\ UNCHANGED troubles
-----------------------------------------------------------------------------
(***************************************************************************)
(* The end of a subscription.                                              *)
(***************************************************************************)

\* The broker requeues what the channel held and nacks the outstanding park.
ChannelLost ==
    /\ sub = "consuming" /\ open
    /\ Trouble("channel")
    /\ open' = FALSE
    /\ group' = FALSE
    /\ Requeued({m \in Messages : loc[m] = "unacked"})
    /\ held' = {}
    /\ park' = IF park \in {"sent", "silent"} THEN "nacked" ELSE park
    /\ \/ parked' = parked
       \/ park = "sent" /\ "bindParkingLot" \in declared /\ parked' = parked \cup {cur}
    /\ UNCHANGED <<caseVars, subVars, enabled, cur, step, result, topologyVars, late, histVars>>

Shutdown ==
    /\ sub = "consuming" /\ live
    /\ Trouble("shutdown")
    /\ live' = FALSE
    /\ UNCHANGED <<caseVars, handlers, serve, infos, sub, chanVars, held, curVars, topologyVars,
                   queueVars, lotVars, histVars>>

\* DrainTimeout cancels the group while deliveries are still being drained.
DrainTimeout ==
    /\ sub = "consuming" /\ ~live /\ group
    /\ Trouble("drain")
    /\ group' = FALSE
    /\ UNCHANGED <<caseVars, subVars, open, enabled, held, curVars, topologyVars, queueVars,
                   lotVars, histVars>>

\* The consumer returns: amqpx requeues the deliveries it never handed over.
Stop ==
    /\ sub = "consuming" /\ cur = None
    /\ ~group \/ (~live /\ held = {})
    /\ sub' = "down"
    /\ open' = FALSE
    /\ Requeued(held)
    /\ held' = {}
    /\ UNCHANGED <<caseVars, handlers, serve, infos, live, group, enabled, curVars, topologyVars,
                   lotVars, histVars, troubles>>

\* A new process, with a new Subscriber.
Restart ==
    /\ sub = "down"
    /\ handlers' = {}
    /\ serve' = FALSE
    /\ infos' = {}
    /\ sub' = "idle"
    /\ live' = TRUE
    /\ group' = TRUE
    /\ enabled' = FALSE
    /\ UNCHANGED <<caseVars, open, held, curVars, topologyVars, queueVars, lotVars, histVars,
                   troubles>>

Consumer ==
    \/ Subscribe \/ GetServiceInfo \/ Setup \/ SetupFails \/ Receive
    \/ Process \/ AckPlain \/ ChannelGone
    \/ AckParkingLot \/ ParkEnable \/ ParkEnableFails \/ ParkPublish \/ ParkPublishFails
    \/ ParkConfirmed \/ ParkRefused \/ Stop \/ Restart
    \/ \E m \in Messages : Handle(m)

Next ==
    \/ Consumer
    \/ \E e \in Events : RegisterHandler(e)
    \/ \E m \in Messages : Publish(m) \/ Deliver(m) \/ WaitExpires(m) \/ LatePark(m)
    \/ Unbind \/ Handshake \/ BrokerPark \/ ChannelLost \/ Shutdown \/ DrainTimeout

(***************************************************************************)
(* Fairness: the consumer's goroutine keeps running and is restarted, the  *)
(* broker delivers, expires and answers, or has a trouble that says it     *)
(* never will.  Publishers, registration and trouble are free.             *)
(***************************************************************************)
Fairness ==
    /\ WF_vars(Consumer)
    /\ WF_vars(Handshake) /\ WF_vars(BrokerPark)
    /\ \A m \in Messages : /\ SF_vars(Deliver(m)) /\ SF_vars(Handle(m))
                           /\ WF_vars(WaitExpires(m))

Spec == Init /\ [][Next]_vars /\ Fairness
-----------------------------------------------------------------------------
Locations == {"unsent", "queue", "unacked", "wait", "gone", "dead", "discarded"}

(***************************************************************************)
(* The types of the state.                                                 *)
(***************************************************************************)
TypeOK ==
    /\ \E c \in Cases : opts = c.opts /\ traits = c.traits
    /\ handlers \subseteq Events /\ infos \subseteq Events /\ bound \subseteq Events
    /\ sub \in {"idle", "info", "setup", "receive", "consuming", "down"}
    /\ {serve, live, open, group, enabled} \subseteq BOOLEAN
    /\ held \subseteq Messages /\ cur \in Messages \cup {None}
    /\ step \in {"none", "process", "ack", "enable", "unanswered", "publish", "confirm"}
    /\ result \in {"none", "ok", "unprocessable", "transient"}
    /\ park \in {"none", "sent", "acked", "returned", "nacked", "silent"}
    /\ loc \in [Messages -> Locations]
    /\ parked \subseteq Messages /\ late \subseteq Messages /\ handled \subseteq Messages
    /\ \A f \in {count, rejected, expired} : f \in [Messages -> 0..MaxCount]
    /\ waited \in [Messages -> Nat]
    /\ troubles \in 0..MaxTroubles

\* How long the receiver paces a message that is requeued n + 1 times.
Rungs(n) ==
    LET sum[k \in 0..n] == IF k = 0 THEN RequeueDelay(0) ELSE sum[k - 1] + RequeueDelay(k)
    IN  sum[n]

\* How long the delivery limit lasts at the receiver's pace.
Ladder == Rungs(opts.limit)

Stopped(m) == loc[m] \in {"gone", "dead", "discarded"}

(***************************************************************************)
(* No message disappears unearned.  One acknowledged away was handled, or  *)
(* a copy of it is in the parking lot (putIntoParkingLot acks the original *)
(* only after a confirm without a return).  One the broker discards was    *)
(* on a plain receiver without a dead-letter exchange.  And one that spent *)
(* its delivery limit in an undisturbed subscription was paced through the *)
(* whole ladder of WithRequeueBackoff first.                               *)
(***************************************************************************)
NothingLost ==
    \A m \in Messages :
        /\ loc[m] = "gone" => m \in handled \cup parked
        /\ loc[m] = "discarded" => opts.receiver = "plain" /\ ~opts.dlx
        /\ /\ opts.limit > 0 /\ count[m] > opts.limit /\ traits[m].encoding = "integer"
           /\ troubles = 0
           => waited[m] >= Ladder

(***************************************************************************)
(* A delivery is never stranded on a live channel: what the broker holds   *)
(* unacknowledged is still prefetched or in the handler, and once the      *)
(* subscription has returned nothing is.  It is Run's duty on every path   *)
(* out of the handler: ack, reject, park or requeue.                       *)
(***************************************************************************)
NoStranded ==
    \A m \in Messages :
        loc[m] = "unacked" => sub = "consuming" /\ open /\ m \in held \cup {cur}

RetryBudget == IF MaxRetries = 0 THEN 1 ELSE MaxRetries

(***************************************************************************)
(* What a retry budget needs to be evaluated: an x-death array with counts *)
(* deathCount reads, an x-first-death-queue, and no entry of the consumer  *)
(* that one names, whose count never grows.                                *)
(***************************************************************************)
Evaluable(m) ==
    /\ DeathReadable(m) /\ CountReadable(m)
    /\ FirstDeathQueue(m) # ""
    /\ traits[m].death # "entry"

(***************************************************************************)
(* The retry budget of the parking lot holds on every lap, also for a      *)
(* message whose x-first-death-queue names another consumer's queue.       *)
(* Excepted are the four kinds of header that hasExceededRetryCount        *)
(* retries on for ever: an x-death that is not an array, an                *)
(* x-first-death-queue that is absent or unreadable, a count it cannot     *)
(* read, and an entry of that other consumer, on which it returns before   *)
(* it reaches its fallback.  The first lap is always allowed, under        *)
(* WithMaxRetries(0) too: a message that has not been rejected yet has no  *)
(* x-death header to count.                                                *)
(***************************************************************************)
RetriesBounded ==
    \A m \in Messages : Evaluable(m) => rejected[m] <= RetryBudget

(***************************************************************************)
(* A running subscription is bound for every event it has a handler for:   *)
(* Subscribe closes registration before it reads the handlers that Setup   *)
(* binds.                                                                  *)
(***************************************************************************)
HandlersBound == sub = "consuming" => handlers \subseteq bound

\* Messages that may be retried for ever.
Endless(m) ==
    /\ traits[m].kind \in {"flaky", "failing"}
    /\ IF opts.receiver = "plain" THEN opts.requeue /\ opts.limit = 0
       ELSE ~Evaluable(m)

\* The handler waits for a handshake the broker never answers, until shutdown.
HeldByHandshake == step = "unanswered" /\ live

Startable == opts.prefetch > 0 /\ ~Refused /\ ~(opts.topology /\ opts.rival /\ Conflict)

(***************************************************************************)
(* Every message that reaches the queue is handled, parked, dead-lettered  *)
(* or dropped in the end, through channel losses, shutdowns and restarts,  *)
(* unless the code retries it for ever.  On a plain receiver such a        *)
(* message may also keep the queue's other messages back.  Excepted too is *)
(* a subscription whose handler waits for a confirm handshake that is      *)
(* never answered: Enable is given the shutdown context, which has no      *)
(* deadline, so only a shutdown or the loss of the channel ends the wait.  *)
(***************************************************************************)
Settles ==
    []<>(\/ ~Startable \/ HeldByHandshake
         \/ opts.receiver = "plain" /\ \E n \in Messages : Endless(n)
         \/ \A m \in Messages : loc[m] = "unsent" \/ Stopped(m) \/ Endless(m))
=============================================================================
