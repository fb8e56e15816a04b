------------------------ MODULE RabbitConsumeProofs ------------------------
(***************************************************************************)
(* Proofs about RabbitConsume, for every set of messages, every receiver   *)
(* and any number of things that go wrong.                                 *)
(***************************************************************************)
EXTENDS RabbitConsume, MinMax

-----------------------------------------------------------------------------
(***************************************************************************)
(* The pace of WithRequeueBackoff.                                         *)
(***************************************************************************)

\* The doubled backoff of WithRequeueBackoff is a number at every redelivery count.
LEMMA DoublingType ==
    ASSUME NEW n \in Nat
    PROVE  DoublingFrom(n) \in Nat
<1> DEFINE Fix(j, f) == f = [k \in 0..j |-> IF k = 0 THEN Base
                                            ELSE IF f[k - 1] >= Cap THEN Cap ELSE 2 * f[k - 1]]
           G == {j \in Nat : \E f \in [0..j -> Nat] : Fix(j, f)}
<1>0. Base \in Nat /\ Cap \in Nat
  BY RabbitConsumeAssumption
<1>1. 0 \in G
  <2> DEFINE f == [k \in 0..0 |-> Base]
  <2>1. f \in [0..0 -> Nat] /\ Fix(0, f)
    BY <1>0
  <2> QED
    BY <2>1
<1>2. ASSUME NEW j \in Nat, j \in G
      PROVE  j + 1 \in G
  <2>1. PICK f \in [0..j -> Nat] : Fix(j, f)
    BY <1>2
  <2> DEFINE g == [k \in 0..(j + 1) |-> IF k = j + 1
                                           THEN IF f[j] >= Cap THEN Cap ELSE 2 * f[j] ELSE f[k]]
  <2>2. g \in [0..(j + 1) -> Nat]
    BY <1>0
  <2>3. ASSUME NEW k \in 0..(j + 1)
        PROVE  g[k] = IF k = 0 THEN Base ELSE IF g[k - 1] >= Cap THEN Cap ELSE 2 * g[k - 1]
    BY <2>1
  <2>4. Fix(j + 1, g)
    BY <2>3
  <2> HIDE DEF g, Fix
  <2> QED
    BY <2>2, <2>4
<1>3. n \in G
  <2> HIDE DEF G
  <2> QED
    BY <1>1, <1>2, NatSetInduction
<1>4. PICK f : f \in [0..n -> Nat] /\ Fix(n, f)
  BY <1>3
<1> DEFINE d == CHOOSE h : Fix(n, h)
<1>5. Fix(n, d)
  <2> HIDE DEF Fix
  <2> QED
    BY <1>4
<1>6. DoublingFrom(n) = d[n]
  BY Zenon DEF DoublingFrom
<1> HIDE DEF d
<1> DEFINE H == {k \in Nat : k > n \/ d[k] \in Nat}
<1>7. 0 \in H
  BY <1>0, <1>5
<1>8. ASSUME NEW k \in Nat, k \in H
      PROVE  k + 1 \in H
  <2>1. CASE k + 1 > n
    BY <2>1
  <2>2. CASE k + 1 <= n
    <3>1. d[k] \in Nat /\ k + 1 \in 0..n /\ k + 1 # 0 /\ (k + 1) - 1 = k
      BY <1>8, <2>2
    <3>2. d[k + 1] = IF d[k] >= Cap THEN Cap ELSE 2 * d[k]
      BY <1>5, <3>1
    <3> QED
      BY <1>0, <3>1, <3>2
  <2> QED
    BY <2>1, <2>2
<1>9. n \in H
  <2> HIDE DEF H
  <2> QED
    BY <1>7, <1>8, NatSetInduction
<1> QED
  BY <1>6, <1>9

\* So is the delay that is made of it.
LEMMA DelayType ==
    ASSUME NEW n \in Nat
    PROVE  RequeueDelay(n) \in Nat
  BY DoublingType, RabbitConsumeAssumption DEF RequeueDelay

\* The sum over the rungs, as the running totals it is computed from.
LEMMA RungsFrom ==
    ASSUME NEW n \in Nat
    PROVE  \E d \in [0..n -> Nat] :
               /\ Rungs(n) = d[n]
               /\ d[0] = RequeueDelay(0)
               /\ \A k \in 1..n : d[k] = d[k - 1] + RequeueDelay(k)
<1> DEFINE Fix(j, f) == f = [k \in 0..j |-> IF k = 0 THEN RequeueDelay(0)
                                            ELSE f[k - 1] + RequeueDelay(k)]
           G == {j \in Nat : \E f \in [0..j -> Nat] : Fix(j, f)}
<1>0. \A k \in Nat : RequeueDelay(k) \in Nat
  BY DelayType
<1>1. 0 \in G
  <2> DEFINE f == [k \in 0..0 |-> RequeueDelay(0)]
  <2>1. f \in [0..0 -> Nat] /\ Fix(0, f)
    BY <1>0
  <2> QED
    BY <2>1
<1>2. ASSUME NEW j \in Nat, j \in G
      PROVE  j + 1 \in G
  <2>1. PICK f \in [0..j -> Nat] : Fix(j, f)
    BY <1>2
  <2> DEFINE g == [k \in 0..(j + 1) |-> IF k = j + 1 THEN f[j] + RequeueDelay(j + 1) ELSE f[k]]
  <2>2. g \in [0..(j + 1) -> Nat]
    <3>1. f[j] \in Nat /\ RequeueDelay(j + 1) \in Nat
      <4>1. j \in 0..j /\ j + 1 \in Nat
        OBVIOUS
      <4>2. RequeueDelay(j + 1) \in Nat
        BY <1>0, <4>1
      <4> QED
        BY <4>1, <4>2
    <3>2. \A k \in 0..(j + 1) : k # j + 1 => f[k] \in Nat
      OBVIOUS
    <3>3. f[j] + RequeueDelay(j + 1) \in Nat
      BY <3>1
    <3> QED
      BY <3>2, <3>3
  <2>3. ASSUME NEW k \in 0..(j + 1)
        PROVE  g[k] = IF k = 0 THEN RequeueDelay(0) ELSE g[k - 1] + RequeueDelay(k)
    BY <2>1
  <2>4. Fix(j + 1, g)
    BY <2>3
  <2> HIDE DEF g, Fix
  <2> QED
    BY <2>2, <2>4
<1>3. n \in G
  <2> HIDE DEF G
  <2> QED
    BY <1>1, <1>2, NatSetInduction
<1>4. PICK f : f \in [0..n -> Nat] /\ Fix(n, f)
  BY <1>3
<1> DEFINE d == CHOOSE h : Fix(n, h)
<1>5. Fix(n, d)
  <2> HIDE DEF Fix
  <2> QED
    BY <1>4
<1>6. Rungs(n) = d[n]
  BY Zenon DEF Rungs
<1> HIDE DEF d
<1> DEFINE H == {k \in Nat : k > n \/ d[k] \in Nat}
<1>7. 0 \in H /\ d[0] = RequeueDelay(0)
  BY <1>0, <1>5
<1>8. \A k \in 1..n : d[k] = d[k - 1] + RequeueDelay(k)
  BY <1>5
<1>9. ASSUME NEW k \in Nat, k \in H
      PROVE  k + 1 \in H
  <2>1. CASE k + 1 > n
    BY <2>1
  <2>2. CASE k + 1 <= n
    <3>1. d[k] \in Nat /\ k + 1 \in 1..n /\ (k + 1) - 1 = k
      BY <1>9, <2>2
    <3>2. d[k + 1] = d[k] + RequeueDelay(k + 1)
      BY <1>8, <3>1
    <3> QED
      BY <1>0, <3>1, <3>2
  <2> QED
    BY <2>1, <2>2
<1>10. \A k \in Nat : k \in H
  <2> HIDE DEF H
  <2> QED
    BY <1>7, <1>9, NatSetInduction
<1>11. DOMAIN d = 0..n
  BY <1>5
<1>12. d \in [0..n -> Nat]
  BY <1>5, <1>10
<1> QED
  BY <1>6, <1>7, <1>8, <1>12

\* The sum of the first rungs grows by one delay per requeue.
LEMMA RungsStep ==
    ASSUME NEW n \in Nat
    PROVE  /\ Rungs(n) \in Nat
           /\ Rungs(0) = RequeueDelay(0)
           /\ Rungs(n + 1) = Rungs(n) + RequeueDelay(n + 1)
<1>1. PICK d \in [0..n -> Nat] :
               /\ Rungs(n) = d[n]
               /\ d[0] = RequeueDelay(0)
               /\ \A k \in 1..n : d[k] = d[k - 1] + RequeueDelay(k)
  BY RungsFrom
<1>2. PICK e \in [0..(n + 1) -> Nat] :
               /\ Rungs(n + 1) = e[n + 1]
               /\ e[0] = RequeueDelay(0)
               /\ \A k \in 1..(n + 1) : e[k] = e[k - 1] + RequeueDelay(k)
  <2>1. n + 1 \in Nat
    OBVIOUS
  <2> QED
    BY <2>1, RungsFrom
<1> DEFINE S == {k \in Nat : k > n \/ d[k] = e[k]}
<1>3. 0 \in S
  BY <1>1, <1>2
<1>4. ASSUME NEW k \in Nat, k \in S
      PROVE  k + 1 \in S
  <2>1. CASE k + 1 > n
    BY <2>1
  <2>2. CASE k + 1 <= n
    <3>1. k + 1 \in 1..n /\ k + 1 \in 1..(n + 1) /\ (k + 1) - 1 = k /\ d[k] = e[k]
      BY <1>4, <2>2
    <3>2. d[k + 1] = d[k] + RequeueDelay(k + 1) /\ e[k + 1] = e[k] + RequeueDelay(k + 1)
      BY <1>1, <1>2, <3>1
    <3> QED
      BY <3>1, <3>2
  <2> QED
    BY <2>1, <2>2
<1>5. n \in S
  <2> HIDE DEF S
  <2> QED
    BY <1>3, <1>4, NatSetInduction
<1>6. d[n] = e[n]
  BY <1>5
<1>7. e[n + 1] = e[n] + RequeueDelay(n + 1)
  <2>1. n + 1 \in 1..(n + 1) /\ (n + 1) - 1 = n
    OBVIOUS
  <2> QED
    BY <1>2, <2>1
<1>8. Rungs(0) = RequeueDelay(0)
  <2>1. PICK z \in [0..0 -> Nat] : Rungs(0) = z[0] /\ z[0] = RequeueDelay(0)
    BY RungsFrom
  <2> QED
    BY <2>1
<1> QED
  BY <1>1, <1>2, <1>6, <1>7, <1>8
-----------------------------------------------------------------------------
(***************************************************************************)
(* Types, by part of the state.                                            *)
(***************************************************************************)

CaseType == \E c \in Cases : opts = c.opts /\ traits = c.traits
SubType ==
    /\ handlers \subseteq Events /\ infos \subseteq Events /\ bound \subseteq Events
    /\ sub \in {"idle", "info", "setup", "receive", "consuming", "down"}
    /\ serve \in BOOLEAN /\ live \in BOOLEAN
ChanType == open \in BOOLEAN /\ group \in BOOLEAN /\ enabled \in BOOLEAN
CurType ==
    /\ held \subseteq Messages /\ cur \in Messages \cup {None}
    /\ step \in {"none", "process", "ack", "enable", "unanswered", "publish", "confirm"}
    /\ result \in {"none", "ok", "unprocessable", "transient"}
    /\ park \in {"none", "sent", "acked", "returned", "nacked", "silent"}
QueueType ==
    /\ loc \in [Messages -> Locations]
    /\ count \in [Messages -> 0..MaxCount]
    /\ rejected \in [Messages -> 0..MaxCount]
    /\ expired \in [Messages -> 0..MaxCount]
LotType == parked \subseteq Messages /\ late \subseteq Messages
HistType ==
    /\ handled \subseteq Messages /\ waited \in [Messages -> Nat]
    /\ troubles \in 0..MaxTroubles

\* TypeOK by the state it is about.
LEMMA TypeParts ==
    TypeOK <=> /\ CaseType /\ SubType /\ ChanType /\ CurType
               /\ QueueType /\ LotType /\ HistType
  BY DEF TypeOK, CaseType, SubType, ChanType, CurType, QueueType, LotType, HistType

\* What the options and the messages of a case are.
LEMMA CaseFacts ==
    ASSUME CaseType
    PROVE  /\ opts \in OptionSet
           /\ traits \in [Messages -> TraitSet]
           /\ PlainOptions(opts) \/ ParkingLotOptions(opts)
           /\ opts.limit \in Nat /\ opts.limit < MaxCount
           /\ opts.receiver \in {"plain", "parkinglot"}
           /\ MaxCount \in Nat /\ MaxRetries \in Nat /\ MaxTroubles \in Nat
           /\ None \notin Messages
<1>1. PICK c \in Cases : opts = c.opts /\ traits = c.traits
  BY DEF CaseType
<1>2. opts \in OptionSet /\ traits \in [Messages -> TraitSet]
      /\ (PlainOptions(opts) \/ ParkingLotOptions(opts)) /\ opts.limit < MaxCount
  BY <1>1, RabbitConsumeAssumption
<1> QED
  BY <1>2, RabbitConsumeAssumption DEF OptionSet

-----------------------------------------------------------------------------
(***************************************************************************)
(* The inductive invariant.                                                *)
(***************************************************************************)

\* The delivery the handler has, and what is known of it at each of its steps.
Handler ==
    /\ cur = None <=> step = "none"
    /\ step \in {"none", "process"} <=> result = "none"
    /\ cur # None => sub = "consuming" /\ cur \notin held
    /\ cur # None /\ open => loc[cur] = "unacked"
    /\ result = "ok" => cur \in handled
    /\ step \in {"enable", "unanswered", "publish", "confirm"} => opts.receiver = "parkinglot"
    /\ step = "confirm" <=> park # "none"
    /\ park = "acked" => cur \in parked

\* Prefetched deliveries are of the open channel.
Prefetched ==
    /\ open => sub = "consuming"
    /\ \A m \in held : open /\ loc[m] = "unacked"

\* The parking lot's wait queue leads back to the incoming queue while it is in use.
Topology ==
    /\ opts.receiver = "parkinglot" /\ (~opts.topology \/ sub \in {"receive", "consuming"})
          => {"topic", "bindWait", "bindRetry"} \subseteq declared
    /\ \A m \in Messages :
          loc[m] = "wait" => opts.receiver = "parkinglot" /\ "bindRetry" \in declared

\* Registration is closed before the handlers are read, and they are bound before Receive.
Latched ==
    /\ sub # "idle" => serve
    /\ sub \in {"setup", "receive", "consuming"} => infos = handlers
    /\ ~opts.bindings => bound = Events
    /\ opts.bindings /\ sub \in {"receive", "consuming"} => infos \subseteq bound

\* A plain receiver rejects a message once, and requeues it to its limit and once more.
Laps ==
    /\ opts.receiver = "plain" =>
         \A m \in Messages : rejected[m] = 0 \/ (rejected[m] = 1 /\ Stopped(m))
    /\ opts.limit > 0 =>
         \A m \in Messages : \/ count[m] <= opts.limit
                             \/ count[m] = opts.limit + 1 /\ Stopped(m)

\* An undisturbed plain receiver keeps its channel and its group.
Calm == opts.receiver = "plain" /\ troubles = 0 => live /\ group /\ (sub = "consuming" => open)

\* Undisturbed, a message was paced on every rung up to its redelivery count.
Paced ==
    \A m \in Messages :
        /\ opts.limit > 0 /\ troubles = 0 /\ traits[m].encoding = "integer"
        /\ count[m] > 0
        => waited[m] >= Rungs(count[m] - 1)

\* Every message acknowledged away was handled or parked, every discard was due.
Earned ==
    \A m \in Messages :
        /\ loc[m] = "gone" => m \in handled \cup parked
        /\ loc[m] = "discarded" => opts.receiver = "plain" /\ ~opts.dlx

Core == TypeOK /\ Handler /\ Prefetched /\ NoStranded
IInv == /\ Core /\ Topology /\ Earned /\ Latched /\ Laps /\ Calm /\ Paced
        /\ RetriesBounded

-----------------------------------------------------------------------------
(***************************************************************************)
(* Steps that several actions share.                                       *)
(***************************************************************************)

\* The delivery that the handler has is a message.
LEMMA CurKnown ==
    ASSUME TypeOK, Handler, step # "none"
    PROVE  cur \in Messages /\ cur # None /\ sub = "consuming"
  BY TypeParts, CaseFacts DEF CurType, Handler

\* An acknowledgement, a rejection and a requeue keep the queue's types.
LEMMA QueueSteps ==
    ASSUME CaseType, QueueType,
           \/ \E m \in Messages : Acked(m) \/ DeadLettered(m)
           \/ \E S \in SUBSET Messages : Requeued(S)
    PROVE  QueueType'
<1>0. MaxCount \in Nat
  BY CaseFacts
<1>1. ASSUME NEW m \in Messages, Acked(m)
      PROVE  QueueType'
  BY <1>1 DEF Acked, QueueType, Locations
<1>2. ASSUME NEW m \in Messages, DeadLettered(m)
      PROVE  QueueType'
  <2>1. \A f \in [Messages -> 0..MaxCount] : Counted(f, m) \in [Messages -> 0..MaxCount]
    BY <1>0 DEF Counted
  <2> QED
    BY <1>2, <2>1 DEF DeadLettered, QueueType, Locations
<1>3. ASSUME NEW S \in SUBSET Messages, Requeued(S)
      PROVE  QueueType'
  <2>1. loc' \in [Messages -> Locations]
    BY <1>3 DEF Requeued, QueueType, Locations
  <2>2. count' \in [Messages -> 0..MaxCount]
    BY <1>0, <1>3 DEF Requeued, QueueType
  <2> QED
    BY <1>3, <2>1, <2>2 DEF Requeued, QueueType
<1> QED
  BY <1>1, <1>2, <1>3

\* A requeue leaves well-typed queues, the delivery limit included.
LEMMA RequeueType ==
    ASSUME CaseType, QueueType, NEW m \in Messages, Requeue(m)
    PROVE  QueueType'
<1>1. CASE open
  <2>1. Requeued({m}) /\ {m} \in SUBSET Messages
    BY <1>1 DEF Requeue
  <2> QED
    BY <2>1, QueueSteps
<1>2. CASE ~open
  BY <1>2 DEF Requeue, queueVars, QueueType
<1> QED
  BY <1>1, <1>2

\* Within the bound, one more thing goes wrong.
LEMMA TroubleCounts ==
    ASSUME NEW what, Trouble(what), troubles \in 0..MaxTroubles
    PROVE  troubles' \in 0..MaxTroubles /\ troubles' = troubles + 1 /\ troubles' # 0
  BY RabbitConsumeAssumption DEF Trouble

\* The call of Enable, and the broker's part in it.
Enabling == ParkEnable \/ Handshake

\* The four ways in which a disposition fails.
Failing == ChannelGone \/ ParkEnableFails \/ ParkPublishFails \/ ParkRefused

\* What a failing acknowledgement leaves behind.
LEMMA FailingStep ==
    ASSUME TypeOK, Handler, Failing
    PROVE  /\ step \in {"ack", "enable", "unanswered", "publish", "confirm"}
           /\ AckFails
           /\ opts.receiver = "plain" => ~open
           /\ troubles' \in 0..MaxTroubles
           /\ troubles' = troubles \/ troubles' # 0
<1>1. troubles \in 0..MaxTroubles
  BY TypeParts DEF HistType
<1>2. CASE ChannelGone
  BY <1>1, <1>2 DEF ChannelGone
<1>3. CASE ParkEnableFails
  <2>1. step \in {"enable", "unanswered"} /\ opts.receiver = "parkinglot" /\ AckFails
    BY <1>3 DEF ParkEnableFails, Handler
  <2>2. troubles' = troubles \/ Trouble("handshake")
    BY <1>3 DEF ParkEnableFails
  <2> QED
    BY <1>1, <2>1, <2>2, TroubleCounts
<1>4. CASE ParkPublishFails
  BY <1>1, <1>4 DEF ParkPublishFails, Handler
<1>5. CASE ParkRefused
  BY <1>1, <1>5 DEF ParkRefused, Handler
<1> QED
  BY <1>2, <1>3, <1>4, <1>5 DEF Failing

\* A failed Setup leaves what it declared and bound, and nothing else.
LEMMA FailedSetup ==
    ASSUME SetupFails
    PROVE  /\ declared \subseteq declared'
           /\ bound \subseteq bound' /\ bound' \subseteq bound \cup infos
           /\ ~opts.bindings => bound' = bound
<1>1. CASE UNCHANGED topologyVars
  BY <1>1 DEF topologyVars
<1>2. CASE /\ \E n \in 0..(Len(Declarations) - 1) :
                declared' = declared \cup Range(SubSeq(Declarations, 1, n))
           /\ UNCHANGED bound
  BY <1>2
<1>3. CASE /\ opts.bindings
           /\ declared' = declared \cup (IF opts.topology THEN Range(Declarations) ELSE {})
           /\ \E some \in SUBSET infos \ {infos} : bound' = bound \cup some
  <2>1. declared \subseteq declared'
    BY <1>3
  <2>2. PICK some \in SUBSET infos : bound' = bound \cup some
    BY <1>3
  <2> QED
    BY <1>3, <2>1, <2>2
<1> QED
  BY <1>1, <1>2, <1>3 DEF SetupFails

\* What processing a message comes to.
LEMMA Results ==
    ASSUME TypeOK, NEW m \in Messages
    PROVE  ProcessDelivery(m) \subseteq {"ok", "unprocessable", "transient"}
<1>1. traits[m].kind \in {"ok", "flaky", "failing", "panic", "garbled"}
  BY TypeParts, CaseFacts DEF TraitSet, Kinds
<1> QED
  BY <1>1 DEF ProcessDelivery

-----------------------------------------------------------------------------
(***************************************************************************)
(* Type correctness.                                                       *)
(***************************************************************************)

\* The parts of TypeOK after a step.
LEMMA TypeRestored ==
    ASSUME CaseType', SubType', ChanType', CurType', QueueType', LotType', HistType'
    PROVE  TypeOK'
  BY DEF TypeOK, CaseType, SubType, ChanType, CurType, QueueType, LotType, HistType

\* Subscribing does not touch the queues, and types stay.
LEMMA SubscribingType ==
    ASSUME TypeOK, Handler,
           \/ \E e \in Events : RegisterHandler(e)
           \/ Subscribe \/ GetServiceInfo \/ Setup \/ SetupFails \/ Receive \/ Restart
           \/ Shutdown \/ DrainTimeout \/ Unbind
    PROVE  TypeOK'
<1>0. CaseType /\ SubType /\ ChanType /\ CurType /\ QueueType /\ LotType /\ HistType
  BY TypeParts
<1>1. UNCHANGED <<caseVars, held, curVars, queueVars, lotVars, histVars>>
  BY DEF RegisterHandler, Subscribe, GetServiceInfo, Setup, SetupFails, Receive, Restart,
         Shutdown, DrainTimeout, Unbind
<1>2. CaseType' /\ CurType' /\ QueueType' /\ LotType'
  BY <1>0, <1>1 DEF caseVars, curVars, queueVars, lotVars, CaseType, CurType, QueueType, LotType
<1>3. HistType'
  <2>1. troubles' = troubles \/ \E what : Trouble(what)
    BY DEF RegisterHandler, Subscribe, GetServiceInfo, Setup, SetupFails, Receive, Restart,
           Shutdown, DrainTimeout, Unbind
  <2>2. troubles' \in 0..MaxTroubles
    BY <1>0, <2>1, TroubleCounts DEF HistType
  <2> QED
    BY <1>0, <1>1, <2>2 DEF histVars, HistType
<1>4. SubType' /\ ChanType'
  <2>1. CASE \E e \in Events : RegisterHandler(e)
    BY <1>0, <2>1 DEF RegisterHandler, SubType, ChanType, chanVars, topologyVars
  <2>2. CASE Subscribe \/ GetServiceInfo \/ Shutdown
    BY <1>0, <2>2 DEF Subscribe, GetServiceInfo, Shutdown, SubType, ChanType, chanVars,
                      topologyVars
  <2>3. CASE Setup
    <3>1. bound' \subseteq Events
      BY <1>0, <2>3 DEF Setup, SubType
    <3> QED
      BY <1>0, <2>3, <3>1 DEF Setup, SubType, ChanType, chanVars
  <2>4. CASE SetupFails
    <3>1. bound \subseteq bound' /\ bound' \subseteq bound \cup infos
      BY <2>4, FailedSetup
    <3> QED
      BY <1>0, <2>4, <3>1 DEF SetupFails, SubType, ChanType, chanVars
  <2>5. CASE Receive
    BY <1>0, <2>5 DEF Receive, SubType, ChanType, topologyVars
  <2>6. CASE Restart
    BY <1>0, <2>6 DEF Restart, SubType, ChanType, topologyVars
  <2>7. CASE DrainTimeout \/ Unbind
    BY <1>0, <2>7 DEF DrainTimeout, Unbind, SubType, ChanType, subVars, chanVars, topologyVars
  <2> QED
    BY <2>1, <2>2, <2>3, <2>4, <2>5, <2>6, <2>7
<1> QED
  BY <1>2, <1>3, <1>4, TypeRestored

\* The broker's own steps.
LEMMA BrokerType ==
    ASSUME TypeOK, Handler,
           \/ \E m \in Messages : Publish(m) \/ Deliver(m) \/ WaitExpires(m) \/ LatePark(m)
           \/ BrokerPark
    PROVE  TypeOK'
<1>0. CaseType /\ SubType /\ ChanType /\ CurType /\ QueueType /\ LotType /\ HistType
  BY TypeParts
<1>1. UNCHANGED <<caseVars, subVars, chanVars, topologyVars, histVars>>
  BY DEF Publish, Deliver, WaitExpires, LatePark, BrokerPark
<1>2. CaseType' /\ SubType' /\ ChanType'
  BY <1>0, <1>1 DEF caseVars, subVars, chanVars, topologyVars, CaseType, SubType, ChanType
<1>3. HistType'
  <2>1. troubles' = troubles \/ \E what : Trouble(what)
    BY DEF Publish, Deliver, WaitExpires, LatePark, BrokerPark
  <2>2. troubles' \in 0..MaxTroubles
    BY <1>0, <2>1, TroubleCounts DEF HistType
  <2> QED
    BY <1>0, <1>1, <2>2 DEF histVars, HistType
<1>4. ASSUME NEW m \in Messages, Publish(m) \/ Deliver(m)
      PROVE  CurType' /\ QueueType' /\ LotType'
  BY <1>0, <1>4 DEF Publish, Deliver, CurType, QueueType, LotType, Locations, curVars, lotVars
<1>5. ASSUME NEW m \in Messages, WaitExpires(m)
      PROVE  CurType' /\ QueueType' /\ LotType'
  <2>1. MaxCount \in Nat
    BY <1>0, CaseFacts
  <2>2. expired' \in [Messages -> 0..MaxCount]
    BY <1>0, <1>5, <2>1 DEF WaitExpires, Counted, QueueType
  <2> QED
    BY <1>0, <1>5, <2>2 DEF WaitExpires, CurType, QueueType, LotType, Locations, curVars, lotVars
<1>6. ASSUME NEW m \in Messages, LatePark(m)
      PROVE  CurType' /\ QueueType' /\ LotType'
  BY <1>0, <1>6 DEF LatePark, CurType, QueueType, LotType, curVars, queueVars
<1>7. ASSUME BrokerPark
      PROVE  CurType' /\ QueueType' /\ LotType'
  <2>1. cur \in Messages
    BY <1>7, CurKnown DEF BrokerPark, Handler
  <2> QED
    BY <1>0, <1>7, <2>1 DEF BrokerPark, CurType, QueueType, LotType, queueVars, lotVars
<1> QED
  BY <1>2, <1>3, <1>4, <1>5, <1>6, <1>7, TypeRestored

\* The handler's steps.
LEMMA HandlerType ==
    ASSUME TypeOK, Handler,
           \/ \E m \in Messages : Handle(m)
           \/ Process \/ AckPlain \/ AckParkingLot \/ Failing
           \/ Enabling \/ ParkPublish \/ ParkConfirmed
    PROVE  TypeOK'
<1>0. CaseType /\ SubType /\ ChanType /\ CurType /\ QueueType /\ LotType /\ HistType
  BY TypeParts
<1>1. ASSUME NEW m \in Messages, Handle(m)
      PROVE  TypeOK'
  BY <1>0, <1>1, TypeRestored
     DEF Handle, caseVars, subVars, chanVars, topologyVars, queueVars,
         lotVars, histVars, CaseType, SubType, ChanType, CurType, QueueType, LotType, HistType
<1>2. ASSUME Process
      PROVE  TypeOK'
  <2>1. cur \in Messages
    BY <1>2, CurKnown DEF Process
  <2>2. PICK res \in ProcessDelivery(cur) :
          /\ handled' = IF res = "ok" THEN handled \cup {cur} ELSE handled
          /\ IF group
               THEN result' = res /\ step' = "ack" /\ UNCHANGED <<cur, park, queueVars>>
               ELSE Requeue(cur) /\ HandlerDone
    BY <1>2 DEF Process
  <2>3. res \in {"ok", "unprocessable", "transient"}
    BY <2>1, <2>2, Results
  <2>4. UNCHANGED <<caseVars, subVars, chanVars, held, topologyVars, lotVars, waited, troubles>>
    BY <1>2 DEF Process
  <2>5. CaseType' /\ SubType' /\ ChanType' /\ LotType' /\ HistType'
    BY <1>0, <2>1, <2>2, <2>4 DEF caseVars, subVars, chanVars, topologyVars, lotVars, CaseType,
                                  SubType, ChanType, LotType, HistType
  <2>6. CurType'
    BY <1>0, <2>2, <2>3, <2>4 DEF HandlerDone, CurType
  <2>7. QueueType'
    <3>1. CASE group
      BY <1>0, <2>2, <3>1 DEF queueVars, QueueType
    <3>2. CASE ~group
      BY <1>0, <2>1, <2>2, <3>2, RequeueType
    <3> QED
      BY <3>1, <3>2
  <2> QED
    BY <2>5, <2>6, <2>7, TypeRestored
<1>3. ASSUME HandlerDone, held' = held
      PROVE  CurType'
  BY <1>0, <1>3 DEF HandlerDone, CurType
<1>4. ASSUME AckPlain
      PROVE  TypeOK'
  <2>1. cur \in Messages /\ {cur} \in SUBSET Messages
    BY <1>4, CurKnown DEF AckPlain
  <2>2. CurType'
    BY <1>3, <1>4 DEF AckPlain
  <2>3. QueueType'
    BY <1>0, <1>4, <2>1, QueueSteps DEF AckPlain
  <2>4. waited' \in [Messages -> Nat]
    <3>1. DeliveryCount(cur) \in Nat
      BY <1>0, <2>1, CaseFacts DEF DeliveryCount, QueueType
    <3>2. RequeueDelay(DeliveryCount(cur)) \in Nat
      BY <3>1, DelayType
    <3>3. \/ waited' = waited
          \/ waited' = [waited EXCEPT ![cur] = @ + RequeueDelay(DeliveryCount(cur))]
      BY <1>4 DEF AckPlain
    <3> QED
      BY <1>0, <2>1, <3>2, <3>3 DEF HistType
  <2>5. UNCHANGED <<caseVars, subVars, chanVars, held, topologyVars, lotVars, handled, troubles>>
    BY <1>4 DEF AckPlain
  <2>6. CaseType' /\ SubType' /\ ChanType' /\ LotType' /\ HistType'
    BY <1>0, <2>4, <2>5 DEF caseVars, subVars, chanVars, topologyVars, lotVars, CaseType,
                            SubType, ChanType, LotType, HistType
  <2> QED
    BY <2>2, <2>3, <2>6, TypeRestored
<1>5. ASSUME AckParkingLot \/ ParkConfirmed
      PROVE  TypeOK'
  <2>1. cur \in Messages
    BY <1>5, CurKnown DEF AckParkingLot, ParkConfirmed
  <2>2. HandlerDone
        /\ UNCHANGED <<caseVars, subVars, chanVars, held, topologyVars, lotVars, histVars,
                       troubles>>
    BY <1>5 DEF AckParkingLot, ParkConfirmed
  <2>3. CurType'
    BY <1>3, <2>2
  <2>4. Acked(cur) \/ DeadLettered(cur) \/ UNCHANGED queueVars
    BY <1>5 DEF AckParkingLot, ParkConfirmed
  <2>5. QueueType'
    BY <1>0, <2>1, <2>4, QueueSteps DEF queueVars, QueueType
  <2>6. CaseType' /\ SubType' /\ ChanType' /\ LotType' /\ HistType'
    BY <1>0, <2>2 DEF caseVars, subVars, chanVars, topologyVars, lotVars, histVars, CaseType,
                      SubType, ChanType, LotType, HistType
  <2> QED
    BY <2>3, <2>5, <2>6, TypeRestored
<1>6. ASSUME Failing
      PROVE  TypeOK'
  <2>1. cur \in Messages
    BY <1>6, CurKnown, FailingStep
  <2>2. AckFails /\ troubles' \in 0..MaxTroubles
    BY <1>6, FailingStep
  <2>3. CurType'
    BY <1>3, <2>2 DEF AckFails
  <2>4. QueueType'
    BY <1>0, <2>1, <2>2, RequeueType DEF AckFails
  <2>5. CaseType' /\ SubType' /\ ChanType' /\ LotType' /\ HistType'
    BY <1>0, <2>2 DEF AckFails, caseVars, subVars, topologyVars, lotVars, histVars, CaseType,
                      SubType, ChanType, LotType, HistType
  <2> QED
    BY <2>3, <2>4, <2>5, TypeRestored
<1>7. ASSUME Enabling \/ ParkPublish
      PROVE  TypeOK'
  <2>0. troubles' \in 0..MaxTroubles
    <3>1. troubles' = troubles \/ Trouble("unanswered")
      BY <1>7 DEF Enabling, ParkEnable, Handshake, ParkPublish
    <3> QED
      BY <1>0, <3>1, TroubleCounts DEF HistType
  <2>1. CaseType' /\ SubType' /\ QueueType' /\ HistType'
    BY <1>0, <1>7, <2>0
       DEF Enabling, ParkEnable, Handshake, ParkPublish, caseVars, subVars, topologyVars,
           queueVars, histVars, CaseType, SubType, QueueType, HistType
  <2>2. ChanType' /\ CurType' /\ LotType'
    BY <1>0, <1>7 DEF
       Enabling, ParkEnable, Handshake, ParkPublish, chanVars, lotVars, ChanType, CurType, LotType
  <2> QED
    BY <2>1, <2>2, TypeRestored
<1> QED
  BY <1>1, <1>2, <1>4, <1>5, <1>6, <1>7

\* The channel is lost, or the consumer returns.
LEMMA EndType ==
    ASSUME TypeOK, Handler, ChannelLost \/ Stop
    PROVE  TypeOK'
<1>0. CaseType /\ SubType /\ ChanType /\ CurType /\ QueueType /\ LotType /\ HistType
  BY TypeParts
<1>1. QueueType'
  <2>1. \E S \in SUBSET Messages : Requeued(S)
    BY <1>0 DEF ChannelLost, Stop, CurType
  <2> QED
    BY <1>0, <2>1, QueueSteps
<1>2. CASE ChannelLost
  <2>1. park = "sent" => cur \in Messages
    BY CurKnown DEF Handler
  <2>2. troubles' \in 0..MaxTroubles
    BY <1>0, <1>2, TroubleCounts DEF ChannelLost, HistType
  <2>3. UNCHANGED <<caseVars, subVars, enabled, cur, step, result, topologyVars, late, histVars>>
    BY <1>2 DEF ChannelLost
  <2>4. CaseType' /\ SubType' /\ HistType'
    BY <1>0, <2>2, <2>3 DEF caseVars, subVars, topologyVars, histVars, CaseType, SubType, HistType
  <2>5. ChanType' /\ CurType' /\ LotType'
    BY <1>0, <1>2, <2>1, <2>3 DEF ChannelLost, ChanType, CurType, LotType
  <2> QED
    BY <1>1, <2>4, <2>5, TypeRestored
<1>3. CASE Stop
  <2>1. CaseType' /\ SubType' /\ HistType'
    BY <1>0, <1>3 DEF Stop, caseVars, topologyVars, histVars, CaseType, SubType, HistType
  <2>2. ChanType' /\ CurType' /\ LotType'
    BY <1>0, <1>3 DEF Stop, curVars, lotVars, ChanType, CurType, LotType
  <2> QED
    BY <1>1, <2>1, <2>2, TypeRestored
<1> QED
  BY <1>2, <1>3

\* The kinds of step the system takes.
LEMMA Steps ==
    ASSUME Next
    PROVE  \/ \E e \in Events : RegisterHandler(e)
           \/ Subscribe \/ GetServiceInfo \/ Setup \/ SetupFails \/ Receive \/ Restart
           \/ Shutdown \/ DrainTimeout \/ Unbind
           \/ \E m \in Messages : Publish(m) \/ Deliver(m) \/ WaitExpires(m) \/ LatePark(m)
           \/ BrokerPark
           \/ \E m \in Messages : Handle(m)
           \/ Process \/ AckPlain \/ AckParkingLot \/ Failing
           \/ Enabling \/ ParkPublish \/ ParkConfirmed
           \/ ChannelLost \/ Stop
  BY DEF Next, Consumer, Failing, Enabling

\* Every step keeps the types.
LEMMA TypeStep ==
    ASSUME TypeOK, Handler, [Next]_vars
    PROVE  TypeOK'
<1>1. CASE Next
  BY <1>1, Steps, SubscribingType, BrokerType, HandlerType, EndType
<1>2. CASE UNCHANGED vars
  BY <1>2 DEF vars, TypeOK
<1> QED
  BY <1>1, <1>2
-----------------------------------------------------------------------------
(***************************************************************************)
(* No delivery is stranded.                                                *)
(***************************************************************************)

\* Outside the handler a requeue moves unacknowledged deliveries only.
LEMMA RequeueMoves ==
    ASSUME QueueType, NEW S \in SUBSET Messages, Requeued(S)
    PROVE  /\ \A m \in S : loc'[m] \in {"queue", "dead", "discarded"}
           /\ \A m \in Messages \ S : loc'[m] = loc[m]
  BY DEF Requeued, QueueType

\* The handler lets go of its delivery, which is no longer unacknowledged.
LEMMA LetGo ==
    ASSUME Core, step # "none",
           HandlerDone, UNCHANGED <<caseVars, sub, open, held>>,
           handled \subseteq handled', parked \subseteq parked',
           \A m \in Messages \ {cur} : loc'[m] = loc[m],
           IF open THEN loc'[cur] # "unacked" ELSE loc'[cur] = loc[cur]
    PROVE  Handler' /\ Prefetched' /\ NoStranded'
<1>1. cur \in Messages /\ cur # None /\ sub = "consuming" /\ CurType
  BY CurKnown, TypeParts DEF Core
<1>2. Handler'
  BY DEF HandlerDone, Handler
<1>3. Prefetched'
  <2>1. \A m \in held : m # cur /\ m \in Messages
    BY <1>1 DEF Core, Handler, CurType
  <2> QED
    BY <2>1 DEF Core, Prefetched
<1>4. NoStranded'
  <2>1. SUFFICES ASSUME NEW m \in Messages, loc'[m] = "unacked"
                 PROVE  sub' = "consuming" /\ open' /\ m \in held'
    BY DEF NoStranded
  <2>2. CASE m # cur
    BY <1>1, <2>1, <2>2 DEF Core, NoStranded
  <2>3. CASE m = cur /\ ~open
    <3>1. FALSE
      BY <1>1, <2>1, <2>3 DEF Core, NoStranded
    <3> QED
      BY <3>1
  <2> QED
    BY <2>1, <2>2, <2>3
<1> QED
  BY <1>2, <1>3, <1>4

\* What a requeue, an acknowledgement and a rejection of the handler's delivery do to it.
LEMMA Disposals ==
    ASSUME Core, step # "none",
           \/ Requeue(cur)
           \/ open /\ (Acked(cur) \/ DeadLettered(cur) \/ Requeued({cur}))
           \/ ~open /\ UNCHANGED queueVars
    PROVE  /\ \A m \in Messages \ {cur} : loc'[m] = loc[m]
           /\ IF open THEN loc'[cur] # "unacked" ELSE loc'[cur] = loc[cur]
<1>1. cur \in Messages /\ QueueType /\ {cur} \in SUBSET Messages
  BY CurKnown, TypeParts DEF Core
<1>2. CASE ~open
  BY <1>2 DEF Requeue, queueVars
<1>3. CASE open /\ Requeued({cur})
  BY <1>1, <1>3, RequeueMoves
<1>4. CASE open /\ (Acked(cur) \/ DeadLettered(cur))
  BY <1>1, <1>4 DEF Acked, DeadLettered, QueueType
<1> QED
  BY <1>2, <1>3, <1>4 DEF Requeue

\* The steps of the handler.
LEMMA HandlerHandOff ==
    ASSUME Core,
           \/ \E m \in Messages : Handle(m)
           \/ Process \/ AckPlain \/ AckParkingLot \/ Failing
           \/ Enabling \/ ParkPublish \/ ParkConfirmed
    PROVE  Handler' /\ Prefetched' /\ NoStranded'
<1> DEFINE Goal == Handler' /\ Prefetched' /\ NoStranded'
<1>0. CurType /\ QueueType /\ TypeOK /\ Handler /\ CaseType
  BY TypeParts DEF Core
<1>1. ASSUME NEW m \in Messages, Handle(m)
      PROVE  Goal
  <2>1. m \in held /\ cur = None /\ cur' = m /\ held' = held \ {m} /\ step' = "process"
        /\ UNCHANGED <<result, park, loc, open, sub, opts, handled, parked>>
        /\ sub = "consuming" /\ open
    BY <1>1 DEF Handle, caseVars, subVars, chanVars, queueVars, histVars, lotVars
  <2>2. loc[m] = "unacked" /\ m # None
    BY <1>0, <2>1, CaseFacts DEF Core, Prefetched
  <2>3. result = "none" /\ park = "none"
    BY <1>0, <2>1 DEF Handler
  <2>4. Handler'
    BY <2>1, <2>2, <2>3 DEF Handler
  <2>5. Prefetched'
    BY <2>1 DEF Core, Prefetched
  <2>6. NoStranded'
    <3>1. \A n \in Messages : n # None
      BY <1>0, CaseFacts
    <3>2. \A n \in Messages : loc[n] = "unacked" => n \in held
      BY <2>1, <3>1 DEF Core, NoStranded
    <3> QED
      BY <2>1, <3>2 DEF NoStranded
  <2> QED
    BY <2>4, <2>5, <2>6
<1>2. ASSUME Process
      PROVE  Goal
  <2>1. step = "process" /\ step # "none" /\ UNCHANGED <<caseVars, sub, open, held, parked>>
    BY <1>2 DEF Process, subVars, chanVars, lotVars
  <2>2. cur \in Messages /\ cur # None
    BY <1>0, <2>1, CurKnown
  <2>3. PICK res \in ProcessDelivery(cur) :
          /\ handled' = IF res = "ok" THEN handled \cup {cur} ELSE handled
          /\ IF group
               THEN result' = res /\ step' = "ack" /\ UNCHANGED <<cur, park, queueVars>>
               ELSE Requeue(cur) /\ HandlerDone
    BY <1>2 DEF Process
  <2>4. res \in {"ok", "unprocessable", "transient"} /\ handled \subseteq handled'
    BY <1>0, <2>2, <2>3, Results
  <2>5. CASE ~group
    <3>1. HandlerDone /\ Requeue(cur)
      BY <2>3, <2>5
    <3> QED
      BY <2>1, <2>4, <3>1, Disposals, LetGo
  <2>6. CASE group
    <3>1. result' = res /\ step' = "ack" /\ UNCHANGED <<cur, park, loc>>
      BY <2>3, <2>6 DEF queueVars
    <3>2. res = "ok" => cur \in handled'
      BY <2>3
    <3>3. Handler'
      BY <1>0, <2>1, <2>2, <2>4, <3>1, <3>2 DEF Handler, caseVars
    <3>4. Prefetched' /\ NoStranded'
      BY <2>1, <3>1 DEF Core, Prefetched, NoStranded
    <3> QED
      BY <3>3, <3>4
  <2> QED
    BY <2>5, <2>6
<1>3. ASSUME AckPlain \/ AckParkingLot \/ ParkConfirmed
      PROVE  Goal
  <2>1. step # "none" /\ HandlerDone /\ UNCHANGED <<caseVars, sub, open, held, parked, handled>>
    BY <1>3 DEF AckPlain, AckParkingLot, ParkConfirmed, subVars, chanVars, lotVars, histVars
  <2>2. \/ open /\ (Acked(cur) \/ DeadLettered(cur) \/ Requeued({cur}))
        \/ ~open /\ UNCHANGED queueVars
    BY <1>3 DEF AckPlain, AckParkingLot, ParkConfirmed
  <2> QED
    BY <2>1, <2>2, Disposals, LetGo
<1>4. ASSUME Failing
      PROVE  Goal
  <2>1. step # "none" /\ AckFails
    BY <1>0, <1>4, FailingStep
  <2>2. HandlerDone /\ Requeue(cur) /\ UNCHANGED <<caseVars, sub, open, held, parked, handled>>
    BY <2>1 DEF AckFails, subVars, lotVars, histVars
  <2> QED
    BY <2>1, <2>2, Disposals, LetGo
<1>5. ASSUME Enabling \/ ParkPublish
      PROVE  Goal
  <2>1. UNCHANGED <<opts, sub, open, held, cur, result, loc, handled, parked>>
        /\ step \in {"ack", "enable", "publish"}
    BY <1>5 DEF
       Enabling, ParkEnable, Handshake, ParkPublish, caseVars, subVars, chanVars, queueVars, lotVars, histVars
  <2>2. Handler'
    <3>1. \/ /\ step \in {"ack", "enable"} /\ step' \in {"enable", "unanswered", "publish"}
             /\ park' = park /\ (step = "ack" => opts.receiver = "parkinglot")
          \/ step' = "confirm" /\ park' = "sent" /\ step = "publish"
      BY <1>5 DEF Enabling, ParkEnable, Handshake, ParkPublish
    <3> QED
      BY <1>0, <2>1, <3>1 DEF Handler
  <2>3. Prefetched' /\ NoStranded'
    BY <2>1 DEF Core, Prefetched, NoStranded
  <2> QED
    BY <2>2, <2>3
<1> QED
  BY <1>1, <1>2, <1>3, <1>4, <1>5

\* The other steps.
LEMMA OtherHandOff ==
    ASSUME Core,
           \/ \E e \in Events : RegisterHandler(e)
           \/ Subscribe \/ GetServiceInfo \/ Setup \/ SetupFails \/ Receive \/ Restart
           \/ Shutdown \/ DrainTimeout \/ Unbind
           \/ \E m \in Messages : Publish(m) \/ Deliver(m) \/ WaitExpires(m) \/ LatePark(m)
           \/ BrokerPark
           \/ ChannelLost \/ Stop
    PROVE  Handler' /\ Prefetched' /\ NoStranded'
<1> DEFINE Goal == Handler' /\ Prefetched' /\ NoStranded'
<1>0. CurType /\ QueueType /\ TypeOK /\ Handler /\ CaseType /\ Prefetched /\ NoStranded
  BY TypeParts DEF Core
<1>1. ASSUME \/ \E e \in Events : RegisterHandler(e)
             \/ Subscribe \/ GetServiceInfo \/ Setup \/ SetupFails \/ Receive \/ Restart
             \/ Shutdown \/ DrainTimeout \/ Unbind
      PROVE  Goal
  <2>1. UNCHANGED <<opts, held, cur, step, result, park, loc, handled, parked>>
    BY <1>1 DEF RegisterHandler, Subscribe, GetServiceInfo, Setup, SetupFails, Receive, Restart,
         Shutdown, DrainTimeout, Unbind, caseVars, curVars, queueVars, histVars, lotVars
  <2>2. \/ sub' = sub /\ open' = open
        \/ /\ sub # "consuming"
           /\ open' => sub' = "consuming"
           /\ open' = open \/ sub = "receive"
    <3>1. open => sub = "consuming"
      BY <1>0 DEF Prefetched
    <3>2. CASE \E e \in Events : RegisterHandler(e)
      BY <3>2 DEF RegisterHandler, chanVars
    <3>3. CASE Subscribe \/ GetServiceInfo \/ Setup \/ SetupFails
      BY <3>1, <3>3 DEF Subscribe, GetServiceInfo, Setup, SetupFails, chanVars
    <3>4. CASE Shutdown \/ DrainTimeout \/ Unbind
      BY <3>4 DEF Shutdown, DrainTimeout, Unbind, chanVars, subVars
    <3>5. CASE Receive
      BY <3>1, <3>5, CaseFacts, <1>0 DEF Receive
    <3>6. CASE Restart
      BY <3>1, <3>6 DEF Restart
    <3> QED
      BY <1>1, <3>2, <3>3, <3>4, <3>5, <3>6
  <2>3. CASE sub' = sub /\ open' = open
    BY <1>0, <2>1, <2>3 DEF Handler, Prefetched, NoStranded
  <2>4. CASE sub # "consuming" /\ (open' => sub' = "consuming")
    <3>1. cur = None /\ held = {} /\ \A m \in Messages : loc[m] # "unacked"
      BY <1>0, <2>4 DEF Handler, Prefetched, NoStranded
    <3> QED
      BY <1>0, <2>1, <2>4, <3>1 DEF Handler, Prefetched, NoStranded
  <2> QED
    BY <2>2, <2>3, <2>4
<1>2. ASSUME NEW m \in Messages, Publish(m) \/ Deliver(m) \/ WaitExpires(m)
      PROVE  Goal
  <2>1. UNCHANGED <<opts, sub, open, cur, step, result, park, handled, parked>>
        /\ loc[m] \in {"unsent", "queue", "wait"}
    BY <1>2 DEF Publish, Deliver, WaitExpires, caseVars, subVars, chanVars, curVars, histVars,
                lotVars
  <2>2. m \notin held /\ (open => m # cur)
    BY <1>0, <2>1, CaseFacts DEF Handler, Prefetched
  <2>3. \/ /\ loc' = [loc EXCEPT ![m] = "unacked"] /\ held' = held \cup {m}
           /\ open /\ sub = "consuming"
        \/ \E l \in {"queue", "discarded"} : loc' = [loc EXCEPT ![m] = l] /\ held' = held
    BY <1>2 DEF Publish, Deliver, WaitExpires
  <2>4. \A n \in Messages \ {m} : loc'[n] = loc[n]
    BY <1>0, <2>3 DEF QueueType
  <2>5. \/ loc'[m] = "unacked" /\ held' = held \cup {m} /\ open /\ sub = "consuming"
        \/ loc'[m] \in {"queue", "discarded"} /\ held' = held
    BY <1>0, <2>3 DEF QueueType
  <2>6. Handler'
    <3>1. cur # None /\ open => loc'[cur] = loc[cur] /\ cur \in Messages
      BY <1>0, <2>2, <2>4 DEF CurType
    <3>2. cur # None => cur \notin held'
      <4>1. CASE held' = held
        BY <1>0, <4>1 DEF Handler
      <4>2. CASE open /\ held' = held \cup {m}
        BY <1>0, <2>2, <4>2 DEF Handler
      <4> QED
        BY <2>5, <4>1, <4>2
    <3> QED
      BY <1>0, <2>1, <3>1, <3>2 DEF Handler
  <2>7. Prefetched'
    <3>1. \A n \in held : n # m /\ n \in Messages
      BY <1>0, <2>2 DEF CurType
    <3> QED
      BY <1>0, <2>1, <2>4, <2>5, <3>1 DEF Prefetched
  <2>8. NoStranded'
    BY <1>0, <2>1, <2>4, <2>5 DEF NoStranded
  <2> QED
    BY <2>6, <2>7, <2>8
<1>3. ASSUME BrokerPark \/ \E m \in Messages : LatePark(m)
      PROVE  Goal
  <2>1. UNCHANGED <<opts, sub, open, held, cur, step, result, loc, handled>>
    BY <1>3 DEF BrokerPark, LatePark, caseVars, subVars, chanVars, curVars, queueVars, histVars
  <2>2. parked \subseteq parked' /\ (park' = park \/ (park = "sent" /\ park' # "none"))
        /\ (park' = "acked" => park = "acked" \/ cur \in parked')
    <3>1. CASE BrokerPark
      BY <3>1 DEF BrokerPark, lotVars
    <3>2. CASE \E m \in Messages : LatePark(m)
      <4>1. park' = park /\ \E m \in Messages : parked' = parked \/ parked' = parked \cup {m}
        BY <3>2 DEF LatePark, curVars
      <4> QED
        BY <4>1
    <3> QED
      BY <1>3, <3>1, <3>2
  <2>3. Handler'
    BY <1>0, <2>1, <2>2 DEF Handler
  <2>4. Prefetched' /\ NoStranded'
    BY <1>0, <2>1 DEF Prefetched, NoStranded
  <2> QED
    BY <2>3, <2>4
<1>4. ASSUME ChannelLost
      PROVE  Goal
  <2>1. UNCHANGED <<opts, sub, cur, step, result, handled>> /\ ~open' /\ held' = {} /\ open
        /\ sub = "consuming"
    BY <1>4 DEF ChannelLost, caseVars, subVars, histVars
  <2>2. \A m \in Messages : loc'[m] # "unacked"
    <3> DEFINE S == {m \in Messages : loc[m] = "unacked"}
    <3>1. Requeued(S) /\ S \in SUBSET Messages
      BY <1>4 DEF ChannelLost
    <3>2. \A m \in Messages \ S : loc[m] # "unacked"
      OBVIOUS
    <3> HIDE DEF S
    <3> QED
      BY <1>0, <3>1, <3>2, RequeueMoves
  <2>3. parked \subseteq parked'
        /\ park' = IF park \in {"sent", "silent"} THEN "nacked" ELSE park
    BY <1>4 DEF ChannelLost
  <2>4. Handler'
    BY <1>0, <2>1, <2>3 DEF Handler
  <2>5. Prefetched' /\ NoStranded'
    BY <2>1, <2>2 DEF Prefetched, NoStranded
  <2> QED
    BY <2>4, <2>5
<1>5. ASSUME Stop
      PROVE  Goal
  <2>1. UNCHANGED <<opts, cur, step, result, park, handled, parked>> /\ ~open' /\ held' = {}
        /\ cur = None
    BY <1>5 DEF Stop, caseVars, curVars, histVars, lotVars
  <2>2. \A m \in Messages : loc'[m] # "unacked"
    <3>1. Requeued(held) /\ held \in SUBSET Messages
      BY <1>0, <1>5 DEF Stop, CurType
    <3>2. \A m \in Messages \ held : loc[m] # "unacked"
      BY <1>0, <2>1, CaseFacts DEF NoStranded
    <3> QED
      BY <1>0, <3>1, <3>2, RequeueMoves
  <2>3. Handler'
    BY <1>0, <2>1 DEF Handler
  <2>4. Prefetched' /\ NoStranded'
    BY <2>1, <2>2 DEF Prefetched, NoStranded
  <2> QED
    BY <2>3, <2>4
<1> QED
  BY <1>1, <1>2, <1>3, <1>4, <1>5

\* Types, the handler's delivery and the prefetched ones, at every step.
LEMMA CoreStep ==
    ASSUME Core, [Next]_vars
    PROVE  Core'
<1>1. TypeOK'
  BY TypeStep DEF Core
<1>2. CASE Next
  <2>1. Handler' /\ Prefetched' /\ NoStranded'
    BY <1>2, Steps, HandlerHandOff, OtherHandOff
  <2> QED
    BY <1>1, <2>1 DEF Core
<1>3. CASE UNCHANGED vars
  <2>1. Handler' /\ Prefetched' /\ NoStranded'
    BY <1>3 DEF Core, vars, Handler, Prefetched, NoStranded
  <2> QED
    BY <1>1, <2>1 DEF Core
<1> QED
  BY <1>2, <1>3
-----------------------------------------------------------------------------
(***************************************************************************)
(* The topology in use, and what leaves the queue.                         *)
(***************************************************************************)

\* What Setup declares for the parking lot is all there afterwards.
LEMMA ParkingLotDeclares ==
    ASSUME opts.receiver = "parkinglot"
    PROVE  {"topic", "bindWait", "bindRetry"} \subseteq Range(Declarations)
<1>1. Declarations = ParkingLotTopology
  BY DEF Declarations
<1>2. /\ ParkingLotTopology[1] = "topic" /\ ParkingLotTopology[5] = "bindWait"
      /\ ParkingLotTopology[6] = "bindRetry" /\ {1, 5, 6} \subseteq DOMAIN ParkingLotTopology
  BY DEF ParkingLotTopology
<1> QED
  BY <1>1, <1>2 DEF Range

\* The only thing an operator removes is the parking lot's binding.
LEMMA DeclaredStays ==
    ASSUME [Next]_vars
    PROVE  declared \ {"bindParkingLot"} \subseteq declared'
<1>1. CASE Setup \/ SetupFails \/ Unbind
  <2>1. CASE Setup
    BY <2>1 DEF Setup
  <2>2. CASE SetupFails
    BY <2>2, FailedSetup
  <2>3. CASE Unbind
    BY <2>3 DEF Unbind
  <2> QED
    BY <1>1, <2>1, <2>2, <2>3
<1>2. CASE Next /\ ~(Setup \/ SetupFails \/ Unbind)
  <2>1. declared' = declared
    BY <1>2, Steps DEF RegisterHandler, Subscribe, GetServiceInfo, Receive, Restart,
       Shutdown, DrainTimeout, Publish, Deliver, WaitExpires, LatePark, BrokerPark, Handle,
       Process, AckPlain, AckParkingLot, Failing, ChannelGone, ParkEnableFails,
       ParkPublishFails, ParkRefused, AckFails,
       Enabling, ParkEnable, Handshake, ParkPublish, ParkConfirmed,
       ChannelLost, Stop, topologyVars
  <2> QED
    BY <2>1
<1>3. CASE UNCHANGED vars
  BY <1>3 DEF vars
<1> QED
  BY <1>1, <1>2, <1>3

\* Where a step may send a message, and on what grounds.
Due(m) ==
    \/ loc'[m] = loc[m]
    \/ loc'[m] \in {"queue", "unacked", "dead"}
    \/ loc'[m] = "gone" /\ m \in handled \cup parked
    \/ loc'[m] = "wait" /\ opts.receiver = "parkinglot" /\ sub = "consuming"
    \/ loc'[m] = "discarded" /\ opts.receiver = "plain" /\ ~opts.dlx

\* Messages a lost channel held go back, or to the place their limit sends them.
LEMMA RequeuedDue ==
    ASSUME CaseType, QueueType, NEW S, Requeued(S), NEW m \in Messages
    PROVE  Due(m)
<1>1. opts.receiver = "parkinglot" => opts.limit = 0
  BY CaseFacts DEF PlainOptions, ParkingLotOptions
<1>2. opts.receiver \in {"plain", "parkinglot"}
  BY CaseFacts
<1> QED
  BY <1>1, <1>2 DEF Requeued, Due, QueueType

\* So does a message the receiver requeues.
LEMMA RequeueDue ==
    ASSUME CaseType, QueueType, NEW n, Requeue(n), NEW m \in Messages
    PROVE  Due(m)
<1>1. CASE open
  BY <1>1, RequeuedDue DEF Requeue
<1>2. CASE ~open
  BY <1>2 DEF Requeue, queueVars, Due
<1> QED
  BY <1>1, <1>2

\* A message leaves for good when it was handled, parked or dead-lettered.
LEMMA AckedDue ==
    ASSUME CaseType, QueueType, Topology, cur \in Messages, sub = "consuming", NEW m \in Messages,
           \/ Acked(cur) /\ cur \in handled \cup parked
           \/ DeadLettered(cur)
    PROVE  Due(m)
<1>1. CASE Acked(cur) /\ cur \in handled \cup parked
  BY <1>1 DEF Acked, Due, QueueType
<1>2. CASE DeadLettered(cur)
  <2>1. CASE m # cur
    BY <1>2, <2>1 DEF DeadLettered, Due, QueueType
  <2>2. CASE m = cur /\ opts.receiver = "parkinglot"
    <3>1. {"topic", "bindWait"} \subseteq declared
      BY <2>2 DEF Topology
    <3>2. loc'[cur] = "wait"
      BY <1>2, <2>2, <3>1 DEF DeadLettered, QueueType
    <3> QED
      BY <2>2, <3>2 DEF Due
  <2>3. CASE m = cur /\ opts.receiver = "plain"
    <3>1. loc'[cur] = IF opts.dlx THEN "dead" ELSE "discarded"
      BY <1>2, <2>3 DEF DeadLettered, QueueType
    <3> QED
      BY <2>3, <3>1 DEF Due
  <2> QED
    BY <2>1, <2>2, <2>3, CaseFacts
<1> QED
  BY <1>1, <1>2

\* A message ends in no place that no action may send it to.
LEMMA StepDue ==
    ASSUME Core, Topology, [Next]_vars, NEW m \in Messages
    PROVE  Due(m)
<1>0. CaseType /\ QueueType /\ TypeOK /\ Handler
  BY TypeParts DEF Core
<1>1. CASE \/ \E e \in Events : RegisterHandler(e)
           \/ Subscribe \/ GetServiceInfo \/ Setup \/ SetupFails \/ Receive \/ Restart
           \/ Shutdown \/ DrainTimeout \/ Unbind
  <2>1. loc' = loc
    BY <1>1 DEF RegisterHandler, Subscribe, GetServiceInfo, Setup, SetupFails, Receive, Restart,
         Shutdown, DrainTimeout, Unbind, queueVars
  <2> QED
    BY <2>1 DEF Due
<1>2. CASE \/ \E n \in Messages : Handle(n) \/ LatePark(n)
           \/ BrokerPark \/ Enabling \/ ParkPublish
  <2>1. loc' = loc
    BY <1>2 DEF Handle, LatePark, BrokerPark,
       Enabling, ParkEnable, Handshake, ParkPublish, queueVars
  <2> QED
    BY <2>1 DEF Due
<1>3. ASSUME NEW n \in Messages, Publish(n) \/ Deliver(n)
      PROVE  Due(m)
  BY <1>0, <1>3 DEF Publish, Deliver, Due, QueueType
<1>4. ASSUME NEW n \in Messages, WaitExpires(n)
      PROVE  Due(m)
  <2>1. loc' = [loc EXCEPT ![n] = "queue"]
    BY <1>4 DEF WaitExpires, Topology
  <2> QED
    BY <1>0, <2>1 DEF Due, QueueType
<1>5. CASE Process
  <2>1. UNCHANGED queueVars \/ Requeue(cur)
    BY <1>5 DEF Process
  <2> QED
    BY <1>0, <2>1, RequeueDue DEF queueVars, Due
<1>6. CASE AckPlain
  <2>1. \/ result = "ok" /\ Acked(cur)
        \/ DeadLettered(cur) \/ Requeued({cur})
    BY <1>6 DEF AckPlain
  <2>2. cur \in Messages /\ sub = "consuming" /\ (result = "ok" => cur \in handled)
    BY <1>0, <1>6, CurKnown DEF AckPlain, Handler
  <2> QED
    BY <1>0, <2>1, <2>2, AckedDue, RequeuedDue
<1>7. CASE AckParkingLot \/ ParkConfirmed
  <2>1. cur \in Messages /\ sub = "consuming"
        /\ (result = "ok" => cur \in handled) /\ (park = "acked" => cur \in parked)
    BY <1>0, <1>7, CurKnown DEF AckParkingLot, ParkConfirmed, Handler
  <2>2. \/ Acked(cur) /\ (result = "ok" \/ park = "acked")
        \/ DeadLettered(cur) \/ UNCHANGED queueVars
    BY <1>7 DEF AckParkingLot, ParkConfirmed
  <2>3. CASE UNCHANGED queueVars
    BY <2>3 DEF queueVars, Due
  <2> QED
    BY <1>0, <2>1, <2>2, <2>3, AckedDue
<1>8. CASE Failing
  <2>1. Requeue(cur)
    BY <1>0, <1>8, FailingStep DEF AckFails
  <2> QED
    BY <1>0, <2>1, RequeueDue
<1>9. CASE ChannelLost \/ Stop
  <2>1. \E S : Requeued(S)
    BY <1>9 DEF ChannelLost, Stop
  <2> QED
    BY <1>0, <2>1, RequeuedDue
<1>10. CASE UNCHANGED vars
  BY <1>10 DEF vars, Due
<1> QED
  BY <1>1, <1>2, <1>3, <1>4, <1>5, <1>6, <1>7, <1>8, <1>9, <1>10, Steps

\* What was handled or parked stays so, and the options never change.
LEMMA HistoryGrows ==
    ASSUME Core, [Next]_vars
    PROVE  handled \subseteq handled' /\ parked \subseteq parked' /\ opts' = opts /\ traits' = traits
<1>1. handled \subseteq handled'
  <2>1. CASE Process
    BY <2>1 DEF Process
  <2>2. CASE Next /\ ~Process
    BY <2>2, Steps DEF RegisterHandler, Subscribe, GetServiceInfo, Setup, SetupFails, Receive,
       Restart, Shutdown, DrainTimeout, Unbind, Publish, Deliver, WaitExpires, LatePark,
       BrokerPark, Handle, AckPlain, AckParkingLot, Failing, ChannelGone, ParkEnableFails,
       ParkPublishFails, ParkRefused, AckFails,
       Enabling, ParkEnable, Handshake, ParkPublish, ParkConfirmed,
       ChannelLost, Stop, histVars
  <2> QED
    BY <2>1, <2>2 DEF vars
<1>2. parked \subseteq parked'
  <2>1. CASE BrokerPark
    BY <2>1 DEF BrokerPark, lotVars
  <2>2. CASE ChannelLost
    BY <2>2 DEF ChannelLost
  <2>3. ASSUME NEW m \in Messages, LatePark(m)
        PROVE  parked \subseteq parked'
    BY <2>3 DEF LatePark
  <2>4. CASE Next /\ ~BrokerPark /\ ~ChannelLost /\ ~\E m \in Messages : LatePark(m)
    BY <2>4, Steps DEF RegisterHandler, Subscribe, GetServiceInfo, Setup, SetupFails, Receive,
       Restart, Shutdown, DrainTimeout, Unbind, Publish, Deliver, WaitExpires,
       Handle, Process, AckPlain, AckParkingLot, Failing, ChannelGone, ParkEnableFails,
       ParkPublishFails, ParkRefused, AckFails,
       Enabling, ParkEnable, Handshake, ParkPublish, ParkConfirmed,
       Stop, lotVars
  <2> QED
    BY <2>1, <2>2, <2>3, <2>4 DEF vars
<1>3. UNCHANGED caseVars
  <2>1. CASE Next
    BY <2>1, Steps DEF RegisterHandler, Subscribe, GetServiceInfo, Setup, SetupFails, Receive,
       Restart, Shutdown, DrainTimeout, Unbind, Publish, Deliver, WaitExpires, LatePark,
       BrokerPark, Handle, Process, AckPlain, AckParkingLot, Failing, ChannelGone,
       ParkEnableFails, ParkPublishFails, ParkRefused, AckFails,
       Enabling, ParkEnable, Handshake, ParkPublish,
       ParkConfirmed, ChannelLost, Stop
  <2> QED
    BY <2>1 DEF vars, caseVars
<1> QED
  BY <1>1, <1>2, <1>3 DEF caseVars

\* How a subscription gets to Receive.
LEMMA SubMoves ==
    ASSUME Core, [Next]_vars
    PROVE  \/ sub' = sub
           \/ sub' \in {"idle", "info", "setup", "down"}
           \/ sub' = "receive" /\ Setup
           \/ sub' = "consuming" /\ Receive
<1>1. CASE Subscribe \/ GetServiceInfo \/ Setup \/ SetupFails \/ Receive \/ Restart \/ Stop
  BY <1>1 DEF Subscribe, GetServiceInfo, Setup, SetupFails, Receive, Restart, Stop
<1>2. CASE Next /\ ~(Subscribe \/ GetServiceInfo \/ Setup \/ SetupFails \/ Receive \/ Restart
                     \/ Stop)
  <2>1. sub' = sub
    BY <1>2, Steps DEF RegisterHandler, Shutdown, DrainTimeout, Unbind, Publish, Deliver,
       WaitExpires, LatePark, BrokerPark, Handle, Process, AckPlain, AckParkingLot, Failing,
       ChannelGone, ParkEnableFails, ParkPublishFails, ParkRefused, AckFails,
       Enabling, ParkEnable, Handshake,
       ParkPublish, ParkConfirmed, ChannelLost, subVars
  <2> QED
    BY <2>1
<1> QED
  BY <1>1, <1>2 DEF vars

\* The wait queue's way back is declared before anything waits there.
LEMMA TopologyStep ==
    ASSUME Core, Topology, Earned, [Next]_vars
    PROVE  Topology' /\ Earned'
<1>1. handled \subseteq handled' /\ parked \subseteq parked' /\ opts' = opts
  BY HistoryGrows
<1>2. \A m \in Messages : Due(m)
  BY StepDue
<1>3. Earned'
  BY <1>1, <1>2 DEF Due, Earned
<1>4. \A d \in {"topic", "bindWait", "bindRetry"} : d \in declared => d \in declared'
  BY DeclaredStays
<1>5. ASSUME opts.receiver = "parkinglot", ~opts.topology \/ sub' \in {"receive", "consuming"}
      PROVE  {"topic", "bindWait", "bindRetry"} \subseteq declared'
  <2>1. CASE ~opts.topology \/ sub \in {"receive", "consuming"}
    BY <1>4, <1>5, <2>1 DEF Topology
  <2>2. CASE opts.topology /\ Setup
    <3>1. Range(Declarations) \subseteq declared'
      BY <2>2 DEF Setup
    <3> QED
      BY <1>5, <3>1, ParkingLotDeclares
  <2>3. Receive => sub = "receive"
    BY DEF Receive
  <2> QED
    BY <1>5, <2>1, <2>2, <2>3, SubMoves
<1>6. ASSUME NEW m \in Messages, loc'[m] = "wait"
      PROVE  opts.receiver = "parkinglot" /\ "bindRetry" \in declared'
  <2>1. CASE loc[m] = "wait"
    BY <1>4, <2>1 DEF Topology
  <2>2. CASE opts.receiver = "parkinglot" /\ sub = "consuming"
    BY <1>4, <2>2 DEF Topology
  <2> QED
    BY <1>2, <1>6, <2>1, <2>2 DEF Due
<1>7. Topology'
  BY <1>1, <1>5, <1>6 DEF Topology
<1> QED
  BY <1>3, <1>7

\* Registration, bindings and the latch between them.
LEMMA LatchedStep ==
    ASSUME Core, Latched, [Next]_vars
    PROVE  Latched'
<1>0. SubType /\ opts' = opts
  BY TypeParts, HistoryGrows DEF Core
<1>1. ASSUME NEW e \in Events, RegisterHandler(e)
      PROVE  Latched'
  BY <1>0, <1>1 DEF RegisterHandler, Latched, topologyVars
<1>2. CASE Subscribe
  BY <1>0, <1>2 DEF Subscribe, Latched, topologyVars
<1>3. CASE GetServiceInfo
  BY <1>0, <1>3 DEF GetServiceInfo, Latched, topologyVars
<1>4. CASE Setup
  <2>1. ~opts.bindings => bound' = bound
    BY <1>4 DEF Setup
  <2>2. opts.bindings => infos \subseteq bound'
    BY <1>4 DEF Setup
  <2>3. UNCHANGED <<handlers, serve, infos>> /\ sub = "setup" /\ sub' = "receive"
    BY <1>4 DEF Setup
  <2> QED
    BY <1>0, <2>1, <2>2, <2>3 DEF Latched
<1>5. CASE SetupFails
  <2>1. ~opts.bindings => bound' = bound
    BY <1>5, FailedSetup
  <2> QED
    BY <1>0, <1>5, <2>1 DEF SetupFails, Latched
<1>6. CASE Receive
  BY <1>0, <1>6 DEF Receive, Latched, topologyVars
<1>7. CASE Restart
  BY <1>0, <1>7 DEF Restart, Latched, topologyVars
<1>8. CASE Stop
  BY <1>0, <1>8 DEF Stop, Latched, topologyVars
<1>9. CASE Next /\ ~(\/ \E e \in Events : RegisterHandler(e)
                     \/ Subscribe \/ GetServiceInfo \/ Setup \/ SetupFails \/ Receive
                     \/ Restart \/ Stop)
  <2>1. UNCHANGED <<handlers, serve, infos, sub, bound>>
    BY <1>9, Steps DEF Shutdown, DrainTimeout, Unbind, Publish, Deliver,
       WaitExpires, LatePark, BrokerPark, Handle, Process, AckPlain, AckParkingLot, Failing,
       ChannelGone, ParkEnableFails, ParkPublishFails, ParkRefused, AckFails,
       Enabling, ParkEnable, Handshake,
       ParkPublish, ParkConfirmed, ChannelLost, subVars, topologyVars
  <2> QED
    BY <1>0, <2>1 DEF Latched
<1>10. CASE UNCHANGED vars
  BY <1>10 DEF vars, Latched
<1> QED
  BY <1>1, <1>2, <1>3, <1>4, <1>5, <1>6, <1>7, <1>8, <1>9, <1>10
-----------------------------------------------------------------------------
(***************************************************************************)
(* Retries and their pace.                                                 *)
(***************************************************************************)

\* A step that leaves the counts of message m alone, and m where it is once it has stopped.
Idle(m) ==
    /\ count'[m] = count[m] /\ rejected'[m] = rejected[m] /\ waited'[m] = waited[m]
    /\ Stopped(m) => loc'[m] = loc[m]

\* A step that rejects message m.
Rejects(m) ==
    /\ m = cur /\ step = "ack" /\ loc[m] = "unacked" /\ DeadLettered(m) /\ waited' = waited
    /\ opts.receiver = "parkinglot" => ~Parks /\ result # "ok"

\* A step that requeues message m; undisturbed, the receiver has paced it.
Requeues(m) ==
    /\ loc[m] = "unacked"
    /\ \E S \in SUBSET Messages : m \in S /\ Requeued(S)
    /\ \/ waited'[m] = waited[m] + RequeueDelay(DeliveryCount(m))
       \/ opts.receiver = "plain" => troubles' # 0
       \/ count[m] >= MaxCount

\* What went wrong stays counted.
LEMMA TroublesGrow ==
    ASSUME Core, [Next]_vars
    PROVE  troubles \in Nat /\ (troubles' = troubles \/ troubles' # 0)
<1>0. troubles \in 0..MaxTroubles /\ MaxTroubles \in Nat
  BY TypeParts, RabbitConsumeAssumption DEF Core, HistType
<1>1. CASE Failing
  BY <1>0, <1>1, FailingStep DEF Core
<1>2. CASE Next /\ ~Failing
  <2>1. troubles' = troubles \/ \E what : Trouble(what)
    BY <1>2, Steps DEF RegisterHandler, Subscribe, GetServiceInfo, Setup, SetupFails, Receive,
       Restart, Shutdown, DrainTimeout, Unbind, Publish, Deliver, WaitExpires, LatePark,
       BrokerPark, Handle, Process, AckPlain, AckParkingLot,
       Enabling, ParkEnable, Handshake, ParkPublish,
       ParkConfirmed, ChannelLost, Stop
  <2> QED
    BY <1>0, <2>1, TroubleCounts
<1> QED
  BY <1>0, <1>1, <1>2 DEF vars

\* Without troubles a plain receiver keeps its channel and its group.
LEMMA CalmStep ==
    ASSUME Core, Calm, [Next]_vars
    PROVE  Calm'
<1>0. opts' = opts /\ TypeOK /\ Handler /\ ChanType /\ Prefetched
  BY HistoryGrows, TypeParts DEF Core
<1>1. SUFFICES ASSUME opts.receiver = "plain", troubles' = 0
               PROVE  live' /\ group' /\ (sub' = "consuming" => open')
  BY <1>0 DEF Calm
<1>2. troubles = 0
  BY <1>1, TroublesGrow
<1>3. live /\ group /\ (sub = "consuming" => open)
  BY <1>1, <1>2 DEF Calm
<1>4. CASE Failing
  <2>1. sub = "consuming" /\ ~open
    BY <1>0, <1>1, <1>4, FailingStep, CurKnown
  <2> QED
    BY <1>3, <2>1
<1>5. CASE ChannelLost \/ Shutdown \/ DrainTimeout
  <2>1. \E what : Trouble(what)
    BY <1>5 DEF ChannelLost, Shutdown, DrainTimeout
  <2>2. troubles' = troubles + 1
    BY <2>1 DEF Trouble
  <2> QED
    BY <1>1, <1>2, <2>2
<1>6. CASE Subscribe \/ GetServiceInfo \/ Setup \/ SetupFails \/ Restart \/ Stop
  BY <1>3, <1>6 DEF Subscribe, GetServiceInfo, Setup, SetupFails, Restart, Stop, chanVars
<1>7. CASE Receive
  BY <1>3, <1>7 DEF Receive
<1>8. CASE \/ \E e \in Events : RegisterHandler(e)
           \/ Unbind \/ BrokerPark \/ Process \/ AckPlain \/ AckParkingLot
           \/ Enabling \/ ParkPublish \/ ParkConfirmed
           \/ \E m \in Messages : Publish(m) \/ Deliver(m) \/ WaitExpires(m) \/ LatePark(m)
           \/ \E m \in Messages : Handle(m)
  <2>1. UNCHANGED <<live, group, sub, open>>
    BY <1>8 DEF RegisterHandler, Unbind, Publish, Deliver, WaitExpires, LatePark,
       BrokerPark, Handle, Process, AckPlain, AckParkingLot,
       Enabling, ParkEnable, Handshake, ParkPublish,
       ParkConfirmed, subVars, chanVars
  <2> QED
    BY <1>3, <2>1
<1>9. CASE UNCHANGED vars
  BY <1>3, <1>9 DEF vars
<1> QED
  BY <1>4, <1>5, <1>6, <1>7, <1>8, <1>9, Steps

\* Undisturbed, a plain receiver requeues only what it has paced.
LEMMA RequeueUnpaced ==
    ASSUME CaseType, QueueType, NEW S \in SUBSET Messages, Requeued(S), waited' = waited,
           \A n \in S : loc[n] = "unacked", opts.receiver = "plain" => troubles' # 0,
           NEW m \in Messages
    PROVE  Idle(m) \/ Requeues(m)
<1>1. CASE m \in S
  BY <1>1 DEF Requeues
<1>2. CASE m \notin S
  BY <1>2 DEF Requeued, QueueType, Idle
<1> QED
  BY <1>1, <1>2

\* In a step a message makes no lap, is rejected, or is requeued.
LEMMA LapKinds ==
    ASSUME Core, Calm, [Next]_vars, NEW m \in Messages
    PROVE  Idle(m) \/ Rejects(m) \/ Requeues(m)
<1> DEFINE Goal == Idle(m) \/ Rejects(m) \/ Requeues(m)
<1>0. CaseType /\ QueueType /\ CurType /\ HistType /\ TypeOK /\ Handler /\ Prefetched
  BY TypeParts DEF Core
<1>1. CASE \/ \E e \in Events : RegisterHandler(e)
           \/ Subscribe \/ GetServiceInfo \/ Setup \/ SetupFails \/ Receive \/ Restart
           \/ Shutdown \/ DrainTimeout \/ Unbind
  <2>1. UNCHANGED <<loc, count, rejected, waited>>
    BY <1>1 DEF RegisterHandler, Subscribe, GetServiceInfo, Setup, SetupFails, Receive, Restart,
         Shutdown, DrainTimeout, Unbind, queueVars, histVars
  <2> QED
    BY <2>1 DEF Idle
<1>2. CASE \/ \E n \in Messages : Handle(n) \/ LatePark(n)
           \/ BrokerPark \/ Enabling \/ ParkPublish
  <2>1. UNCHANGED <<loc, count, rejected, waited>>
    BY <1>2 DEF Handle, LatePark, BrokerPark,
       Enabling, ParkEnable, Handshake, ParkPublish, queueVars, histVars
  <2> QED
    BY <2>1 DEF Idle
<1>3. ASSUME NEW n \in Messages, Publish(n) \/ Deliver(n) \/ WaitExpires(n)
      PROVE  Goal
  <2>1. UNCHANGED <<count, rejected, waited>> /\ ~Stopped(n) /\ \E l : loc' = [loc EXCEPT ![n] = l]
    BY <1>3 DEF Publish, Deliver, WaitExpires, histVars, Stopped
  <2>2. m # n => loc'[m] = loc[m]
    BY <1>0, <2>1 DEF QueueType
  <2> QED
    BY <2>1, <2>2 DEF Idle
<1>4. ASSUME Requeue(cur), step # "none", waited' = waited,
             opts.receiver = "plain" /\ open => troubles' # 0
      PROVE  Goal
  <2>1. cur \in Messages /\ cur # None
    BY <1>0, <1>4, CurKnown
  <2>2. CASE open
    <3>1. Requeued({cur}) /\ {cur} \in SUBSET Messages /\ \A n \in {cur} : loc[n] = "unacked"
      BY <1>0, <1>4, <2>1, <2>2 DEF Requeue, Handler
    <3> QED
      BY <1>0, <1>4, <2>2, <3>1, RequeueUnpaced
  <2>3. CASE ~open
    BY <1>4, <2>3 DEF Requeue, queueVars, Idle
  <2> QED
    BY <2>2, <2>3
<1>5. CASE Process
  <2>1. step # "none" /\ waited' = waited /\ troubles' = troubles
    BY <1>5 DEF Process
  <2>2. UNCHANGED queueVars \/ (Requeue(cur) /\ ~group)
    BY <1>5 DEF Process
  <2>3. CASE UNCHANGED queueVars
    BY <2>1, <2>3 DEF queueVars, Idle
  <2>4. CASE Requeue(cur) /\ ~group
    <3>1. opts.receiver = "plain" => troubles' # 0
      BY <2>1, <2>4 DEF Calm
    <3> QED
      BY <1>4, <2>1, <2>4, <3>1
  <2> QED
    BY <2>2, <2>3, <2>4
<1>6. CASE AckPlain
  <2>1. cur \in Messages /\ loc[cur] = "unacked" /\ opts.receiver = "plain" /\ step = "ack"
        /\ sub = "consuming" /\ {cur} \in SUBSET Messages
    BY <1>0, <1>6, CurKnown DEF AckPlain, Handler
  <2>2. CASE Acked(cur) /\ waited' = waited
    BY <1>0, <2>1, <2>2 DEF Acked, Idle, Stopped, QueueType
  <2>3. CASE DeadLettered(cur) /\ waited' = waited
    <3>1. CASE m = cur
      BY <2>1, <2>3, <3>1 DEF Rejects
    <3>2. CASE m # cur
      BY <1>0, <2>1, <2>3, <3>2 DEF DeadLettered, Counted, Idle, QueueType
    <3> QED
      BY <3>1, <3>2
  <2>4. CASE /\ Requeued({cur})
             /\ waited' = IF live /\ count[cur] < MaxCount
                         THEN [waited EXCEPT ![cur] = @ + RequeueDelay(DeliveryCount(cur))]
                         ELSE waited
    <3>1. CASE m # cur
      <4>1. waited'[m] = waited[m] /\ count'[m] = count[m] /\ rejected' = rejected /\ loc'[m] = loc[m]
        BY <1>0, <2>1, <2>4, <3>1 DEF Requeued, HistType, QueueType
      <4> QED
        BY <4>1 DEF Idle
    <3>2. CASE m = cur
      <4>1. MaxCount \in Nat /\ count[m] \in Int
        BY <1>0, CaseFacts DEF QueueType
      <4>2. troubles' = troubles
        BY <1>6 DEF AckPlain
      <4>3. ~live /\ opts.receiver = "plain" => troubles' # 0
        BY <4>2 DEF Calm
      <4>4. live /\ count[m] < MaxCount =>
              waited'[m] = waited[m] + RequeueDelay(DeliveryCount(m))
        BY <1>0, <2>4, <3>2 DEF HistType
      <4> QED
        BY <2>1, <2>4, <3>2, <4>1, <4>3, <4>4 DEF Requeues
    <3> QED
      BY <3>1, <3>2
  <2> QED
    BY <1>6, <2>2, <2>3, <2>4 DEF AckPlain
<1>7. CASE AckParkingLot \/ ParkConfirmed
  <2>1. cur \in Messages /\ (open => loc[cur] = "unacked") /\ waited' = waited
    BY <1>0, <1>7, CurKnown DEF AckParkingLot, ParkConfirmed, Handler, histVars
  <2>2. \/ Acked(cur) /\ open
        \/ DeadLettered(cur) /\ open /\ step = "ack" /\ ~Parks /\ result # "ok"
        \/ UNCHANGED queueVars
    BY <1>7 DEF AckParkingLot, ParkConfirmed
  <2>3. CASE UNCHANGED queueVars
    BY <2>1, <2>3 DEF queueVars, Idle
  <2>4. CASE Acked(cur) /\ open
    BY <1>0, <2>1, <2>4 DEF Acked, Idle, Stopped, QueueType
  <2>5. CASE DeadLettered(cur) /\ open /\ step = "ack" /\ ~Parks /\ result # "ok"
    <3>1. CASE m = cur
      BY <2>1, <2>5, <3>1 DEF Rejects
    <3>2. CASE m # cur
      BY <1>0, <2>1, <2>5, <3>2 DEF DeadLettered, Counted, Idle, QueueType
    <3> QED
      BY <3>1, <3>2
  <2> QED
    BY <2>2, <2>3, <2>4, <2>5
<1>8. CASE Failing
  <2>1. AckFails /\ step # "none" /\ (opts.receiver = "plain" => ~open)
    BY <1>0, <1>8, FailingStep
  <2> QED
    BY <1>4, <2>1 DEF AckFails, histVars
<1>9. CASE ChannelLost
  <2> DEFINE S == {n \in Messages : loc[n] = "unacked"}
  <2>1. Requeued(S) /\ S \in SUBSET Messages /\ \A n \in S : loc[n] = "unacked"
    BY <1>9 DEF ChannelLost
  <2>2. waited' = waited /\ troubles' # 0
    BY <1>0, <1>9, TroubleCounts DEF ChannelLost, histVars, HistType
  <2> HIDE DEF S
  <2> QED
    BY <1>0, <2>1, <2>2, RequeueUnpaced
<1>10. CASE Stop
  <2>1. Requeued(held) /\ held \in SUBSET Messages /\ \A n \in held : loc[n] = "unacked"
    BY <1>0, <1>10 DEF Stop, Prefetched, CurType
  <2>2. waited' = waited /\ (opts.receiver = "plain" => troubles' # 0)
    BY <1>10 DEF Stop, histVars, Calm
  <2> QED
    BY <1>0, <2>1, <2>2, RequeueUnpaced
<1>11. CASE UNCHANGED vars
  BY <1>11 DEF vars, Idle
<1> QED
  BY <1>1, <1>2, <1>3, <1>5, <1>6, <1>7, <1>8, <1>9, <1>10, <1>11, Steps

\* What a requeue does to the count of a message and where it sends it.
LEMMA RequeueCounts ==
    ASSUME Core, NEW m \in Messages, Requeues(m)
    PROVE  /\ rejected'[m] = rejected[m]
           /\ count'[m] = IF count[m] < MaxCount THEN count[m] + 1 ELSE count[m]
           /\ opts.limit > 0 /\ count[m] >= opts.limit => loc'[m] \in {"dead", "discarded"}
<1>1. PICK S \in SUBSET Messages : m \in S /\ Requeued(S)
  BY DEF Requeues
<1>2. QueueType /\ opts.limit \in Nat /\ count[m] \in Nat
  BY TypeParts, CaseFacts DEF Core, QueueType
<1> QED
  BY <1>1, <1>2 DEF Requeued, QueueType

\* A rejection counts one death.
LEMMA RejectCounts ==
    ASSUME Core, NEW m \in Messages, Rejects(m)
    PROVE  /\ count'[m] = count[m] /\ waited'[m] = waited[m]
           /\ rejected'[m] = IF rejected[m] = MaxCount THEN rejected[m] ELSE rejected[m] + 1
           /\ opts.receiver = "plain" => loc'[m] \in {"dead", "discarded"}
<1>1. QueueType /\ HistType
  BY TypeParts DEF Core
<1>2. DeadLettered(m) /\ waited' = waited
  BY DEF Rejects
<1>3. rejected'[m] = IF rejected[m] = MaxCount THEN rejected[m] ELSE rejected[m] + 1
  BY <1>1, <1>2 DEF DeadLettered, Counted, QueueType
<1>4. opts.receiver = "plain" => loc'[m] \in {"dead", "discarded"}
  BY <1>1, <1>2 DEF DeadLettered, QueueType
<1> QED
  BY <1>2, <1>3, <1>4 DEF DeadLettered

\* A plain receiver's laps end at the delivery limit.
LEMMA LapsStep ==
    ASSUME Core, Calm, Laps, [Next]_vars
    PROVE  Laps'
<1>0. opts' = opts /\ CaseType /\ QueueType
  BY HistoryGrows, TypeParts DEF Core
<1>1. opts.limit \in Nat /\ opts.limit < MaxCount /\ MaxCount \in Nat
  BY <1>0, CaseFacts
<1>2. ASSUME NEW m \in Messages
      PROVE  /\ opts.receiver = "plain" =>
                  rejected'[m] = 0 \/ (rejected'[m] = 1 /\ Stopped(m)')
             /\ opts.limit > 0 => \/ count'[m] <= opts.limit
                                  \/ count'[m] = opts.limit + 1 /\ Stopped(m)'
  <2>0. count[m] \in Nat /\ rejected[m] \in Nat /\ count[m] <= MaxCount
    BY <1>0, <1>1 DEF QueueType
  <2>1. CASE Idle(m)
    <3>1. Stopped(m) => Stopped(m)'
      BY <2>1 DEF Idle, Stopped
    <3> QED
      BY <2>1, <3>1 DEF Idle, Laps
  <2>2. CASE Rejects(m)
    <3>1. /\ count'[m] = count[m]
          /\ rejected'[m] = IF rejected[m] = MaxCount THEN rejected[m] ELSE rejected[m] + 1
          /\ opts.receiver = "plain" => Stopped(m)'
      BY <2>2, RejectCounts DEF Stopped
    <3>2. ~Stopped(m)
      BY <2>2 DEF Rejects, Stopped
    <3> QED
      BY <2>0, <3>1, <3>2 DEF Laps
  <2>3. CASE Requeues(m)
    <3>1. /\ rejected'[m] = rejected[m]
          /\ count'[m] = IF count[m] < MaxCount THEN count[m] + 1 ELSE count[m]
          /\ opts.limit > 0 /\ count[m] >= opts.limit => Stopped(m)'
      BY <2>3, RequeueCounts DEF Stopped
    <3>2. ~Stopped(m)
      BY <2>3 DEF Requeues, Stopped
    <3>3. opts.receiver = "plain" => rejected'[m] = 0
      BY <3>1, <3>2 DEF Laps
    <3>4. opts.limit > 0 => count[m] <= opts.limit
      BY <3>2 DEF Laps
    <3> QED
      BY <1>1, <2>0, <3>1, <3>3, <3>4
  <2> QED
    BY <2>1, <2>2, <2>3, LapKinds
<1> QED
  BY <1>0, <1>2 DEF Laps

\* Undisturbed, every requeue adds the rung it is on.
LEMMA PacedStep ==
    ASSUME Core, Calm, Laps, Paced, [Next]_vars
    PROVE  Paced'
<1>0. opts' = opts /\ traits' = traits /\ CaseType /\ QueueType /\ HistType
  BY HistoryGrows, TypeParts DEF Core
<1>1. opts.limit \in Nat /\ opts.limit < MaxCount /\ MaxCount \in Nat
      /\ (opts.limit > 0 => opts.receiver = "plain")
  BY <1>0, CaseFacts DEF PlainOptions, ParkingLotOptions
<1>2. ASSUME NEW m \in Messages, opts.limit > 0, troubles' = 0,
             traits[m].encoding = "integer", count'[m] > 0
      PROVE  waited'[m] >= Rungs(count'[m] - 1)
  <2>0. count[m] \in Nat /\ waited[m] \in Nat
    BY <1>0, <1>1 DEF QueueType, HistType
  <2>1. troubles = 0
    BY <1>2, TroublesGrow
  <2>2. count[m] > 0 => waited[m] >= Rungs(count[m] - 1)
    BY <1>2, <2>1 DEF Paced
  <2>3. CASE Idle(m)
    BY <1>2, <2>2, <2>3 DEF Idle
  <2>4. CASE Rejects(m)
    BY <1>2, <2>2, <2>4, RejectCounts
  <2>5. CASE Requeues(m)
    <3>1. ~Stopped(m) /\ count[m] <= opts.limit
      BY <1>2, <2>5 DEF Requeues, Stopped, Laps
    <3>2. count[m] < MaxCount
      BY <1>1, <2>0, <3>1
    <3>3. count'[m] = count[m] + 1
      BY <2>5, <3>2, RequeueCounts
    <3>4. waited'[m] = waited[m] + RequeueDelay(count[m])
      <4>1. DeliveryCount(m) = count[m]
        BY <1>2 DEF DeliveryCount
      <4>2. ~(count[m] >= MaxCount)
        BY <1>1, <2>0, <3>2
      <4> QED
        BY <1>1, <1>2, <2>5, <4>1, <4>2 DEF Requeues
    <3>5. CASE count[m] = 0
      <4>1. waited'[m] = waited[m] + RequeueDelay(0) /\ count'[m] - 1 = 0
        BY <3>3, <3>4, <3>5
      <4>2. Rungs(0) = RequeueDelay(0) /\ Rungs(0) \in Nat
        BY RungsStep
      <4> QED
        BY <2>0, <4>1, <4>2
    <3>6. CASE count[m] > 0
      <4> DEFINE n == count[m] - 1
      <4>1. n \in Nat /\ n + 1 = count[m] /\ count'[m] - 1 = n + 1
        BY <2>0, <3>3, <3>6
      <4>2. waited[m] >= Rungs(n) /\ waited'[m] = waited[m] + RequeueDelay(n + 1)
        BY <2>2, <3>4, <3>6, <4>1
      <4> HIDE DEF n
      <4>3. Rungs(n) \in Nat /\ Rungs(n + 1) = Rungs(n) + RequeueDelay(n + 1)
        BY <4>1, RungsStep
      <4>4. RequeueDelay(n + 1) \in Nat
        BY <4>1, DelayType
      <4>5. waited'[m] >= Rungs(n + 1)
        BY <2>0, <4>2, <4>3, <4>4
      <4> QED
        BY <4>1, <4>5
    <3> QED
      BY <2>0, <3>5, <3>6
  <2> QED
    BY <2>3, <2>4, <2>5, LapKinds
<1> QED
  BY <1>0, <1>2 DEF Paced

\* A message that still has a lap left has been rejected fewer times than the budget.
LEMMA LapLeft ==
    ASSUME TypeOK, NEW m \in Messages, Evaluable(m),
           rejected[m] > 0, ~HasExceededRetryCount(m)
    PROVE  rejected[m] < MaxRetries
<1>1. rejected[m] \in Nat /\ MaxRetries \in Nat /\ traits[m].death \in {"own", "first"}
  <2>1. traits[m].death \in DeathHeaders /\ rejected[m] \in 0..MaxCount
    BY TypeParts, CaseFacts DEF QueueType, TraitSet
  <2>2. traits[m].death \notin {"entry", "unnamed", "flattened"}
    BY DEF Evaluable, DeathReadable, FirstDeathQueue
  <2> QED
    BY <2>1, <2>2, CaseFacts, TypeParts DEF DeathHeaders
<1> DEFINE death == [queue |-> "incoming", count |-> rejected[m]]
           first == {d \in XDeath(m) : d.queue = FirstDeathQueue(m)}
           deaths == IF first # {} THEN first ELSE XDeath(m)
<1>2. death \in XDeath(m)
  BY DEF XDeath
<1>3. \A d \in XDeath(m) : d.queue \in {"incoming", "wait"}
  BY <1>1 DEF XDeath
<1>4. death \in deaths
  <2>1. CASE traits[m].death = "own"
    BY <1>2, <2>1 DEF FirstDeathQueue
  <2>2. CASE traits[m].death = "first"
    <3>1. FirstDeathQueue(m) = "foreign"
      BY <2>2 DEF FirstDeathQueue
    <3>2. first = {}
      BY <1>3, <3>1
    <3> QED
      BY <1>2, <3>2
  <2> QED
    BY <1>1, <2>1, <2>2
<1>5. ~(death.count >= MaxRetries)
  BY <1>4 DEF HasExceededRetryCount, Evaluable
<1> QED
  BY <1>1, <1>5

\* The parking-lot receiver's laps end at the retry budget.
LEMMA RetriesStep ==
    ASSUME Core, Calm, Laps, RetriesBounded, [Next]_vars
    PROVE  RetriesBounded'
<1>0. opts' = opts /\ traits' = traits /\ CaseType /\ QueueType /\ TypeOK /\ Handler /\ CurType
  BY HistoryGrows, TypeParts DEF Core
<1>1. MaxCount \in Nat /\ MaxRetries \in Nat /\ opts.receiver \in {"plain", "parkinglot"}
      /\ RetryBudget \in Nat /\ RetryBudget >= 1 /\ (MaxRetries # 0 => RetryBudget = MaxRetries)
  BY <1>0, CaseFacts DEF RetryBudget
<1>2. ASSUME NEW m \in Messages, Evaluable(m)
      PROVE  rejected'[m] <= RetryBudget
  <2>0. rejected[m] \in Nat /\ rejected[m] <= RetryBudget
    BY <1>0, <1>2 DEF QueueType, RetriesBounded
  <2>1. CASE Idle(m)
    BY <2>0, <2>1 DEF Idle
  <2>2. CASE Requeues(m)
    BY <2>0, <2>2, RequeueCounts
  <2>3. CASE Rejects(m) /\ opts.receiver = "plain"
    <3>1. Laps'
      BY LapsStep
    <3>2. rejected'[m] = 0 \/ rejected'[m] = 1
      BY <1>0, <2>3, <3>1 DEF Laps
    <3> QED
      BY <1>1, <3>2
  <2>4. CASE Rejects(m) /\ opts.receiver = "parkinglot"
    <3>1. m = cur /\ step = "ack" /\ ~Parks /\ result # "ok"
      BY <2>4 DEF Rejects
    <3>2. result = "transient"
      BY <1>0, <3>1 DEF Handler, CurType, Parks
    <3>3. ~HasExceededRetryCount(m)
      BY <3>1, <3>2 DEF Parks
    <3>4. rejected[m] > 0 => rejected[m] < MaxRetries
      BY <1>0, <1>2, <3>3, LapLeft
    <3>5. rejected'[m] = rejected[m] \/ rejected'[m] = rejected[m] + 1
      BY <2>4, RejectCounts
    <3> QED
      BY <1>1, <2>0, <3>4, <3>5
  <2> QED
    BY <1>1, <2>1, <2>2, <2>3, <2>4, LapKinds
<1> QED
  BY <1>0, <1>2 DEF RetriesBounded, Evaluable, DeathReadable, CountReadable,
                         FirstDeathQueue
-----------------------------------------------------------------------------
(***************************************************************************)
(* The theorems.                                                           *)
(***************************************************************************)

\* The invariant holds at the start.
LEMMA IInvInit == Init => IInv
<1> SUFFICES ASSUME Init PROVE IInv
  OBVIOUS
<1>0. CaseType /\ MaxTroubles \in Nat /\ MaxCount \in Nat
  BY RabbitConsumeAssumption DEF Init, CaseType
<1>1. TypeOK
  <2>1. SubType /\ ChanType /\ CurType
    BY DEF Init, SubType, ChanType, CurType
  <2>2. QueueType /\ LotType /\ HistType
    BY <1>0 DEF Init, QueueType, LotType, HistType, Locations
  <2> QED
    BY <1>0, <2>1, <2>2, TypeParts
<1>2. /\ sub = "idle" /\ cur = None /\ step = "none" /\ result = "none" /\ park = "none"
      /\ held = {} /\ ~open /\ live /\ group
      /\ \A m \in Messages : /\ loc[m] = "unsent" /\ count[m] = 0 /\ rejected[m] = 0
  BY DEF Init
<1>3. Handler /\ Prefetched /\ NoStranded
  BY <1>2 DEF Handler, Prefetched, NoStranded
<1>4. Topology
  <2>1. opts.receiver = "parkinglot" /\ ~opts.topology => Range(Declarations) \subseteq declared
    BY DEF Init
  <2> QED
    BY <1>2, <2>1, ParkingLotDeclares DEF Topology
<1>5. Earned /\ Calm /\ Paced
  BY <1>2 DEF Earned, Calm, Paced
<1>6. Latched
  BY <1>2 DEF Init, Latched
<1>7. Laps
  <2>1. opts.limit \in Nat
    BY <1>0, CaseFacts
  <2> QED
    BY <1>2, <2>1 DEF Laps
<1>8. RetriesBounded
  <2>1. RetryBudget \in Nat
    BY RabbitConsumeAssumption DEF RetryBudget
  <2> QED
    BY <1>2, <2>1 DEF RetriesBounded
<1> QED
  BY <1>1, <1>3, <1>4, <1>5, <1>6, <1>7, <1>8 DEF IInv, Core

\* Every step keeps it.
LEMMA IInvStep == IInv /\ [Next]_vars => IInv'
<1> SUFFICES ASSUME IInv, [Next]_vars PROVE IInv'
  OBVIOUS
<1>1. Core'
  BY CoreStep DEF IInv
<1>2. Topology' /\ Earned'
  BY TopologyStep DEF IInv
<1>3. Latched'
  BY LatchedStep DEF IInv
<1>4. Calm' /\ Laps' /\ Paced' /\ RetriesBounded'
  BY CalmStep, LapsStep, PacedStep, RetriesStep DEF IInv
<1> QED
  BY <1>1, <1>2, <1>3, <1>4 DEF IInv

\* The inductive invariant of the subscription.
LEMMA Invariance == Spec => []IInv
  BY IInvInit, IInvStep, PTL DEF Spec

(***************************************************************************)
(* Every variable keeps its type; in particular the pause of               *)
(* WithRequeueBackoff is never negative, whatever the base, the cap and    *)
(* the redelivery count (RequeueDelay).                                    *)
(***************************************************************************)
THEOREM TypeCorrect == Spec => []TypeOK
<1>1. IInv => TypeOK
  BY DEF IInv, Core
<1> QED
  BY <1>1, Invariance, PTL

(***************************************************************************)
(* What the broker holds unacknowledged is prefetched or in the handler of *)
(* a running consumer, on every path out of consume.Run: no delivery is    *)
(* left to wait for the channel to die.                                    *)
(***************************************************************************)
THEOREM NoStrandedHolds == Spec => []NoStranded
<1>1. IInv => NoStranded
  BY DEF IInv, Core
<1> QED
  BY <1>1, Invariance, PTL

(***************************************************************************)
(* A message acknowledged away was handled, or a copy of it is in the      *)
(* parking lot; a message is discarded by a plain receiver without a       *)
(* dead-letter exchange only; and one that spends its delivery limit in an *)
(* undisturbed subscription was paced through the whole ladder of          *)
(* WithRequeueBackoff.                                                     *)
(***************************************************************************)
THEOREM NothingLostHolds == Spec => []NothingLost
<1>1. ASSUME IInv
      PROVE  NothingLost
  <2>0. CaseType /\ QueueType /\ opts.limit \in Nat
    BY <1>1, TypeParts, CaseFacts DEF IInv, Core
  <2>1. SUFFICES ASSUME NEW m \in Messages,
                        opts.limit > 0 /\ count[m] > opts.limit
                          /\ traits[m].encoding = "integer" /\ troubles = 0
                 PROVE  waited[m] >= Ladder
    BY <1>1 DEF IInv, Earned, NothingLost
  <2>2. count[m] = opts.limit + 1
    BY <1>1, <2>0, <2>1 DEF IInv, Laps, QueueType
  <2>3. waited[m] >= Rungs(count[m] - 1)
    BY <1>1, <2>0, <2>1, <2>2 DEF IInv, Paced
  <2>4. count[m] - 1 = opts.limit
    BY <2>0, <2>2
  <2> QED
    BY <2>3, <2>4 DEF Ladder
<1> QED
  BY <1>1, Invariance, PTL

(***************************************************************************)
(* The retry budget of the parking lot holds on every lap for a message    *)
(* whose headers let hasExceededRetryCount evaluate it (Evaluable), one    *)
(* that arrives with another consumer's x-first-death-queue included.      *)
(* Nothing is claimed of the others: an x-death that is not an array, no   *)
(* x-first-death-queue, a count that is not an integer, and an entry of    *)
(* another consumer are retried without a budget.                          *)
(***************************************************************************)
THEOREM RetriesBoundedHolds == Spec => []RetriesBounded
<1>1. IInv => RetriesBounded
  BY DEF IInv
<1> QED
  BY <1>1, Invariance, PTL

(***************************************************************************)
(* A running subscription is bound for every event it has a handler for,   *)
(* in whatever order handlers are registered, Subscribe is called and      *)
(* processes are restarted.                                                *)
(***************************************************************************)
THEOREM HandlersBoundHolds == Spec => []HandlersBound
<1>1. ASSUME IInv
      PROVE  HandlersBound
  <2>1. SubType
    BY <1>1, TypeParts DEF IInv, Core
  <2> QED
    BY <1>1, <2>1 DEF IInv, Latched, HandlersBound, SubType
<1> QED
  BY <1>1, Invariance, PTL
=============================================================================
