# A TLA+ verification of protoevent-go

protoevent-go publishes protobuf events through transports (RabbitMQ, an in-memory
channel) and, for publishers that need atomicity with their database, through a
transactional **outbox**: the event is a row of the business transaction, and a *relay*
reads committed rows in order and forwards them. The outbox and its relays carry the
library's hardest logic - concurrent publishers, leader election, crashes between a send
and its commit, ordering, retention; the RabbitMQ sender and receivers, the lane between
relay and sender, and the path of an event from publisher to handler follow.

Paths below are relative to `src/pkg/transport/outbox/` unless they start with `src/`.

## 1. Inventory

| Component | State it keeps | Operations | Interacts with | What is hard, what must hold |
|---|---|---|---|---|
| **TiDB outbox log** `tidb/store.go`, `tidb/migrations` | `outbox_messages` (id, seq, tx_start_ts, event_id), `outbox_sequencers.next_seq` | `CreateOutboxMessage`, `SequenceMessages` | publishers' transactions; every relay's sequencer pass | several sequencers and publishers interleave; a pass is five round trips; ids are not commit order. Order respects causality, seq is dense, the log only grows at its tail |
| **TiDB relay store** `tidb/store.go` | `outbox_offsets`, `relay_locks` | `ListMessages`, `Offset`, `CommitOffset(Fenced)`, `InitOffsetLatest`, `DeleteOffset`, `TryAcquire/ReleaseLeaderLock`, `SweepMessages` | called by the sequence relay | writes whose answer is lost; a sweep against lagging or new groups; leases judged by process clocks |
| **Sequence relay** `relay/sequence` | per pass: offset, page, outcome; per process: run context | `Run`, `RunOnce`, `primeOffset`, `sequence`, `drain`, `drainPage`, `maybeSweep` | store, elector, lane | superseded leaders, crash between send and commit, shutdown mid-page, priming order. At least once, in order, nothing swept before it is delivered, eventually delivered |
| **Lane** `internal/lane` | stuck tracker | `Send`, `SendBatch`, `Park`, `Stuck` | transports, PoisonHandler | partial batches, unconfirmed parks. Only a confirmed prefix advances |
| **Leader elector** `internal/leader`, `internal/relaycfg` | `isLeader`, holder id, TTL | `TryAcquire`, `Release` | relay stores | clock skew, lost answers. At most one leader while skew < TTL; release never removes a successor's lock |
| **Stuck tracker, reporter** `internal/notify` | one episode | `Progress`, `Stuck`, `MessageFailure` | lane | one escalation per episode, none lost |
| **Stream relay** `relay/stream` | cursor, baseline token, last saved token | `Run`, `RunOnce`, `drainWindow`, `saveToken` | MongoDB store, lane, elector | first window of a fresh group, reopen positions, two leaders saving tokens |
| **MongoDB store** `mongodb` | offsets with resume token, key and cluster time; locks | `CreateOutboxMessage`, `Load/Save/DeleteToken`, `Watch`, lock | stream relay | two guard modes (keyed and coarse) for monotone tokens |
| **Context budgets** `internal/bound` | deadlines | `Call`, `Commit`, `ShutdownScope`, `Salvaged` | all of the above | a commit outlives a cancel but not by much; the shutdown tail is bounded |
| **RabbitMQ sender, confirms** `src/pkg/transport/rabbitmq/sender.go`, `internal/publish` | per channel: confirm mode, handshake in flight, returns and who reads them | `Setup`, `Send`, `SendBatch`, `Enable`, `Lock`, `Took` | amqpx pool, broker | one handshake shared by callers that may give up on it; acks out of order; a return names no publish. Only a confirmed prefix is counted, every call returns |
| **RabbitMQ receivers** `receiver.go`, `internal/consume`, `parkinglot` | none per delivery | `Setup`, `Run`, `doAcknowledge`, `putIntoParkingLot` | broker, subscriber | every delivery acked, rejected, parked or requeued on every path out of the handler; park before ack; a bound on retries from headers others wrote |
| **gochan** `src/pkg/transport/gochan` | buffer of 20, done channel | `Send`, `Receive`, `Close` | publisher, subscriber | Send racing Close and the final drain |
| **Subscriber** `src/pkg/eventbus/subscriber.go` | handler maps, serve flag | `RegisterHandler`, `Subscribe`, `process` | receivers | registration against serving; a panicking handler |
| **Publisher** `src/pkg/eventbus/publisher.go` | default codec | `Publish` | senders | which metadata it lets through |
| **Metadata, envelope, marshalers** `src/pkg/event`, `envelope.go`, `rabbitmq/message` | none | `ValidateMetadata`, `Marshal`, `Unmarshal`, the row's JSON | publisher, outbox, relay, receivers | what one side accepts the other must carry: nothing lost or invented on the way, no row that wedges a lane |
| Outbox factory, interceptors, migrations, prometheus, test containers | none | - | - | wiring or I/O: not modelled |

## 2. Modules

```
CausalLog        <-- implemented by --  SequencedLog        (proofs: SequencedLogProofs)
                                            | one pass = one append of consecutive seqs
                                            v
                                        SequenceRelay        (proofs: SequenceRelayProofs)
StreamRelay                             (the MongoDB counterpart of SequenceRelay and its log;
                                         proofs: StreamRelayProofs)

RabbitSender  <-- extended by --  Lane  (a relay's lane composed with the sender it uses;
                                         proofs: RabbitSenderProofs, then LaneProofs)
RabbitConsume                           (subscriber, consume loop, both receivers, broker;
                                         proofs: RabbitConsumeProofs)
EventCodec    <-- used by --  EventPath (pure codecs; the path of an event through them;
                                         proofs: EventPathProofs)

MinMax: lemmas on least and greatest elements, and induction, that the proofs share
MCSequencedLog, MCSequenceRelay, MCStreamRelay, MCLane, MCRabbitConsume, MCEventPath:
TLC instances
```

**CausalLog** is what readers of the outbox are promised: events become visible a
transaction at a time; batches of visible events are appended at the tail without gaps,
every causal predecessor before its successor. An event depends on another if its
transaction began after the other's had committed.

**SequencedLog** is the code behind that promise. `BeginTx`/`CommitTx`/`AbortTx` are
TiDB's part (timestamps from one increasing source, rows visible at commit);
`CreateOutboxMessage` inserts a row with seq NULL and an id that is unique and increasing
within its transaction but arbitrary across them (TiDB nodes cache id ranges). A
sequencing pass is `Probe` (the idle fast path), `LockSequencer` (`BEGIN PESSIMISTIC`,
`SELECT next_seq ... FOR UPDATE`), `AssignSeq` (the window-function UPDATE over the first
`Limit` pending rows by `(tx_start_ts, id)`), `BumpSequencer` and `CommitSequence`; their
writes stay in `page`/`bumped` until COMMIT. `FailSequence` is any error, timeout or death
between them: ROLLBACK, or a discarded connection the server rolls back.

**SequenceRelay** is `relay/sequence/run.go` with the store it calls: any number of
instances of any number of groups, each stepping through ticks one external call at a
time (`pc` is the next call), against shared `retained` rows, `offsets` and lock
`holder`s. Messages are named by their seq, which SequencedLog justifies: a committed pass
appends consecutive values. The correspondence:

| Code | Actions |
|---|---|
| `RunOnce`, `Elector.TryAcquire` | `TryAcquire`, `TryAcquireUnknown` (applied, answer lost) |
| `renewLease` between pages | `RenewSequence`, `RenewDrain` (held, lost, failed) |
| `primeOffset` | `ReadOffset`, `InitOffsetLatest`, `RegisterFromBeginning`, `PrimeFails` |
| `sequence` | `Sequence`, `SequenceFails`, `EndSequence` |
| `drainPage` up to the lane | `ListMessages`, `ListFails` |
| `forward`, `lane.Send` | `LaneSend`; canceled: `ForwardCanceled` |
| `forwardBatched`, `lane.SendBatch` | `LaneSendBatch` |
| poison row, `lane.Park` | `PageForwarded`, `ParkPoison` |
| `commitOffset` and the page outcome | `CommitPage` with `CommitOffset`, `PageCommitted` |
| `maybeSweep` | `SweepMessages`, `SweepDone` |
| `Run`, shutdown, `Release` | `Start`, `Shutdown`, `Release`; environment: `Cancel`, `Crash` |
| publishers, operators | `PublishMessage`, `DeleteOffset` |

A message is `ok`, `unsendable` (the transport says it can never be sent) or `poison` (its
row does not decode). `disposed`, `excused` and `stale` are history variables: what was
delivered to or parked for a group, what it was never owed (at or below the offset it
registered at, or swept before), how much an instance forwarded without holding the lock.

**StreamRelay** is `relay/stream/run.go` with the MongoDB store (`mongodb/watch.go`,
`mongodb/store.go`) it calls: replicas of one group - groups share nothing but the oplog -
tailing a change stream. An oplog entry is its position; a resume token is the position it
resumes after; the offset document is `row`. `stream`, `baseline`, `lastSaved` and
`committedCT` are the fields of `Relay`; `handled`, `lastTok`, `lastCT` and `ending` the
locals of `drainWindow`.

| Code | Actions |
|---|---|
| `RunOnce`, election | `TryAcquire`, `NotLeader` (lost or failed: the stream is closed) |
| `LoadToken`, `Watch` | `LoadToken`; `Resume`, `OpenFresh` (no token: "now" and its baseline), `ResumeLost`, `OpenFails` |
| `drainWindow`, `Next` | `LaneSend`, `ParkPoison`, `Unparkable`, `EmptyWindow`, `NextLost` (fatal), `NextFails`, `WindowCanceled` |
| `saveToken`, `SaveToken` | `SaveToken` with the guard `Newer`, `AfterSave` |
| `Run`, shutdown, `Release` | `Start`, `Shutdown`, `Release`; environment: `Cancel`, `Crash` |
| publishers, other writers, the oplog cap, operators | `Append`, `Truncate`, `DeleteToken` |

An entry is an event that is `ok`, `unsendable`, or undecodable: `poison` (position known),
`undated` (resume token only), `garbled` (not even that: it cannot be parked); or an
`invalidate`; or `other`, a write the stream filters out but whose position a checkpoint
reaches. `first` is a history variable: where an instance first opened the stream of the
fresh group; what precedes it is `excused` once the group's row exists.

**RabbitSender** is `rabbitmq/sender.go` with `internal/publish`: callers with a deadline
each run a command on a pooled channel. `call[c]` is a caller's progress through `Send` or
`SendBatch`, `chan[ch]` a channel with its `Confirms` entry (handshake, return watch and
its lock). **Lane** extends it: one caller is the relay's goroutine, and `SendPage`,
`PageAnswered`, `Park` are `internal/lane` on the sender's real answers, `stuck` the
`StuckTracker`, `alarms` the messages a `StuckLaneError` named.

| Code | Actions |
|---|---|
| `SendBatch`, `sendSerial`, `prepare` | `SendBatch`, `NextCommand`, `Prepared` |
| `client.Process`, its pool and its second attempt | `Acquire`, `AcquireFails`, `Fail` |
| `Confirms.Enable` | `Enable`, `AwaitHandshake`; its goroutine: `HandshakeEnds` |
| `Watch.Lock`, `Took` | `Lock`, `Returned` |
| `Send`, `publishPipelined` | `PublishUnconfirmed`, `Publish`, `Collect` |
| broker and network | `Confirm`, `ConfirmOrphan` (an abandoned publish), `ChannelLost`, `CloseChannel` |
| `lane.SendBatch`, `failed`, `permanent` | `SendPage`, `PageAnswered`, `Permanent` |
| `Reporter.MessageFailure`, `StuckTracker`, `stuckKey` | `Park`; `Progress`, `StuckAt`, `Escalates`, `Tick`, `Key` |
| the runtime around the lane | `Save`, `Cancel` |

**RabbitConsume** is a subscription: `eventbus.Subscriber`, `internal/consume` and the
acknowledge policy of `rabbitmq.Receiver` or `parkinglot.Receiver`, against the broker's
queues. A message's `loc` is queue, unacked, wait queue, acknowledged away, dead-lettered
or discarded; `parked` is the parking lot. What amqpx and RabbitMQ do is modelled as the
receivers rely on it: prefetch, requeue of what a lost channel held, dead-letter headers,
the delivery limit, `mandatory` returns before the ack.

| Code | Actions |
|---|---|
| `RegisterHandler`, `Subscribe`, `GetServiceInfo` | the same names |
| `Setup`, `setupTopology`, `setupBindings`, `DLXConflictError` | `Setup`, `SetupFails` (after any declarations and bindings), `Conflict` |
| `consume.Run` | `Receive`, `Handle`, `Process`, `Requeue`, `AckFails` |
| `Subscriber.process`, `dispatch` | `ProcessDelivery` |
| `rabbitmq.doAcknowledge`, `requeueDelay` | `AckPlain`, `RequeueDelay`, `DeliveryCount` |
| `parkinglot.doAcknowledge`, `hasExceededRetryCount` | `AckParkingLot`, `HasExceededRetryCount` |
| `putIntoParkingLot` | `ParkEnable(Fails)`, `ParkPublish(Fails)`, `ParkConfirmed`, `ParkRefused`; broker: `Handshake`, `BrokerPark`, `LatePark` |
| shutdown, drain, process restart | `Shutdown`, `DrainTimeout`, `Stop`, `Restart` |

**EventCodec** holds the pure half of an event's path as operators: content and event
types, extension rules, the outbox envelope (rows of earlier releases included) and both
AMQP content modes, with what JSON and AMQP field tables do to a value. **EventPath** moves
events through them: `Publish` (all of `publisher.go`), `SendRabbit`, `SendOutbox` and
`Relay`, or gochan's `SendChecks`/`SendSelects` and `ReceiveChecks`/`ReceiveSelects`/
`DrainSelects`; `BrokerHeaders` adds what a broker adds, `Deliver` unmarshals and
processes, and `Forward` is a handler that sends on what it received. `LegacyRow` and
`ForeignMessage` start where this release's publisher did not.

Abstractions worth knowing:

- Lease expiry is not timed: a rival may take a live holder's lock, at most `MaxSteals`
  times. This covers a stalled pass and skewed clocks alike. A lock row left behind by a
  dead process counts as free: holder ids are fresh UUIDs, so the row only delays a rival.
- `InitOffsetLatest` is its INSERT and its read-back in one step. A failure between the two
  is `PrimeFails` with the row inserted.
- `CommitOffsetFenced` decides and writes in one statement; the extra read it makes when
  the statement reports no change only distinguishes "unchanged" from "fenced out".
- Which rows are older than the retention window, and how often the sweep is due, are free
  choices, so every retention setting is covered.
- Telemetry and logs change nothing modelled; neither does the clock calibration of the
  stream relay. The relay modules leave the stuck-lane escalation to Lane.
- Lane sends its page with one `SendBatch`; the serial `Send` is a page of one. The save of
  a position, which both relays do in their own way, is one step that works or does not.
- RabbitConsume: `MaxCount` caps the header counts the broker keeps; it lies above the
  retry budget and the delivery limits, so every decision is made below the cap. Every
  message's processing outcome is fixed by its trait, or for a flaky one free each time.
- EventCodec: a string is a name from a small set, and the set says whether it is empty,
  splits at a dot, is reserved or too long; a number is its Go type and the class of its
  size. `EventPath` takes each step once: retries belong to the other modules.
- StreamRelay: tokens are ordered by their KeyString, so `SaveToken` compares positions.
  The coarse guard, for a token or a row without one, is left out, and with it what the
  commit time of a parked event decides. A stream opened at "now" always has a token to
  checkpoint (`postBatchResumeToken`); the branch that only warns that it has none is not
  modelled. `DeleteToken` happens with the replicas stopped, as the runbook demands
  (`README.md:674`). A stream that lags behind a truncated oplog may be lost at any `Next`
  but may also go on serving what it has buffered.

## 3. Runs

| Run | Instance | Shows |
|---|---|---|
| `sequenced_log` | 3 transactions, 3 events, ids 1..3, pages of 2, 2 sequencers, 1 failed pass; symmetric; 500 thousand states | `TypeOK`, `CausalOrder`, `EmitOrder`, `DenseLog`, `AppendOnly`, `ImplementsCausalLog` |
| `sequenced_log_live` | 2 transactions, 2 events, pages of 1, 2 failed passes | `EventuallySequenced` |
| `relay_failover` | 2 replicas of a group (one without a PoisonHandler), 3 messages of which one is poison and one unsendable, 2 steals, any 1 call fails, 1 crash or shutdown | `TypeOK`, `AtLeastOnce`, `SweepKeepsUndelivered`, `NoSkipAhead`, `WatermarkMonotone` |
| `relay_groups` | a replaying group and one that starts at the latest seq, batched sends, 1 failed call, 1 crash, 1 `DeleteOffset`; 2 million states | `AtLeastOnce`, `SweepKeepsUndelivered` |
| `relay_live` | 2 replicas over a store without the fence, pages of 1, poison first | `StaleOverlapBounded`, `FreshGroupOwedBacklog`, `EventuallyDisposed` |
| `relay_prime` (violation) | 1 instance, 1 failed priming call | `FreshGroupOwedBacklog` fails |
| `relay_offset` (violation) | 2 replicas, 1 steal, 1 crash or shutdown | `LocalOffsetIsCommitted` fails |
| `stream_failover` | 2 replicas, 5 oplog entries (sent, undated, other, unsendable, garbled), windows of 2, any 2 of: a failed call, a lease lost, a cancel or crash, a truncation, a `DeleteToken`; 200 thousand states | `TypeOK`, `TokenNeverSkips`, `CommitOrder`, `TokenMonotone`, `EventuallyCommitted` |
| `stream_fresh` (violation) | 2 replicas of a fresh group, 1 lease lost | `TokenNeverSkips` fails |
| `rabbit_consume` | 12 receivers (plain with and without delivery limit, DLX, requeue; parking lot with and without its own topology; 3 that are refused), 2 messages each of different kinds, count encodings and dead-letter headers, any 2 troubles, restarts; 560 thousand states | `TypeOK`, `NothingLost`, `NoStranded`, `RetriesBounded`, `HandlersBound`, `Settles` |
| `lane_send` | 8 configurations of a lane over the sender (pipelined, mandatory, unconfirmed; with and without handler, classifier, saves; alone or sharing the sender with another caller), 2 channels, 1 trouble; 320 thousand states | `TypeOK`, `ConfirmedPrefix`, `ConfirmMode`, `LaneDisposes`, `EpisodeKept`, `CallsReturn`, `NoSilentStall` |
| `event_path` | events with every kind of option, extension and payload over each transport, old rows, foreign messages, up to 1 forward; a channel of depth 1 with 3 senders; 140 thousand states | `FaithfulDelivery`, `StaysSendable`, `CloseDrains`, `ChannelDrains` |

*Bounds.* Three events over three transactions are the least with a causal pair, a
concurrent third and a page cut between them; ids 1..3 allow every permutation against
start order. In the relay, two full pages of two (or three messages of which two need
parking) make page boundaries, renewals and the cap on pages per tick (2) all happen; two
steals allow a lease to be lost and regained; one fault and one crash each hit every point
of the pass. `MaxPagesPerTick` is 2 instead of 64. In the stream relay five entries are one
of each kind a window treats differently, with a window boundary between them and the one
that wedges the lane last; two troubles are a failed save followed by whatever loses the
memory of it, or a lease lost and regained. `ContendedStart = FALSE` keeps a lease from
being lost while the group has no row; `stream_fresh` shows what happens otherwise.

In `rabbit_consume` a retry budget of 2, delivery limits of 1 and 2 and a backoff of 1
doubling to a cap of 3 put both ends of each comparison within reach; two troubles are, for
instance, a lost binding and a shutdown during the park it defeats. In `lane_send` a page
of two is the least with a confirmed prefix and a rest; the two configurations that share
the sender explore the interleavings of two callers without further trouble. `MaxAttempts`
(2) lets amqpx run a command again once. In `event_path` one forward reaches every ordered
pair of a case's transports; three senders on a channel of one make a Send block while
another enters. Both ways a stuck episode may end early (`EpisodeKept`) are reached in
`lane_send`: a stop in a prefix sent again, and an unidentified message behind one.

*Deadlock* is off where a system may come to rest: SequencedLog (every transaction ended,
every row sequenced), RabbitConsume (every message settled), Lane (the log is sent or the
relay down) and EventPath (every event is where it ends). A relay always has a next tick.

*Fairness.* `Run` ticks forever and each store, broker and handler call is bounded
(`internal/bound`, OpTimeout, SendTimeout, ParkTimeout), so each instance's own steps are
weakly fair, in both relays; the process manager restarts a dead one (`Start`). For
sequencers: the steps of a pass. Publishers, faults, steals and operators owe nothing. In
Lane the callers' own steps, their deadlines and the clock are fair and the lock of a channel
is taken in turn (strong fairness: a Go mutex hands over to a waiter it has starved); the
broker owes nothing, so `CallsReturn` and `NoSilentStall` hold although it may never answer.
That deadlines pass assumes that there are any: the relay bounds each send by its
SendTimeout, the sender bounds nobody (`internal/lane/lane.go:249`), so for other callers
`CallsReturn` is a statement about those that bring a context that ends. One caller without
such a context also keeps others waiting, since `Watch.Lock` looks at no context
(`internal/publish/publish.go:228`): its waiters are bounded by the deadlines of those in
front of them. In RabbitConsume the broker does deliver, expire and answer handshakes and
publishes, unless one of the bounded troubles says that it never will, and the process
manager restarts a stopped subscriber; delivering and handling a given message are strongly fair, because a
queue serves in turn and does not pass a message over for ever. In EventPath only gochan's
`Receive` goroutine must keep running.

*What is deliberately not claimed.* `NoSkipAhead` is about serial sends: a pipelined batch
can deliver past a failed message and deliver again. Delivery is at least once; there is no
claim against duplicates beyond `StaleOverlapBounded`. `EventuallyCommitted` excepts what
waits for an operator (`Blocked`): a token off the oplog, an invalidated stream, an event
that cannot be parked. It also shows a limit of the code: a fresh group whose first save
failed and whose next entry stops the lane stores no position until the lane moves, so a
restart during that outage starts at a later "now".

### Findings

1. **A failed priming call discards a fresh group's backlog** (`relay_prime`). `RunOnce`
   runs the sequencer even when `primeOffset` returned an error
   (`relay/sequence/run.go:184`). For a fresh group the tick then labels the backlog
   without an offset row, and the next tick's `InitOffsetLatest` registers at its top: what
   the comment at run.go:176 says priming first prevents, reached by one transient error.
   `relay_live` shows that without that error the property holds.
2. **The committed value is not always the group's offset** (`relay_offset`). The comment at
   run.go:508 argues that a single leader owns the watermark. If the lease is taken after
   the offset was primed, the successor drains, commits and releases, and the first leader
   regains the lock at its next renewal (of the sequencing phase, or between two pages of
   the drain), its local offset is below the stored one, which GREATEST keeps. It re-sends
   what the successor delivered; nothing is lost (`AtLeastOnce` holds).
3. **Two leaders of a fresh stream group skip events** (`stream_fresh`). The baseline of a
   fresh group is saved with the ordinary monotone upsert (`relay/stream/run.go:164`), not
   insert-if-absent as TiDB's `InitOffsetLatest` is. If the first leader's lease lapses
   between its `LoadToken` and its save, and its successor has loaded no token either, the
   successor's later "now" replaces the stored one, and an event between the two is
   delivered by nobody. `relay/stream/stream.go:339` says of two transient leaders that
   at-least-once still holds; once the group has a row it does (`stream_failover`).

### Observations

Places where the code does less than a comment or a reader may expect. The properties state
what the code does guarantee and name each of these as an exception or a hypothesis.

- *Headers that lift the retry cap.* `hasExceededRetryCount` says "not exceeded", on every
  lap, of a message whose x-death is not an array, that has no readable
  `x-first-death-queue` (a test pins this one, `parkinglot/receiver_internal_test.go:177`),
  whose count does not parse (the comment at receiver.go:415 accepts it), or whose
  `x-first-death-queue` names an entry another consumer wrote: that entry never grows, and
  the fallback below it, said to restore the bound "because every lap" increments some
  entry, is not reached. `RetriesBounded` and `Settles` except the four (`Evaluable`).
- *A park's handshake has no bound.* `putIntoParkingLot` makes a context with a deadline for
  its publish and then calls `Enable` with the shutdown context
  (`rabbitmq/parkinglot/receiver.go:352`), which has none. A confirm.select that is never
  answered holds the handler, and the deliveries prefetched behind it, until the channel is
  lost or the subscriber is shut down. `internal/publish/publish.go:66` says of those who
  wait for a handshake that none "is forced to wait for it indefinitely", and
  receiver.go:296 bounds the publish for that very reason. `Settles` excepts a live
  subscription in this state (`HeldByHandshake`), and shows that a shutdown or the
  loss of the channel ends it.
- *A park during a drain can fail.* `putIntoParkingLot` detaches its publish from the
  shutdown context but calls `Enable` with it, so on a channel not yet in confirm mode the
  handshake races a context that is already dead. The message is requeued, not lost
  (`NothingLost`), though the comment wants the park to succeed during the drain.
- *A stale return.* A return that arrives after its publisher gave up is attributed to the
  next publish on the channel if that one has locked the watch already
  (`internal/publish/publish.go:225`): a message is reported unroutable that was routed.
  The error is on the safe side (`ConfirmedPrefix`, `LaneDisposes` hold).
- *Stuck episodes while saves fail.* Stops inside the prefix that is delivered again each
  pass start new episodes, so the one behind may never escalate: a consequence of tracking
  one episode that no comment mentions. The prefix itself ends an episode whose message
  cannot be identified, which `notify/stuck.go:57` documents as a trade-off. `EpisodeKept`
  and `NoSilentStall` except both.
- *Full count and an error.* `lane.go:181` says a batch answered that way must not be
  advanced past, but the position returned does; no sender of the repository answers so.
- *gochan's last Send.* A `Send` that passed its check of `done` before `Close` can win its
  select after the receiver's drain has returned (`gochan/sender.go:44`): it reports success
  for an event nobody reads, although `gochan/receiver.go:73` says that no Send can succeed
  by then. `CloseDrains` and `ChannelDrains` are about what was accepted before Close and
  except it.
- *Extensions that do not round-trip.* A publisher's own extension named like a dead-letter
  header is dropped by the receiver although publish accepts the name; `x-delivery-count` is
  lifted into an extension, and a redelivery overwrites one that the publisher set; a structured envelope rounds an int64 above 2^53 on a direct
  publish; AMQP cuts a `time.Time` to seconds (`FaithfulDelivery` excepts these four).
- *Unchecked lengths.* No check bounds the content type, and structured `Marshal`, unlike
  binary, not the event type: a row with either fails in the client library with an error
  that is not `ErrUnsendable`, and the lane stops at it (`StaysSendable` excepts it).
- The re-seeding advice of `tidb/store.go:888` reuses seq values once the tail of the log
  has been swept. The comments at `tidb/store.go:640` and `run.go:53` say that an unfenced
  commit could rewind a group, which GREATEST excludes. `bound.ShutdownScope` starts its
  deadline when `Run` starts, so on a longer run the shutdown steps share an expired scope
  and each falls back to a budget of its own.

## 4. Proofs

The theorems hold for **every** value of the constants: any number of transactions,
instances, groups, callers, channels and messages, any page size, any bound on faults. The
inductive invariants were model-checked before they were proved. Each module's constants
satisfy its named assumption (`SequencedLogAssumption`, `SequenceRelayAssumption`, ...),
which types them and which TLC evaluates in every run; a theorem that needs more says so.

| Module | Theorems | Beyond the named assumptions |
|---|---|---|
| `SequencedLogProofs` | `TypeCorrect`, `CausalOrderHolds`, `EmitOrderHolds`, `DenseLogHolds`, `AppendOnlyHolds`, `Refinement` | none |
| `SequenceRelayProofs` | `TypeCorrect`, `AtLeastOnceHolds`, `SweepKeepsUndeliveredHolds`, `WatermarkMonotoneHolds` | none |
| | `NoSkipAheadHolds`, `StaleOverlapBoundedHolds` | `Batching = {}`: one send at a time |
| | `FreshGroupOwedBacklogHolds` | `OwnLog` |
| `StreamRelayProofs` | `TypeCorrect`, `TokenMonotoneHolds` | none |
| | `TokenNeverSkipsHolds`, `CommitOrderHolds` | `ContendedStart = FALSE` |
| `RabbitConsumeProofs` | `TypeCorrect`, `NoStrandedHolds`, `NothingLostHolds`, `RetriesBoundedHolds`, `HandlersBoundHolds` | none |
| `LaneProofs` | `TypeCorrect`, `ConfirmedPrefixHolds`, `ConfirmModeHolds`, `LaneDisposesHolds`, `EpisodeKeptHolds` | none |
| `EventPathProofs` | `FaithfulDeliveryHolds`, `StaysSendableHolds`, `CloseDrainsHolds` | none |

The hypotheses are where the properties really end. A pipelined batch may deliver past a
failed message and lets a superseded leader send a second run (`Batching`). `OwnLog` - one
group, no deleted offset, and replicas that all replay from the beginning or none of which
fails to register - leaves out finding 1 and what it has in common with a second group that
sequences first. `ContendedStart` leaves out finding 3.

### SequencedLog

None of the ordering properties is inductive: what COMMIT will make visible was
decided at the assigning UPDATE, from a snapshot that publishers have since moved past. The
invariant `IInv` therefore has, besides types,

- `TsInv`: timestamps are unique and a transaction commits after it began;
- `RowInv`: ids are unique, and within a transaction in emission order;
- `LockInv`: at most one pass is past the counter lock, and it holds the committed counter;
- `LogInv`: sequenced rows are visible and dense below the counter;
- `PageInv`: the uncommitted page continues the log densely and is closed under
  predecessors - a predecessor of a page member is in the log or earlier in the page;
- `OrderInv`: the same closure for the log.

The heart is `AssignedPage`: the page is a prefix of the pending rows in `(tx_start_ts, id)`
order (`RowNumberIsRank`, on cardinalities), and every predecessor - causal or by emission -
of a visible row is visible already and smaller in that order (`PrecedesIsBefore`). A
publisher's later commit cannot break it, because a transaction that commits now has a
commit timestamp above every start timestamp handed out. `CommittedLog` carries the page's
facts over to the log. The refinement maps a business COMMIT to `Publish` and a pass's
COMMIT to `Append`; all else stutters.

### SequenceRelay

Call a message settled for a group if it was delivered to it, parked for it, excused, or is
gone from the log. `AtLeastOnce` is not inductive because the offset that `CommitOffset`
writes was computed by a pass from a page read long before. `PassInv` says of every pass,
leader or not: everything up to its local offset and up to the page's `maxSeq` is settled,
and everything before a row it still has to forward is settled or to be forwarded first.
`SweptInv` says that what was swept is settled for every registered group, so that a page
with a hole in it hides nothing. No part mentions the lock: a superseded leader, an unfenced
commit and a lost answer are harmless because settled messages stay settled
(`SettledGrows`). The lock matters only to what is bounded (`StaleInv`: what was sent since
the lease was lost and what is left of the page make at most one page).

### StreamRelay

`RowOk` and `ReplicaOk` say the same of positions instead of rows: the stored token, an
open stream, a loaded row and the last token of a window pass no owed event (`PassesNone`).
Before the group has a row there is nothing to be owed relative to; `Starting` then says
that only the lock holder has a position at all and that its baseline is where it first
opened the stream. Two first openings break this, hence the property, and a lease that is
kept until the first save restores it.

### RabbitConsume

The invariant ties the handler's step to the place of its delivery (`Handler`: while the
channel is open, what the handler has is unacknowledged; a park that was confirmed is in the
lot), the prefetched deliveries to the open channel (`Prefetched`), the wait queue to the
declared way back (`Topology`), the subscriber's registration to what is bound (`Latched`),
and counts laps (`Laps`, `Paced`). The last part of `NothingLost`, that a delivery limit is
not spent faster than the backoff allows, compares two recursive sums; `DoublingType` and
`RungsFrom` unfold them. `RetriesBounded` rests
on `LapLeft`: an `Evaluable` message that is not found to have exceeded its retries has been
rejected less often than `MaxRetries`, because the entry looked at counts every lap. The attempt to prove it for every `MaxRetries` showed
that the bound is one lap for `WithMaxRetries(0)`, not none: a first delivery carries no
`x-death` header, so it is retried before a count can be compared (`RetryBudget`).

### RabbitSender and Lane

`SenderInv` says that every call is `Sound`: what it counts as sent was taken, and routed
when that is mandatory (`Backed`); a confirm that says "ack" belongs to a message that was
taken, and if that message was not routed its return is still on the channel (`Answered`);
a mandatory publisher holds its channel's lock and a confirmed one is on a channel in
confirm mode (`Prepares`). The returns are why `Backed` is not inductive alone: `Collect`
concludes from an empty return watch that the message was routed, and that is sound only
because the caller has held the lock since before it published, and a drain by `Lock` on a
free channel throws away nobody's return. `Keeps` states what the others' steps leave a
caller (confirm mode, and under its own lock the return), and `Framed` that this is enough.
`LaneProofs` composes this with the lane: the relay's call is about the page at the lane's
position (`Aligned`), so the prefix its answer counts is the prefix the position moves over.
For `EpisodeKept`, `Tracked` says where an episode is: while saves get through, a pass begins
at the message the last one stopped at, so the message a lane is stuck at is the next one and
no prefix is delivered again. `ProgressOverFacts` computes what a delivered prefix does to
the tracker, and `Advance` covers pages, parks and failed parks alike.

### EventPath

The three properties are about the end of a path, so the invariant `IInv` says of each
event, wherever it is (`EventOK`), what the rest of the path needs:

- `FaithfulAt`: the metadata in somebody's hands, or what the row or the message in the
  queue would decode to *if* it decodes, carries what publish handed on (`Carries`). Each
  codec is then used as its own inverse: `RowKeeps` for the outbox envelope, `BinaryKeeps`
  and `StructuredKeeps` for the AMQP modes, `HeadersKeep` for what the broker writes into
  them. An extension value must keep more than its size (`SameValue`) to survive the next
  codec, which looks at its kind: JSON turns a `time.Time` into a string and a number into
  a float64, a field table does neither. `Kept` is that strengthening.
- `AdmittedAt`: what a row or a message in the queue has been checked for, and that
  metadata received in binary mode is `Sendable` - no reserved or long name, no value AMQP
  refuses - which every later binary send keeps (`LiftedIsSendable`, `SendableSends`).
- `StaysAt`: the property for rows and refused sends. `UnclaimedError` says which metadata
  can fail a send with an error that is not `ErrUnsendable`.

`ChannelOK` is about gochan: an accepted event is in the buffer or in the receiver's hands
(`Buffered`), and a receiver drains only after Close (`Draining`), so an empty buffer at the
end of a drain means that what came before Close was processed.

`Cases`, the inputs, are any that `EventPathAssumption` admits: options, old rows and
foreign messages of the shapes the Go types and AMQP allow, with no bound on their number,
on the names of extensions or on forwards. The proof of `HeadersKeep` failed for an
extension that a publisher names `x-delivery-count`: nothing reserves that name and the
broker overwrites it on redelivery. The model had let the broker keep such a header; now it
overwrites, and `FaithfulDelivery` excepts the name.

*Induction.* The library's induction theorems take an operator and cannot be instantiated.
`MinMax` proves induction over a *set* of numbers (`NatSetInduction`: a set with 0 and all
successors misses no number, for it would miss a least one). With it the recursive
functions of the models - the backoff, its sum, the tracker's progress over a page - are
shown to exist and to have the values their definitions say.

*Only model-checked:* liveness (`EventuallySequenced`, `EventuallyDisposed`,
`EventuallyCommitted`, `Settles`, `CallsReturn`, `NoSilentStall`, `ChannelDrains`), because
fairness is out of the prover's reach. Every invariant and action property is proved.

## 5. Not modelled

- *Context budgets* (`internal/bound`) and the clocks of the leader lock: the models let
  every call fail and every lease be lost at any time, which covers every timing; how long
  a shutdown takes, or how much skew a TTL tolerates, they do not say.
- *Coarse token guard, TTL index* of the MongoDB store: see StreamRelay above.
- *Interceptors, `PublisherFactory`, loggers, options that only set names*: wrappers and
  wiring without state of their own.
- *Telemetry* (Prometheus observer, lag and drain reports): read by nothing in the system.
- *Migrations* (`tidbmigrate`) and the test containers: I/O through third-party tools.
- *Protobuf and JSON codecs* beyond which payloads they accept; generated code.
