----------------------------- MODULE EventPath -----------------------------
(***************************************************************************)
(* What becomes of one event's metadata and payload: Publisher.publish,    *)
(* then a transport (rabbitmq.Sender, the outbox and its relay, or the     *)
(* in-memory channel), then Subscriber.process, and from a handler that    *)
(* forwards what it received into a transport again.                       *)
(*                                                                         *)
(*   new -> sending -> row -> broker -> handled -> sending -> ...          *)
(*                 \-> broker     \-> chan -> handled                      *)
(*                                                                         *)
(* A row may also have been written by an earlier release, and a message   *)
(* in the queue by another publisher.  The codecs are in EventCodec; the   *)
(* retries of the relays and receivers are in the modules about them, so   *)
(* here every step is taken once.                                          *)
(***************************************************************************)
EXTENDS EventCodec, Sequences

CONSTANTS
    Events,
    None,
    Cases,        \* how each event begins, the transports, the row ID generator, and
                  \* the bound on how often a handler passes an event on
    ChanDepth     \* defaultChanDepth

VARIABLES
    inputs,       \* the case under check
    at,           \* where each event is
    via,          \* the transport it was handed to last
    md, data,     \* its metadata and payload, as whoever holds it sees them
    row,          \* its outbox row
    wire,         \* its message in the queue
    forwards,     \* times it was passed on
    published,    \* what publish handed to the transport, or None
    ch, done,     \* gochan: the channel, and that Close was called
    ctx,          \* the context of Receive
    rpc, cur,     \* gochan's receiver, and the event it took
    late          \* events whose Send found the channel open and entered it after Close

event == <<inputs, at, via, md, data, row, wire, forwards, published>>
channel == <<ch, done, ctx, rpc, cur, late>>
vars == <<event, channel>>

Transports == {"rabbitmq", "outbox", "gochan"}
Services == {"svc.Event", "svc.LongEvent"}

(***************************************************************************)
(* The inputs are values the program can hold.  Only an int64 needs more   *)
(* than 53 bits, and a time.Time has whole seconds or not; an option sets  *)
(* a schema or a time there is; a row of an earlier release is a JSON      *)
(* document, which has no NaN; a message of another publisher got through  *)
(* AMQP, which has no long names.                                          *)
(***************************************************************************)
GoValue(v) == /\ v \in [kind : STRING, size : STRING]
              /\ v.size = "over53" => v.kind = "int64"
              /\ v.kind = "time" => v.size \in {"seconds", "nanos"}
ProperOptions(o) ==
    /\ "ext" \in DOMAIN o /\ \A n \in DOMAIN o.ext : GoValue(o.ext[n])
    /\ "schema" \in DOMAIN o => o.schema \in {"nil", "empty", "url", "unparsable"}
    /\ "time" \in DOMAIN o => o.time \in {"", "set"}
RowDocument(r) == /\ DOMAIN r.md = DOMAIN NoMetadata
                  /\ \A n \in DOMAIN r.md.ext : InJSON(r.md.ext[n])
QueuedMessage(w) ==
    /\ DOMAIN w = {"type", "ctype", "form", "attrs", "ext", "data"}
    /\ ~ShortStrTooLong(w.type) /\ ~w.ctype.long
    /\ w.form = "binary" => \A n \in DOMAIN w.ext : ~ShortStrTooLong(n)
ProperStart(s) ==
    /\ s.how = "publish" => ProperOptions(s.of.defaults) /\ ProperOptions(s.of.opts)
    /\ s.how = "legacy" => RowDocument(s.of)
    /\ s.how = "foreign" => QueuedMessage(s.of)

ASSUME EventPathAssumption ==
    /\ ChanDepth \in Nat \ {0}
    /\ None \notin Events
    /\ \A c \in Cases : /\ c.transports \subseteq Transports
                         /\ \A e \in Events : c.start[e] # None => ProperStart(c.start[e])

Init ==
    /\ inputs \in Cases
    /\ at = [e \in Events |-> "new"] /\ via = [e \in Events |-> None]
    /\ md = [e \in Events |-> NoMetadata] /\ data = [e \in Events |-> "empty"]
    /\ row = [e \in Events |-> None] /\ wire = [e \in Events |-> None]
    /\ forwards = [e \in Events |-> 0] /\ published = [e \in Events |-> None]
    /\ ch = <<>> /\ done = FALSE /\ ctx = "live" /\ cur = None /\ late = {}
    /\ rpc = IF "gochan" \in inputs.transports THEN "check" ELSE "off"

Moves(e, from, to) == at[e] = from /\ at' = [at EXCEPT ![e] = to]
\* Events begin as a call of Publish, a legacy row or a foreign message, or not at all.
Begins(e, how) == at[e] = "new" /\ inputs.start[e] # None /\ inputs.start[e].how = how

-----------------------------------------------------------------------------
(***************************************************************************)
(* Publisher.  Options are functions from the fields they set to values;   *)
(* those of the call follow, and so override, those of the publisher.      *)
(***************************************************************************)
Combine(defaults, opts) ==
    Over([ext |-> Over(opts.ext, defaults.ext)], Over(opts, defaults))

Applied(m, opts) == [f \in DOMAIN m |-> IF f \in DOMAIN opts THEN opts[f] ELSE m[f]]

CompleteMetadata(m) ==
    [m EXCEPT !.ctype = IF @.base = "" THEN ContentType("proto") ELSE @,
              !.source = IF @ = "" THEN "protoevent-go" ELSE @,
              !.time = IF @ = "" THEN "set" ELSE @]

\* The codec NewPublisher resolves once, for the content type of its own options.
ResolveDefaultCodec(defaults) ==
    LET c == CompleteMetadata(Applied(NoMetadata, defaults)).ctype
    IN  IF HasCodec(c) THEN [ctype |-> c, codec |-> c.subtype] ELSE None
CodecFor(defaults, c) ==
    LET default == ResolveDefaultCodec(defaults)
    IN  IF default # None /\ default.ctype = c THEN default.codec
        ELSE IF HasCodec(c) THEN c.subtype ELSE None

(***************************************************************************)
(* The metadata publish builds from an input, and what it refuses: an      *)
(* input names the event type, the options, the message and what the ID    *)
(* generator answers.                                                      *)
(***************************************************************************)
Built(i) ==
    LET m == CompleteMetadata(Applied(NewMetadata(i.name), Combine(i.defaults, i.opts)))
    IN  [m EXCEPT !.id = IF @ = "" THEN i.generated ELSE @,
                  !.schema = IF @ = "empty" THEN "nil" ELSE @]
Accepts(i) ==
    /\ SplitType(i.name)
    /\ Built(i).id # "error"
    /\ \A n \in DOMAIN Built(i).ext : /\ ~ReservedExtensionName(n)
                                      /\ ValidExtensionValue(Built(i).ext[n])
    /\ CodecFor(i.defaults, Built(i).ctype) # None
    /\ i.body # "not a message"

Publish(e) ==
    LET i == inputs.start[e].of
        m == Built(i)
        d == CodecMarshal(CodecFor(i.defaults, m.ctype), i.body)
    IN  /\ Begins(e, "publish")
        /\ \/ /\ ~Accepts(i) /\ Moves(e, "new", "refused")
              /\ UNCHANGED <<via, md, data, published>>
           \/ /\ Accepts(i) /\ Moves(e, "new", "sending")
              /\ md' = [md EXCEPT ![e] = m] /\ data' = [data EXCEPT ![e] = d]
              /\ \E t \in inputs.transports : via' = [via EXCEPT ![e] = t]
              /\ published' = [published EXCEPT ![e] = [md |-> m, data |-> d]]
        /\ UNCHANGED <<inputs, row, wire, forwards, channel>>

(***************************************************************************)
(* rabbitmq.Sender: marshal, route by the type, and write.  The client     *)
(* library refuses what AMQP cannot carry, with an error of its own.       *)
(***************************************************************************)
Encodes(w) ==
    /\ ~ShortStrTooLong(w.type) /\ ~w.ctype.long
    /\ w.form = "binary" => \A n \in DOMAIN w.ext : /\ ~ShortStrTooLong(n)
                                                    /\ w.ext[n].kind # "nested"
Carried(w) == IF w.form = "binary" THEN [w EXCEPT !.ext = [n \in DOMAIN @ |-> FromTable(@[n])]]
              ELSE w

Prepare(m, d) ==
    LET r == Marshal(m, d)
    IN  IF r.err # "" THEN r
        ELSE IF ~SplitType(m.type) THEN Failure("ErrUnsendable") ELSE r

SendErr(m, d) ==
    LET r == Prepare(m, d)
    IN  IF r.err # "" THEN r.err ELSE IF ~Encodes(r.wire) THEN "other" ELSE ""
Enqueue(e, m, d) == wire' = [wire EXCEPT ![e] = Carried(Prepare(m, d).wire)]

SendRabbit(e) ==
    /\ via[e] = "rabbitmq"
    /\ \/ /\ SendErr(md[e], data[e]) # "" /\ Moves(e, "sending", "refused") /\ UNCHANGED wire
       \/ /\ SendErr(md[e], data[e]) = "" /\ Moves(e, "sending", "broker")
          /\ Enqueue(e, md[e], data[e])
    /\ UNCHANGED <<inputs, via, md, data, row, forwards, published, channel>>

(***************************************************************************)
(* outbox.Sender and the store's CreateOutboxMessage; the row ID is the    *)
(* event's or, with GenerateUUIDv4, one of its own.                        *)
(***************************************************************************)
SendOutbox(e) ==
    /\ via[e] = "outbox"
    /\ \/ /\ \/ inputs.rowid = "ReuseMetadataID" /\ md[e].id = ""
             \/ ~ValidateMetadata(md[e]) \/ ~MarshalsMetadata(md[e])
          /\ Moves(e, "sending", "refused") /\ UNCHANGED row
       \/ /\ inputs.rowid = "ReuseMetadataID" => md[e].id # ""
          /\ ValidateMetadata(md[e]) /\ MarshalsMetadata(md[e])
          /\ Moves(e, "sending", "row")
          /\ row' = [row EXCEPT ![e] = MarshalMetadata(md[e])]
    /\ UNCHANGED <<inputs, via, md, data, wire, forwards, published, channel>>

(***************************************************************************)
(* The relay's turn at the row: park what is poison or permanently         *)
(* unsendable (a PoisonHandler is configured), send the rest.  Any other   *)
(* error stops the lane at this row, and the next attempt meets it again.  *)
(***************************************************************************)
Relay(e) ==
    LET m == UnmarshalMetadata(row[e])
        err == IF Poison(row[e]) THEN "poison" ELSE SendErr(m, data[e])
    IN  /\ at[e] = "row"
        /\ \/ /\ err \in {"poison", "ErrUnsendable"} /\ Moves(e, "row", "parked")
              /\ UNCHANGED <<md, wire>>
           \/ /\ err = "other" /\ Moves(e, "row", "wedged") /\ UNCHANGED <<md, wire>>
           \/ /\ err = "" /\ Moves(e, "row", "broker")
              /\ md' = [md EXCEPT ![e] = m] /\ Enqueue(e, m, data[e])
        /\ UNCHANGED <<inputs, via, data, row, forwards, published, channel>>

\* A row an earlier release wrote, before publish and the store checked anything.
LegacyRow(e) ==
    /\ Begins(e, "legacy") /\ Moves(e, "new", "row")
    /\ row' = [row EXCEPT ![e] = inputs.start[e].of]
    /\ data' = [data EXCEPT ![e] = inputs.start[e].of.data] /\ via' = [via EXCEPT ![e] = "legacy"]
    /\ UNCHANGED <<inputs, md, wire, forwards, published, channel>>

-----------------------------------------------------------------------------
\* Another publisher's message.
ForeignMessage(e) ==
    /\ Begins(e, "foreign") /\ Moves(e, "new", "broker")
    /\ wire' = [wire EXCEPT ![e] = inputs.start[e].of]
    /\ data' = [data EXCEPT ![e] = inputs.start[e].of.data]
    /\ via' = [via EXCEPT ![e] = "rabbitmq"]
    /\ UNCHANGED <<inputs, md, row, forwards, published, channel>>

(***************************************************************************)
(* The broker writes into the headers of a message it dead-letters, and    *)
(* counts the deliveries of one it redelivers from a quorum queue.         *)
(***************************************************************************)
BrokerHeaders(e) == \E h \in {"dead-lettered", "redelivered"} :
    LET added == IF h = "redelivered"
                 THEN [n \in {DeliveryCountHeader} |-> Value("int64", "small")]
                 ELSE [n \in {"x-death", "x-first-death-queue"} |->
                         IF n = "x-death" THEN Value("nested", "any") ELSE Value("string", "queue")]
    IN  /\ at[e] = "broker" /\ wire[e].form = "binary"
        /\ wire' = [wire EXCEPT ![e].ext = Over(added, @)]
        /\ UNCHANGED <<inputs, at, via, md, data, row, forwards, published, channel>>

\* Subscriber.process up to the handler: the event is known and its payload decodes.
Processes(m, d) == /\ SplitType(m.type) /\ m.type \in Services
                   /\ HasCodec(m.ctype) /\ CodecUnmarshals(m.ctype.subtype, d)

\* processDelivery: what does not decode is unprocessable.
Deliver(e) ==
    LET ok == Unmarshals(wire[e])
        m == Unmarshal(wire[e])
        d == wire[e].data
    IN  /\ at[e] = "broker"
        /\ \/ /\ ~ok /\ Moves(e, "broker", "rejected") /\ UNCHANGED <<md, data>>
           \/ /\ ok /\ Moves(e, "broker", IF Processes(m, d) THEN "handled" ELSE "rejected")
              /\ md' = [md EXCEPT ![e] = m] /\ data' = [data EXCEPT ![e] = d]
        /\ UNCHANGED <<inputs, via, row, wire, forwards, published, channel>>

\* A handler re-sends the metadata and payload it received, without the publisher.
Forward(e) == \E t \in inputs.transports :
    /\ forwards[e] < inputs.forwards
    /\ Moves(e, "handled", "sending")
    /\ forwards' = [forwards EXCEPT ![e] = @ + 1]
    /\ via' = [via EXCEPT ![e] = t]
    /\ UNCHANGED <<inputs, md, data, row, wire, published, channel>>

-----------------------------------------------------------------------------
(***************************************************************************)
(* gochan.  Send looks at done, then selects among its context, done and   *)
(* the channel; when several are ready, any of them may be taken.          *)
(***************************************************************************)
SendChecks(e) ==
    /\ via[e] = "gochan"
    /\ Moves(e, "sending", IF done THEN "refused" ELSE "selecting")
    /\ UNCHANGED <<inputs, via, md, data, row, wire, forwards, published, channel>>

SendSelects(e) ==
    \/ /\ Moves(e, "selecting", "refused")     \* its context or done
       /\ UNCHANGED channel
       /\ UNCHANGED <<inputs, via, md, data, row, wire, forwards, published>>
    \/ /\ Len(ch) < ChanDepth
       /\ Moves(e, "selecting", "chan")
       /\ ch' = Append(ch, e)
       /\ late' = IF done THEN late \cup {e} ELSE late
       /\ UNCHANGED <<done, ctx, rpc, cur>>
       /\ UNCHANGED <<inputs, via, md, data, row, wire, forwards, published>>

Close == /\ rpc # "off" /\ ~done /\ done' = TRUE /\ UNCHANGED <<ch, ctx, rpc, cur, late, event>>
Cancel == /\ rpc # "off" /\ ctx = "live" /\ ctx' = "canceled"
          /\ UNCHANGED <<ch, done, rpc, cur, late, event>>

\* Receive and drain look at their context before they touch the channel.
ReceiveChecks ==
    /\ rpc \in {"check", "drain"}
    /\ rpc' = IF ctx = "canceled" THEN "canceled"
              ELSE IF rpc = "check" THEN "select" ELSE "drain select"
    /\ UNCHANGED <<ch, done, ctx, cur, late, event>>

Take(next) == /\ ch # <<>> /\ cur' = Head(ch) /\ ch' = Tail(ch) /\ rpc' = next
              /\ UNCHANGED <<done, ctx, late, event>>

\* Mutation of ReceiveSelects: Close ends the subscription at once.
ReceiveSelectsReturns ==
    /\ rpc = "select"
    /\ \/ /\ ctx = "canceled" /\ rpc' = "canceled" /\ UNCHANGED <<ch, done, ctx, cur, late, event>>
       \/ /\ done /\ rpc' = "closed" /\ UNCHANGED <<ch, done, ctx, cur, late, event>>
       \/ Take("process")

ReceiveSelects ==
    /\ rpc = "select"
    /\ \/ /\ ctx = "canceled" /\ rpc' = "canceled" /\ UNCHANGED <<ch, done, ctx, cur, late, event>>
       \/ /\ done /\ rpc' = "drain" /\ UNCHANGED <<ch, done, ctx, cur, late, event>>
       \/ Take("process")

DrainSelects ==
    /\ rpc = "drain select"
    /\ \/ Take("drain process")
       \/ /\ ch = <<>> /\ rpc' = "closed" /\ UNCHANGED <<ch, done, ctx, cur, late, event>>

\* The processor runs; an event it fails is reported to onErr and gone.
ReceiveProcesses ==
    /\ rpc \in {"process", "drain process"}
    /\ Moves(cur, "chan", IF Processes(md[cur], data[cur]) THEN "handled" ELSE "rejected")
    /\ rpc' = IF rpc = "process" THEN "check" ELSE "drain"
    /\ cur' = None
    /\ UNCHANGED <<ch, done, ctx, late>>
    /\ UNCHANGED <<inputs, via, md, data, row, wire, forwards, published>>

Receive == ReceiveChecks \/ ReceiveSelects \/ DrainSelects \/ ReceiveProcesses

Next ==
    \/ \E e \in Events : \/ Publish(e) \/ LegacyRow(e) \/ ForeignMessage(e)
                         \/ SendRabbit(e) \/ SendOutbox(e) \/ Relay(e)
                         \/ BrokerHeaders(e) \/ Deliver(e) \/ Forward(e)
                         \/ SendChecks(e) \/ SendSelects(e)
    \/ Close \/ Cancel \/ Receive

\* The goroutine in Receive is not starved; nothing else needs to happen.
Spec == Init /\ [][Next]_vars /\ WF_vars(Receive)

-----------------------------------------------------------------------------
\* A number of an extension keeps its value, whatever Go type it comes back as.
SameValue(m, v, w) == \/ v.size = w.size
                      \/ IsStructured(m.ctype) /\ v = Value("int64", "over53")
                      \/ ~IsStructured(m.ctype) /\ v = Value("time", "nanos")

(***************************************************************************)
(* What a handler is given is what publish handed to the transport, over   *)
(* any sequence of transports, forwards and broker headers: the attributes *)
(* and the payload are equal, every extension keeps its value, and nothing *)
(* becomes an extension that the publisher did not set.  What the code     *)
(* lets through is excepted: an extension of the publisher's own whose     *)
(* name is a dead-letter header's is dropped (unmarshalMetadata),          *)
(* x-delivery-count is taken for an extension, over one of the publisher's *)
(* (brokerDeathHeader does not name it), a structured envelope rounds an   *)
(* int64 beyond 2^53, and an AMQP timestamp cuts a time.Time to seconds.   *)
(***************************************************************************)
FaithfulDelivery == \A e \in Events :
    at[e] = "handled" /\ published[e] # None =>
        LET m == published[e].md
        IN  /\ \A f \in DOMAIN m \ {"ext"} : md[e][f] = m[f]
            /\ data[e] = published[e].data
            /\ DOMAIN md[e].ext \ {DeliveryCountHeader} \subseteq DOMAIN m.ext
            /\ \A n \in DOMAIN m.ext \ (DeathHeaders \cup {DeliveryCountHeader}) :
                  n \in DOMAIN md[e].ext /\ SameValue(m, m.ext[n], md[e].ext[n])

(***************************************************************************)
(* What was let in once can be sent or is classified: a committed row      *)
(* never stops the lane with an error nobody claims (ValidateMetadata and  *)
(* the ErrUnsendable marks of the marshalers), and metadata received in    *)
(* binary mode can be sent again as it is, broker headers included         *)
(* ("Marshal(Unmarshal(d)) stays closed").  Excepted is what the code does *)
(* not check: the length of the content type, and that of the type when    *)
(* structured mode meets a row older than the checks.                      *)
(***************************************************************************)
StaysSendable == \A e \in Events :
    /\ at[e] = "wedged" =>
          \/ row[e].md.ctype.long
          \/ /\ via[e] = "legacy" /\ IsStructured(row[e].md.ctype)
             /\ ShortStrTooLong(row[e].md.type)
    /\ at[e] = "refused" /\ via[e] = "rabbitmq" /\ forwards[e] > 0 /\ wire[e] # None =>
          wire[e].form # "binary"

(***************************************************************************)
(* When Receive returns because of Close, every event that the channel     *)
(* accepted before Close has been given to the processor, the one in its   *)
(* hands and those still in the buffer included: what is left came late    *)
(* ("drain": a Send that found the channel open and won its select after). *)
(***************************************************************************)
CloseDrains == rpc = "closed" => \A e \in Events : at[e] = "chan" => e \in late

(***************************************************************************)
(* An event the channel accepted is processed, whenever Close comes and    *)
(* however Send and Receive choose among what is ready, unless Receive's   *)
(* own context ends it.  Excepted is a Send that found the channel open    *)
(* and won its select after Close: drain may have returned by then.        *)
(***************************************************************************)
ChannelDrains ==
    []<>(\A e \in Events : at[e] = "chan" => rpc = "canceled" \/ e \in late)
=============================================================================
