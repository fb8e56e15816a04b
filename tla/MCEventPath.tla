---------------------------- MODULE MCEventPath ----------------------------
EXTENDS EventPath, TLC

CONSTANTS e1, e2, e3

Json == ContentType("json")
Structured == [Json EXCEPT !.base = "cloudevents+"]
NoOpts == [ext |-> <<>>]
Text == Value("string", "text")

Input == [name |-> "svc.Event", defaults |-> NoOpts, opts |-> NoOpts,
          generated |-> "uuid", body |-> "fields"]
With(f, v) == [Input EXCEPT !.opts = f :> v @@ @]
WithExt(c, n, v) == [Input EXCEPT !.opts = "ctype" :> c @@ [ext |-> n :> v]]

Values == {Text, Value("bool", "true"), Value("int32", "small"), Value("int", "small"),
           Value("int", "over32"), Value("int64", "small"), Value("int64", "over53"),
           Value("float64", "small"), Value("float64", "nan"), Value("bytes", "text"),
           Value("time", "seconds"), Value("time", "nanos"), Value("nil", "any"), Value("nested", "any")}
Names == {"plain", "source", "cloudEvents:id", "long-name", "x-first-death-queue", DeliveryCountHeader}

\* Extensions in both modes, then every other field on its own.
Published ==
    {WithExt(c, n, Text) : c \in {Json, Structured}, n \in Names}
    \cup {WithExt(c, "plain", v) : c \in {Json, Structured}, v \in Values}
    \cup {With("ctype", c) : c \in ContentTypes}
    \cup {With("schema", s) : s \in {"nil", "empty", "url", "unparsable"}}
    \cup {[With("schema", "url") EXCEPT !.defaults = [ext |-> <<>>, ctype |-> c, subject |-> "s"]] :
            c \in {Json, Structured, NoContentType}}
    \cup {[Input EXCEPT !.name = n] : n \in {"svc.Event", "svc.LongEvent", "Event", "other.Event"}}
    \cup {[With("ctype", Structured) EXCEPT !.name = "svc.LongEvent"]}
    \cup {[With(f, "") EXCEPT !.generated = g] : f \in {"id"}, g \in {"uuid", "", "error"}}
    \cup {With("id", "own"), With("time", "set"), With("source", "us")}
    \cup {[Input EXCEPT !.body = b] : b \in {"zero", "not a message"}}

Event == Built(With("ctype", Json))
WithType(t) == {[Event EXCEPT !.type = t, !.ctype = c] : c \in {Json, Structured}}
Row(m) == [json |-> "object", md |-> m, data |-> "json"]
Legacy ==
    {Row([Event EXCEPT !.ctype = c, !.ext = n :> v]) :
        c \in {Json, Structured}, n \in Names, v \in {Text, Value("nested", "any")}}
    \cup {Row(m) : m \in UNION {WithType(t) : t \in {"Event", "svc.LongEvent"}}}
    \cup {Row([Event EXCEPT !.schema = s]) :
            s \in {"empty", "unparsable", "object", "object@", "object0", "object!"}}
    \cup {Row([Event EXCEPT !.time = ""])}
    \cup {[Row(Event) EXCEPT !.json = j] : j \in {"null", "garbage"}}
    \cup {[Row([Event EXCEPT !.ctype = Structured]) EXCEPT !.data = d] : d \in {"proto", "empty"}}

\* Messages other publishers write: any one attribute missing or of another shape.
Wire(c) == Carried(Marshal([Event EXCEPT !.ctype = c, !.subject = "s", !.schema = "url"],
                           "json").wire)
Wires == {Wire(Json), Wire(Structured)}
Raws == {[kind |-> k, text |-> "7"] : k \in {"number", "null", "object"}}
        \cup {Raw(""), Raw("unparsable"), [kind |-> "bytes", text |-> "set"]}
Attrs == {"specversion", "id", "source", "subject", "time", "dataschema"}
Foreign ==
    Wires
    \cup {[w EXCEPT !.attrs = Restrict(@, DOMAIN @ \ {a})] : w \in Wires, a \in Attrs \cup {"data"}}
    \cup {[w EXCEPT !.attrs = [@ EXCEPT ![a] = r]] : w \in Wires, a \in Attrs, r \in Raws}
    \cup {[w EXCEPT !.ctype = c] : w \in Wires, c \in {Json, Structured, ContentType("xml")}}
    \cup {[w EXCEPT !.type = t] : w \in Wires, t \in {"", "Event"}}
    \cup {[w EXCEPT !.data = "proto"] : w \in Wires}
    \cup {[w EXCEPT !.ext = n :> v] :
            w \in Wires, n \in Names \ {"long-name"}, v \in {Text, Value("nil", "any")}}

Starts == {[how |-> "publish", of |-> i] : i \in Published}
          \cup {[how |-> "legacy", of |-> r] : r \in Legacy}
          \cup {[how |-> "foreign", of |-> w] : w \in Foreign}
Call(n) == [how |-> "publish", of |-> [Input EXCEPT !.name = n]]
Case(a, b, c, ts, id, n) ==
    [start |-> e1 :> a @@ e2 :> b @@ e3 :> c, transports |-> ts, rowid |-> id, forwards |-> n]
\* One event over the broker, from every start; or several contending for the channel.
OverBroker == {Case(s, None, None, {"rabbitmq", "outbox"}, id, 1) :
                   s \in Starts, id \in {"ReuseMetadataID", "GenerateUUIDv4"}}
OverChannel ==
    {Case(Call("svc.Event"), Call("svc.Event"), Call("other.Event"), {"gochan"}, "ReuseMetadataID", 0),
     Case(Call("svc.Event"), Call("svc.Event"), None, {"gochan", "outbox"}, "ReuseMetadataID", 1)}
MCCases == OverBroker \cup OverChannel
=============================================================================
