--------------------------- MODULE EventPathProofs ---------------------------
(***************************************************************************)
(* What an event's row, its message in the queue and the metadata in       *)
(* somebody's hands decode to is tied to what was published, so that every *)
(* codec is used as its own inverse; what was let in is tied to what every *)
(* later send checks.                                                      *)
(***************************************************************************)
EXTENDS EventPath, TLAPS

Fields == {"specversion", "type", "source", "subject", "id", "time", "schema", "ctype", "ext"}
Overwritten == DeathHeaders \cup {DeliveryCountHeader}

(***************************************************************************)
(* Fidelity.  A published value v is kept as w; SameValue alone would not  *)
(* survive the next codec, which looks at the kind of w.                   *)
(***************************************************************************)
Kept(p, v, w) == /\ SameValue(p, v, w)
                 /\ w.size = "over53" => w.kind = "int64"
                 /\ w.kind = "time" => v.kind = "time"

ExtCarries(p, x) ==
    /\ DOMAIN x \subseteq DOMAIN p.ext \cup {DeliveryCountHeader}
    /\ \A n \in DOMAIN p.ext \ Overwritten : n \in DOMAIN x /\ Kept(p, p.ext[n], x[n])

Carries(p, m) == /\ DOMAIN m = Fields
                 /\ \A f \in Fields \ {"ext"} : m[f] = p[f]
                 /\ ExtCarries(p, m.ext)

\* What publish hands on: a schema that marshals or that every codec refuses, and, for
\* structured mode, a payload that is JSON.
Original(p, d) ==
    /\ DOMAIN p = Fields
    /\ p.schema \in {"nil", "url", "unparsable"} /\ p.time = "set"
    /\ \A n \in DOMAIN p.ext : GoValue(p.ext[n])
    /\ IsStructured(p.ctype) => d = "json"

RowCarries(p, r) == ~Poison(r) => Carries(p, UnmarshalMetadata(r))
WireCarries(p, d, w) == Unmarshals(w) => Carries(p, Unmarshal(w)) /\ w.data = d

\* A send of m and d succeeds and writes w.
Sends(m, d, w) == SendErr(m, d) = "" /\ w = Carried(Prepare(m, d).wire)

Held == {"sending", "selecting", "chan", "handled"}

\* An event that was published as o, at a, with metadata m, payload d, row r, message w.
FaithfulAt(o, a, m, d, r, w) == o # None =>
    /\ a # "new"
    /\ Original(o.md, o.data)
    /\ a \in Held \cup {"row"} => d = o.data
    /\ a \in Held => Carries(o.md, m)
    /\ a = "row" => RowCarries(o.md, r)
    /\ a = "broker" => WireCarries(o.md, o.data, w)

(***************************************************************************)
(* Sendability.                                                            *)
(***************************************************************************)
Sendable(m) ==
    /\ ~IsStructured(m.ctype) /\ ~m.ctype.long
    /\ SplitType(m.type) /\ ~ShortStrTooLong(m.type)
    /\ \A n \in DOMAIN m.ext : /\ ~ReservedExtensionName(n) /\ ~ShortStrTooLong(n)
                               /\ ValidExtensionValue(m.ext[n])

AdmittedAt(a, v, m, r, w) ==
    /\ a = "new" => w = None
    /\ a = "row" => RowDocument(r) /\ (v = "legacy" \/ ~ShortStrTooLong(r.md.type))
    /\ a = "broker" => QueuedMessage(w)
    /\ a = "selecting" => v = "gochan"
    /\ a \in Held => DOMAIN m = Fields
    /\ a \in Held /\ w # None /\ w.form = "binary" => Sendable(m)

\* StaysSendable, of one event.
StaysAt(a, v, f, r, w) ==
    /\ a = "wedged" =>
          \/ r.md.ctype.long
          \/ v = "legacy" /\ IsStructured(r.md.ctype) /\ ShortStrTooLong(r.md.type)
    /\ a = "refused" /\ v = "rabbitmq" /\ f > 0 /\ w # None => w.form # "binary"

EventOK(e) == /\ FaithfulAt(published[e], at[e], md[e], data[e], row[e], wire[e])
              /\ AdmittedAt(at[e], via[e], md[e], row[e], wire[e])
              /\ StaysAt(at[e], via[e], forwards[e], row[e], wire[e])

(***************************************************************************)
(* The channel: an accepted event is in the buffer or in the receiver's    *)
(* hands, and the receiver drains only after Close.                        *)
(***************************************************************************)
Processing == {"process", "drain process"}
Buffered == \A e \in Events : at[e] = "chan" =>
    (\E i \in 1..Len(ch) : ch[i] = e) \/ (cur = e /\ rpc \in Processing)
Draining == rpc \in {"drain", "drain select", "drain process", "closed"} => done

ChannelOK == Buffered /\ Draining /\ CloseDrains

ShapeOK ==
    /\ inputs \in Cases
    /\ DOMAIN at = Events /\ DOMAIN via = Events /\ DOMAIN md = Events /\ DOMAIN data = Events
    /\ DOMAIN row = Events /\ DOMAIN wire = Events /\ DOMAIN forwards = Events
    /\ DOMAIN published = Events
    /\ ch \in Seq(Events) /\ (rpc \in Processing => cur \in Events)

IInv == ShapeOK /\ (\A e \in Events : EventOK(e)) /\ ChannelOK

(***************************************************************************)
(* A step about event e: the other events are as they were.                *)
(***************************************************************************)
Changes(f, g, e) == DOMAIN g = DOMAIN f /\ \A x \in DOMAIN f \ {e} : g[x] = f[x]
Only(e) ==
    /\ inputs' = inputs
    /\ Changes(at, at', e) /\ Changes(via, via', e) /\ Changes(md, md', e)
    /\ Changes(data, data', e) /\ Changes(row, row', e) /\ Changes(wire, wire', e)
    /\ Changes(forwards, forwards', e) /\ Changes(published, published', e)
-----------------------------------------------------------------------------
\* What a JSON document makes of a value, case by case.
LEMMA FromJSONCases ==
    ASSUME NEW v
    PROVE  /\ v.kind \in Numbers =>
                  /\ FromJSON(v).kind = "float64"
                  /\ FromJSON(v).size = IF v.size = "over53" THEN "rounded" ELSE v.size
           /\ v.kind \in {"bytes", "time"} =>
                  FromJSON(v).kind = "string" /\ FromJSON(v).size = v.size
           /\ v.kind \notin Numbers \cup {"bytes", "time"} => FromJSON(v) = v
<1>1. CASE v.kind \in Numbers
  BY <1>1 DEF FromJSON, Value, Numbers
<1>2. CASE v.kind \in {"bytes", "time"}
  BY <1>2 DEF FromJSON, Value, Numbers
<1>3. CASE v.kind \notin Numbers \cup {"bytes", "time"}
  BY <1>3 DEF FromJSON
<1> QED
  BY <1>1, <1>2, <1>3

\* What an AMQP field table makes of a value, case by case.
LEMMA FromTableCases ==
    ASSUME NEW v
    PROVE  /\ v.kind = "int" =>
                  /\ FromTable(v).kind = "int32"
                  /\ FromTable(v).size = IF v.size = "small" THEN "small" ELSE "truncated"
           /\ v.kind = "time" => FromTable(v).kind = "time" /\ FromTable(v).size = "seconds"
           /\ v.kind \notin {"int", "time"} => FromTable(v) = v
<1>1. CASE v.kind = "int"
  BY <1>1 DEF FromTable, Value
<1>2. CASE v.kind = "time"
  BY <1>2 DEF FromTable, Value
<1>3. CASE v.kind \notin {"int", "time"}
  BY <1>3 DEF FromTable
<1> QED
  BY <1>1, <1>2, <1>3

\* A value keeps what was published of it through JSON, if it is exact there or excepted.
LEMMA KeptByJSON ==
    ASSUME NEW p, NEW v, NEW w, GoValue(v), Kept(p, v, w),
           IsStructured(p.ctype) \/ ExactInEnvelope(w)
    PROVE  Kept(p, v, FromJSON(w))
<1> DEFINE j == FromJSON(w)
<1>1. v = Value(v.kind, v.size) /\ (v.size = "over53" => v.kind = "int64")
  BY DEF GoValue, Value
<1>2. /\ w.size = "over53" => w.kind = "int64"
      /\ v.size = w.size \/ SameValue(p, v, j)
  BY DEF Kept, SameValue
<1>3. /\ w.kind \in Numbers => j.kind = "float64" /\ (w.size # "over53" => j.size = w.size)
                               /\ j.size # "over53"
      /\ w.kind \in {"bytes", "time"} => j.kind = "string" /\ j.size = w.size
      /\ w.kind \notin Numbers \cup {"bytes", "time"} => j = w
  BY FromJSONCases
<1> HIDE DEF j
<1>4. SameValue(p, v, j)
  <2>1. CASE w.size = "over53" /\ v.size = w.size
    <3>1. w.kind = "int64" /\ v = Value("int64", "over53")
      BY <1>1, <1>2, <2>1
    <3>2. IsStructured(p.ctype)
      BY <2>1, <3>1 DEF ExactInEnvelope
    <3> QED
      BY <3>1, <3>2 DEF SameValue
  <2>2. CASE w.size # "over53"
    BY <1>2, <1>3, <2>2 DEF SameValue
  <2> QED
    BY <1>2, <2>1, <2>2
<1>5. (j.size = "over53" => j.kind = "int64") /\ (j.kind = "time" => v.kind = "time")
  BY <1>2, <1>3 DEF Kept, Numbers
<1> QED
  BY <1>4, <1>5 DEF Kept, j

\* A value that may be sent keeps what was published of it through a field table.
LEMMA KeptByTable ==
    ASSUME NEW p, NEW v, NEW w, GoValue(v), Kept(p, v, w), ~IsStructured(p.ctype),
           ValidExtensionValue(w)
    PROVE  Kept(p, v, FromTable(w)) /\ ValidExtensionValue(FromTable(w))
<1> DEFINE t == FromTable(w)
<1>1. /\ v = Value(v.kind, v.size)
      /\ v.kind = "time" => v.size \in {"seconds", "nanos"}
  BY DEF GoValue, Value
<1>2. v.size = w.size \/ SameValue(p, v, t)
  BY DEF Kept, SameValue
<1>3. /\ w.kind = "int" => t.kind = "int32" /\ t.size = "small" /\ w.size = "small"
      /\ w.kind = "time" => t.kind = "time" /\ t.size = "seconds"
      /\ w.kind \notin {"int", "time"} => t = w
  BY FromTableCases DEF ValidExtensionValue
<1> HIDE DEF t
<1>4. SameValue(p, v, t)
  <2>1. CASE w.kind = "time"
    <3>1. v.kind = "time"
      BY <2>1 DEF Kept
    <3>2. v.size = "seconds" \/ v = Value("time", "nanos")
      BY <1>1, <3>1
    <3> QED
      BY <1>3, <2>1, <3>2 DEF SameValue
  <2>2. CASE w.kind # "time"
    BY <1>2, <1>3, <2>2 DEF SameValue
  <2> QED
    BY <2>1, <2>2
<1>5. (t.size = "over53" => t.kind = "int64") /\ (t.kind = "time" => v.kind = "time")
  BY <1>3 DEF Kept
<1>6. ValidExtensionValue(t)
  BY <1>3 DEF ValidExtensionValue
<1> QED
  BY <1>4, <1>5, <1>6 DEF Kept, t

\* The fields of metadata that carries p, one by one.
LEMMA CarriesFields ==
    ASSUME NEW p, NEW m
    PROVE  Carries(p, m) <=>
               /\ DOMAIN m = Fields
               /\ m.specversion = p.specversion /\ m.type = p.type /\ m.source = p.source
               /\ m.subject = p.subject /\ m.id = p.id /\ m.time = p.time
               /\ m.schema = p.schema /\ m.ctype = p.ctype
               /\ ExtCarries(p, m.ext)
  BY DEF Carries, Fields

\* Extensions keep what was published of them through a JSON document.
LEMMA ExtByJSON ==
    ASSUME NEW p, NEW x, \A n \in DOMAIN p.ext : GoValue(p.ext[n]), ExtCarries(p, x),
           IsStructured(p.ctype) \/ \A n \in DOMAIN x : ExactInEnvelope(x[n])
    PROVE  ExtCarries(p, [n \in DOMAIN x |-> FromJSON(x[n])])
<1>1. ASSUME NEW n \in DOMAIN p.ext \ Overwritten
      PROVE  n \in DOMAIN x /\ Kept(p, p.ext[n], FromJSON(x[n]))
  <2>1. n \in DOMAIN x /\ Kept(p, p.ext[n], x[n])
    BY <1>1 DEF ExtCarries
  <2> QED
    BY <2>1, KeptByJSON
<1> QED
  BY <1>1 DEF ExtCarries

(***************************************************************************)
(* The outbox row: what was validated and marshalled decodes to what was   *)
(* published.                                                              *)
(***************************************************************************)
LEMMA RowKeeps ==
    ASSUME NEW p, NEW d, NEW m, Original(p, d), Carries(p, m),
           ValidateMetadata(m), MarshalsMetadata(m)
    PROVE  RowCarries(p, MarshalMetadata(m))
<1> DEFINE r == MarshalMetadata(m)
           u == UnmarshalMetadata(r)
<1>1. DOMAIN m = Fields /\ m.schema \in {"nil", "url"}
  BY CarriesFields DEF Original, MarshalsMetadata
<1>2. DOMAIN r.md = Fields /\ r.md.ext = m.ext /\ \A f \in Fields : r.md[f] = m[f]
  BY <1>1 DEF MarshalMetadata, Fields
<1> HIDE DEF r
<1>3. /\ DOMAIN u = Fields
      /\ u.schema = m.schema /\ u.ext = [n \in DOMAIN m.ext |-> FromJSON(m.ext[n])]
      /\ \A f \in Fields \ {"schema", "ext"} : u[f] = m[f]
  BY <1>1, <1>2 DEF UnmarshalMetadata, DecodeDataSchema, Fields
<1>4. \A n \in DOMAIN m.ext : ExactInEnvelope(m.ext[n])
  BY DEF ValidateMetadata
<1>5. ExtCarries(p, u.ext)
  BY <1>3, <1>4, ExtByJSON DEF Original, Carries
<1> QED
  BY <1>3, <1>5 DEF RowCarries, Carries, Fields, r

\* The attributes a marshaler writes: three always, three unless they are absent.
LEMMA WrittenAttributes ==
    ASSUME NEW m
    PROVE  LET A == Attributes(m)
           IN  /\ {"specversion", "id", "source"} \subseteq DOMAIN A
               /\ DOMAIN A \subseteq {"specversion", "id", "source", "subject", "dataschema",
                                      "time"}
               /\ "subject" \in DOMAIN A <=> m.subject # ""
               /\ "time" \in DOMAIN A <=> m.time # ""
               /\ "dataschema" \in DOMAIN A <=> m.schema # "nil"
               /\ \A a \in DOMAIN A : A[a].kind = "string"
               /\ A.specversion.text = m.specversion /\ A.id.text = m.id
               /\ A.source.text = m.source
               /\ m.subject # "" => A.subject.text = m.subject
               /\ m.time # "" => A.time.text = m.time
               /\ m.schema # "nil" => A.dataschema.text = SchemaText(m.schema)
  BY DEF Attributes, Raw

\* What a send in binary mode wrote, and what it had checked.
LEMMA SentBinary ==
    ASSUME NEW m, NEW d, NEW w, Sends(m, d, w), ~IsStructured(m.ctype)
    PROVE  /\ DOMAIN w = {"type", "ctype", "form", "attrs", "ext", "data"}
           /\ w.type = m.type /\ w.ctype = m.ctype /\ w.form = "binary"
           /\ w.attrs = Attributes(m) /\ w.data = d
           /\ w.ext = [n \in DOMAIN m.ext |-> FromTable(m.ext[n])]
           /\ ~BinaryRefuses(m) /\ ~m.ctype.long
<1>0. PICK r : r = Prepare(m, d)
  OBVIOUS
<1>1. r.err = "" /\ Encodes(r.wire)
  BY <1>0 DEF SendErr, Sends
<1>2. r = BinaryMarshal(m, d)
  <2>1. r = Marshal(m, d) \/ r = Failure("ErrUnsendable")
    BY <1>0 DEF Prepare
  <2>2. ASSUME r = Failure("ErrUnsendable") PROVE FALSE
    BY <1>1, <2>2 DEF Failure
  <2>3. Marshal(m, d) = BinaryMarshal(m, d)
    BY DEF Marshal
  <2> QED
    BY <2>1, <2>2, <2>3
<1>3. ~BinaryRefuses(m)
  <2> SUFFICES ASSUME BinaryRefuses(m) PROVE FALSE
    OBVIOUS
  <2>1. r = Failure("ErrUnsendable")
    BY <1>2 DEF BinaryMarshal
  <2> QED
    BY <1>1, <2>1 DEF Failure
<1>4. r = Marshaled(Publishing(m, "binary", Attributes(m), d))
  BY <1>2, <1>3 DEF BinaryMarshal
<1>5. PICK u : u = r.wire
  OBVIOUS
<1>6. u = Publishing(m, "binary", Attributes(m), d)
  BY <1>4, <1>5 DEF Marshaled
<1>7. /\ u.type = m.type /\ u.ctype = m.ctype /\ u.form = "binary" /\ u.attrs = Attributes(m)
      /\ u.ext = m.ext /\ u.data = d
      /\ DOMAIN u = {"type", "ctype", "form", "attrs", "ext", "data"}
  BY <1>6 DEF Publishing
<1>8. ~m.ctype.long
  BY <1>1, <1>5, <1>7 DEF Encodes
<1>9. w = [u EXCEPT !.ext = [n \in DOMAIN u.ext |-> FromTable(u.ext[n])]]
  BY <1>0, <1>5, <1>7 DEF Carried, Sends
<1> QED
  BY <1>3, <1>7, <1>8, <1>9

\* What a send in structured mode wrote, and what it had checked.
LEMMA SentStructured ==
    ASSUME NEW m, NEW d, NEW w, Sends(m, d, w), IsStructured(m.ctype)
    PROVE  /\ DOMAIN w = {"type", "ctype", "form", "attrs", "ext", "data"}
           /\ w.type = m.type /\ w.ctype = m.ctype /\ w.form = "structured"
           /\ w.ext = m.ext /\ (d # "empty" => w.data = d)
           /\ w.attrs["type"] = Raw(m.type) /\ w.attrs.datacontenttype = Raw(m.ctype)
           /\ DOMAIN w.attrs = DOMAIN Attributes(m) \cup {"type", "data", "datacontenttype"}
           /\ \A a \in DOMAIN Attributes(m) : w.attrs[a] = Attributes(m)[a]
           /\ ~ShortStrTooLong(m.type) /\ ~m.ctype.long
<1>0. PICK r, payload, document, attrs, A :
          /\ A = Attributes(m) /\ r = Prepare(m, d)
          /\ payload = IF d = "empty" THEN "null" ELSE d
          /\ document = [type |-> Raw(m.type), data |-> Raw(payload)]
          /\ attrs = Over(A, Over(document, [datacontenttype |-> Raw(m.ctype)]))
  OBVIOUS
<1>1. r.err = "" /\ Encodes(r.wire)
  BY <1>0 DEF SendErr, Sends
<1>2. r = StructuredMarshal(m, d)
  <2>1. r = Marshal(m, d) \/ r = Failure("ErrUnsendable")
    BY <1>0 DEF Prepare
  <2>2. ASSUME r = Failure("ErrUnsendable") PROVE FALSE
    BY <1>1, <2>2 DEF Failure
  <2>3. Marshal(m, d) = StructuredMarshal(m, d)
    BY DEF Marshal
  <2> QED
    BY <2>1, <2>2, <2>3
<1>3. m.ctype.base # ""
  BY DEF IsStructured, ParseContentType
<1>4. \/ \E err \in {"ErrUnsendable", "other"} : r = Failure(err)
      \/ r = Marshaled(Publishing(m, "structured", attrs, payload))
  BY <1>0, <1>2, <1>3 DEF StructuredMarshal
<1>5. r = Marshaled(Publishing(m, "structured", attrs, payload))
  <2>1. ASSUME NEW err \in {"ErrUnsendable", "other"}, r = Failure(err)
        PROVE  FALSE
    BY <1>1, <2>1 DEF Failure
  <2> QED
    BY <1>4, <2>1
<1>6. DOMAIN A \subseteq {"specversion", "id", "source", "subject", "dataschema", "time"}
  BY <1>0, WrittenAttributes
<1>7. /\ DOMAIN attrs = DOMAIN A \cup {"type", "data", "datacontenttype"}
      /\ \A a \in DOMAIN A : attrs[a] = A[a]
      /\ attrs["type"] = Raw(m.type) /\ attrs.datacontenttype = Raw(m.ctype)
  BY <1>0, <1>6 DEF Over
<1>8. PICK u : u = r.wire
  OBVIOUS
<1>9. u = Publishing(m, "structured", attrs, payload)
  BY <1>5, <1>8 DEF Marshaled
<1>10. /\ u.type = m.type /\ u.ctype = m.ctype /\ u.form = "structured" /\ u.attrs = attrs
       /\ u.ext = m.ext /\ u.data = payload
       /\ DOMAIN u = {"type", "ctype", "form", "attrs", "ext", "data"}
  BY <1>9 DEF Publishing
<1>11. ~ShortStrTooLong(m.type) /\ ~m.ctype.long
  BY <1>1, <1>8, <1>10 DEF Encodes
<1>12. w = u
  BY <1>0, <1>8, <1>10 DEF Carried, Sends
<1>13. d # "empty" => w.data = d
  BY <1>0, <1>10, <1>12
<1> QED
  BY <1>0, <1>7, <1>10, <1>11, <1>12, <1>13

(***************************************************************************)
(* Binary mode: what the receiver lifts out of the headers is what was     *)
(* published.                                                              *)
(***************************************************************************)
LEMMA BinaryKeeps ==
    ASSUME NEW p, NEW d, NEW m, Original(p, d), Carries(p, m), ~IsStructured(m.ctype),
           NEW w, Sends(m, d, w)
    PROVE  WireCarries(p, d, w)
<1>0. /\ m.specversion = p.specversion /\ m.type = p.type /\ m.source = p.source
      /\ m.subject = p.subject /\ m.id = p.id /\ m.time = "set"
      /\ m.schema = p.schema /\ m.ctype = p.ctype /\ ExtCarries(p, m.ext)
      /\ p.schema \in {"nil", "url", "unparsable"} /\ p.time = "set"
  BY CarriesFields DEF Original
<1>1. /\ w.type = m.type /\ w.ctype = m.ctype /\ w.attrs = Attributes(m) /\ w.data = d
      /\ w.ext = [n \in DOMAIN m.ext |-> FromTable(m.ext[n])]
      /\ ~BinaryRefuses(m)
  BY SentBinary
<1>2. SUFFICES ASSUME BinaryUnmarshals(w)
               PROVE  Carries(p, BinaryUnmarshal(w)) /\ w.data = d
  BY <1>1 DEF WireCarries, Unmarshals, Unmarshal
<1>3. PICK A, u : A = Attributes(m) /\ u = BinaryUnmarshal(w)
  OBVIOUS
<1>4. /\ {"specversion", "id", "source"} \subseteq DOMAIN A
      /\ "subject" \in DOMAIN A <=> m.subject # ""
      /\ "time" \in DOMAIN A <=> m.time # ""
      /\ "dataschema" \in DOMAIN A <=> m.schema # "nil"
      /\ \A a \in DOMAIN A : A[a].kind = "string"
      /\ A.specversion.text = m.specversion /\ A.id.text = m.id /\ A.source.text = m.source
      /\ m.subject # "" => A.subject.text = m.subject
      /\ m.time # "" => A.time.text = m.time
      /\ m.schema # "nil" => A.dataschema.text = SchemaText(m.schema)
  BY <1>3, WrittenAttributes
<1>5. /\ Header(w, "specversion") = m.specversion /\ Header(w, "id") = m.id
      /\ Header(w, "source") = m.source /\ Header(w, "subject") = m.subject
      /\ Header(w, "time") = "set"
  <2>1. ASSUME NEW a \in DOMAIN A
        PROVE  Header(w, a) = A[a].text
    <3>1. a \in DOMAIN w.attrs /\ w.attrs[a] = A[a] /\ A[a].kind = "string"
      BY <1>1, <1>3, <1>4
    <3> QED
      BY <3>1 DEF Header, HeaderString
  <2>2. "subject" \notin DOMAIN A => Header(w, "subject") = ""
    BY <1>1, <1>3 DEF Header, HeaderString
  <2>3. /\ Header(w, "specversion") = m.specversion /\ Header(w, "id") = m.id
        /\ Header(w, "source") = m.source
    BY <1>4, <2>1
  <2>4. Header(w, "subject") = m.subject
    BY <1>4, <2>1, <2>2
  <2>5. Header(w, "time") = "set"
    BY <1>0, <1>4, <2>1
  <2> QED
    BY <2>3, <2>4, <2>5
<1>6. (IF Header(w, "dataschema") = "" THEN "nil" ELSE Header(w, "dataschema")) = p.schema
  <2>1. CASE p.schema = "nil"
    BY <1>0, <1>1, <1>3, <1>4, <2>1 DEF Header, HeaderString
  <2>2. CASE p.schema # "nil"
    <3>1. Header(w, "dataschema") = p.schema
      BY <1>0, <1>1, <1>3, <1>4, <2>2 DEF Header, HeaderString, SchemaText
    <3> QED
      BY <1>0, <3>1
  <2> QED
    BY <2>1, <2>2
<1>7. /\ DOMAIN u = Fields /\ u.specversion = m.specversion /\ u.type = m.type
      /\ u.source = m.source /\ u.subject = m.subject /\ u.id = m.id /\ u.time = "set"
      /\ u.schema = p.schema /\ u.ctype = m.ctype
      /\ u.ext = Restrict(w.ext, {n \in DOMAIN w.ext : Lifts(n, w.ext[n])})
  BY <1>1, <1>3, <1>5, <1>6 DEF BinaryUnmarshal, Fields
<1>8. ExtCarries(p, u.ext)
  <2>1. DOMAIN u.ext \subseteq DOMAIN p.ext \cup {DeliveryCountHeader}
    BY <1>0, <1>1, <1>7 DEF Restrict, ExtCarries
  <2>2. ASSUME NEW n \in DOMAIN p.ext \ Overwritten
        PROVE  n \in DOMAIN u.ext /\ Kept(p, p.ext[n], u.ext[n])
    <3>1. n \in DOMAIN m.ext /\ Kept(p, p.ext[n], m.ext[n]) /\ GoValue(p.ext[n])
      BY <1>0 DEF ExtCarries, Original
    <3>2. ~ReservedExtensionName(n) /\ ValidExtensionValue(m.ext[n])
      BY <1>1, <3>1 DEF BinaryRefuses
    <3>3. /\ w.ext[n] = FromTable(m.ext[n]) /\ n \in DOMAIN w.ext
      BY <1>1, <3>1
    <3>4. Kept(p, p.ext[n], w.ext[n]) /\ ValidExtensionValue(w.ext[n])
      BY <1>0, <3>1, <3>2, <3>3, KeptByTable
    <3>5. Lifts(n, w.ext[n])
      BY <3>2, <3>4 DEF Lifts, BrokerDeathHeader, Overwritten
    <3>6. n \in DOMAIN u.ext /\ u.ext[n] = w.ext[n]
      BY <1>7, <3>3, <3>5 DEF Restrict
    <3> QED
      BY <3>4, <3>6
  <2> QED
    BY <2>1, <2>2 DEF ExtCarries
<1>9. Carries(p, u)
  BY <1>0, <1>7, <1>8, CarriesFields
<1> QED
  BY <1>1, <1>3, <1>9

(***************************************************************************)
(* Structured mode: the JSON document decodes to what was published, its   *)
(* payload included, because an empty one is never published as JSON.      *)
(***************************************************************************)
LEMMA StructuredKeeps ==
    ASSUME NEW p, NEW d, NEW m, Original(p, d), Carries(p, m), IsStructured(m.ctype),
           NEW w, Sends(m, d, w)
    PROVE  WireCarries(p, d, w)
<1>0. /\ m.specversion = p.specversion /\ m.type = p.type /\ m.source = p.source
      /\ m.subject = p.subject /\ m.id = p.id /\ m.time = "set"
      /\ m.schema = p.schema /\ m.ctype = p.ctype /\ ExtCarries(p, m.ext)
      /\ p.schema \in {"nil", "url", "unparsable"} /\ p.time = "set"
  BY CarriesFields DEF Original
<1>1. PICK A, u : A = Attributes(m) /\ u = StructuredUnmarshal(w)
  OBVIOUS
<1>2. /\ w.ctype = m.ctype /\ w.ext = m.ext /\ w.data = d
      /\ DOMAIN w.attrs = DOMAIN A \cup {"type", "data", "datacontenttype"}
      /\ \A a \in DOMAIN A : w.attrs[a] = A[a]
      /\ w.attrs["type"] = Raw(m.type) /\ w.attrs.datacontenttype = Raw(m.ctype)
  <2>1. d # "empty"
    BY <1>0 DEF Original
  <2> QED
    BY <1>1, <2>1, SentStructured
<1>3. SUFFICES ASSUME StructuredUnmarshals(w)
               PROVE  Carries(p, StructuredUnmarshal(w))
  BY <1>2 DEF WireCarries, Unmarshals, Unmarshal
<1>4. /\ {"specversion", "id", "source"} \subseteq DOMAIN A
      /\ DOMAIN A \subseteq {"specversion", "id", "source", "subject", "dataschema", "time"}
      /\ "subject" \in DOMAIN A <=> m.subject # ""
      /\ "time" \in DOMAIN A <=> m.time # ""
      /\ "dataschema" \in DOMAIN A <=> m.schema # "nil"
      /\ \A a \in DOMAIN A : A[a].kind = "string"
      /\ A.specversion.text = m.specversion /\ A.id.text = m.id /\ A.source.text = m.source
      /\ m.subject # "" => A.subject.text = m.subject
      /\ m.time # "" => A.time.text = m.time
      /\ m.schema # "nil" => A.dataschema.text = SchemaText(m.schema)
  BY <1>1, WrittenAttributes
<1>5. /\ Attribute(w, "specversion", "") = m.specversion /\ Attribute(w, "id", "") = m.id
      /\ Attribute(w, "source", "") = m.source /\ Attribute(w, "subject", "") = m.subject
      /\ Attribute(w, "time", "") = "set"
  <2>1. ASSUME NEW a \in DOMAIN A
        PROVE  Attribute(w, a, "") = A[a].text
    <3>1. a \in DOMAIN w.attrs /\ w.attrs[a] = A[a]
      BY <1>2
    <3>2. A[a].kind = "string"
      BY <1>4
    <3> QED
      BY <3>1, <3>2 DEF Attribute, Present
  <2>2. "subject" \notin DOMAIN A => Attribute(w, "subject", "") = ""
    BY <1>2 DEF Attribute, Present
  <2>3. Attribute(w, "subject", "") = m.subject
    BY <1>4, <2>1, <2>2
  <2>4. /\ Attribute(w, "specversion", "") = m.specversion /\ Attribute(w, "id", "") = m.id
        /\ Attribute(w, "source", "") = m.source
    <3>1. Attribute(w, "specversion", "") = m.specversion
      BY <1>4, <2>1
    <3>2. Attribute(w, "id", "") = m.id
      BY <1>4, <2>1
    <3>3. Attribute(w, "source", "") = m.source
      BY <1>4, <2>1
    <3> QED
      BY <3>1, <3>2, <3>3
  <2>5. Attribute(w, "time", "") = "set"
    BY <1>0, <1>4, <2>1
  <2> QED
    BY <2>3, <2>4, <2>5
<1>6. Attribute(w, "type", "") = m.type /\ Present(w, "datacontenttype")
      /\ w.attrs.datacontenttype.text = m.ctype
  <2>1. \A x : Raw(x).kind = "string" /\ Raw(x).text = x
    BY DEF Raw
  <2>2. w.attrs["type"].kind = "string" /\ w.attrs["type"].text = m.type
    BY <1>2, <2>1
  <2>3. w.attrs.datacontenttype.kind = "string" /\ w.attrs.datacontenttype.text = m.ctype
    BY <1>2, <2>1
  <2> QED
    BY <1>2, <2>2, <2>3 DEF Attribute, Present
<1>7. Attribute(w, "dataschema", "nil") = p.schema
  <2>1. CASE p.schema = "nil"
    BY <1>0, <1>2, <1>4, <2>1 DEF Attribute, Present
  <2>2. CASE p.schema # "nil"
    <3>1. w.attrs["dataschema"] = A["dataschema"] /\ A.dataschema.text = p.schema
          /\ "dataschema" \in DOMAIN w.attrs /\ A.dataschema.kind = "string"
      BY <1>0, <1>2, <1>4, <2>2 DEF SchemaText
    <3> QED
      BY <1>0, <2>2, <3>1 DEF Attribute, Present
  <2> QED
    BY <2>1, <2>2
<1>8. /\ DOMAIN u = Fields /\ u.specversion = m.specversion /\ u.type = m.type
      /\ u.source = m.source /\ u.subject = m.subject /\ u.id = m.id /\ u.time = "set"
      /\ u.schema = p.schema /\ u.ctype = m.ctype
      /\ u.ext = [n \in DOMAIN m.ext |-> FromJSON(m.ext[n])]
  BY <1>1, <1>2, <1>5, <1>6, <1>7 DEF StructuredUnmarshal, Fields
<1>9. ExtCarries(p, u.ext)
  BY <1>0, <1>8, ExtByJSON DEF Original
<1>10. Carries(p, u)
  BY <1>0, <1>8, <1>9, CarriesFields
<1> QED
  BY <1>1, <1>10

\* A send in either mode writes what decodes to what was published.
LEMMA WireKeeps ==
    ASSUME NEW p, NEW d, NEW m, Original(p, d), Carries(p, m), NEW w, Sends(m, d, w)
    PROVE  WireCarries(p, d, w)
  BY BinaryKeeps, StructuredKeeps

\* What a send writes got through AMQP.
LEMMA SentIsQueued ==
    ASSUME NEW m, NEW d, NEW w, Sends(m, d, w)
    PROVE  QueuedMessage(w)
<1>1. CASE IsStructured(m.ctype)
  BY <1>1, SentStructured DEF QueuedMessage
<1>2. CASE ~IsStructured(m.ctype)
  <2>1. /\ DOMAIN w = {"type", "ctype", "form", "attrs", "ext", "data"}
        /\ w.type = m.type /\ w.ctype = m.ctype
        /\ w.ext = [n \in DOMAIN m.ext |-> FromTable(m.ext[n])]
        /\ ~BinaryRefuses(m) /\ ~m.ctype.long
    BY <1>2, SentBinary
  <2> QED
    BY <2>1 DEF QueuedMessage, BinaryRefuses
<1> QED
  BY <1>1, <1>2

(***************************************************************************)
(* The broker's headers: AMQP carries their names, and only                *)
(* x-delivery-count is lifted into an extension.                           *)
(***************************************************************************)
LEMMA HeadersKeep ==
    ASSUME NEW w, QueuedMessage(w), w.form = "binary",
           NEW added, DOMAIN added \subseteq Overwritten,
           NEW v, v = [w EXCEPT !.ext = Over(added, w.ext)]
    PROVE  /\ QueuedMessage(v)
           /\ \A p, d : WireCarries(p, d, w) => WireCarries(p, d, v)
<1>1. /\ DOMAIN v = {"type", "ctype", "form", "attrs", "ext", "data"}
      /\ v.type = w.type /\ v.ctype = w.ctype /\ v.form = "binary" /\ v.attrs = w.attrs
      /\ v.data = w.data /\ v.ext = Over(added, w.ext)
  BY DEF QueuedMessage
<1>2. /\ DOMAIN v.ext = DOMAIN added \cup DOMAIN w.ext
      /\ \A n \in DOMAIN w.ext \ DOMAIN added : v.ext[n] = w.ext[n]
  BY <1>1 DEF Over
<1>3. QueuedMessage(v)
  <2>1. \A n \in Overwritten : ~ShortStrTooLong(n)
    BY DEF Overwritten, DeathHeaders, DeliveryCountHeader, ShortStrTooLong, LongStrings
  <2> QED
    BY <1>1, <1>2, <2>1 DEF QueuedMessage
<1>4. ASSUME NEW p, NEW d, WireCarries(p, d, w), Unmarshals(v)
      PROVE  Carries(p, Unmarshal(v)) /\ v.data = d
  <2>1. ~IsStructured(v.ctype) /\ ~IsStructured(w.ctype)
    BY <1>1, <1>4 DEF Unmarshals, StructuredUnmarshals
  <2>2. /\ \A a : HeaderString(v, a) <=> HeaderString(w, a)
        /\ \A a : Header(v, a) = Header(w, a)
    BY <1>1 DEF Header, HeaderString
  <2>3. BinaryUnmarshals(w)
    BY <1>1, <1>4, <2>1, <2>2 DEF Unmarshals, BinaryUnmarshals
  <2>4. PICK x, y : x = BinaryUnmarshal(w) /\ y = BinaryUnmarshal(v)
    OBVIOUS
  <2>5. Carries(p, x) /\ w.data = d
    BY <1>4, <2>1, <2>3, <2>4 DEF WireCarries, Unmarshals, Unmarshal
  <2>6. /\ DOMAIN y = Fields /\ y.specversion = x.specversion /\ y.type = x.type
        /\ y.source = x.source /\ y.subject = x.subject /\ y.id = x.id /\ y.time = x.time
        /\ y.schema = x.schema /\ y.ctype = x.ctype
    BY <1>1, <2>2, <2>4 DEF BinaryUnmarshal, Fields
  <2>7. /\ x.ext = Restrict(w.ext, {n \in DOMAIN w.ext : Lifts(n, w.ext[n])})
        /\ y.ext = Restrict(v.ext, {n \in DOMAIN v.ext : Lifts(n, v.ext[n])})
    BY <2>4 DEF BinaryUnmarshal
  <2>8. \A n, z : n \in DeathHeaders => ~Lifts(n, z)
    BY DEF Lifts, BrokerDeathHeader
  <2>9. /\ DOMAIN y.ext \subseteq DOMAIN x.ext \cup {DeliveryCountHeader}
        /\ \A n \in DOMAIN x.ext \ Overwritten : n \in DOMAIN y.ext /\ y.ext[n] = x.ext[n]
    <3>1. ASSUME NEW n \in DOMAIN y.ext, n # DeliveryCountHeader
          PROVE  n \in DOMAIN x.ext
      <4>1. n \in DOMAIN v.ext /\ Lifts(n, v.ext[n])
        BY <2>7 DEF Restrict
      <4>2. n \notin Overwritten
        BY <2>8, <3>1, <4>1 DEF Overwritten
      <4>3. n \in DOMAIN w.ext /\ v.ext[n] = w.ext[n]
        BY <1>2, <4>1, <4>2
      <4> QED
        BY <2>7, <4>1, <4>3 DEF Restrict
    <3>2. ASSUME NEW n \in DOMAIN x.ext \ Overwritten
          PROVE  n \in DOMAIN y.ext /\ y.ext[n] = x.ext[n]
      <4>1. n \in DOMAIN w.ext /\ Lifts(n, w.ext[n]) /\ x.ext[n] = w.ext[n]
        BY <2>7 DEF Restrict
      <4>2. n \in DOMAIN v.ext /\ v.ext[n] = w.ext[n]
        BY <1>2, <4>1
      <4> QED
        BY <2>7, <4>1, <4>2 DEF Restrict
    <3> QED
      BY <3>1, <3>2
  <2>10. ExtCarries(p, y.ext)
    BY <2>5, <2>9 DEF Carries, ExtCarries
  <2>11. Carries(p, y)
    BY <2>5, <2>6, <2>10, CarriesFields
  <2> QED
    BY <1>1, <2>1, <2>4, <2>5, <2>11 DEF Unmarshal
<1> QED
  BY <1>3, <1>4 DEF WireCarries

\* Metadata that passes the checks of binary mode is sent.
LEMMA SendableSends ==
    ASSUME NEW m, NEW d, Sendable(m)
    PROVE  SendErr(m, d) = ""
<1>1. ~BinaryRefuses(m)
  BY DEF Sendable, BinaryRefuses
<1>2. PICK r, w : r = Prepare(m, d) /\ w = Publishing(m, "binary", Attributes(m), d)
  OBVIOUS
<1>3. Marshal(m, d) = Marshaled(w)
  BY <1>1, <1>2 DEF Sendable, Marshal, BinaryMarshal
<1>4. r = Marshaled(w)
  BY <1>2, <1>3 DEF Prepare, Sendable, Marshaled
<1>5. r.err = "" /\ r.wire = w
  BY <1>4 DEF Marshaled
<1>6. w.type = m.type /\ w.ctype = m.ctype /\ w.ext = m.ext
  BY <1>2 DEF Publishing
<1>7. Encodes(w)
  BY <1>6 DEF Encodes, Sendable, ValidExtensionValue
<1> QED
  BY <1>2, <1>5, <1>7 DEF SendErr

\* What was lifted out of a message in binary mode can be sent again as it is.
LEMMA LiftedIsSendable ==
    ASSUME NEW w, QueuedMessage(w), w.form = "binary", Unmarshals(w),
           SplitType(Unmarshal(w).type)
    PROVE  Sendable(Unmarshal(w))
<1>1. ~IsStructured(w.ctype)
  BY DEF Unmarshals, StructuredUnmarshals
<1>2. PICK m : m = Unmarshal(w)
  OBVIOUS
<1>3. m = BinaryUnmarshal(w)
  BY <1>1, <1>2 DEF Unmarshal
<1>4. /\ m.type = w.type /\ m.ctype = w.ctype
      /\ m.ext = Restrict(w.ext, {n \in DOMAIN w.ext : Lifts(n, w.ext[n])})
  BY <1>3 DEF BinaryUnmarshal
<1>5. \A n \in DOMAIN m.ext : n \in DOMAIN w.ext /\ Lifts(n, m.ext[n])
  BY <1>4 DEF Restrict
<1> QED
  BY <1>1, <1>2, <1>4, <1>5 DEF Sendable, QueuedMessage, Lifts

\* A decoded message has the fields of metadata.
LEMMA UnmarshalFields ==
    ASSUME NEW w
    PROVE  DOMAIN Unmarshal(w) = Fields
<1>1. DOMAIN BinaryUnmarshal(w) = Fields
  BY DEF BinaryUnmarshal, Fields
<1>2. DOMAIN StructuredUnmarshal(w) = Fields
  BY DEF StructuredUnmarshal, Fields
<1> QED
  BY <1>1, <1>2 DEF Unmarshal

\* The row that SendOutbox writes is a JSON document whose type is not too long.
LEMMA WrittenRow ==
    ASSUME NEW m, DOMAIN m = Fields, ValidateMetadata(m), MarshalsMetadata(m),
           NEW r, r = MarshalMetadata(m)
    PROVE  RowDocument(r) /\ ~ShortStrTooLong(r.md.type)
<1>1. DOMAIN r.md = Fields /\ r.md.ext = m.ext /\ r.md.type = m.type
  BY DEF MarshalMetadata, Fields
<1>2. DOMAIN NoMetadata = Fields
  BY DEF NoMetadata, Fields
<1> QED
  BY <1>1, <1>2 DEF RowDocument, ValidateMetadata, MarshalsMetadata

(***************************************************************************)
(* A row fails with an error nobody claims only for the lengths that       *)
(* nobody checks.                                                          *)
(***************************************************************************)
LEMMA UnclaimedError ==
    ASSUME NEW r, NEW d, RowDocument(r), SendErr(UnmarshalMetadata(r), d) = "other"
    PROVE  r.md.ctype.long \/ (IsStructured(r.md.ctype) /\ ShortStrTooLong(r.md.type))
<1>1. PICK m, q : m = UnmarshalMetadata(r) /\ q = Prepare(m, d)
  OBVIOUS
<1>2. DOMAIN r.md = Fields
  BY DEF RowDocument, NoMetadata, Fields
<1>3. /\ m.type = r.md.type /\ m.ctype = r.md.ctype
      /\ m.ext = [n \in DOMAIN r.md.ext |-> FromJSON(r.md.ext[n])]
  BY <1>1, <1>2 DEF UnmarshalMetadata, Fields
<1>4. \A n \in DOMAIN m.ext : InJSON(m.ext[n])
  <2>1. ASSUME NEW v, InJSON(v) PROVE InJSON(FromJSON(v))
    BY <2>1, FromJSONCases DEF InJSON
  <2> QED
    BY <1>3, <2>1 DEF RowDocument
<1>5. q.err = "other" \/ (q.err = "" /\ ~Encodes(q.wire))
  BY <1>1 DEF SendErr
<1>6. q = Failure("ErrUnsendable") \/ q = Marshal(m, d)
  BY <1>1 DEF Prepare
<1>7. ASSUME q = Failure("ErrUnsendable") PROVE FALSE
  BY <1>5, <1>7 DEF Failure
<1>8. CASE IsStructured(m.ctype)
  <2>1. PICK A, payload :
            q \in {Failure("ErrUnsendable"),
                   Marshaled(Publishing(m, "structured", A, payload))}
    BY <1>4, <1>6, <1>8 DEF Marshal, StructuredMarshal
  <2>2. PICK w : w = Publishing(m, "structured", A, payload)
    OBVIOUS
  <2>3. q.wire = w /\ q.err = ""
    <3>1. q = Marshaled(w)
      BY <1>7, <2>1, <2>2
    <3> QED
      BY <3>1 DEF Marshaled
  <2>4. w.type = m.type /\ w.ctype = m.ctype /\ w.form = "structured"
    BY <2>2 DEF Publishing
  <2> QED
    BY <1>3, <1>5, <1>8, <2>3, <2>4 DEF Encodes
<1>9. CASE ~IsStructured(m.ctype)
  <2>1. q = BinaryMarshal(m, d)
    BY <1>6, <1>7, <1>9 DEF Marshal
  <2>2. ~BinaryRefuses(m)
    BY <1>7, <2>1 DEF BinaryMarshal
  <2>3. PICK w : w = Publishing(m, "binary", Attributes(m), d)
    OBVIOUS
  <2>4. q = Marshaled(w)
    BY <2>1, <2>2, <2>3 DEF BinaryMarshal
  <2>5. q.wire = w /\ q.err = ""
    BY <2>4 DEF Marshaled
  <2>6. w.type = m.type /\ w.ctype = m.ctype /\ w.ext = m.ext
    BY <2>3 DEF Publishing
  <2> QED
    BY <1>3, <1>5, <2>2, <2>5, <2>6 DEF Encodes, BinaryRefuses, ValidExtensionValue
<1> QED
  BY <1>8, <1>9

\* The options of a call over those of the publisher are options.
LEMMA CombinedOptions ==
    ASSUME NEW a, NEW b, ProperOptions(a), ProperOptions(b), NEW o, o = Combine(a, b)
    PROVE  ProperOptions(o)
<1>1. PICK x, y : x = Over(b.ext, a.ext) /\ y = Over(b, a)
  OBVIOUS
<1>2. /\ DOMAIN o = {"ext"} \cup DOMAIN y /\ o.ext = x
      /\ \A f \in DOMAIN y \ {"ext"} : o[f] = y[f]
  BY <1>1 DEF Combine, Over
<1>3. \A n \in DOMAIN x : GoValue(x[n])
  BY <1>1 DEF Over, ProperOptions
<1>4. /\ DOMAIN y = DOMAIN b \cup DOMAIN a
      /\ \A f \in DOMAIN y : y[f] = IF f \in DOMAIN b THEN b[f] ELSE a[f]
  BY <1>1 DEF Over
<1>5. "schema" \in DOMAIN o => o.schema \in {"nil", "empty", "url", "unparsable"}
  <2>1. "schema" \in DOMAIN o => o.schema = IF "schema" \in DOMAIN b THEN b.schema ELSE a.schema
    BY <1>2, <1>4
  <2> QED
    BY <1>2, <1>4, <2>1 DEF ProperOptions
<1>6. "time" \in DOMAIN o => o.time \in {"", "set"}
  <2>1. "time" \in DOMAIN o => o.time = IF "time" \in DOMAIN b THEN b.time ELSE a.time
    BY <1>2, <1>4
  <2> QED
    BY <1>2, <1>4, <2>1 DEF ProperOptions
<1> QED
  BY <1>2, <1>3, <1>5, <1>6 DEF ProperOptions

\* The codec of a publisher is that of its content type, resolved early or late.
LEMMA CodecIsSubtype ==
    ASSUME NEW a, NEW c, CodecFor(a, c) # None
    PROVE  CodecFor(a, c) = c.subtype
<1>1. PICK k : k = CompleteMetadata(Applied(NoMetadata, a)).ctype
  OBVIOUS
<1>2. PICK z : z = [ctype |-> k, codec |-> k.subtype]
  OBVIOUS
<1>3. z.ctype = k /\ z.codec = k.subtype
  BY <1>2
<1>4. ResolveDefaultCodec(a) \in {z, None}
  BY <1>1, <1>2 DEF ResolveDefaultCodec
<1> QED
  BY <1>3, <1>4 DEF CodecFor

(***************************************************************************)
(* What publish builds and accepts is proper: the schema is never the      *)
(* empty URL, there is a time, and the payload in structured mode is JSON. *)
(***************************************************************************)
LEMMA BuiltIsOriginal ==
    ASSUME NEW i, ProperOptions(i.defaults), ProperOptions(i.opts), Accepts(i),
           NEW p, p = Built(i),
           NEW d, d = CodecMarshal(CodecFor(i.defaults, p.ctype), i.body)
    PROVE  Original(p, d) /\ Carries(p, p)
<1>1. PICK o, n, a, c : /\ o = Combine(i.defaults, i.opts) /\ n = NewMetadata(i.name)
                        /\ a = Applied(n, o) /\ c = CompleteMetadata(a)
  OBVIOUS
<1>2. ProperOptions(o)
  BY <1>1, CombinedOptions
<1>3. DOMAIN n = Fields /\ n.schema = "nil" /\ n.time = ""
  BY <1>1 DEF NewMetadata, NoMetadata, Fields
<1>4. DOMAIN a = Fields /\ \A f \in Fields : a[f] = IF f \in DOMAIN o THEN o[f] ELSE n[f]
  BY <1>1, <1>3 DEF Applied
<1>5. a.schema \in {"nil", "empty", "url", "unparsable"} /\ a.time \in {"", "set"} /\ a.ext = o.ext
  <2>1. /\ a.schema = IF "schema" \in DOMAIN o THEN o.schema ELSE n.schema
        /\ a.time = IF "time" \in DOMAIN o THEN o.time ELSE n.time
        /\ a.ext = IF "ext" \in DOMAIN o THEN o.ext ELSE n.ext
    BY <1>4 DEF Fields
  <2> QED
    BY <1>2, <1>3, <2>1 DEF ProperOptions
<1>6. DOMAIN c = Fields /\ c.schema = a.schema /\ c.time = "set" /\ c.ext = a.ext
  BY <1>1, <1>4, <1>5 DEF CompleteMetadata, Fields
<1>7. /\ DOMAIN p = Fields /\ p.time = "set" /\ p.ext = o.ext
      /\ p.schema \in {"nil", "url", "unparsable"}
  <2>1. p = [c EXCEPT !.id = IF @ = "" THEN i.generated ELSE @,
                      !.schema = IF @ = "empty" THEN "nil" ELSE @]
    BY <1>1 DEF Built
  <2> QED
    BY <1>5, <1>6, <2>1 DEF Fields
<1>8. \A x \in DOMAIN p.ext : GoValue(p.ext[x])
  BY <1>2, <1>7 DEF ProperOptions
<1>9. IsStructured(p.ctype) => d = "json"
  <2>1. CodecFor(i.defaults, p.ctype) = p.ctype.subtype
    BY CodecIsSubtype DEF Accepts
  <2> QED
    BY <2>1 DEF IsStructured, CodecMarshal
<1>10. \A x \in DOMAIN p.ext : Kept(p, p.ext[x], p.ext[x])
  BY <1>8 DEF Kept, SameValue, GoValue
<1> QED
  BY <1>7, <1>8, <1>9, <1>10 DEF Original, Carries, ExtCarries

-----------------------------------------------------------------------------
\* An assignment to one event changes only that event.
LEMMA OneChange ==
    ASSUME NEW f, NEW g, NEW e
    PROVE  /\ g = f => Changes(f, g, e)
           /\ \A y : g = [f EXCEPT ![e] = y] => Changes(f, g, e) /\ (e \in DOMAIN f => g[e] = y)
  BY DEF Changes

\* The other events keep their part of the invariant.
LEMMA EventStep ==
    ASSUME IInv, NEW e \in Events, Only(e), EventOK(e)'
    PROVE  \A x \in Events : EventOK(x)'
<1> SUFFICES ASSUME NEW x \in Events, x # e
             PROVE  EventOK(x)'
  OBVIOUS
<1>1. /\ at'[x] = at[x] /\ via'[x] = via[x] /\ md'[x] = md[x] /\ data'[x] = data[x]
      /\ row'[x] = row[x] /\ wire'[x] = wire[x] /\ forwards'[x] = forwards[x]
      /\ published'[x] = published[x]
  BY DEF Only, Changes, IInv, ShapeOK
<1>2. EventOK(x)
  BY DEF IInv
<1> QED
  BY <1>1, <1>2 DEF EventOK

\* A step that neither touches the channel nor puts an event into it.
LEMMA ChannelQuiet ==
    ASSUME IInv, UNCHANGED channel, \A x \in Events : at'[x] = "chan" => at[x] = "chan"
    PROVE  ChannelOK'
  BY DEF IInv, ChannelOK, Buffered, Draining, CloseDrains, channel

\* A step about one event, away from the channel, restores the invariant with that event's.
LEMMA EventRestores ==
    ASSUME IInv, NEW e \in Events, Only(e), EventOK(e)', UNCHANGED channel, at'[e] # "chan"
    PROVE  IInv'
<1>1. ShapeOK'
  BY DEF IInv, ShapeOK, Only, Changes, channel
<1>2. \A x \in Events : EventOK(x)'
  BY EventStep
<1>3. ChannelOK'
  <2>1. \A x \in Events : at'[x] = "chan" => at[x] = "chan"
    BY DEF Only, Changes, IInv, ShapeOK
  <2> QED
    BY <2>1, ChannelQuiet
<1> QED
  BY <1>1, <1>2, <1>3 DEF IInv

\* The parts of the invariant about an event.
LEMMA EventParts ==
    ASSUME IInv, NEW e \in Events
    PROVE  /\ FaithfulAt(published[e], at[e], md[e], data[e], row[e], wire[e])
           /\ AdmittedAt(at[e], via[e], md[e], row[e], wire[e])
           /\ StaysAt(at[e], via[e], forwards[e], row[e], wire[e])
           /\ e \in DOMAIN at /\ e \in DOMAIN via /\ e \in DOMAIN md /\ e \in DOMAIN data
           /\ e \in DOMAIN row /\ e \in DOMAIN wire /\ e \in DOMAIN forwards
           /\ e \in DOMAIN published
  BY DEF IInv, EventOK, ShapeOK

\* No event has begun, and the channel is empty.
LEMMA InitEstablishes ==
    ASSUME Init
    PROVE  IInv
<1>1. ShapeOK
  <2>1. rpc \notin Processing
    BY DEF Init, Processing
  <2>2. ch \in Seq(Events)
    BY DEF Init
  <2> QED
    BY <2>1, <2>2 DEF Init, ShapeOK
<1>2. ASSUME NEW e \in Events
      PROVE  EventOK(e)
  BY DEF Init, EventOK, FaithfulAt, AdmittedAt, StaysAt, Held
<1>3. ChannelOK
  BY DEF Init, ChannelOK, Buffered, Draining, CloseDrains
<1> QED
  BY <1>1, <1>2, <1>3 DEF IInv

-----------------------------------------------------------------------------
\* Publisher.publish: what it hands on is its own original.
LEMMA PublishStep ==
    ASSUME IInv, NEW e \in Events, Publish(e)
    PROVE  IInv'
<1>0. /\ at[e] = "new" /\ FaithfulAt(published[e], at[e], md[e], data[e], row[e], wire[e])
      /\ wire[e] = None /\ published[e] = None
  BY EventParts DEF Publish, Begins, FaithfulAt, AdmittedAt
<1>1. PICK i, m, d : /\ i = inputs.start[e].of /\ m = Built(i)
                     /\ d = CodecMarshal(CodecFor(i.defaults, m.ctype), i.body)
  OBVIOUS
<1>2. UNCHANGED <<inputs, row, wire, forwards>> /\ UNCHANGED channel
  BY DEF Publish
<1>3. CASE at' = [at EXCEPT ![e] = "refused"] /\ UNCHANGED <<via, md, data, published>>
  <2>1. Only(e) /\ at'[e] = "refused"
    BY <1>2, <1>3, OneChange, EventParts DEF Only
  <2>2. EventOK(e)'
    BY <1>0, <1>2, <1>3, <2>1 DEF EventOK, FaithfulAt, AdmittedAt, StaysAt, Held
  <2> QED
    BY <1>2, <2>1, <2>2, EventRestores
<1>4. CASE /\ Accepts(i) /\ at' = [at EXCEPT ![e] = "sending"]
           /\ md' = [md EXCEPT ![e] = m] /\ data' = [data EXCEPT ![e] = d]
           /\ \E t \in inputs.transports : via' = [via EXCEPT ![e] = t]
           /\ published' = [published EXCEPT ![e] = [md |-> m, data |-> d]]
  <2>1. /\ Only(e) /\ at'[e] = "sending" /\ md'[e] = m /\ data'[e] = d
        /\ published'[e] = [md |-> m, data |-> d]
    <3>1. Changes(at, at', e) /\ at'[e] = "sending"
      BY <1>4, OneChange, EventParts
    <3>2. Changes(md, md', e) /\ md'[e] = m
      BY <1>4, OneChange, EventParts
    <3>3. Changes(data, data', e) /\ data'[e] = d
      BY <1>4, OneChange, EventParts
    <3>4. Changes(published, published', e) /\ published'[e] = [md |-> m, data |-> d]
      <4>1. PICK o : o = [md |-> m, data |-> d]
        OBVIOUS
      <4>2. published' = [published EXCEPT ![e] = o]
        BY <1>4, <4>1
      <4>3. e \in DOMAIN published
        BY EventParts
      <4> QED
        BY <4>1, <4>2, <4>3, OneChange
    <3>5. Changes(via, via', e)
      BY <1>4, OneChange
    <3>6. Changes(row, row', e) /\ Changes(wire, wire', e) /\ Changes(forwards, forwards', e)
      BY <1>2, OneChange
    <3> QED
      BY <1>2, <3>1, <3>2, <3>3, <3>4, <3>5, <3>6 DEF Only
  <2>2. ProperOptions(i.defaults) /\ ProperOptions(i.opts)
    <3>1. inputs \in Cases /\ inputs.start[e] # None /\ inputs.start[e].how = "publish"
      BY DEF IInv, ShapeOK, Publish, Begins
    <3> QED
      BY <1>1, <3>1, EventPathAssumption DEF ProperStart
  <2>3. Original(m, d) /\ Carries(m, m)
    BY <1>1, <1>4, <2>2, BuiltIsOriginal
  <2>4. FaithfulAt(published'[e], at'[e], md'[e], data'[e], row'[e], wire'[e])
    BY <2>1, <2>3 DEF FaithfulAt, Held
  <2>5. AdmittedAt(at'[e], via'[e], md'[e], row'[e], wire'[e])
    BY <1>0, <1>2, <2>1, <2>3 DEF AdmittedAt, Carries
  <2>6. StaysAt(at'[e], via'[e], forwards'[e], row'[e], wire'[e])
    BY <2>1 DEF StaysAt
  <2>7. EventOK(e)'
    BY <2>4, <2>5, <2>6 DEF EventOK
  <2> QED
    BY <1>2, <2>1, <2>7, EventRestores
<1> QED
  BY <1>1, <1>3, <1>4 DEF Publish, Moves

\* A row of an earlier release, a message of another publisher: not published here.
LEMMA OutsideStep ==
    ASSUME IInv, NEW e \in Events, LegacyRow(e) \/ ForeignMessage(e)
    PROVE  IInv'
<1>0. at[e] = "new" /\ published[e] = None
  BY EventParts DEF LegacyRow, ForeignMessage, Begins, FaithfulAt
<1>1. inputs \in Cases /\ inputs.start[e] # None
  BY DEF IInv, ShapeOK, LegacyRow, ForeignMessage, Begins
<1>2. ProperStart(inputs.start[e])
  BY <1>1, EventPathAssumption
<1>3. CASE LegacyRow(e)
  <2>1. /\ Only(e) /\ UNCHANGED channel /\ UNCHANGED published
        /\ at'[e] = "row" /\ row'[e] = inputs.start[e].of /\ via'[e] = "legacy"
    <3>1. /\ at' = [at EXCEPT ![e] = "row"] /\ via' = [via EXCEPT ![e] = "legacy"]
          /\ row' = [row EXCEPT ![e] = inputs.start[e].of]
          /\ data' = [data EXCEPT ![e] = inputs.start[e].of.data]
          /\ UNCHANGED <<inputs, md, wire, forwards, published>> /\ UNCHANGED channel
      BY <1>3 DEF LegacyRow, Moves
    <3>2. at'[e] = "row" /\ row'[e] = inputs.start[e].of /\ via'[e] = "legacy"
      BY <3>1, EventParts
    <3>3. Only(e)
      BY <3>1, OneChange DEF Only
    <3> QED
      BY <3>1, <3>2, <3>3
  <2>2. RowDocument(row'[e])
    BY <1>2, <1>3, <2>1 DEF LegacyRow, Begins, ProperStart
  <2>3. EventOK(e)'
    BY <1>0, <2>1, <2>2 DEF EventOK, FaithfulAt, AdmittedAt, StaysAt, Held
  <2> QED
    BY <2>1, <2>3, EventRestores
<1>4. CASE ForeignMessage(e)
  <2>1. /\ Only(e) /\ UNCHANGED channel /\ UNCHANGED published
        /\ at'[e] = "broker" /\ wire'[e] = inputs.start[e].of
    <3>1. /\ at' = [at EXCEPT ![e] = "broker"] /\ via' = [via EXCEPT ![e] = "rabbitmq"]
          /\ wire' = [wire EXCEPT ![e] = inputs.start[e].of]
          /\ data' = [data EXCEPT ![e] = inputs.start[e].of.data]
          /\ UNCHANGED <<inputs, md, row, forwards, published>> /\ UNCHANGED channel
      BY <1>4 DEF ForeignMessage, Moves
    <3>2. Changes(at, at', e) /\ at'[e] = "broker"
      BY <3>1, OneChange, EventParts
    <3>3. Changes(wire, wire', e) /\ wire'[e] = inputs.start[e].of
      <4>1. PICK w : w = inputs.start[e].of
        OBVIOUS
      <4>2. wire' = [wire EXCEPT ![e] = w]
        BY <3>1, <4>1
      <4>3. e \in DOMAIN wire
        BY EventParts
      <4> QED
        BY <4>1, <4>2, <4>3, OneChange
    <3>4. Changes(data, data', e) /\ Changes(via, via', e)
      BY <3>1, OneChange
    <3>5. /\ Changes(md, md', e) /\ Changes(row, row', e) /\ Changes(forwards, forwards', e)
          /\ Changes(published, published', e)
      BY <3>1, OneChange
    <3> QED
      BY <3>1, <3>2, <3>3, <3>4, <3>5 DEF Only
  <2>2. QueuedMessage(wire'[e])
    BY <1>2, <1>4, <2>1 DEF ForeignMessage, Begins, ProperStart
  <2>3. EventOK(e)'
    BY <1>0, <2>1, <2>2 DEF EventOK, FaithfulAt, AdmittedAt, StaysAt, Held
  <2> QED
    BY <2>1, <2>3, EventRestores
<1> QED
  BY <1>3, <1>4

\* rabbitmq.Sender: a refusal is not of metadata that was lifted out of a message.
LEMMA SendRabbitStep ==
    ASSUME IInv, NEW e \in Events, SendRabbit(e)
    PROVE  IInv'
<1>0. /\ at[e] = "sending" /\ via[e] = "rabbitmq"
      /\ FaithfulAt(published[e], at[e], md[e], data[e], row[e], wire[e])
      /\ AdmittedAt(at[e], via[e], md[e], row[e], wire[e])
  BY EventParts DEF SendRabbit, Moves
<1>1. UNCHANGED <<inputs, via, md, data, row, forwards, published>> /\ UNCHANGED channel
  BY DEF SendRabbit
<1>2. CASE SendErr(md[e], data[e]) # "" /\ at' = [at EXCEPT ![e] = "refused"] /\ wire' = wire
  <2>1. Only(e) /\ at'[e] = "refused"
    BY <1>1, <1>2, OneChange, EventParts DEF Only
  <2>2. ~Sendable(md[e])
    BY <1>2, SendableSends
  <2>3. wire[e] # None => wire[e].form # "binary"
    BY <1>0, <2>2 DEF AdmittedAt, Held
  <2>4. EventOK(e)'
    BY <1>0, <1>1, <1>2, <2>1, <2>3 DEF EventOK, FaithfulAt, AdmittedAt, StaysAt, Held
  <2> QED
    BY <1>1, <2>1, <2>4, EventRestores
<1>3. CASE /\ SendErr(md[e], data[e]) = "" /\ at' = [at EXCEPT ![e] = "broker"]
           /\ Enqueue(e, md[e], data[e])
  <2>1. PICK w : w = Carried(Prepare(md[e], data[e]).wire)
    OBVIOUS
  <2>2. Only(e) /\ at'[e] = "broker" /\ wire'[e] = w
    BY <1>1, <1>3, <2>1, OneChange, EventParts DEF Only, Enqueue
  <2>3. Sends(md[e], data[e], w)
    BY <1>3, <2>1 DEF Sends
  <2>4. QueuedMessage(w)
    BY <2>3, SentIsQueued
  <2>5. ASSUME published[e] # None
        PROVE  WireCarries(published[e].md, published[e].data, w)
    <3>1. /\ Original(published[e].md, data[e]) /\ Carries(published[e].md, md[e])
          /\ data[e] = published[e].data
      BY <1>0, <2>5 DEF FaithfulAt, Held
    <3> QED
      BY <2>3, <3>1, WireKeeps
  <2>6. FaithfulAt(published'[e], at'[e], md'[e], data'[e], row'[e], wire'[e])
    BY <1>0, <1>1, <2>2, <2>5 DEF FaithfulAt, Held
  <2>7. AdmittedAt(at'[e], via'[e], md'[e], row'[e], wire'[e])
        /\ StaysAt(at'[e], via'[e], forwards'[e], row'[e], wire'[e])
    BY <2>2, <2>4 DEF AdmittedAt, StaysAt, Held
  <2>8. EventOK(e)'
    BY <2>6, <2>7 DEF EventOK
  <2> QED
    BY <1>1, <2>2, <2>8, EventRestores
<1> QED
  BY <1>2, <1>3 DEF SendRabbit, Moves

\* outbox.Sender and the store: a row is written of what both have checked.
LEMMA SendOutboxStep ==
    ASSUME IInv, NEW e \in Events, SendOutbox(e)
    PROVE  IInv'
<1>0. /\ at[e] = "sending" /\ via[e] = "outbox"
      /\ FaithfulAt(published[e], at[e], md[e], data[e], row[e], wire[e])
      /\ AdmittedAt(at[e], via[e], md[e], row[e], wire[e])
  BY EventParts DEF SendOutbox, Moves
<1>1. UNCHANGED <<inputs, via, md, data, wire, forwards, published>> /\ UNCHANGED channel
  BY DEF SendOutbox
<1>2. CASE at' = [at EXCEPT ![e] = "refused"] /\ row' = row
  <2>1. Only(e) /\ at'[e] = "refused"
    BY <1>1, <1>2, OneChange, EventParts DEF Only
  <2>2. EventOK(e)'
    BY <1>0, <1>1, <1>2, <2>1 DEF EventOK, FaithfulAt, AdmittedAt, StaysAt, Held
  <2> QED
    BY <1>1, <2>1, <2>2, EventRestores
<1>3. CASE /\ ValidateMetadata(md[e]) /\ MarshalsMetadata(md[e])
           /\ at' = [at EXCEPT ![e] = "row"]
           /\ row' = [row EXCEPT ![e] = MarshalMetadata(md[e])]
  <2>1. Only(e) /\ at'[e] = "row" /\ row'[e] = MarshalMetadata(md[e])
    BY <1>1, <1>3, OneChange, EventParts DEF Only
  <2>2. DOMAIN md[e] = Fields
    BY <1>0 DEF AdmittedAt, Held
  <2>3. RowDocument(row'[e]) /\ ~ShortStrTooLong(row'[e].md.type)
    BY <1>3, <2>1, <2>2, WrittenRow
  <2>4. ASSUME published[e] # None
        PROVE  RowCarries(published[e].md, row'[e])
    <3>1. Original(published[e].md, data[e]) /\ Carries(published[e].md, md[e])
      BY <1>0, <2>4 DEF FaithfulAt, Held
    <3> QED
      BY <1>3, <2>1, <3>1, RowKeeps
  <2>5. FaithfulAt(published'[e], at'[e], md'[e], data'[e], row'[e], wire'[e])
    BY <1>0, <1>1, <2>1, <2>4 DEF FaithfulAt, Held
  <2>6. AdmittedAt(at'[e], via'[e], md'[e], row'[e], wire'[e])
        /\ StaysAt(at'[e], via'[e], forwards'[e], row'[e], wire'[e])
    BY <2>1, <2>3 DEF AdmittedAt, StaysAt, Held
  <2>7. EventOK(e)'
    BY <2>5, <2>6 DEF EventOK
  <2> QED
    BY <1>1, <2>1, <2>7, EventRestores
<1> QED
  BY <1>2, <1>3 DEF SendOutbox, Moves

\* The relay: what it sends decodes to what was published, what stops it is excepted.
LEMMA RelayStep ==
    ASSUME IInv, NEW e \in Events, Relay(e)
    PROVE  IInv'
<1>0. /\ at[e] = "row"
      /\ FaithfulAt(published[e], at[e], md[e], data[e], row[e], wire[e])
      /\ AdmittedAt(at[e], via[e], md[e], row[e], wire[e])
  BY EventParts DEF Relay
<1>1. UNCHANGED <<inputs, via, data, row, forwards, published>> /\ UNCHANGED channel
  BY DEF Relay
<1>2. PICK m, err : /\ m = UnmarshalMetadata(row[e])
                    /\ err = IF Poison(row[e]) THEN "poison" ELSE SendErr(m, data[e])
  OBVIOUS
<1>3. CASE err = "other" /\ at' = [at EXCEPT ![e] = "wedged"] /\ UNCHANGED <<md, wire>>
  <2>1. Only(e) /\ at'[e] = "wedged"
    BY <1>1, <1>3, OneChange, EventParts DEF Only
  <2>2. SendErr(UnmarshalMetadata(row[e]), data[e]) = "other"
    BY <1>2, <1>3
  <2>3. /\ RowDocument(row[e]) /\ (via[e] = "legacy" \/ ~ShortStrTooLong(row[e].md.type))
    BY <1>0 DEF AdmittedAt
  <2>4. \/ row[e].md.ctype.long
        \/ IsStructured(row[e].md.ctype) /\ ShortStrTooLong(row[e].md.type)
    BY <2>2, <2>3, UnclaimedError
  <2>5. EventOK(e)'
    BY <1>0, <1>1, <1>3, <2>1, <2>3, <2>4 DEF EventOK, FaithfulAt, AdmittedAt, StaysAt, Held
  <2> QED
    BY <1>1, <2>1, <2>5, EventRestores
<1>4. CASE at' = [at EXCEPT ![e] = "parked"] /\ UNCHANGED <<md, wire>>
  <2>1. Only(e) /\ at'[e] = "parked"
    BY <1>1, <1>4, OneChange, EventParts DEF Only
  <2>2. EventOK(e)'
    BY <1>0, <1>1, <1>4, <2>1 DEF EventOK, FaithfulAt, AdmittedAt, StaysAt, Held
  <2> QED
    BY <1>1, <2>1, <2>2, EventRestores
<1>5. CASE /\ err = "" /\ at' = [at EXCEPT ![e] = "broker"]
           /\ md' = [md EXCEPT ![e] = m] /\ Enqueue(e, m, data[e])
  <2>1. PICK w : w = Carried(Prepare(m, data[e]).wire)
    OBVIOUS
  <2>2. Only(e) /\ at'[e] = "broker" /\ wire'[e] = w /\ md'[e] = m
    BY <1>1, <1>5, <2>1, OneChange, EventParts DEF Only, Enqueue
  <2>3. ~Poison(row[e]) /\ SendErr(m, data[e]) = ""
    BY <1>2, <1>5
  <2>4. Sends(m, data[e], w)
    BY <2>1, <2>3 DEF Sends
  <2>5. QueuedMessage(w)
    BY <2>4, SentIsQueued
  <2>6. ASSUME published[e] # None
        PROVE  WireCarries(published[e].md, published[e].data, w)
    <3>1. /\ Original(published[e].md, data[e]) /\ Carries(published[e].md, m)
          /\ data[e] = published[e].data
      BY <1>0, <1>2, <2>3, <2>6 DEF FaithfulAt, RowCarries
    <3> QED
      BY <2>4, <3>1, WireKeeps
  <2>7. FaithfulAt(published'[e], at'[e], md'[e], data'[e], row'[e], wire'[e])
    BY <1>0, <1>1, <2>2, <2>6 DEF FaithfulAt, Held
  <2>8. AdmittedAt(at'[e], via'[e], md'[e], row'[e], wire'[e])
        /\ StaysAt(at'[e], via'[e], forwards'[e], row'[e], wire'[e])
    BY <2>2, <2>5 DEF AdmittedAt, StaysAt, Held
  <2>9. EventOK(e)'
    BY <2>7, <2>8 DEF EventOK
  <2> QED
    BY <1>1, <2>2, <2>9, EventRestores
<1> QED
  BY <1>2, <1>3, <1>4, <1>5 DEF Relay, Moves

\* The broker's own headers change no more than what HeadersKeep allows.
LEMMA BrokerHeadersStep ==
    ASSUME IInv, NEW e \in Events, BrokerHeaders(e)
    PROVE  IInv'
<1>0. /\ at[e] = "broker" /\ wire[e].form = "binary"
      /\ FaithfulAt(published[e], at[e], md[e], data[e], row[e], wire[e])
      /\ AdmittedAt(at[e], via[e], md[e], row[e], wire[e])
  BY EventParts DEF BrokerHeaders
<1>1. UNCHANGED <<inputs, at, via, md, data, row, forwards, published>> /\ UNCHANGED channel
  BY DEF BrokerHeaders
<1>2. PICK added : /\ DOMAIN added \subseteq Overwritten
                   /\ wire' = [wire EXCEPT ![e].ext = Over(added, wire[e].ext)]
  BY DEF BrokerHeaders, Overwritten, DeathHeaders
<1>3. PICK v : v = [wire[e] EXCEPT !.ext = Over(added, wire[e].ext)]
  OBVIOUS
<1>4. wire' = [wire EXCEPT ![e] = v]
  BY <1>2, <1>3
<1>5. Only(e) /\ wire'[e] = v
  BY <1>1, <1>4, OneChange, EventParts DEF Only
<1>6. QueuedMessage(v) /\ \A p, d : WireCarries(p, d, wire[e]) => WireCarries(p, d, v)
  BY <1>0, <1>2, <1>3, HeadersKeep DEF AdmittedAt
<1>7. EventOK(e)'
  BY <1>0, <1>1, <1>5, <1>6 DEF EventOK, FaithfulAt, AdmittedAt, StaysAt, Held
<1> QED
  BY <1>0, <1>1, <1>5, <1>7, EventRestores

\* processDelivery: what a handler is given is what the message decodes to.
LEMMA DeliverStep ==
    ASSUME IInv, NEW e \in Events, Deliver(e)
    PROVE  IInv'
<1>0. /\ at[e] = "broker"
      /\ FaithfulAt(published[e], at[e], md[e], data[e], row[e], wire[e])
      /\ AdmittedAt(at[e], via[e], md[e], row[e], wire[e])
  BY EventParts DEF Deliver
<1>1. UNCHANGED <<inputs, via, row, wire, forwards, published>> /\ UNCHANGED channel
  BY DEF Deliver
<1>2. PICK m, d : m = Unmarshal(wire[e]) /\ d = wire[e].data
  OBVIOUS
<1>3. CASE at' = [at EXCEPT ![e] = "rejected"] /\ UNCHANGED <<md, data>>
  <2>1. Only(e) /\ at'[e] = "rejected"
    BY <1>1, <1>3, OneChange, EventParts DEF Only
  <2>2. EventOK(e)'
    BY <1>0, <1>1, <1>3, <2>1 DEF EventOK, FaithfulAt, AdmittedAt, StaysAt, Held
  <2> QED
    BY <1>1, <2>1, <2>2, EventRestores
<1>4. CASE /\ Unmarshals(wire[e])
           /\ at' = [at EXCEPT ![e] = IF Processes(m, d) THEN "handled" ELSE "rejected"]
           /\ md' = [md EXCEPT ![e] = m] /\ data' = [data EXCEPT ![e] = d]
  <2>1. /\ Only(e) /\ md'[e] = m /\ data'[e] = d
        /\ at'[e] = IF Processes(m, d) THEN "handled" ELSE "rejected"
    BY <1>1, <1>4, OneChange, EventParts DEF Only
  <2>2. QueuedMessage(wire[e])
    BY <1>0 DEF AdmittedAt
  <2>3. Processes(m, d) /\ wire[e].form = "binary" => Sendable(m)
    BY <1>2, <1>4, <2>2, LiftedIsSendable DEF Processes
  <2>4. DOMAIN m = Fields
    BY <1>2, UnmarshalFields
  <2>5. FaithfulAt(published'[e], at'[e], md'[e], data'[e], row'[e], wire'[e])
    BY <1>0, <1>1, <1>2, <1>4, <2>1 DEF FaithfulAt, WireCarries, Held
  <2>6. AdmittedAt(at'[e], via'[e], md'[e], row'[e], wire'[e])
        /\ StaysAt(at'[e], via'[e], forwards'[e], row'[e], wire'[e])
    BY <1>1, <2>1, <2>3, <2>4 DEF AdmittedAt, StaysAt, Held
  <2>7. EventOK(e)'
    BY <2>5, <2>6 DEF EventOK
  <2> QED
    BY <1>1, <2>1, <2>7, EventRestores
<1> QED
  BY <1>2, <1>3, <1>4 DEF Deliver, Moves

\* A handler that forwards, and gochan's first look at done: the event stays held as it is.
LEMMA HandOnStep ==
    ASSUME IInv, NEW e \in Events, Forward(e) \/ SendChecks(e)
    PROVE  IInv'
<1>0. /\ FaithfulAt(published[e], at[e], md[e], data[e], row[e], wire[e])
      /\ AdmittedAt(at[e], via[e], md[e], row[e], wire[e])
  BY EventParts
<1>1. UNCHANGED <<inputs, md, data, row, wire, published>> /\ UNCHANGED channel
  BY DEF Forward, SendChecks
<1>2. CASE Forward(e)
  <2>1. PICK t : /\ at[e] = "handled" /\ at' = [at EXCEPT ![e] = "sending"]
                 /\ forwards' = [forwards EXCEPT ![e] = forwards[e] + 1]
                 /\ via' = [via EXCEPT ![e] = t]
    BY <1>2 DEF Forward, Moves
  <2>2. Only(e) /\ at'[e] = "sending"
    BY <1>1, <2>1, OneChange, EventParts DEF Only
  <2>3. EventOK(e)'
    BY <1>0, <1>1, <2>1, <2>2 DEF EventOK, FaithfulAt, AdmittedAt, StaysAt, Held
  <2> QED
    BY <1>1, <2>2, <2>3, EventRestores
<1>3. CASE SendChecks(e)
  <2>1. /\ via[e] = "gochan" /\ at[e] = "sending" /\ UNCHANGED <<via, forwards>>
        /\ at' = [at EXCEPT ![e] = IF done THEN "refused" ELSE "selecting"]
    BY <1>3 DEF SendChecks, Moves
  <2>2. Only(e) /\ at'[e] \in {"refused", "selecting"}
    BY <1>1, <2>1, OneChange, EventParts DEF Only
  <2>3. EventOK(e)'
    BY <1>0, <1>1, <2>1, <2>2 DEF EventOK, FaithfulAt, AdmittedAt, StaysAt, Held
  <2> QED
    BY <1>1, <2>2, <2>3, EventRestores
<1> QED
  BY <1>2, <1>3

\* gochan's select: an event enters the buffer, late if Close has been called.
LEMMA SendSelectsStep ==
    ASSUME IInv, NEW e \in Events, SendSelects(e)
    PROVE  IInv'
<1>0. /\ FaithfulAt(published[e], at[e], md[e], data[e], row[e], wire[e])
      /\ AdmittedAt(at[e], via[e], md[e], row[e], wire[e])
  BY EventParts
<1>1. at[e] = "selecting" /\ UNCHANGED <<inputs, via, md, data, row, wire, forwards, published>>
  BY DEF SendSelects, Moves
<1>2. CASE at' = [at EXCEPT ![e] = "refused"] /\ UNCHANGED channel
  <2>1. Only(e) /\ at'[e] = "refused"
    BY <1>1, <1>2, OneChange, EventParts DEF Only
  <2>2. EventOK(e)'
    BY <1>0, <1>1, <2>1 DEF EventOK, FaithfulAt, AdmittedAt, StaysAt, Held
  <2> QED
    BY <1>2, <2>1, <2>2, EventRestores
<1>3. CASE /\ at' = [at EXCEPT ![e] = "chan"] /\ ch' = Append(ch, e)
           /\ late' = (IF done THEN late \cup {e} ELSE late) /\ UNCHANGED <<done, ctx, rpc, cur>>
  <2>1. Only(e) /\ at'[e] = "chan" /\ \A x \in Events : x # e => at'[x] = at[x]
    BY <1>1, <1>3, OneChange, EventParts DEF Only, IInv, ShapeOK
  <2>2. EventOK(e)'
    BY <1>0, <1>1, <2>1 DEF EventOK, FaithfulAt, AdmittedAt, StaysAt, Held
  <2>3. \A x \in Events : EventOK(x)'
    BY <2>1, <2>2, EventStep
  <2>4. ch \in Seq(Events) /\ Len(ch) \in Nat
    BY DEF IInv, ShapeOK
  <2>5. /\ ch' \in Seq(Events) /\ Len(ch') = Len(ch) + 1 /\ ch'[Len(ch) + 1] = e
        /\ \A i \in 1..Len(ch) : ch'[i] = ch[i]
    BY <1>3, <2>4
  <2>6. ShapeOK'
    BY <1>3, <2>1, <2>5 DEF IInv, ShapeOK, Only, Changes
  <2>7. Buffered'
    <3> SUFFICES ASSUME NEW x \in Events, at'[x] = "chan"
                 PROVE  (\E i \in 1..Len(ch') : ch'[i] = x) \/ (cur' = x /\ rpc' \in Processing)
      BY DEF Buffered
    <3>1. CASE x = e
      <4>1. Len(ch) + 1 \in 1..Len(ch')
        BY <2>4, <2>5
      <4> QED
        BY <2>5, <3>1, <4>1
    <3>2. CASE x # e
      <4>1. (\E i \in 1..Len(ch) : ch[i] = x) \/ (cur = x /\ rpc \in Processing)
        BY <2>1, <3>2 DEF IInv, ChannelOK, Buffered
      <4>2. \A i \in 1..Len(ch) : i \in 1..Len(ch')
        BY <2>4, <2>5
      <4> QED
        BY <1>3, <2>5, <4>1, <4>2
    <3> QED
      BY <3>1, <3>2
  <2>8. Draining' /\ CloseDrains'
    BY <1>3, <2>1 DEF IInv, ChannelOK, Draining, CloseDrains
  <2> QED
    BY <2>3, <2>6, <2>7, <2>8 DEF IInv, ChannelOK
<1> QED
  BY <1>2, <1>3 DEF SendSelects, Moves

\* A step of the channel alone leaves every event its part of the invariant.
LEMMA EventsUntouched ==
    ASSUME IInv, UNCHANGED event
    PROVE  \A x \in Events : EventOK(x)' /\ at'[x] = at[x]
  BY DEF IInv, EventOK, event

\* Close, Cancel, and the receiver's looks at its context, at done and at an empty buffer.
LEMMA SignalStep ==
    ASSUME IInv, UNCHANGED event, UNCHANGED <<ch, cur, late>>,
           \/ rpc' = rpc /\ (done => done')
           \/ rpc \notin Processing /\ rpc' \notin Processing /\ UNCHANGED done
              /\ \/ rpc' \notin {"drain", "drain select", "drain process", "closed"}
                 \/ done /\ rpc' # "closed"
                 \/ done /\ ch = <<>>
    PROVE  IInv'
<1>1. \A x \in Events : EventOK(x)' /\ at'[x] = at[x]
  BY EventsUntouched
<1>2. ShapeOK'
  BY DEF IInv, ShapeOK, event
<1>3. Buffered' /\ Draining'
  BY <1>1 DEF IInv, ChannelOK, Buffered, Draining
<1>4. CloseDrains'
  <2>1. CASE ch = <<>> /\ rpc \notin Processing
    BY <1>1, <2>1 DEF IInv, ChannelOK, Buffered, CloseDrains
  <2>2. CASE rpc' # "closed" \/ rpc' = rpc
    BY <1>1, <2>2 DEF IInv, ChannelOK, CloseDrains
  <2> QED
    BY <2>1, <2>2
<1> QED
  BY <1>1, <1>2, <1>3, <1>4 DEF IInv, ChannelOK

\* The head and the tail of the buffer.
LEMMA HeadAndTail ==
    ASSUME NEW s \in Seq(Events), s # <<>>
    PROVE  /\ Len(s) \in Nat /\ Len(s) > 0 /\ Head(s) = s[1] /\ Head(s) \in Events
           /\ Tail(s) \in Seq(Events) /\ Len(Tail(s)) = Len(s) - 1
           /\ \A i \in 1..Len(Tail(s)) : Tail(s)[i] = s[i + 1]
<1>1. Len(s) \in Nat /\ Len(s) > 0
  OBVIOUS
<1>2. Head(s) = s[1] /\ Head(s) \in Events
  BY <1>1
<1>3. Tail(s) \in Seq(Events) /\ Len(Tail(s)) = Len(s) - 1
  BY <1>1
<1>4. \A i \in 1..Len(Tail(s)) : Tail(s)[i] = s[i + 1]
  BY <1>1, <1>3
<1> QED
  BY <1>1, <1>2, <1>3, <1>4

\* A place in the buffer that is not the first has one before it.
LEMMA Predecessor ==
    ASSUME NEW n \in Nat, NEW i \in 1..n, i # 1
    PROVE  \E j \in 1..(n - 1) : j + 1 = i
<1>1. i - 1 \in 1..(n - 1) /\ (i - 1) + 1 = i
  OBVIOUS
<1> QED
  BY <1>1

\* Taking an event: what was first in the buffer is in the receiver's hands.
LEMMA TakeStep ==
    ASSUME IInv, NEW next \in Processing, rpc \notin Processing, Take(next),
           next = "drain process" => done
    PROVE  IInv'
<1>1. \A x \in Events : EventOK(x)' /\ at'[x] = at[x]
  BY EventsUntouched DEF Take
<1>2. /\ ch \in Seq(Events) /\ ch # <<>> /\ cur' = Head(ch) /\ ch' = Tail(ch)
      /\ rpc' = next /\ UNCHANGED <<done, ctx, late, event>>
  BY DEF Take, IInv, ShapeOK
<1>3. /\ Len(ch) \in Nat /\ Len(ch) > 0 /\ cur' = ch[1] /\ cur' \in Events
      /\ ch' \in Seq(Events) /\ Len(ch') = Len(ch) - 1
      /\ \A i \in 1..Len(ch') : ch'[i] = ch[i + 1]
  BY <1>2, HeadAndTail
<1>4. ShapeOK'
  BY <1>2, <1>3 DEF IInv, ShapeOK, event
<1>5. Buffered'
  <2> SUFFICES ASSUME NEW x \in Events, at'[x] = "chan", cur' # x
               PROVE  \E i \in 1..Len(ch') : ch'[i] = x
    BY <1>2 DEF Buffered
  <2>1. PICK i \in 1..Len(ch) : ch[i] = x
    BY <1>1 DEF IInv, ChannelOK, Buffered
  <2>2. i # 1
    BY <1>3, <2>1
  <2>3. PICK n \in Nat : n = Len(ch)
    BY <1>3
  <2>4. i \in 1..n /\ Len(ch') = n - 1
    BY <1>3, <2>1, <2>3
  <2>5. PICK j \in 1..(n - 1) : j + 1 = i
    BY <2>2, <2>4, Predecessor
  <2>6. ch'[j] = ch[j + 1]
    BY <1>3, <2>4, <2>5
  <2> QED
    BY <2>1, <2>4, <2>5, <2>6
<1>6. Draining' /\ CloseDrains'
  BY <1>2 DEF IInv, ChannelOK, Draining, CloseDrains, Processing
<1> QED
  BY <1>1, <1>4, <1>5, <1>6 DEF IInv, ChannelOK

\* The processor is run on the event in the receiver's hands.
LEMMA ProcessStep ==
    ASSUME IInv, ReceiveProcesses
    PROVE  IInv'
<1>0. PICK e \in Events : e = cur
  BY DEF IInv, ShapeOK, ReceiveProcesses, Processing
<1>1. /\ FaithfulAt(published[e], at[e], md[e], data[e], row[e], wire[e])
      /\ AdmittedAt(at[e], via[e], md[e], row[e], wire[e])
  BY EventParts
<1>2. PICK to \in {"handled", "rejected"} :
          /\ at[e] = "chan" /\ at' = [at EXCEPT ![e] = to]
          /\ rpc' \in {"check", "drain"} /\ (rpc' = "drain" => rpc = "drain process")
          /\ UNCHANGED <<ch, done, ctx, late>>
          /\ UNCHANGED <<inputs, via, md, data, row, wire, forwards, published>>
  BY <1>0 DEF ReceiveProcesses, Moves
<1>3. Only(e) /\ at'[e] = to /\ \A x \in Events : x # e => at'[x] = at[x]
  BY <1>2, OneChange, EventParts DEF Only, IInv, ShapeOK
<1>4. EventOK(e)'
  BY <1>1, <1>2, <1>3 DEF EventOK, FaithfulAt, AdmittedAt, StaysAt, Held
<1>5. \A x \in Events : EventOK(x)'
  BY <1>3, <1>4, EventStep
<1>6. ShapeOK'
  BY <1>2, <1>3 DEF IInv, ShapeOK, Only, Changes, Processing
<1>7. Buffered'
  BY <1>0, <1>2, <1>3 DEF IInv, ChannelOK, Buffered
<1>8. Draining' /\ CloseDrains'
  BY <1>2 DEF IInv, ChannelOK, Draining, CloseDrains
<1> QED
  BY <1>5, <1>6, <1>7, <1>8 DEF IInv, ChannelOK

\* The receiver's steps: a look at the channel, an event taken, an event processed.
LEMMA ReceiveStep ==
    ASSUME IInv, Receive
    PROVE  IInv'
<1>1. CASE ReceiveChecks
  <2>1. /\ rpc \in {"check", "drain"} /\ rpc' \in {"canceled", "select", "drain select"}
        /\ rpc' = "drain select" => rpc = "drain"
        /\ UNCHANGED <<ch, done, ctx, cur, late, event>>
    BY <1>1 DEF ReceiveChecks
  <2>2. rpc' = "drain select" => done
    BY <2>1 DEF IInv, ChannelOK, Draining
  <2> QED
    BY <2>1, <2>2, SignalStep DEF Processing
<1>2. CASE ReceiveSelects
  <2>1. CASE Take("process")
    BY <1>2, <2>1, TakeStep DEF ReceiveSelects, Processing
  <2>2. CASE /\ rpc' = "canceled" \/ (done /\ rpc' = "drain")
             /\ UNCHANGED <<ch, done, ctx, cur, late, event>>
    BY <1>2, <2>2, SignalStep DEF ReceiveSelects, Processing
  <2> QED
    BY <1>2, <2>1, <2>2 DEF ReceiveSelects
<1>3. CASE DrainSelects
  <2>1. rpc = "drain select" /\ done
    BY <1>3 DEF DrainSelects, IInv, ChannelOK, Draining
  <2>2. CASE Take("drain process")
    BY <2>1, <2>2, TakeStep DEF Processing
  <2>3. CASE ch = <<>> /\ rpc' = "closed" /\ UNCHANGED <<ch, done, ctx, cur, late, event>>
    BY <2>1, <2>3, SignalStep DEF Processing
  <2> QED
    BY <1>3, <2>2, <2>3 DEF DrainSelects
<1>4. CASE ReceiveProcesses
  BY <1>4, ProcessStep
<1> QED
  BY <1>1, <1>2, <1>3, <1>4 DEF Receive

\* Every step keeps the invariant.
LEMMA NextStep ==
    ASSUME IInv, [Next]_vars
    PROVE  IInv'
<1>1. CASE \E e \in Events : \/ Publish(e) \/ LegacyRow(e) \/ ForeignMessage(e)
                             \/ SendRabbit(e) \/ SendOutbox(e) \/ Relay(e)
                             \/ BrokerHeaders(e) \/ Deliver(e) \/ Forward(e)
                             \/ SendChecks(e) \/ SendSelects(e)
  <2>1. PICK e \in Events : \/ Publish(e) \/ LegacyRow(e) \/ ForeignMessage(e)
                            \/ SendRabbit(e) \/ SendOutbox(e) \/ Relay(e)
                            \/ BrokerHeaders(e) \/ Deliver(e) \/ Forward(e)
                            \/ SendChecks(e) \/ SendSelects(e)
    BY <1>1
  <2>2. CASE Publish(e)
    BY <2>2, PublishStep
  <2>3. CASE LegacyRow(e) \/ ForeignMessage(e)
    BY <2>3, OutsideStep
  <2>4. CASE SendRabbit(e)
    BY <2>4, SendRabbitStep
  <2>5. CASE SendOutbox(e)
    BY <2>5, SendOutboxStep
  <2>6. CASE Relay(e)
    BY <2>6, RelayStep
  <2>7. CASE BrokerHeaders(e)
    BY <2>7, BrokerHeadersStep
  <2>8. CASE Deliver(e)
    BY <2>8, DeliverStep
  <2>9. CASE Forward(e) \/ SendChecks(e)
    BY <2>9, HandOnStep
  <2>10. CASE SendSelects(e)
    BY <2>10, SendSelectsStep
  <2> QED
    BY <2>1, <2>2, <2>3, <2>4, <2>5, <2>6, <2>7, <2>8, <2>9, <2>10
<1>2. CASE Close \/ Cancel
  <2>1. UNCHANGED event /\ UNCHANGED <<ch, cur, late>> /\ rpc' = rpc /\ (done => done')
    BY <1>2 DEF Close, Cancel
  <2> QED
    BY <2>1, SignalStep
<1>3. CASE Receive
  BY <1>3, ReceiveStep
<1>4. CASE UNCHANGED vars
  BY <1>4, SignalStep DEF vars, channel
<1> QED
  BY <1>1, <1>2, <1>3, <1>4 DEF Next

(***************************************************************************)
(* The inductive invariant: what an event's row, its message and the       *)
(* metadata in somebody's hands decode to carries what publish handed on   *)
(* and stays within what later sends check, and an accepted event is in    *)
(* gochan's buffer or in its receiver's hands.                             *)
(***************************************************************************)
THEOREM Invariance == Spec => []IInv
<1>1. Init => IInv
  BY InitEstablishes
<1>2. IInv /\ [Next]_vars => IInv'
  BY NextStep
<1> QED
  BY <1>1, <1>2, PTL DEF Spec

(***************************************************************************)
(* Publisher.publish to the handler, over any sequence of transports,      *)
(* forwards and broker headers: attributes and payload are equal,          *)
(* extensions keep their values, and none is invented, except what         *)
(* FaithfulDelivery names.                                                 *)
(***************************************************************************)
THEOREM FaithfulDeliveryHolds == Spec => []FaithfulDelivery
<1>1. ASSUME IInv
      PROVE  FaithfulDelivery
  <2> SUFFICES ASSUME NEW e \in Events, at[e] = "handled", published[e] # None
               PROVE  LET m == published[e].md
                      IN  /\ \A f \in DOMAIN m \ {"ext"} : md[e][f] = m[f]
                          /\ data[e] = published[e].data
                          /\ DOMAIN md[e].ext \ {DeliveryCountHeader} \subseteq DOMAIN m.ext
                          /\ \A n \in DOMAIN m.ext \ (DeathHeaders \cup {DeliveryCountHeader}) :
                                n \in DOMAIN md[e].ext /\ SameValue(m, m.ext[n], md[e].ext[n])
    BY DEF FaithfulDelivery
  <2>1. FaithfulAt(published[e], at[e], md[e], data[e], row[e], wire[e])
    BY <1>1, EventParts
  <2>2. /\ Original(published[e].md, published[e].data)
        /\ data[e] = published[e].data /\ Carries(published[e].md, md[e])
    BY <2>1 DEF FaithfulAt, Held
  <2>3. PICK m : m = published[e].md
    OBVIOUS
  <2>4. DOMAIN m = Fields /\ Carries(m, md[e])
    BY <2>2, <2>3 DEF Original
  <2>5. \A f \in DOMAIN m \ {"ext"} : md[e][f] = m[f]
    BY <2>4 DEF Carries
  <2>6. /\ DOMAIN md[e].ext \ {DeliveryCountHeader} \subseteq DOMAIN m.ext
        /\ \A n \in DOMAIN m.ext \ (DeathHeaders \cup {DeliveryCountHeader}) :
              n \in DOMAIN md[e].ext /\ SameValue(m, m.ext[n], md[e].ext[n])
    BY <2>4 DEF Carries, ExtCarries, Kept, Overwritten
  <2> QED
    BY <2>2, <2>3, <2>5, <2>6
<1> QED
  BY <1>1, Invariance, PTL

(***************************************************************************)
(* ValidateMetadata and the ErrUnsendable marks cover what a marshaler or  *)
(* AMQP refuses of a committed row, and what was received in binary mode   *)
(* can be sent again, except what StaysSendable names.                     *)
(***************************************************************************)
THEOREM StaysSendableHolds == Spec => []StaysSendable
<1>1. ASSUME IInv
      PROVE  StaysSendable
  BY <1>1, EventParts DEF StaysSendable, StaysAt
<1> QED
  BY <1>1, Invariance, PTL

(***************************************************************************)
(* gochan's Receive returns after Close only when the processor has had    *)
(* every event accepted before Close.                                      *)
(***************************************************************************)
THEOREM CloseDrainsHolds == Spec => []CloseDrains
<1>1. IInv => CloseDrains
  BY DEF IInv, ChannelOK
<1> QED
  BY <1>1, Invariance, PTL
=============================================================================
