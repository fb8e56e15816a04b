----------------------------- MODULE EventCodec -----------------------------
(***************************************************************************)
(* The pure half of an event's path: event.Metadata with its validation    *)
(* rules, the JSON envelope of an outbox row, and the two AMQP content     *)
(* modes.  No state.                                                       *)
(*                                                                         *)
(* Strings are kept as names.  What the code tells apart about one is      *)
(* whether it is empty, splits at a dot, is reserved, or is longer than an *)
(* AMQP shortstr; the sets below fix these for the names used.             *)
(***************************************************************************)
EXTENDS Naturals, FiniteSets, Functions

\* g with f written over it: TLC's f @@ g, as a definition the provers can expand.
Over(f, g) == [x \in DOMAIN f \cup DOMAIN g |-> IF x \in DOMAIN f THEN f[x] ELSE g[x]]

CoreAttributeNames == {"specversion", "id", "type", "source", "data", "datacontenttype",
                       "dataschema", "subject", "time"}
\* Names with the prefix "cloudEvents:".
BinaryAttrNames == {"cloudEvents:id"}
DeathHeaders == {"x-death", "x-first-death-queue", "x-last-death-queue"}
DeliveryCountHeader == "x-delivery-count"
\* Types without a dot, or with nothing before or after it.
UnsplitTypes == {"", "Event", "svc."}
\* Names longer than MaxShortStrLen bytes.
LongStrings == {"svc.LongEvent", "long-name"}

SplitType(type) == type \notin UnsplitTypes
ShortStrTooLong(s) == s \in LongStrings
ReservedExtensionName(n) == n \in BinaryAttrNames \/ n \in CoreAttributeNames

(***************************************************************************)
(* A content type: what stands before the subtype, the subtype, and        *)
(* whether its parameters make it longer than a shortstr.                  *)
(***************************************************************************)
ContentTypes == [base : {"", "application/", "cloudevents+", "cloudevents;", "cloudevents",
                         "cloudevents-", "text/"},
                 subtype : {"proto", "json", "xml", "b@d"}, long : BOOLEAN]
NoContentType == [base |-> "", subtype |-> "xml", long |-> FALSE]
ContentType(sub) == [base |-> "application/", subtype |-> sub, long |-> FALSE]

IsMediaTypeToken(sub) == sub # "b@d"
ParseContentType(c) ==
    [mode |-> IF c.base \in {"cloudevents+", "cloudevents;", "cloudevents"}
              THEN "structured" ELSE "binary",
     ok   |-> c.base \in {"application/", "cloudevents+", "cloudevents;"}
              /\ IsMediaTypeToken(c.subtype)]
IsStructured(c) == ParseContentType(c) = [mode |-> "structured", ok |-> TRUE]
                   /\ c.subtype = "json"

(***************************************************************************)
(* A payload: empty, protobuf, JSON, or the JSON null that structured mode *)
(* writes for an empty one.                                                *)
(***************************************************************************)
RegisteredCodecs == {"proto", "json"}
HasCodec(c) == ParseContentType(c).ok /\ c.subtype \in RegisteredCodecs
CodecMarshal(sub, body) ==
    IF sub = "json" THEN "json" ELSE IF body = "zero" THEN "empty" ELSE "proto"
CodecUnmarshals(sub, data) ==
    IF sub = "json" THEN data = "json" ELSE data \in {"proto", "empty"}
IsJSON(data) == data \in {"json", "null"}

(***************************************************************************)
(* An extension value: its Go type and how large a number it is.  "over32" *)
(* and "over53" are the first sizes an AMQP 'I' field and a float64 cannot *)
(* hold; "truncated" and "rounded" are what is left of such a number.      *)
(***************************************************************************)
Value(kind, size) == [kind |-> kind, size |-> size]
Numbers == {"int32", "int", "int64", "float64"}

ValidExtensionValue(v) ==
    /\ v.kind \notin {"nil", "nested"}
    /\ v.kind = "int" => v.size = "small"

ExactInEnvelope(v) == v.kind = "int64" => v.size # "over53"
\* encoding/json has no NaN or infinity.
InJSON(v) == v.size # "nan"
\* What a JSON document gives back for v.
FromJSON(v) ==
    CASE v.kind \in Numbers -> Value("float64", IF v.size = "over53" THEN "rounded" ELSE v.size)
      [] v.kind \in {"bytes", "time"} -> Value("string", v.size)
      [] OTHER -> v
\* What an AMQP field table gives back for v: an int has 32 bits, a timestamp whole seconds.
FromTable(v) ==
    CASE v.kind = "int" -> Value("int32", IF v.size = "small" THEN "small" ELSE "truncated")
      [] v.kind = "time" -> Value("time", "seconds")
      [] OTHER -> v

NoMetadata == [specversion |-> "", type |-> "", source |-> "", subject |-> "", id |-> "",
               time |-> "", schema |-> "nil", ctype |-> NoContentType, ext |-> <<>>]
NewMetadata(type) == [NoMetadata EXCEPT !.specversion = "1.0", !.type = type]

(***************************************************************************)
(* The outbox envelope.  A row holds a JSON document; ValidateMetadata and *)
(* MarshalMetadata guard what is written, UnmarshalMetadata what is read.  *)
(***************************************************************************)
ValidateMetadata(md) ==
    /\ md.time # ""
    /\ SplitType(md.type)
    /\ ~ShortStrTooLong(md.type)
    /\ \A n \in DOMAIN md.ext : /\ ~ReservedExtensionName(n)
                                /\ ~ShortStrTooLong(n)
                                /\ ValidExtensionValue(md.ext[n])
                                /\ ExactInEnvelope(md.ext[n])

MarshalsMetadata(md) == /\ md.schema # "unparsable"
                        /\ \A n \in DOMAIN md.ext : InJSON(md.ext[n])
MarshalMetadata(md) ==
    [json |-> "object",
     md |-> [md EXCEPT !.schema = IF @ = "empty" THEN "nil" ELSE @]]

(***************************************************************************)
(* Rows written by earlier releases hold the url.URL struct instead of the *)
(* URI: "object" with its fields, "object@" with the empty user the struct *)
(* always carried, "object0" the zero struct, "object!" anything else.     *)
(***************************************************************************)
DecodesDataSchema(raw) == raw \notin {"unparsable", "object!"}
DecodeDataSchema(raw) ==
    CASE raw \in {"object", "object@"} -> "url"
      [] raw \in {"empty", "object0"} -> "nil"
      [] OTHER -> raw

\* UnmarshalMetadata reports the row as ErrPoisonEnvelope.
Poison(row) == \/ row.json # "object"
               \/ ~DecodesDataSchema(row.md.schema)
               \/ row.md.time = ""
UnmarshalMetadata(row) ==
    [row.md EXCEPT !.schema = DecodeDataSchema(@),
                   !.ext = [n \in DOMAIN @ |-> FromJSON(@[n])]]

(***************************************************************************)
(* A message on the wire: its AMQP type and content type, and attributes,  *)
(* extensions and payload, which are headers and body in binary form and   *)
(* one JSON document in structured form.  A raw attribute has a kind,      *)
(* because other publishers may have written it.                           *)
(***************************************************************************)
Raw(text) == [kind |-> "string", text |-> text]
SchemaText(schema) == IF schema = "empty" THEN "" ELSE schema
Attributes(md) ==
    LET text == [specversion |-> md.specversion, id |-> md.id, source |-> md.source,
                 subject |-> md.subject, dataschema |-> SchemaText(md.schema),
                 time |-> md.time]
        absent == {a \in {"subject", "time"} : text[a] = ""}
                  \cup (IF md.schema = "nil" THEN {"dataschema"} ELSE {})
    IN  [a \in DOMAIN text \ absent |-> Raw(text[a])]

Publishing(md, form, attrs, data) ==
    [type |-> md.type, ctype |-> md.ctype, form |-> form, attrs |-> attrs, ext |-> md.ext,
     data |-> data]
Failure(err) == [err |-> err]
Marshaled(w) == [err |-> "", wire |-> w]

BinaryRefuses(md) ==
    \/ \E n \in DOMAIN md.ext : \/ ReservedExtensionName(n)
                                \/ ~ValidExtensionValue(md.ext[n])
                                \/ ShortStrTooLong(n)
    \/ ShortStrTooLong(md.type)

\* Mutation of BinaryMarshal: the refusals are not marked as ErrUnsendable.
BinaryMarshalUnmarked(md, data) ==
    IF BinaryRefuses(md) THEN Failure("other")
    ELSE Marshaled(Publishing(md, "binary", Attributes(md), data))

BinaryMarshal(md, data) ==
    IF BinaryRefuses(md) THEN Failure("ErrUnsendable")
    ELSE Marshaled(Publishing(md, "binary", Attributes(md), data))

StructuredMarshal(md, data) ==
    LET payload == IF data = "empty" THEN "null" ELSE data
        document == [type |-> Raw(md.type), data |-> Raw(payload)]
        attrs == Over(Attributes(md),
                      IF md.ctype.base = "" THEN document
                      ELSE Over(document, [datacontenttype |-> Raw(md.ctype)]))
    IN  IF \/ ~IsJSON(payload)
           \/ \E n \in DOMAIN md.ext : ReservedExtensionName(n)
        THEN Failure("ErrUnsendable")
        ELSE IF \E n \in DOMAIN md.ext : ~InJSON(md.ext[n]) THEN Failure("other")
        ELSE Marshaled(Publishing(md, "structured", attrs, payload))

Marshal(md, data) ==
    IF IsStructured(md.ctype) THEN StructuredMarshal(md, data) ELSE BinaryMarshal(md, data)

(***************************************************************************)
(* Reading attributes.  A header counts when it is a string or bytes; in a *)
(* JSON document null is no value, an object or array is an error, and a   *)
(* number or boolean is taken literally.                                   *)
(***************************************************************************)
HeaderString(w, a) == a \in DOMAIN w.attrs /\ w.attrs[a].kind \in {"string", "bytes"}
Header(w, a) == IF HeaderString(w, a) THEN w.attrs[a].text ELSE ""

BrokerDeathHeader(n) == n \in DeathHeaders

BinaryUnmarshals(w) ==
    /\ w.form = "binary" /\ w.type # ""
    /\ \A a \in {"specversion", "id", "source"} : HeaderString(w, a)
    /\ HeaderString(w, "time") => Header(w, "time") = "set"
    /\ Header(w, "dataschema") # "unparsable"

\* Mutation of Lifts: the dead-letter headers that are plain strings are extensions.
LiftsByType(n, v) == ~ReservedExtensionName(n) /\ ValidExtensionValue(v)

Lifts(n, v) == /\ ~ReservedExtensionName(n)
               /\ ~BrokerDeathHeader(n)
               /\ ValidExtensionValue(v)

BinaryUnmarshal(w) ==
    [specversion |-> Header(w, "specversion"), type |-> w.type,
     source |-> Header(w, "source"), subject |-> Header(w, "subject"),
     id |-> Header(w, "id"), time |-> Header(w, "time"),
     schema |-> IF Header(w, "dataschema") = "" THEN "nil" ELSE Header(w, "dataschema"),
     ctype |-> w.ctype,
     ext |-> Restrict(w.ext, {n \in DOMAIN w.ext : Lifts(n, w.ext[n])})]

Present(w, a) == a \in DOMAIN w.attrs /\ w.attrs[a].kind # "null"
DecodesString(w, a) == Present(w, a) => w.attrs[a].kind # "object"
Attribute(w, a, absent) ==
    IF Present(w, a) /\ w.attrs[a].text # "" THEN w.attrs[a].text ELSE absent

StructuredUnmarshals(w) ==
    /\ w.form = "structured"
    /\ \A a \in {"specversion", "type", "id", "source"} : Present(w, a)
    /\ \A a \in {"specversion", "type", "id", "source", "subject", "time", "dataschema",
                 "datacontenttype"} : DecodesString(w, a)
    /\ Present(w, "time") => w.attrs.time.text = "set"
    /\ Attribute(w, "dataschema", "nil") # "unparsable"
    /\ "data" \in DOMAIN w.attrs
StructuredUnmarshal(w) ==
    [specversion |-> Attribute(w, "specversion", ""), type |-> Attribute(w, "type", ""),
     source |-> Attribute(w, "source", ""), subject |-> Attribute(w, "subject", ""),
     id |-> Attribute(w, "id", ""), time |-> Attribute(w, "time", ""),
     schema |-> Attribute(w, "dataschema", "nil"),
     ctype |-> IF Present(w, "datacontenttype") THEN w.attrs.datacontenttype.text
               ELSE NoContentType,
     ext |-> [n \in DOMAIN w.ext |-> FromJSON(w.ext[n])]]

Unmarshals(w) == IF IsStructured(w.ctype) THEN StructuredUnmarshals(w) ELSE BinaryUnmarshals(w)
Unmarshal(w) == IF IsStructured(w.ctype) THEN StructuredUnmarshal(w) ELSE BinaryUnmarshal(w)
=============================================================================
