----------------------------- MODULE WireLevel -----------------------------
(***************************************************************************)
(* How a value of a type is written to JSON and read back, given how the   *)
(* values of the types inside it are: the types nest, and Wire stacks one  *)
(* level on another.  What is written by this program is camelCase but for *)
(* the exceptions the schema names; what peers write is the camelCase or   *)
(* the snake_case of A2A v1.0, holds a key in both, or uses the old form   *)
(* of a part.                                                              *)
(***************************************************************************)
EXTENDS Naturals, JsonValues

CONSTANTS Records,               \* the fields of each type
          Unions,                \* the variants of each type that is a choice
          ToInner(_, _, _), FromInner(_, _), InnerAsRead(_, _, _),
          InnerValue(_, _)       \* the values of the types inside

-----------------------------------------------------------------------------
(* Values of a type.                                                       *)

Names(t) == {f.name : f \in Records[t]}
TheField(t, n) == CHOOSE f \in Records[t] : f.name = n

Variants(t) == {Unions[t][i] : i \in DOMAIN Unions[t]}

IsField(f, v) ==
  CASE f.kind = "one"  -> (v = Absent /\ f.need = "may") \/ InnerValue(f.of, v)
    [] f.kind = "many" -> /\ v = List([i \in DOMAIN v.v |-> v.v[i]])
                          /\ \A i \in DOMAIN v.v : InnerValue(f.of, v.v[i])
    [] f.kind = "map"  -> \/ v = Absent
                          \/ /\ v = Object([k \in DOMAIN v.v |-> v.v[k]])
                             /\ \A k \in DOMAIN v.v : InnerValue(f.of, v.v[k])
    [] OTHER -> (v = Absent /\ f.need # "must") \/ v \in {Default(f), Given(f)}

IsRecord(t, x) ==
  /\ x = [n \in Names(t) |-> x[n]]
  /\ \A f \in Records[t] : IsField(f, x[f.name])

IsUnion(t, x) ==
  \E w \in Variants(t) : x = [tag |-> w.tag, v |-> x.v] /\ IsRecord(w.of, x.v)

IsValue(t, x) ==
  \/ t = "string" /\ x \in {Scalar("string", "default"), Scalar("string", "given")}
  \/ t \in DOMAIN Unions /\ IsUnion(t, x)
  \/ t \in DOMAIN Records /\ IsRecord(t, x)

-----------------------------------------------------------------------------
(* Writing: by this program ("own"), by a peer, or in the old form.        *)

PeerSpellings == {"camel", "snake", "both"}
Spellings == {"own", "legacy"} \cup PeerSpellings

Key(f, spelling) ==
  CASE spelling = "own"    -> f.key
    [] spelling = "snake"  -> f.snake
    [] spelling = "legacy" -> f.camel
    [] OTHER               -> f.sent

VariantKey(v, spelling) ==
  CASE spelling = "own"   -> v.key
    [] spelling = "snake" -> v.sent
    [] OTHER              -> v.camel

Written(f, v, spelling) ==
  IF f.need = "some" THEN v # List(<< >>)
  ELSE v # Absent \/ (f.need = "shown" /\ spelling = "own")

\* Of an enumeration, peers write one value by its name in the protocol buffers.
WireValue(f, v, spelling) ==
  CASE f.kind = "one"  -> ToInner(f.of, v, spelling)
    [] f.kind = "many" -> List([i \in DOMAIN v.v |-> ToInner(f.of, v.v[i], spelling)])
    [] f.kind = "map"  -> Object([k \in DOMAIN v.v |-> ToInner(f.of, v.v[k], spelling)])
    [] /\ f.kind \in {"role", "state", "filter"} /\ v = Given(f)
       /\ spelling \in PeerSpellings -> Scalar("string", "PROTO")
    [] OTHER -> IF v = Absent THEN Default(f) ELSE v

RecordToWire(t, x, spelling) ==
  LET fs == {f \in Records[t] : Written(f, x[f.name], spelling)}
      At(k) == CHOOSE f \in fs : Key(f, spelling) = k
      keys == {Key(f, spelling) : f \in fs}
      junk == IF spelling = "both" THEN {f.snake : f \in fs} ELSE {}
  IN [k \in keys \cup junk |->
        IF k \in keys THEN WireValue(At(k), x[At(k).name], spelling) ELSE Junk]

Holding(o, k, v) ==
  [j \in DOMAIN o \cup {k} |-> IF j = k THEN v ELSE o[j]]

Only(k, v) == [j \in {k} |-> v]

\* The key a part of the old form is held under, where it is not its own.
LegacyKey(v) ==
  CASE v.tag = "functionCall"     -> "function_call"
    [] v.tag = "functionResponse" -> "function_response"
    [] OTHER -> v.tag

VariantToWire(t, v, x, spelling) ==
  LET body == RecordToWire(v.of, x, spelling)
  IN IF t = "Part" /\ spelling = "legacy"
       THEN Holding(IF v.wrapped \/ v.tag = "file"
                      THEN Only(LegacyKey(v), Object(body)) ELSE body,
                    "kind", Scalar("string", v.tag))
     ELSE IF v.wrapped THEN Only(VariantKey(v, spelling), Object(body))
     ELSE body

UnionToWire(t, x, spelling) ==
  VariantToWire(t, CHOOSE v \in Variants(t) : v.tag = x.tag, x.v, spelling)

ToWire(t, x, spelling) ==
  IF t = "string" THEN x
  ELSE IF t \in DOMAIN Unions THEN Object(UnionToWire(t, x, spelling))
  ELSE Object(RecordToWire(t, x, spelling))

-----------------------------------------------------------------------------
(* Reading.                                                                *)

\* Fault: snake_case wins.
GetKeySnakeFirst(o, camel, snake) ==
  IF snake \in DOMAIN o THEN o[snake]
  ELSE IF camel \in DOMAIN o THEN o[camel] ELSE Absent

\* getKey: camelCase wins where it is present, whatever it holds.
GetKey(o, camel, snake) ==
  IF camel \in DOMAIN o THEN o[camel]
  ELSE IF snake \in DOMAIN o THEN o[snake] ELSE Absent

AnyFailed(s) == \E k \in DOMAIN s : s[k] = Failed

ReadMany(t, raw) ==
  LET items == [i \in DOMAIN raw.v |-> FromInner(t, raw.v[i])]
  IN IF raw.is # "list" THEN List(<< >>)
     ELSE IF AnyFailed(items) THEN Failed
     ELSE List(items)

\* Schemes that cannot be read are dropped from their map.
ReadMap(t, raw) ==
  LET all == [k \in DOMAIN raw.v |-> FromInner(t, raw.v[k])]
  IN IF raw.is # "object" THEN Absent
     ELSE IF AnyFailed(all) THEN Failed
     ELSE Object([k \in {j \in DOMAIN all : all[j] # Absent} |-> all[k]])

ReadPlain(f, o) ==
  LET first == GetKey(o, f.camel, f.snake)
      v == IF first.is = JsonKind(f) THEN first ELSE GetKey(o, f.camel, f.also)
  IN IF v.is # JsonKind(f) THEN IF f.need = "must" THEN Default(f) ELSE Absent
     ELSE IF f.kind \in {"role", "state"} /\ v.v = "PROTO" THEN Given(f)
     ELSE IF f.kind = "filter" /\ v.v = "PROTO" THEN Absent ELSE v

ReadField(f, o) ==
  LET raw == GetKey(o, f.camel, f.snake)
  IN CASE f.kind = "one" /\ f.need = "may" ->
            IF raw.is = "object" THEN FromInner(f.of, raw) ELSE Absent
       [] f.kind = "one" /\ f.need = "must" -> FromInner(f.of, raw)
       [] f.kind = "many" -> ReadMany(f.of, raw)
       [] f.kind = "map" -> ReadMap(f.of, raw)
       [] OTHER -> ReadPlain(f, o)

ReadRecord(t, o) ==
  LET x == [n \in Names(t) |-> ReadField(TheField(t, n), o)]
  IN IF AnyFailed(x) THEN Failed ELSE x

Tagged(tag, x) == IF x = Failed THEN Failed ELSE [tag |-> tag, v |-> x]

\* A part of the old form names its kind.
ReadLegacyPart(o) ==
  LET kind == GetKey(o, "kind", "type")
      vs == {v \in Variants("Part") : v.tag = kind.v}
      v == CHOOSE w \in vs : TRUE
      held == IF v.wrapped \/ v.tag = "file" THEN GetKey(o, v.key, LegacyKey(v))
              ELSE Absent
      body == IF held.is = "object" THEN held.v
              ELSE IF v.wrapped THEN << >> ELSE o
  IN IF kind.is # "string" \/ vs = {} THEN Failed
     ELSE Tagged(v.tag, ReadRecord(v.of, body))

\* The first variant whose key is there.
ReadUnion(t, o) ==
  LET vs == Unions[t]
      found == {i \in DOMAIN vs : GetKey(o, vs[i].camel, vs[i].snake).is \in vs[i].is}
      v == vs[CHOOSE i \in found : \A j \in found : i <= j]
      held == IF v.wrapped THEN GetKey(o, v.camel, v.snake) ELSE Object(o)
  IN IF found # {}
       THEN IF held.is = "object" THEN Tagged(v.tag, ReadRecord(v.of, held.v))
            ELSE Failed
     ELSE IF t = "Part" THEN ReadLegacyPart(o)
     ELSE IF t = "SecurityScheme" THEN Absent ELSE Failed

\* What is made of something that is no object.
Unread(t) ==
  CASE t \in {"SendMessageConfiguration", "AgentProvider", "AgentCapabilities",
              "SecurityScheme", "OAuthFlows"} -> Absent
    [] t \in {"GetExtendedAgentCardRequest", "ExtendedAgentCard"} ->
         [n \in Names(t) |-> Absent]
    [] OTHER -> Failed

FromWire(t, raw) ==
  IF t = "string" THEN raw
  ELSE IF raw.is # "object" THEN Unread(t)
  ELSE IF t \in DOMAIN Unions THEN ReadUnion(t, raw.v)
  ELSE ReadRecord(t, raw.v)

Damaged(wire, f) == Object(Holding(wire.v, f.camel, Junk))

-----------------------------------------------------------------------------
(***************************************************************************)
(* What is to be read of a value: itself, but for five losses.             *)
(* - In camelCase a file's media type is under a key nobody looks for, and *)
(*   is taken for the default.                                             *)
(* - A list is not filtered by a state that is sent by its name in the     *)
(*   protocol buffers.                                                     *)
(* - A file without a uri is one with an empty uri to a reader of what     *)
(*   this program writes, and from a peer is no part that is known.        *)
(* - A function call or response in snake_case is no part that is known.   *)
(* What holds a part that is not known is refused as a whole.              *)
(***************************************************************************)
FieldLost(t, f, v, spelling) ==
  \/ t = "FilePart" /\ f.name = "mimeType" /\ spelling \in {"camel", "both"}
  \/ /\ t = "ListTasksRequest" /\ f.name = "status"
     /\ v = Given(f) /\ spelling \in PeerSpellings

UriShown(t, f, v, spelling) ==
  t = "FilePart" /\ f.name = "uri" /\ v = Absent /\ spelling = "own"

UnknownPart(t, x, spelling) ==
  /\ t = "Part"
  /\ \/ x.tag = "file" /\ x.v.uri = Absent /\ spelling \in PeerSpellings
     \/ x.tag \in {"functionCall", "functionResponse"} /\ spelling = "snake"

\* Of a field that is not there.
Missing(f) == IF f.need = "must" THEN Default(f) ELSE Absent

Inside(f, v, spelling) ==
  [i \in DOMAIN v.v |-> InnerAsRead(f.of, v.v[i], spelling)]

FieldAsRead(t, f, v, spelling) ==
  IF FieldLost(t, f, v, spelling) THEN Missing(f)
  ELSE IF UriShown(t, f, v, spelling) THEN Default(f)
  ELSE IF Plain(f) \/ v = Absent THEN v
  ELSE IF f.kind = "one" THEN InnerAsRead(f.of, v, spelling)
  ELSE IF AnyFailed(Inside(f, v, spelling)) THEN Failed
  ELSE IF f.kind = "many" THEN List(Inside(f, v, spelling))
  ELSE Object(Inside(f, v, spelling))

\* Of a field that holds something of another type.
Spoilt(f) ==
  IF f.kind = "one" /\ f.need = "must" THEN Unread(f.of)
  ELSE IF f.kind = "many" THEN List(<< >>)
  ELSE IF Plain(f) THEN Missing(f) ELSE Absent

\* Where one field is damaged, or "" none is.
RecordAsRead(t, x, spelling, damaged) ==
  LET r == [n \in Names(t) |->
              IF n = damaged THEN Spoilt(TheField(t, n))
              ELSE FieldAsRead(t, TheField(t, n), x[n], spelling)]
  IN IF AnyFailed(r) THEN Failed ELSE r

AsRead(t, x, spelling) ==
  IF t = "string" THEN x
  ELSE IF t \notin DOMAIN Unions THEN RecordAsRead(t, x, spelling, "")
  ELSE IF UnknownPart(t, x, spelling) THEN Failed
  ELSE LET w == CHOOSE v \in Variants(t) : v.tag = x.tag
       IN Tagged(x.tag, RecordAsRead(w.of, x.v, spelling, ""))

-----------------------------------------------------------------------------
(* What the schema has to be like for a value to be found again.           *)

FieldKeys(f)   == {f.key, f.camel, f.snake, f.also, f.sent}
RecordKeys(t)  == UNION {FieldKeys(f) : f \in Records[t]}
VariantKeys(v) == {v.key, v.camel, v.snake, v.sent}

FieldInOrder(f) ==
  /\ f.key \in {f.camel, f.snake}
  /\ f.name \notin {"", "is"}
  /\ f.kind \notin {"absent", "junk", "list"}
  /\ f.kind \in {"one", "map"} => f.of # "string"
  /\ f.kind = "one" => f.need \in {"may", "must"}
  /\ f.kind \in {"map", "filter"} => f.need = "may"
  /\ f.need = "shown" => f.kind = "string"
  /\ f.need = "some" => f.kind = "many"
  /\ \/ f.sent \in {f.camel, f.snake}
     \/ f.kind = "string" /\ f.need = "must" /\ f.also = f.snake

\* The losses are where they are said to be.
LossesInOrder(t, f) ==
  /\ f.sent \notin {f.camel, f.snake} <=> t = "FilePart" /\ f.name = "mimeType"
  /\ f.kind = "filter" <=> t = "ListTasksRequest" /\ f.name = "status"
  /\ f.need = "shown" <=> t = "FilePart" /\ f.name = "uri"

RecordsInOrder ==
  \A t \in DOMAIN Records : \A f \in Records[t] :
    /\ FieldInOrder(f) /\ LossesInOrder(t, f)
    /\ \A g \in Records[t] :
         f # g => f.name # g.name /\ FieldKeys(f) \cap FieldKeys(g) = {}

\* A value written under keys of its own is known by one that is always there,
\* or is there with its uri.
KnownBy(v) ==
  /\ \E f \in Records[v.of] :
       /\ Plain(f) /\ f.kind # "filter" /\ JsonKind(f) \in v.is
       /\ v.camel = f.key /\ v.camel = f.snake /\ v.camel = f.sent
       /\ IF v.tag = "file" THEN f.name = "uri" /\ v.of = "FilePart"
          ELSE f.need = "must" /\ f.camel = f.snake
  /\ v.of = "FilePart" => v.tag = "file"
  /\ v.tag \notin {"functionCall", "functionResponse"}
  /\ RecordKeys(v.of) \cap {"kind", "type"} = {}

UnionInOrder(t) ==
  /\ DOMAIN Unions[t] \subseteq Nat
  /\ \A v \in Variants(t) :
       /\ v.of \in DOMAIN Records
       /\ v.key \in {v.camel, v.snake} \/ v.tag = "file"
       /\ \/ v.sent \in {v.camel, v.snake}
          \/ t = "Part" /\ v.tag \in {"functionCall", "functionResponse"}
       /\ v.tag = "file" => ~v.wrapped
       /\ "absent" \notin v.is
       /\ IF v.wrapped THEN "object" \in v.is ELSE t = "Part" /\ KnownBy(v)
  /\ \A i, j \in DOMAIN Unions[t] :
       i # j => LET v == Unions[t][i]
                    w == Unions[t][j]
                IN /\ v.tag # w.tag
                   /\ VariantKeys(v) \cap VariantKeys(w) = {}
                   /\ ~v.wrapped => RecordKeys(v.of) \cap VariantKeys(w) = {}

LegacyInOrder ==
  \A v \in Variants("Part") :
    /\ {v.camel, v.snake} \cap {"kind", "type", "file", "function_call", "function_response"} = {}
    /\ v.tag = "file" => v.key = "file" /\ v.snake = v.camel
    /\ v.wrapped => /\ v.tag \in {"functionCall", "functionResponse"}
                    /\ v.sent \notin UNION {{w.camel, w.snake} : w \in Variants("Part")}
                    /\ v.sent \notin {"kind", "type"}

SchemaInOrder ==
  /\ "string" \notin DOMAIN Records \cup DOMAIN Unions
  /\ DOMAIN Records \cap DOMAIN Unions = {}
  /\ RecordsInOrder
  /\ \A t \in DOMAIN Unions : UnionInOrder(t)
  /\ LegacyInOrder

-----------------------------------------------------------------------------
(* What is proved: a value is read as AsRead says if those inside are.     *)

InnerReads ==
  \A t, y : \A spelling \in Spellings : InnerValue(t, y) =>
    /\ FromInner(t, ToInner(t, y, spelling)) = InnerAsRead(t, y, spelling)
    /\ InnerAsRead(t, y, spelling) # Absent
    /\ y # Absent
    /\ t # "string" => ToInner(t, y, spelling).is = "object"

\* o has at the keys of f what b has there.
Agrees(o, b, f) ==
  \A k \in FieldKeys(f) : /\ k \in DOMAIN o <=> k \in DOMAIN b
                          /\ k \in DOMAIN b => o[k] = b[k]

\* What is found of a field with the value v.
Finds(o, f, v, spelling) ==
  LET first  == GetKey(o, f.camel, f.snake)
      second == GetKey(o, f.camel, f.also)
  IN IF ~Written(f, v, spelling) THEN first = Absent /\ second = Absent
     ELSE IF Key(f, spelling) \in {f.camel, f.snake}
       THEN first = WireValue(f, v, spelling)
     ELSE first \in {Absent, Junk} /\ second \in {Absent, Junk}

LEMMA OwnKeys ==
  ASSUME RecordsInOrder, NEW t \in DOMAIN Records,
         NEW f \in Records[t], NEW g \in Records[t],
         NEW k, k \in FieldKeys(f), k \in FieldKeys(g)
  PROVE  f = g
  BY DEF RecordsInOrder

LEMMA KeyIsOwn ==
  ASSUME NEW f, NEW spelling
  PROVE  Key(f, spelling) \in FieldKeys(f) /\ f.snake \in FieldKeys(f)
  BY DEF Key, FieldKeys

\* The written fields are there, and only their keys.
LEMMA WrittenAt ==
  ASSUME RecordsInOrder, NEW t \in DOMAIN Records, NEW x, NEW spelling,
         NEW f \in Records[t], Written(f, x[f.name], spelling)
  PROVE  /\ Key(f, spelling) \in DOMAIN RecordToWire(t, x, spelling)
         /\ RecordToWire(t, x, spelling)[Key(f, spelling)]
               = WireValue(f, x[f.name], spelling)
  <1> DEFINE fs == {g \in Records[t] : Written(g, x[g.name], spelling)}
             At(k) == CHOOSE g \in fs : Key(g, spelling) = k
             keys == {Key(g, spelling) : g \in fs}
             key == Key(f, spelling)
  <1>1. f \in fs /\ key \in keys
    OBVIOUS
  <1>2. At(key) = f
    <2>1. \A g \in fs : Key(g, spelling) = key => g = f
      BY KeyIsOwn, OwnKeys
    <2> QED
      BY <1>1, <2>1
  <1> QED
    BY <1>1, <1>2 DEF RecordToWire

LEMMA KeysWritten ==
  ASSUME NEW t \in DOMAIN Records, NEW x, NEW spelling,
         NEW k \in DOMAIN RecordToWire(t, x, spelling)
  PROVE  \E g \in Records[t] :
           /\ Written(g, x[g.name], spelling) /\ k \in FieldKeys(g)
           /\ \/ k = Key(g, spelling)
              \/ /\ spelling = "both" /\ k = g.snake
                 /\ RecordToWire(t, x, spelling)[k] = Junk
  <1> DEFINE fs == {g \in Records[t] : Written(g, x[g.name], spelling)}
             keys == {Key(g, spelling) : g \in fs}
  <1>1. CASE k \in keys
    BY <1>1, KeyIsOwn
  <1>2. CASE k \notin keys
    <2>1. RecordToWire(t, x, spelling)[k] = Junk
      BY <1>2 DEF RecordToWire
    <2>2. spelling = "both" /\ \E g \in fs : k = g.snake
      BY <1>2 DEF RecordToWire
    <2> QED
      BY <2>1, <2>2, KeyIsOwn
  <1> QED
    BY <1>1, <1>2

LEMMA FieldFound ==
  ASSUME RecordsInOrder, NEW t \in DOMAIN Records, NEW x, NEW spelling,
         NEW f \in Records[t], NEW o,
         Agrees(o, RecordToWire(t, x, spelling), f)
  PROVE  Finds(o, f, x[f.name], spelling)
  <1> DEFINE b == RecordToWire(t, x, spelling)
             key == Key(f, spelling)
  <1>1. ASSUME NEW k \in FieldKeys(f), k \in DOMAIN b
        PROVE  /\ Written(f, x[f.name], spelling)
               /\ k = key \/ (spelling = "both" /\ k = f.snake /\ b[k] = Junk)
    BY <1>1, KeysWritten, OwnKeys
  <1>2. FieldInOrder(f)
    BY DEF RecordsInOrder
  <1> HIDE DEF b
  <1>3. CASE ~Written(f, x[f.name], spelling)
    BY <1>1, <1>3 DEF Agrees, Finds, GetKey, FieldKeys, b
  <1>4. CASE Written(f, x[f.name], spelling) /\ key \in {f.camel, f.snake}
    <2>1. key \in DOMAIN o /\ o[key] = WireValue(f, x[f.name], spelling)
      BY <1>4, WrittenAt, KeyIsOwn DEF Agrees
    <2>2. f.camel \in DOMAIN o => f.camel = key
      BY <1>1, <1>4 DEF Agrees, FieldKeys, b
    <2> QED
      BY <1>4, <2>1, <2>2 DEF Finds, GetKey
  <1>5. CASE Written(f, x[f.name], spelling) /\ key \notin {f.camel, f.snake}
    <2>1. f.also = f.snake
      BY <1>2, <1>5 DEF FieldInOrder, Key
    <2>2. GetKey(o, f.camel, f.snake) \in {Absent, Junk}
      BY <1>1, <1>5 DEF Agrees, FieldKeys, GetKey, b
    <2> QED
      BY <1>5, <2>1, <2>2 DEF Finds
  <1> QED
    BY <1>3, <1>4, <1>5

LEMMA ListRead ==
  ASSUME InnerReads, NEW f, NEW spelling \in Spellings, NEW v,
         \A i \in DOMAIN v.v : InnerValue(f.of, v.v[i])
  PROVE  ReadMany(f.of, List([i \in DOMAIN v.v |-> ToInner(f.of, v.v[i], spelling)]))
           = IF AnyFailed(Inside(f, v, spelling)) THEN Failed
             ELSE List(Inside(f, v, spelling))
  <1> DEFINE raw == List([i \in DOMAIN v.v |-> ToInner(f.of, v.v[i], spelling)])
             items == [i \in DOMAIN raw.v |-> FromInner(f.of, raw.v[i])]
  <1>1. /\ raw.is = "list"
        /\ raw.v = [i \in DOMAIN v.v |-> ToInner(f.of, v.v[i], spelling)]
    BY DEF List
  <1>2. items = Inside(f, v, spelling)
    BY <1>1 DEF InnerReads, Inside
  <1> QED
    BY <1>1, <1>2 DEF ReadMany

LEMMA MapRead ==
  ASSUME InnerReads, NEW f, NEW spelling \in Spellings, NEW v,
         \A k \in DOMAIN v.v : InnerValue(f.of, v.v[k])
  PROVE  ReadMap(f.of, Object([k \in DOMAIN v.v |-> ToInner(f.of, v.v[k], spelling)]))
           = IF AnyFailed(Inside(f, v, spelling)) THEN Failed
             ELSE Object(Inside(f, v, spelling))
  <1> DEFINE raw == Object([k \in DOMAIN v.v |-> ToInner(f.of, v.v[k], spelling)])
             all == [k \in DOMAIN raw.v |-> FromInner(f.of, raw.v[k])]
             kept == {j \in DOMAIN all : all[j] # Absent}
  <1>1. /\ raw.is = "object"
        /\ raw.v = [k \in DOMAIN v.v |-> ToInner(f.of, v.v[k], spelling)]
    BY DEF Object
  <1>2. all = Inside(f, v, spelling)
    BY <1>1 DEF InnerReads, Inside
  <1>3. kept = DOMAIN all
    BY <1>1 DEF InnerReads
  <1>4. [k \in kept |-> all[k]] = Inside(f, v, spelling)
    BY <1>2, <1>3 DEF Inside
  <1> QED
    BY <1>1, <1>2, <1>4 DEF ReadMap

\* What the operators return, one kind of field at a time.
LEMMA WireValueIs ==
  ASSUME NEW f, NEW v, NEW spelling
  PROVE  /\ f.kind = "one" => WireValue(f, v, spelling) = ToInner(f.of, v, spelling)
         /\ f.kind = "many" => WireValue(f, v, spelling) =
                 List([i \in DOMAIN v.v |-> ToInner(f.of, v.v[i], spelling)])
         /\ f.kind = "map" => WireValue(f, v, spelling) =
                 Object([k \in DOMAIN v.v |-> ToInner(f.of, v.v[k], spelling)])
         /\ Plain(f) => WireValue(f, v, spelling) =
                 IF /\ f.kind \in {"role", "state", "filter"} /\ v = Given(f)
                    /\ spelling \in PeerSpellings
                   THEN Scalar("string", "PROTO")
                   ELSE IF v = Absent THEN Default(f) ELSE v
  BY DEF WireValue, Plain

LEMMA ReadFieldIs ==
  ASSUME NEW f, NEW o
  PROVE  /\ f.kind = "one" /\ f.need = "may" => ReadField(f, o) =
                 IF GetKey(o, f.camel, f.snake).is = "object"
                   THEN FromInner(f.of, GetKey(o, f.camel, f.snake)) ELSE Absent
         /\ f.kind = "one" /\ f.need = "must" =>
               ReadField(f, o) = FromInner(f.of, GetKey(o, f.camel, f.snake))
         /\ f.kind = "many" => ReadField(f, o) = ReadMany(f.of, GetKey(o, f.camel, f.snake))
         /\ f.kind = "map" => ReadField(f, o) = ReadMap(f.of, GetKey(o, f.camel, f.snake))
         /\ Plain(f) => ReadField(f, o) = ReadPlain(f, o)
  BY DEF ReadField, Plain

LEMMA FieldValueIs ==
  ASSUME NEW f, NEW v, IsField(f, v)
  PROVE  /\ f.kind = "one" => (v = Absent /\ f.need = "may") \/ InnerValue(f.of, v)
         /\ f.kind = "many" => /\ v = List([i \in DOMAIN v.v |-> v.v[i]])
                               /\ \A i \in DOMAIN v.v : InnerValue(f.of, v.v[i])
         /\ f.kind = "map" => \/ v = Absent
                              \/ /\ v = Object([k \in DOMAIN v.v |-> v.v[k]])
                                 /\ \A k \in DOMAIN v.v : InnerValue(f.of, v.v[k])
         /\ Plain(f) => (v = Absent /\ f.need # "must") \/ v \in {Default(f), Given(f)}
  BY DEF IsField, Plain

LEMMA ScalarIs ==
  ASSUME NEW f, FieldInOrder(f), Plain(f)
  PROVE  /\ JsonKind(f) \notin {"absent", "list", "junk"}
         /\ Default(f) = [is |-> JsonKind(f), v |-> "default"]
         /\ Given(f) = [is |-> JsonKind(f), v |-> "given"]
         /\ Absent.is = "absent" /\ Junk.is = "junk"
         /\ Absent \notin {Default(f), Given(f), List(<< >>)}
         /\ f.kind \in {"role", "state", "filter"} => JsonKind(f) = "string"
  <1>1. JsonKind(f) \notin {"absent", "list", "junk"}
    BY DEF FieldInOrder, JsonKind, Plain
  <1>2. /\ Default(f) = [is |-> JsonKind(f), v |-> "default"]
        /\ Given(f) = [is |-> JsonKind(f), v |-> "given"]
    BY DEF Default, Given, Scalar
  <1>3. Absent.is = "absent" /\ Junk.is = "junk"
    BY DEF Absent, Junk, Scalar
  <1>4. List(<< >>).is = "list"
    BY DEF List
  <1>5. Default(f).is = JsonKind(f) /\ Given(f).is = JsonKind(f)
    BY <1>2
  <1> QED
    BY <1>1, <1>2, <1>3, <1>4, <1>5 DEF JsonKind

LEMMA PlainRead ==
  ASSUME NEW t, NEW f, FieldInOrder(f), LossesInOrder(t, f), Plain(f),
         NEW v, IsField(f, v), NEW o, NEW spelling \in Spellings,
         Finds(o, f, v, spelling)
  PROVE  ReadPlain(f, o) = FieldAsRead(t, f, v, spelling)
  <1> DEFINE first == GetKey(o, f.camel, f.snake)
             second == GetKey(o, f.camel, f.also)
  <1>1. (v = Absent /\ f.need # "must") \/ v \in {Default(f), Given(f)}
    BY FieldValueIs
  <1>2. Plain(f) => f.need # "some" /\ f.kind # "many"
    BY DEF FieldInOrder, Plain
  <1>3. CASE ~Written(f, v, spelling)
    <2>1. v = Absent /\ f.need # "must" /\ ~(f.need = "shown" /\ spelling = "own")
      BY <1>1, <1>2, <1>3, ScalarIs DEF Written
    <2>2. first = Absent /\ second = Absent
      BY <1>3 DEF Finds
    <2>3. ReadPlain(f, o) = Absent
      BY <2>1, <2>2, ScalarIs DEF ReadPlain
    <2>4. ~UriShown(t, f, v, spelling)
      BY <2>1 DEF UriShown, LossesInOrder
    <2> QED
      BY <2>1, <2>3, <2>4 DEF FieldAsRead, Missing
  <1>4. CASE Written(f, v, spelling) /\ Key(f, spelling) \notin {f.camel, f.snake}
    <2>1. first.is # JsonKind(f) /\ second.is # JsonKind(f)
      BY <1>4, ScalarIs DEF Finds
    <2>2. ReadPlain(f, o) = Missing(f)
      BY <2>1 DEF ReadPlain, Missing
    <2>3. f.sent \notin {f.camel, f.snake} /\ spelling \in {"camel", "both"}
      BY <1>4 DEF Key, FieldInOrder, Spellings, PeerSpellings
    <2>4. FieldLost(t, f, v, spelling)
      BY <2>3 DEF FieldLost, LossesInOrder
    <2> QED
      BY <2>2, <2>4 DEF FieldAsRead
  <1>5. CASE Written(f, v, spelling) /\ Key(f, spelling) \in {f.camel, f.snake}
    <2>1. first = WireValue(f, v, spelling)
      BY <1>5 DEF Finds
    <2>2. ~(t = "FilePart" /\ f.name = "mimeType" /\ spelling \in {"camel", "both"})
      BY <1>5 DEF LossesInOrder, Key
    <2>3. CASE v = Absent
      <3>1. first = Default(f) /\ f.need = "shown" /\ spelling = "own"
        BY <1>2, <1>5, <2>1, <2>3, WireValueIs, ScalarIs DEF Written
      <3>2. ReadPlain(f, o) = Default(f)
        BY <3>1, ScalarIs DEF ReadPlain
      <3>3. UriShown(t, f, v, spelling) /\ ~FieldLost(t, f, v, spelling)
        BY <2>2, <2>3, <3>1, ScalarIs DEF UriShown, FieldLost, LossesInOrder
      <3> QED
        BY <3>2, <3>3 DEF FieldAsRead
    <2>4. CASE /\ f.kind \in {"role", "state", "filter"} /\ v = Given(f)
               /\ spelling \in PeerSpellings
      <3>1. first = [is |-> JsonKind(f), v |-> "PROTO"]
        BY <2>1, <2>4, WireValueIs, ScalarIs DEF Scalar
      <3>2. ReadPlain(f, o) = IF f.kind = "filter" THEN Absent ELSE Given(f)
        BY <2>4, <3>1 DEF ReadPlain
      <3>3. FieldLost(t, f, v, spelling) <=> f.kind = "filter"
        BY <2>2, <2>4 DEF FieldLost, LossesInOrder
      <3>4. ~UriShown(t, f, v, spelling)
        BY <2>4, ScalarIs DEF UriShown
      <3>5. f.kind = "filter" => f.need # "must"
        BY DEF FieldInOrder
      <3> QED
        BY <2>4, <3>2, <3>3, <3>4, <3>5 DEF FieldAsRead, Missing
    <2>5. CASE /\ v # Absent
               /\ ~(/\ f.kind \in {"role", "state", "filter"} /\ v = Given(f)
                    /\ spelling \in PeerSpellings)
      <3>1. first = v
        <4>1. WireValue(f, v, spelling) = v
          BY <2>5 DEF WireValue, Plain
        <4> QED
          BY <2>1, <4>1
      <3>2. v.is = JsonKind(f) /\ v.v # "PROTO"
        BY <1>1, <2>5, ScalarIs
      <3>3. ReadPlain(f, o) = v
        BY <3>1, <3>2 DEF ReadPlain
      <3>4. ~FieldLost(t, f, v, spelling) /\ ~UriShown(t, f, v, spelling)
        BY <2>2, <2>5 DEF FieldLost, UriShown, LossesInOrder
      <3> QED
        BY <3>3, <3>4 DEF FieldAsRead
    <2> QED
      BY <2>3, <2>4, <2>5
  <1> QED
    BY <1>3, <1>4, <1>5

LEMMA FieldRead ==
  ASSUME InnerReads, NEW t, NEW f, FieldInOrder(f), LossesInOrder(t, f),
         NEW v, IsField(f, v), NEW o, NEW spelling \in Spellings,
         Finds(o, f, v, spelling)
  PROVE  ReadField(f, o) = FieldAsRead(t, f, v, spelling)
  <1> DEFINE raw == GetKey(o, f.camel, f.snake)
  <1>1. CASE Plain(f)
    BY <1>1, PlainRead, ReadFieldIs
  <1>2. CASE ~Plain(f)
    <2>1. /\ f.sent \in {f.camel, f.snake} /\ f.kind # "filter" /\ f.need # "shown"
          /\ Key(f, spelling) \in {f.camel, f.snake}
      BY <1>2 DEF FieldInOrder, Plain, Key
    <2>2. ~FieldLost(t, f, v, spelling) /\ ~UriShown(t, f, v, spelling)
      BY <2>1 DEF FieldLost, UriShown, LossesInOrder
    <2>3. Written(f, v, spelling) => raw = WireValue(f, v, spelling)
      BY <2>1 DEF Finds
    <2>4. ~Written(f, v, spelling) => raw = Absent
      BY DEF Finds
    <2>5. FieldAsRead(t, f, v, spelling) =
            IF v = Absent THEN v
            ELSE IF f.kind = "one" THEN InnerAsRead(f.of, v, spelling)
            ELSE IF AnyFailed(Inside(f, v, spelling)) THEN Failed
            ELSE IF f.kind = "many" THEN List(Inside(f, v, spelling))
            ELSE Object(Inside(f, v, spelling))
      BY <1>2, <2>2 DEF FieldAsRead
    <2>6. CASE f.kind = "one" /\ v = Absent
      <3>1. f.need = "may"
        BY <2>6, FieldValueIs DEF InnerReads
      <3>2. raw = Absent
        BY <2>4, <2>6, <3>1 DEF Written
      <3> QED
        BY <2>5, <2>6, <3>1, <3>2, ReadFieldIs DEF Absent
    <2>7. CASE f.kind = "one" /\ v # Absent
      <3>1. /\ InnerValue(f.of, v) /\ f.need # "some" /\ f.of # "string"
            /\ f.need \in {"may", "must"}
        BY <2>7, FieldValueIs DEF FieldInOrder
      <3>2. raw = ToInner(f.of, v, spelling)
        <4>1. Written(f, v, spelling)
          BY <2>7, <3>1 DEF Written
        <4> QED
          BY <2>3, <2>7, <4>1 DEF WireValue
      <3>3. raw.is = "object" /\ FromInner(f.of, raw) = InnerAsRead(f.of, v, spelling)
        BY <3>1, <3>2 DEF InnerReads
      <3> QED
        BY <2>5, <2>7, <3>1, <3>3, ReadFieldIs
    <2>8. CASE f.kind = "many"
      <3>1. /\ v = List([i \in DOMAIN v.v |-> v.v[i]])
            /\ \A i \in DOMAIN v.v : InnerValue(f.of, v.v[i])
        BY <2>8, FieldValueIs
      <3>2. v # Absent
        BY <3>1 DEF List, Absent
      <3>3. CASE Written(f, v, spelling)
        <4>1. raw = List([i \in DOMAIN v.v |-> ToInner(f.of, v.v[i], spelling)])
          BY <2>3, <2>8, <3>3, WireValueIs
        <4>2. ReadMany(f.of, raw) = IF AnyFailed(Inside(f, v, spelling)) THEN Failed
                                    ELSE List(Inside(f, v, spelling))
          BY <3>1, <4>1, ListRead
        <4> QED
          BY <2>5, <2>8, <3>2, <4>2, ReadFieldIs
      <3>4. CASE ~Written(f, v, spelling)
        <4>1. v = List(<< >>) /\ raw = Absent
          BY <2>4, <3>2, <3>4 DEF Written
        <4>2. ReadMany(f.of, raw) = v
          BY <4>1 DEF ReadMany, Absent
        <4>3. v.v = << >>
          BY <4>1 DEF List
        <4>4. Inside(f, v, spelling) = << >> /\ ~AnyFailed(Inside(f, v, spelling))
          BY <4>3 DEF Inside, AnyFailed
        <4> QED
          BY <2>5, <2>8, <3>2, <4>1, <4>2, <4>4, ReadFieldIs
      <3> QED
        BY <3>3, <3>4
    <2>9. CASE f.kind = "map" /\ v = Absent
      <3>1. raw = Absent
        BY <2>4, <2>9 DEF Written, FieldInOrder
      <3>2. ReadMap(f.of, raw) = Absent
        BY <3>1 DEF ReadMap, Absent
      <3> QED
        BY <2>5, <2>9, <3>2, ReadFieldIs
    <2>10. CASE f.kind = "map" /\ v # Absent
      <3>1. \A k \in DOMAIN v.v : InnerValue(f.of, v.v[k])
        BY <2>10, FieldValueIs
      <3>2. Written(f, v, spelling)
        BY <2>10 DEF FieldInOrder, Written
      <3>3. raw = Object([k \in DOMAIN v.v |-> ToInner(f.of, v.v[k], spelling)])
        BY <2>3, <2>10, <3>2, WireValueIs
      <3>4. ReadMap(f.of, raw) = IF AnyFailed(Inside(f, v, spelling)) THEN Failed
                                 ELSE Object(Inside(f, v, spelling))
        BY <3>1, <3>3, MapRead
      <3> QED
        BY <2>5, <2>10, <3>4, ReadFieldIs
    <2> QED
      BY <1>2, <2>6, <2>7, <2>8, <2>9, <2>10 DEF Plain
  <1> QED
    BY <1>1, <1>2

LEMMA TheFieldIs ==
  ASSUME RecordsInOrder, NEW t \in DOMAIN Records, NEW f \in Records[t]
  PROVE  TheField(t, f.name) = f
  <1>1. \A g \in Records[t] : g.name = f.name => g = f
    BY DEF RecordsInOrder
  <1> QED
    BY <1>1 DEF TheField

\* What is no object is not read.
InnerUnread == \A t : t # "string" => FromInner(t, Junk) = Unread(t)

LEMMA JunkRead ==
  ASSUME InnerUnread, NEW f, FieldInOrder(f), NEW o,
         GetKey(o, f.camel, f.snake) = Junk, GetKey(o, f.camel, f.also) = Junk
  PROVE  ReadField(f, o) = Spoilt(f)
  <1>1. Junk.is = "junk"
    BY DEF Junk, Scalar
  <1>2. CASE Plain(f)
    <2>1. JsonKind(f) # "junk"
      BY DEF FieldInOrder, JsonKind
    <2>2. ReadPlain(f, o) = Missing(f)
      BY <1>1, <2>1 DEF ReadPlain, Missing
    <2> QED
      BY <1>2, <2>2, ReadFieldIs DEF Plain, Spoilt
  <1>3. CASE f.kind = "one"
    BY <1>1, <1>3, ReadFieldIs DEF InnerUnread, FieldInOrder, Plain, Spoilt
  <1>4. CASE f.kind = "many"
    BY <1>1, <1>4, ReadFieldIs DEF ReadMany, Spoilt
  <1>5. CASE f.kind = "map"
    BY <1>1, <1>5, ReadFieldIs DEF ReadMap, Plain, Spoilt
  <1> QED
    BY <1>2, <1>3, <1>4, <1>5 DEF Plain

\* o holds what is written of x but for the damaged field, and nothing else
\* that could be taken for it.
Tells(o, t, x, spelling, damaged) ==
  \A f \in Records[t] :
    IF f.name = damaged
      THEN /\ InnerUnread
           /\ GetKey(o, f.camel, f.snake) = Junk
           /\ GetKey(o, f.camel, f.also) = Junk
      ELSE Agrees(o, RecordToWire(t, x, spelling), f)

LEMMA RecordRead ==
  ASSUME InnerReads, RecordsInOrder, NEW t \in DOMAIN Records, NEW x, IsRecord(t, x),
         NEW o, NEW spelling \in Spellings, NEW damaged,
         Tells(o, t, x, spelling, damaged)
  PROVE  /\ ReadRecord(t, o) = RecordAsRead(t, x, spelling, damaged)
         /\ RecordAsRead(t, x, spelling, damaged) # Absent
         /\ x # Absent
  <1> DEFINE r == [n \in Names(t) |-> ReadField(TheField(t, n), o)]
             e == [n \in Names(t) |->
                     IF n = damaged THEN Spoilt(TheField(t, n))
                     ELSE FieldAsRead(t, TheField(t, n), x[n], spelling)]
  <1>1. ASSUME NEW n \in Names(t)
        PROVE  r[n] = e[n] /\ n # "is"
    <2>1. PICK f \in Records[t] : f.name = n
      BY DEF Names
    <2>2. /\ FieldInOrder(f) /\ LossesInOrder(t, f) /\ IsField(f, x[n])
          /\ TheField(t, n) = f
      BY <2>1, TheFieldIs DEF RecordsInOrder, IsRecord
    <2>3. n # "is"
      BY <2>1, <2>2 DEF FieldInOrder
    <2>4. CASE n = damaged
      <3>1. ReadField(f, o) = Spoilt(f)
        BY <2>1, <2>2, <2>4, JunkRead DEF Tells
      <3> QED
        BY <2>2, <2>3, <2>4, <3>1
    <2>5. CASE n # damaged
      <3>1. Finds(o, f, x[n], spelling)
        BY <2>1, <2>5, FieldFound DEF Tells
      <3>2. ReadField(f, o) = FieldAsRead(t, f, x[n], spelling)
        BY <2>2, <3>1, FieldRead
      <3> QED
        BY <2>2, <2>3, <2>5, <3>2
    <2> QED
      BY <2>4, <2>5
  <1>2. r = e
    BY <1>1
  <1>3. DOMAIN e = Names(t) /\ DOMAIN x = Names(t) /\ "is" \notin Names(t)
    BY <1>1 DEF IsRecord
  <1>4. e # Absent /\ x # Absent /\ Failed # Absent
    BY <1>3 DEF Failed, Absent
  <1> QED
    BY <1>2, <1>4 DEF ReadRecord, RecordAsRead

LEMMA TellsItself ==
  ASSUME RecordsInOrder, NEW t \in DOMAIN Records, NEW y, NEW spelling
  PROVE  Tells(RecordToWire(t, y, spelling), t, y, spelling, "")
  BY DEF Tells, Agrees, RecordsInOrder, FieldInOrder

LEMMA DamagedTells ==
  ASSUME InnerUnread, RecordsInOrder, NEW t \in DOMAIN Records, NEW x,
         NEW f \in Records[t]
  PROVE  Tells(Holding(RecordToWire(t, x, "camel"), f.camel, Junk), t, x, "camel", f.name)
  <1> DEFINE b == RecordToWire(t, x, "camel")
             o == Holding(b, f.camel, Junk)
  <1>1. f.camel \in DOMAIN o /\ o[f.camel] = Junk
    BY DEF Holding
  <1>2. GetKey(o, f.camel, f.snake) = Junk /\ GetKey(o, f.camel, f.also) = Junk
    BY <1>1 DEF GetKey
  <1>3. ASSUME NEW g \in Records[t], g.name # f.name
        PROVE  Agrees(o, b, g)
    <2>1. f.camel \notin FieldKeys(g)
      BY <1>3, OwnKeys DEF FieldKeys
    <2> QED
      BY <2>1 DEF Agrees, Holding
  <1>4. \A g \in Records[t] : g.name = f.name => g = f
    BY DEF RecordsInOrder
  <1> HIDE DEF o, b
  <1>5. Tells(o, t, x, "camel", f.name)
    BY <1>2, <1>3, <1>4 DEF Tells, b
  <1> QED
    BY <1>5 DEF o, b

-----------------------------------------------------------------------------
(* Unions: y is a value of the variant v, at i of t.                       *)

LEMMA VariantIs ==
  ASSUME NEW t, UnionInOrder(t), NEW v \in Variants(t), NEW w \in Variants(t),
         v.tag = w.tag
  PROVE  v = w
  BY DEF UnionInOrder, Variants

LEMMA VariantsApart ==
  ASSUME NEW t, UnionInOrder(t), NEW v \in Variants(t), NEW w \in Variants(t), v # w
  PROVE  /\ VariantKeys(v) \cap VariantKeys(w) = {}
         /\ ~v.wrapped => RecordKeys(v.of) \cap VariantKeys(w) = {}
  <1>1. PICK i, j \in DOMAIN Unions[t] : Unions[t][i] = v /\ Unions[t][j] = w
    BY DEF Variants
  <1> QED
    BY <1>1 DEF UnionInOrder

\* Nothing in o is under a key of the variant.
Misses(o, v) == v.camel \notin DOMAIN o /\ v.snake \notin DOMAIN o

LEMMA MissedIs ==
  ASSUME NEW o, NEW v, Misses(o, v)
  PROVE  GetKey(o, v.camel, v.snake) = Absent
  BY DEF Misses, GetKey

LEMMA Recognised ==
  ASSUME NEW t, UnionInOrder(t), NEW v \in Variants(t), NEW o,
         GetKey(o, v.camel, v.snake).is \in v.is,
         \A w \in Variants(t) : w # v => Misses(o, w)
  PROVE  ReadUnion(t, o) =
           LET held == IF v.wrapped THEN GetKey(o, v.camel, v.snake) ELSE Object(o)
           IN IF held.is = "object" THEN Tagged(v.tag, ReadRecord(v.of, held.v))
              ELSE Failed
  <1> DEFINE vs == Unions[t]
             found == {i \in DOMAIN vs :
                         GetKey(o, vs[i].camel, vs[i].snake).is \in vs[i].is}
             least == CHOOSE i \in found : \A j \in found : i <= j
  <1>1. PICK i \in DOMAIN vs : vs[i] = v
    BY DEF Variants
  <1>2. ASSUME NEW j \in found PROVE j = i
    <2>1. CASE vs[j] = v
      BY <2>1, <1>1 DEF UnionInOrder
    <2>2. CASE vs[j] # v
      <3>1. GetKey(o, vs[j].camel, vs[j].snake) = Absent /\ "absent" \notin vs[j].is
        BY <2>2, MissedIs DEF UnionInOrder, Variants
      <3> QED
        BY <3>1 DEF Absent
    <2> QED
      BY <2>1, <2>2
  <1>3. found = {i} /\ i <= i
    BY <1>1, <1>2 DEF UnionInOrder
  <1>4. least = i
    BY <1>3
  <1> HIDE DEF found
  <1>5. found # {} /\ vs[least] = v
    BY <1>1, <1>3, <1>4
  <1> QED
    BY <1>5 DEF ReadUnion, found

LEMMA NotRecognised ==
  ASSUME UnionInOrder("Part"), NEW o, \A w \in Variants("Part") : Misses(o, w)
  PROVE  ReadUnion("Part", o) = ReadLegacyPart(o)
  <1> DEFINE vs == Unions["Part"]
             found == {i \in DOMAIN vs :
                         GetKey(o, vs[i].camel, vs[i].snake).is \in vs[i].is}
  <1>1. ASSUME NEW j \in found PROVE FALSE
    <2>1. GetKey(o, vs[j].camel, vs[j].snake) = Absent /\ "absent" \notin vs[j].is
      BY MissedIs DEF UnionInOrder, Variants
    <2> QED
      BY <2>1 DEF Absent
  <1> QED
    BY <1>1 DEF ReadUnion

LEMMA TaggedIs ==
  ASSUME NEW tag, NEW y
  PROVE  Tagged(tag, y) # Absent
  <1>1. Failed # Absent /\ [tag |-> tag, v |-> y] # Absent
    <2>1. "tag" \notin DOMAIN Absent
      BY DEF Absent
    <2> QED
      BY <2>1 DEF Failed, Absent
  <1> QED
    BY <1>1 DEF Tagged

\* Under one key, all of it.
LEMMA WrappedRead ==
  ASSUME InnerReads, RecordsInOrder, NEW t, UnionInOrder(t),
         NEW v \in Variants(t), v.wrapped, v.tag # "file",
         NEW y, IsRecord(v.of, y), NEW spelling \in Spellings,
         VariantKey(v, spelling) \in {v.camel, v.snake}
  PROVE  ReadUnion(t, Only(VariantKey(v, spelling), Object(RecordToWire(v.of, y, spelling))))
           = Tagged(v.tag, RecordAsRead(v.of, y, spelling, ""))
  <1> DEFINE body == RecordToWire(v.of, y, spelling)
             key == VariantKey(v, spelling)
             o == Only(key, Object(body))
  <1>1. v.of \in DOMAIN Records /\ "object" \in v.is
    BY DEF UnionInOrder
  <1>2. key \in {v.camel, v.snake} /\ key \in VariantKeys(v)
    BY DEF VariantKeys
  <1>3. DOMAIN o = {key} /\ o[key] = Object(body)
    BY DEF Only
  <1> HIDE DEF o, body, key
  <1>4. GetKey(o, v.camel, v.snake) = Object(body)
    BY <1>2, <1>3 DEF GetKey
  <1>5. ASSUME NEW w \in Variants(t), w # v PROVE Misses(o, w)
    <2>1. VariantKeys(v) \cap VariantKeys(w) = {}
      BY <1>5, VariantsApart
    <2> QED
      BY <1>2, <1>3, <2>1 DEF Misses, VariantKeys
  <1>6. Object(body).is = "object" /\ Object(body).v = body
    BY DEF Object
  <1>7. ReadUnion(t, o) = Tagged(v.tag, ReadRecord(v.of, body))
    BY <1>1, <1>4, <1>5, <1>6, Recognised
  <1>8. ReadRecord(v.of, body) = RecordAsRead(v.of, y, spelling, "")
    <2>1. Tells(body, v.of, y, spelling, "")
      BY <1>1, TellsItself DEF body
    <2> QED
      BY <1>1, <2>1, RecordRead
  <1> QED
    BY <1>7, <1>8 DEF o, body, key

\* Under a key nobody knows.
LEMMA UnknownRead ==
  ASSUME UnionInOrder("Part"), LegacyInOrder,
         NEW o, {"kind", "type"} \cap DOMAIN o = {},
         \A w \in Variants("Part") : Misses(o, w)
  PROVE  ReadUnion("Part", o) = Failed
  <1>1. ReadUnion("Part", o) = ReadLegacyPart(o)
    BY NotRecognised
  <1>2. GetKey(o, "kind", "type") = Absent /\ Absent.is # "string"
    BY DEF GetKey, Absent
  <1> QED
    BY <1>1, <1>2 DEF ReadLegacyPart

LEMMA PlainKind ==
  ASSUME NEW f, Plain(f), NEW v, v \in {Default(f), Given(f), Absent}, NEW spelling
  PROVE  WireValue(f, v, spelling).is = JsonKind(f)
  <1>1. WireValue(f, v, spelling) \in {Default(f), Given(f)} \/
        (/\ f.kind \in {"role", "state", "filter"}
         /\ WireValue(f, v, spelling) = Scalar("string", "PROTO"))
    BY DEF WireValue, Plain
  <1> QED
    BY <1>1 DEF JsonKind, Scalar, Default, Given

\* Under keys of its own, which may be beside the kind of the old form.
LEMMA UnwrappedRead ==
  ASSUME InnerReads, RecordsInOrder, UnionInOrder("Part"), LegacyInOrder,
         NEW v \in Variants("Part"), ~v.wrapped,
         NEW y, IsRecord(v.of, y), NEW spelling \in Spellings,
         v.tag = "file" =>
           spelling # "legacy" /\ (y.uri = Absent => spelling = "own"),
         NEW o, o = RecordToWire(v.of, y, spelling) \/
                o = Holding(RecordToWire(v.of, y, spelling), "kind", Scalar("string", v.tag))
  PROVE  ReadUnion("Part", o) = Tagged(v.tag, RecordAsRead(v.of, y, spelling, ""))
  <1> DEFINE body == RecordToWire(v.of, y, spelling)
  <1>1. v.of \in DOMAIN Records /\ KnownBy(v)
    BY DEF UnionInOrder
  <1>2. /\ DOMAIN body \subseteq DOMAIN o /\ DOMAIN o \subseteq DOMAIN body \cup {"kind"}
        /\ \A k \in DOMAIN body : k # "kind" => o[k] = body[k]
    BY DEF Holding
  <1>3. RecordKeys(v.of) \cap {"kind", "type"} = {}
    BY <1>1 DEF KnownBy
  <1>4. DOMAIN body \subseteq RecordKeys(v.of)
    BY <1>1, KeysWritten DEF RecordKeys
  <1>5. Tells(o, v.of, y, spelling, "")
    <2>1. ASSUME NEW f \in Records[v.of], NEW k \in FieldKeys(f)
          PROVE  k # "kind"
      BY <1>3 DEF RecordKeys
    <2>2. \A f \in Records[v.of] : f.name # ""
      BY <1>1 DEF RecordsInOrder, FieldInOrder
    <2>3. \A f \in Records[v.of] : Agrees(o, body, f)
      BY <1>2, <2>1 DEF Agrees
    <2> HIDE DEF body
    <2> QED
      BY <2>2, <2>3 DEF Tells, body
  <1>6. PICK f \in Records[v.of] :
          /\ Plain(f) /\ f.kind # "filter" /\ JsonKind(f) \in v.is
          /\ v.camel = f.key /\ v.camel = f.snake /\ v.camel = f.sent
          /\ IF v.tag = "file" THEN f.name = "uri" /\ v.of = "FilePart"
             ELSE f.need = "must" /\ f.camel = f.snake
    BY <1>1 DEF KnownBy
  <1>7. Key(f, spelling) = v.camel
    BY <1>6 DEF Key
  <1>8. /\ (y[f.name] = Absent /\ f.need # "must") \/ y[f.name] \in {Default(f), Given(f)}
        /\ FieldInOrder(f) /\ LossesInOrder(v.of, f)
    BY <1>1, <1>6, FieldValueIs DEF IsRecord, RecordsInOrder
  <1>9. Written(f, y[f.name], spelling)
    <2>1. f.need # "some"
      BY <1>6, <1>8 DEF FieldInOrder, Plain
    <2>2. CASE y[f.name] # Absent
      BY <2>1, <2>2 DEF Written
    <2>3. CASE y[f.name] = Absent
      <3>1. f.need # "must"
        BY <1>6, <1>8, <2>3, ScalarIs
      <3>2. f.name = "uri" /\ v.of = "FilePart" /\ v.tag = "file" /\ f.need = "shown"
        BY <1>1, <1>6, <1>8, <3>1 DEF KnownBy, LossesInOrder
      <3> QED
        BY <2>3, <3>2 DEF Written
    <2> QED
      BY <2>2, <2>3
  <1>10. v.camel \in DOMAIN body /\ body[v.camel] = WireValue(f, y[f.name], spelling)
    BY <1>1, <1>7, <1>9, WrittenAt
  <1>11. GetKey(o, v.camel, v.snake) = WireValue(f, y[f.name], spelling)
    BY <1>2, <1>3, <1>4, <1>10 DEF GetKey
  <1>12. WireValue(f, y[f.name], spelling).is = JsonKind(f)
    BY <1>6, <1>8, PlainKind
  <1>13. ASSUME NEW w \in Variants("Part"), w # v PROVE Misses(o, w)
    <2>1. RecordKeys(v.of) \cap VariantKeys(w) = {}
      BY <1>13, VariantsApart
    <2>2. w.camel # "kind" /\ w.snake # "kind"
      BY DEF LegacyInOrder
    <2> QED
      BY <1>2, <1>4, <2>1, <2>2 DEF Misses, VariantKeys
  <1>14. ReadUnion("Part", o) = Tagged(v.tag, ReadRecord(v.of, o))
    <2>1. Object(o).is = "object" /\ Object(o).v = o
      BY DEF Object
    <2>2. GetKey(o, v.camel, v.snake).is \in v.is
      BY <1>6, <1>11, <1>12
    <2> QED
      BY <2>1, <2>2, <1>13, Recognised
  <1>15. ReadRecord(v.of, o) = RecordAsRead(v.of, y, spelling, "")
    BY <1>1, <1>5, RecordRead
  <1> QED
    BY <1>14, <1>15

\* A file without a uri: nothing it holds is what a variant is known by.
LEMMA NoUriRead ==
  ASSUME RecordsInOrder, UnionInOrder("Part"), LegacyInOrder,
         NEW v \in Variants("Part"), ~v.wrapped, v.tag = "file",
         NEW y, y.uri = Absent, NEW spelling \in PeerSpellings
  PROVE  ReadUnion("Part", RecordToWire(v.of, y, spelling)) = Failed
  <1> DEFINE o == RecordToWire(v.of, y, spelling)
  <1>1. v.of \in DOMAIN Records /\ KnownBy(v)
    BY DEF UnionInOrder
  <1>2. PICK f \in Records[v.of] :
          /\ f.name = "uri" /\ f.need = "shown"
          /\ v.camel = f.key /\ v.camel = f.snake /\ v.camel = f.sent
    BY <1>1 DEF KnownBy, LossesInOrder, RecordsInOrder
  <1>3. DOMAIN o \subseteq RecordKeys(v.of)
    BY <1>1, KeysWritten DEF RecordKeys
  <1>4. ~Written(f, y[f.name], spelling)
    BY <1>2 DEF Written, PeerSpellings
  <1>5. v.camel \notin DOMAIN o
    <2>1. v.camel \in FieldKeys(f)
      BY <1>2 DEF FieldKeys
    <2> QED
      BY <1>1, <1>4, <2>1, KeysWritten, OwnKeys
  <1>6. v.snake = v.camel
    BY DEF LegacyInOrder
  <1> HIDE DEF o
  <1>7. ASSUME NEW w \in Variants("Part") PROVE Misses(o, w)
    <2>1. CASE w = v
      BY <1>5, <1>6, <2>1 DEF Misses
    <2>2. CASE w # v
      <3>1. RecordKeys(v.of) \cap VariantKeys(w) = {}
        BY <2>2, VariantsApart
      <3> QED
        BY <1>3, <3>1 DEF Misses, VariantKeys
    <2> QED
      BY <2>1, <2>2
  <1>8. {"kind", "type"} \cap DOMAIN o = {}
    BY <1>1, <1>3 DEF KnownBy
  <1> QED
    BY <1>7, <1>8, UnknownRead DEF o

\* The old form, of a part that is held under a key of that form.
LEMMA LegacyRead ==
  ASSUME InnerReads, RecordsInOrder, UnionInOrder("Part"), LegacyInOrder,
         NEW v \in Variants("Part"), v.wrapped \/ v.tag = "file",
         NEW y, IsRecord(v.of, y), NEW spelling \in Spellings
  PROVE  ReadUnion("Part",
           Holding(Only(LegacyKey(v), Object(RecordToWire(v.of, y, spelling))),
                   "kind", Scalar("string", v.tag)))
           = Tagged(v.tag, RecordAsRead(v.of, y, spelling, ""))
  <1> DEFINE body == RecordToWire(v.of, y, spelling)
             o == Holding(Only(LegacyKey(v), Object(body)), "kind", Scalar("string", v.tag))
             vs == {w \in Variants("Part") : w.tag = v.tag}
  <1>1. v.of \in DOMAIN Records /\ (v.key \in {v.camel, v.snake} \/ v.tag = "file")
    BY DEF UnionInOrder
  <1>2. /\ LegacyKey(v) \in {"file", "function_call", "function_response"}
        /\ v.tag = "file" => LegacyKey(v) = "file"
    <2>1. v.tag \in {"file", "functionCall", "functionResponse"}
      BY DEF LegacyInOrder
    <2> QED
      BY <2>1 DEF LegacyKey
  <1>3. /\ DOMAIN o = {LegacyKey(v), "kind"}
        /\ o[LegacyKey(v)] = Object(body) /\ o["kind"] = Scalar("string", v.tag)
    BY <1>2 DEF Holding, Only
  <1> HIDE DEF o, body
  <1>4. \A w \in Variants("Part") : Misses(o, w)
    BY <1>2, <1>3 DEF LegacyInOrder, Misses
  <1>5. ReadUnion("Part", o) = ReadLegacyPart(o)
    BY <1>4, NotRecognised
  <1>6. GetKey(o, "kind", "type") = Scalar("string", v.tag)
    BY <1>3 DEF GetKey
  <1>7. vs = {v}
    BY VariantIs
  <1>8. GetKey(o, v.key, LegacyKey(v)) = Object(body)
    <2>1. v.key = LegacyKey(v) \/ v.key \notin DOMAIN o
      BY <1>1, <1>2, <1>3, <1>4 DEF LegacyInOrder, Misses
    <2> QED
      BY <1>3, <2>1 DEF GetKey
  <1>9. Object(body).is = "object" /\ Object(body).v = body
    BY DEF Object
  <1>10. Scalar("string", v.tag).is = "string" /\ Scalar("string", v.tag).v = v.tag
    BY DEF Scalar
  <1>11. (CHOOSE w \in vs : TRUE) = v
    BY <1>7
  <1>12. ReadLegacyPart(o) = Tagged(v.tag, ReadRecord(v.of, body))
    BY <1>6, <1>7, <1>8, <1>9, <1>10, <1>11 DEF ReadLegacyPart
  <1>13. ReadRecord(v.of, body) = RecordAsRead(v.of, y, spelling, "")
    <2>1. Tells(body, v.of, y, spelling, "")
      BY <1>1, TellsItself DEF body
    <2> QED
      BY <1>1, <2>1, RecordRead
  <1> QED
    BY <1>5, <1>12, <1>13 DEF o, body

LEMMA UnionRead ==
  ASSUME InnerReads, SchemaInOrder, NEW t \in DOMAIN Unions, NEW x, IsUnion(t, x),
         NEW spelling \in Spellings
  PROVE  ReadUnion(t, UnionToWire(t, x, spelling)) = AsRead(t, x, spelling)
  <1>1. UnionInOrder(t) /\ RecordsInOrder /\ LegacyInOrder /\ t # "string"
    BY DEF SchemaInOrder
  <1>2. PICK v \in Variants(t) : x = [tag |-> v.tag, v |-> x.v] /\ IsRecord(v.of, x.v)
    BY DEF IsUnion
  <1>3. x.tag = v.tag
    BY <1>2
  <1>4. (CHOOSE w \in Variants(t) : w.tag = x.tag) = v
    BY <1>1, <1>3, VariantIs
  <1> DEFINE body == RecordToWire(v.of, x.v, spelling)
             read == Tagged(v.tag, RecordAsRead(v.of, x.v, spelling, ""))
  <1>5. UnionToWire(t, x, spelling) =
          IF t = "Part" /\ spelling = "legacy"
            THEN Holding(IF v.wrapped \/ v.tag = "file"
                           THEN Only(LegacyKey(v), Object(body)) ELSE body,
                         "kind", Scalar("string", v.tag))
          ELSE IF v.wrapped THEN Only(VariantKey(v, spelling), Object(body))
          ELSE body
    <2>1. UnionToWire(t, x, spelling) = VariantToWire(t, v, x.v, spelling)
      BY <1>4 DEF UnionToWire
    <2> QED
      BY <2>1 DEF VariantToWire
  <1>6. AsRead(t, x, spelling) = IF UnknownPart(t, x, spelling) THEN Failed ELSE read
    BY <1>1, <1>3, <1>4 DEF AsRead
  <1>7. /\ v.tag = "file" => ~v.wrapped
        /\ ~v.wrapped => t = "Part" /\ KnownBy(v)
        /\ v.of \in DOMAIN Records
    BY <1>1 DEF UnionInOrder
  <1> HIDE DEF read
  <1>8. CASE t = "Part" /\ spelling = "legacy" /\ (v.wrapped \/ v.tag = "file")
    <2>1. UnionToWire(t, x, spelling)
            = Holding(Only(LegacyKey(v), Object(body)), "kind", Scalar("string", v.tag))
      BY <1>5, <1>8
    <2>2. ~UnknownPart(t, x, spelling)
      BY <1>8 DEF UnknownPart, PeerSpellings
    <2> QED
      BY <1>1, <1>2, <1>6, <1>8, <2>1, <2>2, LegacyRead DEF read
  <1>9. CASE /\ v.wrapped /\ ~(t = "Part" /\ spelling = "legacy")
             /\ VariantKey(v, spelling) \in {v.camel, v.snake}
    <2>1. UnionToWire(t, x, spelling) = Only(VariantKey(v, spelling), Object(body))
      BY <1>5, <1>9
    <2>2. ~UnknownPart(t, x, spelling)
      <3>1. t = "Part" /\ spelling = "snake" => v.tag \notin {"functionCall", "functionResponse"}
        BY <1>1, <1>9 DEF LegacyInOrder, VariantKey
      <3> QED
        BY <1>3, <1>7, <1>9, <3>1 DEF UnknownPart
    <2> QED
      BY <1>1, <1>2, <1>6, <1>7, <1>9, <2>1, <2>2, WrappedRead DEF read
  <1>10. CASE /\ v.wrapped /\ ~(t = "Part" /\ spelling = "legacy")
              /\ VariantKey(v, spelling) \notin {v.camel, v.snake}
    <2>1. v.key \in {v.camel, v.snake} /\ v.tag # "file"
      BY <1>1, <1>7, <1>10 DEF UnionInOrder
    <2>2. spelling = "snake" /\ v.sent \notin {v.camel, v.snake}
      BY <1>10, <2>1 DEF VariantKey
    <2>3. t = "Part" /\ v.tag \in {"functionCall", "functionResponse"}
      BY <1>1, <2>2 DEF UnionInOrder
    <2>4. UnknownPart(t, x, spelling)
      BY <1>3, <2>2, <2>3 DEF UnknownPart
    <2> DEFINE o == Only(v.sent, Object(body))
    <2>5. UnionToWire(t, x, spelling) = o
      BY <1>5, <1>10, <2>2 DEF VariantKey
    <2>6. DOMAIN o = {v.sent}
      BY DEF Only
    <2> HIDE DEF o
    <2>7. \A w \in Variants("Part") : v.sent \notin {w.camel, w.snake}
      BY <1>1, <1>10, <2>3 DEF LegacyInOrder
    <2>8. \A w \in Variants("Part") : Misses(o, w)
      BY <2>6, <2>7 DEF Misses
    <2>9. {"kind", "type"} \cap DOMAIN o = {}
      BY <1>1, <1>10, <2>3, <2>6 DEF LegacyInOrder
    <2>10. ReadUnion(t, o) = Failed
      BY <1>1, <2>3, <2>8, <2>9, UnknownRead
    <2> QED
      BY <1>6, <2>4, <2>5, <2>10
  <1>11. CASE ~v.wrapped /\ v.tag = "file" /\ x.v.uri = Absent /\ spelling \in PeerSpellings
    <2>1. UnionToWire(t, x, spelling) = body
      BY <1>5, <1>11 DEF PeerSpellings
    <2>2. UnknownPart(t, x, spelling)
      BY <1>3, <1>7, <1>11 DEF UnknownPart
    <2> QED
      BY <1>1, <1>6, <1>7, <1>11, <2>1, <2>2, NoUriRead
  <1>12. CASE /\ ~v.wrapped /\ ~(spelling = "legacy" /\ v.tag = "file")
              /\ ~(v.tag = "file" /\ x.v.uri = Absent /\ spelling \in PeerSpellings)
    <2>1. \/ UnionToWire(t, x, spelling) = body
          \/ UnionToWire(t, x, spelling) = Holding(body, "kind", Scalar("string", v.tag))
      BY <1>5, <1>12
    <2>2. ~UnknownPart(t, x, spelling)
      BY <1>3, <1>7, <1>12 DEF UnknownPart, KnownBy
    <2>3. v.tag = "file" =>
            spelling # "legacy" /\ (x.v.uri = Absent => spelling = "own")
      BY <1>12 DEF Spellings
    <2> DEFINE o == UnionToWire(t, x, spelling)
    <2> HIDE DEF o
    <2>4. o = body \/ o = Holding(body, "kind", Scalar("string", v.tag))
      BY <2>1 DEF o
    <2>5. ReadUnion("Part", o) = read
      BY <1>1, <1>2, <1>7, <1>12, <2>3, <2>4, UnwrappedRead DEF read
    <2> QED
      BY <1>6, <1>7, <1>12, <2>2, <2>5 DEF o
  <1> QED
    BY <1>7, <1>8, <1>9, <1>10, <1>11, <1>12

-----------------------------------------------------------------------------
(* The level: what a level above it relies on.                             *)

(***************************************************************************)
(* Every value of a type is read as AsRead says, in any spelling, if the   *)
(* values inside it are: of any schema that is in order, with arrays and   *)
(* maps of any size (serialize.ts, fromWire and toWire of each type).      *)
(***************************************************************************)
THEOREM LevelReads ==
  ASSUME SchemaInOrder, InnerReads
  PROVE  \A t, y : \A spelling \in Spellings : IsValue(t, y) =>
           /\ FromWire(t, ToWire(t, y, spelling)) = AsRead(t, y, spelling)
           /\ AsRead(t, y, spelling) # Absent
           /\ y # Absent
           /\ t # "string" => ToWire(t, y, spelling).is = "object"
  <1> SUFFICES ASSUME NEW t, NEW y, NEW spelling \in Spellings, IsValue(t, y)
               PROVE  /\ FromWire(t, ToWire(t, y, spelling)) = AsRead(t, y, spelling)
                      /\ AsRead(t, y, spelling) # Absent
                      /\ y # Absent
                      /\ t # "string" => ToWire(t, y, spelling).is = "object"
    OBVIOUS
  <1>1. CASE t = "string"
    <2>1. y \in {Scalar("string", "default"), Scalar("string", "given")}
      BY <1>1 DEF IsValue, SchemaInOrder
    <2>2. y.is = "string"
      BY <2>1 DEF Scalar
    <2> QED
      BY <1>1, <2>2 DEF ToWire, FromWire, AsRead, Absent
  <1>2. CASE t \in DOMAIN Unions
    <2>1. t # "string" /\ IsUnion(t, y)
      BY <1>2 DEF IsValue, SchemaInOrder
    <2> DEFINE o == UnionToWire(t, y, spelling)
    <2>2. ToWire(t, y, spelling) = Object(o)
      BY <1>2, <2>1 DEF ToWire
    <2>3. Object(o).is = "object" /\ Object(o).v = o
      BY DEF Object
    <2>4. ReadUnion(t, o) = AsRead(t, y, spelling)
      BY <1>2, <2>1, UnionRead
    <2>5. y # Absent
      BY <2>1 DEF IsUnion, Absent
    <2>6. AsRead(t, y, spelling) # Absent
      <3>1. Failed # Absent
        BY DEF Failed, Absent
      <3> QED
        BY <1>2, <2>1, <3>1, TaggedIs DEF AsRead
    <2> HIDE DEF o
    <2> QED
      BY <1>2, <2>1, <2>2, <2>3, <2>4, <2>5, <2>6 DEF FromWire
  <1>3. CASE t \in DOMAIN Records
    <2>1. t # "string" /\ t \notin DOMAIN Unions /\ IsRecord(t, y) /\ RecordsInOrder
      BY <1>3 DEF IsValue, SchemaInOrder
    <2> DEFINE o == RecordToWire(t, y, spelling)
    <2>2. ToWire(t, y, spelling) = Object(o)
      BY <2>1 DEF ToWire
    <2>3. Object(o).is = "object" /\ Object(o).v = o
      BY DEF Object
    <2>4. AsRead(t, y, spelling) = RecordAsRead(t, y, spelling, "")
      BY <2>1 DEF AsRead
    <2>5. /\ ReadRecord(t, o) = AsRead(t, y, spelling)
          /\ AsRead(t, y, spelling) # Absent /\ y # Absent
      <3>1. Tells(o, t, y, spelling, "")
        BY <1>3, <2>1, TellsItself
      <3> HIDE DEF o
      <3> QED
        BY <1>3, <2>1, <2>4, <3>1, RecordRead
    <2> HIDE DEF o
    <2> QED
      BY <2>1, <2>2, <2>3, <2>5 DEF FromWire
  <1> QED
    BY <1>1, <1>2, <1>3 DEF IsValue

LEMMA LevelUnread == \A t : t # "string" => FromWire(t, Junk) = Unread(t)
  BY DEF FromWire, Junk, Scalar

(***************************************************************************)
(* A field that holds something of another type costs that field alone, or *)
(* all where it cannot be left out (serialize.ts, getKeyString and its     *)
(* like, isPlainObject).                                                   *)
(***************************************************************************)
THEOREM LevelSpares ==
  ASSUME SchemaInOrder, InnerReads, InnerUnread
  PROVE  \A t \in DOMAIN Records : \A y : \A f \in Records[t] :
           IsValue(t, y) =>
             FromWire(t, Damaged(ToWire(t, y, "camel"), f))
               = RecordAsRead(t, y, "camel", f.name)
  <1> SUFFICES ASSUME NEW t \in DOMAIN Records, NEW y, NEW f \in Records[t], IsValue(t, y)
               PROVE  FromWire(t, Damaged(ToWire(t, y, "camel"), f))
                        = RecordAsRead(t, y, "camel", f.name)
    OBVIOUS
  <1>1. t # "string" /\ t \notin DOMAIN Unions /\ IsRecord(t, y) /\ RecordsInOrder
    BY DEF IsValue, SchemaInOrder
  <1> DEFINE o == Holding(RecordToWire(t, y, "camel"), f.camel, Junk)
  <1>2. Damaged(ToWire(t, y, "camel"), f) = Object(o)
    BY <1>1 DEF ToWire, Damaged, Object
  <1>3. Object(o).is = "object" /\ Object(o).v = o
    BY DEF Object
  <1>4. Tells(o, t, y, "camel", f.name)
    BY <1>1, DamagedTells
  <1> HIDE DEF o
  <1>5. "camel" \in Spellings
    BY DEF Spellings, PeerSpellings
  <1>6. ReadRecord(t, o) = RecordAsRead(t, y, "camel", f.name)
    BY <1>1, <1>4, <1>5, RecordRead
  <1> QED
    BY <1>1, <1>2, <1>3, <1>6 DEF FromWire
=============================================================================
