------------------------------- MODULE MCCodec -------------------------------
(***************************************************************************)
(* Schemas and objects for TLC.  The varint base is the real one; words    *)
(* are scaled to 28 bits so that a word takes up to four bytes.            *)
(***************************************************************************)
EXTENDS Codec

MCBase == 128
MCWord == 2^28
MCWidths == [INT8 |-> 2^8, INT16 |-> 2^16, INT32 |-> 2^24, INT64 |-> 2^28,
             UINT8 |-> 2^8, UINT16 |-> 2^16, UINT32 |-> 2^24, UINT64 |-> 2^28]

Field(number, name, type, mods) ==
  [number |-> number, name |-> name, type |-> type, mods |-> mods]

\* A string of 128 bytes needs a length of two bytes.
LongString == [i \in 1 .. 128 |-> 8]

\* Values on both sides of what the encoding of each kind tells apart.  The
\* bytes of the strings look like tags and like unfinished varints.
Values(kind) ==
  CASE kind \in SignedKinds ->
         {0, 127, -1, MCWidths[kind] \div 2 - 1, -(MCWidths[kind] \div 2)}
    [] kind \in UnsignedKinds -> {0, 127, 128, MCWidths[kind] - 1}
    [] kind = "BYTE" -> {0, 255}
    [] kind \in FloatKinds -> {0, 256}
    [] kind = "BOOL" -> BOOLEAN
    [] kind = "STRING" -> {<<>>, <<16>>, <<136, 200>>, LongString}
    [] kind = "Color" -> {0, 1, 300}

\* Up to two of the values in a vector.
Members(f, values) ==
  CASE is_single(f) -> {<<v>> : v \in values}
    [] is_optional(f) -> {<<>>} \cup {<<v>> : v \in values}
    [] is_repeated(f) -> {<<>>} \cup {<<v>> : v \in values} \cup (values \X values)

Enums == {"Color"}
Sentinel == Field(2, "b", "STRING", {})
SentinelValues == {<<>>, <<8, 1>>}

FieldsOfKind(kind) ==
  {Field(1, "a", kind, mods) : mods \in {{}, {"optional"}, {"repeated"}}}
  \cup IF kind = "STRING" THEN {Field(1, "a", kind, {"interned"}), Field(1, "a", kind, {"repeated", "interned"})}
       ELSE IF kind = "BOOL" THEN {Field(1, "a", kind, {"repeated", "bitmap"})}
       ELSE {}

AllKinds == PrimitiveTypes \cup Enums

SchemaOf(fields) == [enums |-> Enums, models |-> [M |-> fields]]

ObjectsOf(f, values) ==
  {1 :> member @@ 2 :> <<s>> : member \in Members(f, values), s \in SentinelValues}

-----------------------------------------------------------------------------
\* One field of every type and modifier, followed by a string.
RoundTripScenarios ==
  UNION {{ [writer |-> SchemaOf(<<f, Sentinel>>), reader |-> SchemaOf(<<f, Sentinel>>),
            root |-> "M", inputs |-> ObjectsOf(f, Values(kind)), messages |-> 1, cut |-> FALSE] : f \in FieldsOfKind(kind) }
         : kind \in AllKinds}

-----------------------------------------------------------------------------
\* Schema evolution.  Fields whose bytes the default branch can step over:
SkippableFields ==
  UNION {{f \in FieldsOfKind(kind) : get_wire_type_value(f) \in {0, 2}}
         : kind \in IntKinds \cup {"BOOL", "STRING"}}
  \cup {Field(1, "a", kind, {"repeated", "packed"}) : kind \in PrimitiveTypes}

FewValues(kind) ==
  CASE kind \in SignedKinds -> {127, -1}
    [] kind \in UnsignedKinds -> {0, 128}
    [] kind \in FloatKinds -> {0, 3}
    [] kind = "BYTE" -> {255}
    [] kind = "BOOL" -> BOOLEAN
    [] kind = "STRING" -> {<<>>, <<136, 200>>}

\* Fields the receiver has gained.
Gained == {Field(3, "c", "INT32", {}), Field(3, "c", "STRING", {"optional"}),
           Field(3, "c", "BOOL", {"repeated"})}

\* The receiver has lost the first field, or lost the second, or swapped them,
\* and gained a third.
EvolvedScenarios ==
  UNION {{ [writer |-> SchemaOf(<<f, Sentinel>>), reader |-> SchemaOf(fields), root |-> "M",
            inputs |-> ObjectsOf(f, FewValues(f.type)), messages |-> 1, cut |-> FALSE]
           : fields \in {<<Sentinel>>}
                        \cup {<<g>> : g \in Gained} \cup {<<Sentinel, g>> : g \in Gained}
                        \cup IF is_packed(f) THEN {} ELSE {<<f>>, <<Sentinel, f>>} }
         : f \in SkippableFields}

\* A field number whose tag takes two or three bytes, unknown to the receiver or not,
\* and an integer that the receiver has widened.
NumberedScenarios ==
  LET Numbered(n) == Field(n, "a", "INT32", {})
  IN { [writer |-> SchemaOf(<<Numbered(n), Sentinel>>), reader |-> SchemaOf(fields), root |-> "M",
        inputs |-> {n :> <<v>> @@ 2 :> <<w>> : v \in FewValues("INT32"), w \in SentinelValues},
        messages |-> 1, cut |-> FALSE]
       : n \in {15, 16, 2048}, fields \in {<<Sentinel>>} }
     \cup { [writer |-> SchemaOf(<<Numbered(n), Sentinel>>),
             reader |-> SchemaOf(<<Field(n, "a", "INT64", {}), Sentinel>>), root |-> "M",
             inputs |-> {n :> <<v>> @@ 2 :> <<w>> : v \in FewValues("INT32"), w \in SentinelValues},
        messages |-> 1, cut |-> FALSE]
           : n \in {15, 16, 2048} }

EvolutionScenarios == EvolvedScenarios \cup NumberedScenarios

-----------------------------------------------------------------------------
\* Nested models: plain, optional and repeated, of a model that itself has a
\* plain model.  The receiver has the same schema, or an older one of Inner.
Leaf == <<Field(1, "x", "BOOL", {}), Field(2, "v", "INT32", {"repeated"})>>
Inner == <<Field(1, "leaf", "Leaf", {}), Field(2, "s", "STRING", {"optional"})>>
Outer == <<Field(1, "p", "Inner", {}), Field(2, "q", "Inner", {"optional"}),
           Field(3, "r", "Leaf", {"repeated"}), Field(4, "e", "Color", {"optional"})>>

NestedSchema(inner) ==
  [enums |-> Enums, models |-> [Leaf |-> Leaf, Inner |-> inner, Outer |-> Outer]]

LeafObjects == {1 :> <<TRUE>> @@ 2 :> <<>>, 1 :> <<FALSE>> @@ 2 :> <<-1, 127>>}
InnerObjects == {1 :> <<leaf>> @@ 2 :> member : leaf \in LeafObjects, member \in {<<>>, <<<<16, 1>>>>}}
OuterObjects ==
  {1 :> <<p>> @@ 2 :> q @@ 3 :> r @@ 4 :> e :
     p \in InnerObjects, q \in {<<>>} \cup {<<i>> : i \in InnerObjects},
     r \in {<<>>} \cup {<<l>> : l \in LeafObjects}, e \in {<<>>, <<1>>}}
FewOuterObjects ==
  {obj \in OuterObjects : obj[1][1][2] = <<>> /\ (obj[2] # <<>> => obj[2][1][2] # <<>>)
                          /\ (obj[4] = <<>> <=> obj[3] = <<>>)}

NestedScenarios ==
  { [writer |-> NestedSchema(Inner), reader |-> NestedSchema(inner), root |-> "Outer",
     inputs |-> OuterObjects, messages |-> 1, cut |-> FALSE] : inner \in {Inner, <<Inner[1]>>, <<Inner[2]>>} }

\* One or two messages for one object: a few objects, and every pair of them.
ShortScenarios(messages, cut) ==
  { [writer |-> NestedSchema(Inner), reader |-> NestedSchema(Inner), root |-> "Outer",
     inputs |-> FewOuterObjects, messages |-> messages, cut |-> cut] }
  \cup UNION {{ [writer |-> SchemaOf(<<f, Sentinel>>), reader |-> SchemaOf(<<f, Sentinel>>),
                 root |-> "M", inputs |-> ObjectsOf(f, FewValues(kind)), messages |-> messages, cut |-> cut]
                : f \in FieldsOfKind(kind) } : kind \in {"INT16", "BOOL", "STRING"}}

\* A nested model without anything in it: no bytes, and for a repeated one an item.
HollowSchema ==
  [enums |-> Enums,
   models |-> [Hollow |-> <<Field(1, "s", "STRING", {"optional"})>>,
               M |-> <<Field(1, "p", "Hollow", {}), Field(2, "r", "Hollow", {"repeated"}),
                       Field(3, "q", "Hollow", {"optional"})>>]]
Hollows == {1 :> <<>>, 1 :> <<<<16>>>>}
HollowScenarios ==
  { [writer |-> HollowSchema, reader |-> HollowSchema, root |-> "M",
     inputs |-> {1 :> <<p>> @@ 2 :> r @@ 3 :> q :
                   p \in Hollows, r \in {<<>>} \cup (Hollows \X Hollows), q \in {<<>>, <<1 :> <<>>>>}},
     messages |-> 1, cut |-> FALSE] }

CodecScenarios ==
  RoundTripScenarios \cup EvolutionScenarios \cup NestedScenarios \cup HollowScenarios
  \cup ShortScenarios(2, FALSE) \cup ShortScenarios(1, TRUE)

-----------------------------------------------------------------------------
\* Scenarios in which the generated code and the documentation part ways.

Sending(obj, writer, reader) ==
  { [writer |-> SchemaOf(writer), reader |-> SchemaOf(reader), root |-> "M",
     inputs |-> {obj}, messages |-> 1, cut |-> FALSE] }

\* The fields that do not come back, in one object: a float of 1.5, a number called
\* value, one called pos (which happens to hold the next position), a packed array of
\* strings and one of numbers.
RoundTripFields ==
  <<Field(1, "a", "FLOAT", {}), Field(2, "value", "INT32", {}), Field(3, "pos", "INT32", {}),
    Field(4, "d", "STRING", {"repeated", "packed"}), Field(5, "c", "INT32", {"repeated", "packed"})>>
RoundTripScenario ==
  Sending(1 :> <<3>> @@ 2 :> <<5>> @@ 3 :> <<6>> @@ 4 :> <<<<8>>, <<16>>>> @@ 5 :> <<1, 2>>,
          RoundTripFields, RoundTripFields)

\* The reader has lost an enum and gained one.
EvolutionScenario ==
  Sending(1 :> <<1>> @@ 2 :> <<<<8, 1>>>>, <<Field(1, "a", "Color", {}), Sentinel>>,
          <<Sentinel, Field(3, "c", "Color", {})>>)

Numbers == Field(1, "a", "INT32", {"repeated"})
NumbersScenario(messages, cut) ==
  { [writer |-> SchemaOf(<<Numbers, Sentinel>>), reader |-> SchemaOf(<<Numbers, Sentinel>>),
     root |-> "M", inputs |-> ObjectsOf(Numbers, {1, 2}), messages |-> messages, cut |-> cut] }

ReuseScenario == NumbersScenario(2, FALSE)
CutScenario == NumbersScenario(1, TRUE)
=============================================================================
