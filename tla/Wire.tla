-------------------------------- MODULE Wire --------------------------------
(***************************************************************************)
(* What the code generated for a schema computes, as operators: the wire   *)
(* type and tag of a field, the bytes serialize() pushes, and the pieces   *)
(* of one iteration of deserialize().  codegen.cpp prints this code; the   *)
(* operators below are the meaning of what it prints.                      *)
(*                                                                         *)
(* A schema is [enums, models]: the names of its enums, and for each model *)
(* its sequence of fields [number, name, type, mods].  An object of a      *)
(* model maps each field number to the sequence of its values: one for a   *)
(* plain member, none or one for std::optional, any number for             *)
(* std::vector.  A value is an integer, a Boolean, a sequence of bytes     *)
(* (string), an object (model), or, for float and double, a number of      *)
(* halves: 3 is 1.5.                                                       *)
(***************************************************************************)
EXTENDS SchemaTypes, VarintFormat, SequencesExt

CONSTANTS Widths,         \* for each integer kind, 2 to the power of its width
          Indeterminate   \* what a member without initializer holds

IsEnum(sch, f) == f.type \in sch.enums
IsModel(sch, f) == f.type \notin PrimitiveTypes /\ ~IsEnum(sch, f)

-----------------------------------------------------------------------------
(* Conversions: static_cast<uint64_t> on the way out, static_cast<T> back *)

\* Negative floats are left out: their conversion to uint64_t is undefined.
ToWord(kind, v) ==
  CASE kind = "BOOL" -> IF v THEN 1 ELSE 0
    [] kind \in FloatKinds -> v \div 2
    [] OTHER -> v % Word

\* A mistake: a signed integer is read back as an unsigned one.
FromWordUnsigned(kind, w) ==
  CASE kind = "BOOL" -> w # 0
    [] kind \in FloatKinds -> 2 * w
    [] kind \in IntKinds -> w % Widths[kind]
    [] kind = "BYTE" -> w % Widths["UINT8"]

FromWord(kind, w) ==
  CASE kind = "BOOL" -> w # 0
    [] kind \in FloatKinds -> 2 * w
    [] kind \in UnsignedKinds -> w % Widths[kind]
    [] kind = "BYTE" -> w % Widths["UINT8"]
    [] kind \in SignedKinds ->
         LET m == w % Widths[kind] IN IF 2 * m >= Widths[kind] THEN m - Widths[kind] ELSE m

\* An enum is an enum class : int32_t.
KindOf(sch, f) == IF IsEnum(sch, f) THEN "INT32" ELSE f.type

\* The bytes of the IEEE representation of h halves, lowest first, for h small
\* enough that only the top bits of the fraction are used.
Exponent(h) == CHOOSE e \in 0 .. 4 : 2^e <= h /\ h < 2^(e + 1)

FloatBytes(h) ==
  IF h = 0 THEN <<0, 0, 0, 0>>
  ELSE LET e == Exponent(h)
       IN <<0, 0, ((126 + e) % 2) * 128 + (h - 2^e) * 2^(7 - e), (126 + e) \div 2>>

DoubleBytes(h) ==
  IF h = 0 THEN <<0, 0, 0, 0, 0, 0, 0, 0>>
  ELSE LET e == Exponent(h)
       IN <<0, 0, 0, 0, 0, 0, ((1022 + e) % 16) * 16 + (h - 2^e) * 2^(4 - e), (1022 + e) \div 16>>

-----------------------------------------------------------------------------
(* serialize(), for fields that are not called like one of its locals: under the
   names val, field_tag, buffer and packed_data some fields compile and the local
   is written instead of the member, which is outside the model *)

\* A mistake: the length counts a terminator that is not there.
DelimitedTerminated(bytes) == VarintBytes[Len(bytes) + 1] \o bytes

Delimited(bytes) == VarintBytes[Len(bytes)] \o bytes

\* Kinds the packed branch has no code for push nothing.
PackedItem(f, v) ==
  CASE f.type \in IntKinds -> VarintBytes[ToWord(f.type, v)]
    [] f.type = "FLOAT" -> FloatBytes(v)
    [] f.type = "DOUBLE" -> DoubleBytes(v)
    [] OTHER -> <<>>

RECURSIVE serialize(_, _, _)

\* A mistake: a number is pushed as it is, without the varint loop.
ItemUnencoded(sch, f, v) ==
  CASE f.type = "STRING" -> Delimited(v)
    [] f.type \in NumberKinds \/ IsEnum(sch, f) -> <<ToWord(KindOf(sch, f), v)>>
    [] IsModel(sch, f) -> Delimited(serialize(sch, f.type, v))

Item(sch, f, v) ==
  CASE f.type = "STRING" -> Delimited(v)
    [] f.type \in NumberKinds \/ IsEnum(sch, f) -> VarintBytes[ToWord(KindOf(sch, f), v)]
    [] IsModel(sch, f) -> Delimited(serialize(sch, f.type, v))

\* The records of one member, each a tag with what follows it: [number, values, bytes].
FieldRecords(sch, f, member) ==
  IF is_repeated(f) /\ is_packed(f) /\ f.type \in PrimitiveTypes
  THEN IF member = <<>> THEN <<>>
       ELSE << [number |-> f.number, values |-> member,
                bytes |-> VarintBytes[Tag(f.number, 2)]
                          \o Delimited(FlattenSeq([i \in DOMAIN member |-> PackedItem(f, member[i])]))] >>
  ELSE [i \in DOMAIN member |->
          [number |-> f.number, values |-> <<member[i]>>,
           bytes |-> VarintBytes[Tag(f.number, get_wire_type_value(f))] \o Item(sch, f, member[i])]]

Records(sch, m, obj) ==
  FlattenSeq([i \in DOMAIN sch.models[m] |->
    LET f == sch.models[m][i] IN FieldRecords(sch, f, obj[f.number])])

Bytes(records) == FlattenSeq([i \in DOMAIN records |-> records[i].bytes])

serialize(sch, m, obj) == Bytes(Records(sch, m, obj))

-----------------------------------------------------------------------------
(* The pieces of deserialize(): pos counts the bytes already taken *)

\* A mistake: the loop over a varint stops at its last byte without taking it.
SkipLeavesLastByte(data, pos, wiretype) ==
  CASE wiretype = 0 -> ReadVarint(data, pos).pos - 1
    [] wiretype = 2 -> LET r == ReadVarint(data, pos) IN r.pos + r.value
    [] wiretype = 1 -> pos + 8
    [] wiretype = 5 -> pos + 4
    [] OTHER -> pos

\* The default branch of the switch: the position after an unknown field.
Skip(data, pos, wiretype) ==
  CASE wiretype = 0 -> ReadVarint(data, pos).pos
    [] wiretype = 2 -> LET r == ReadVarint(data, pos) IN r.pos + r.value
    [] wiretype = 1 -> pos + 8
    [] wiretype = 5 -> pos + 4
    [] OTHER -> pos

\* A field whose name is also that of a local variable of deserialize() is assigned
\* to the local.  With other types and modifiers these names do not compile (an enum
\* class is no integer, an integer has no push_back).
Captured(sch, f) ==
  /\ ~is_repeated(f)
  /\ \/ /\ f.type \in NumberKinds
        /\ f.name \in {"value", "shift", "tag", "field_number", "wire_type", "pos"}
     \/ IsModel(sch, f) /\ is_optional(f) /\ f.name = "value"

\* One of these locals is still in use: the position of the loop.
IsPosition(f) == f.name = "pos" /\ f.type \in NumberKinds /\ ~is_repeated(f)

\* A mistake: a vector is assigned instead of grown.
StoreAssigns(sch, f, obj, v) ==
  IF Captured(sch, f) THEN obj ELSE [obj EXCEPT ![f.number] = <<v>>]

\* push_back for a vector, assignment for everything else.
Store(sch, f, obj, v) ==
  IF Captured(sch, f) THEN obj
  ELSE [obj EXCEPT ![f.number] = IF is_repeated(f) THEN Append(@, v) ELSE <<v>>]

\* A default-constructed object, Model() = default.
RECURSIVE Fresh(_, _)
Fresh(sch, m) ==
  LET fields == ToSet(sch.models[m])
      InitialValue(f) ==
        CASE f.type = "BOOL" -> FALSE
          [] f.type = "STRING" -> <<>>
          [] f.type \in NumberKinds \ {"BOOL"} -> 0
          [] IsEnum(sch, f) -> Indeterminate
          [] IsModel(sch, f) -> Fresh(sch, f.type)
  IN [n \in {f.number : f \in fields} |->
        LET f == CHOOSE g \in fields : g.number = n
        IN IF is_single(f) THEN <<InitialValue(f)>> ELSE <<>>]
=============================================================================
