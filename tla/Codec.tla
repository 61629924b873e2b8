------------------------------- MODULE Codec --------------------------------
(***************************************************************************)
(* A program that serializes objects of one schema version and another (or *)
(* the same) that deserializes them with its own version.  The sender may  *)
(* concatenate several serialized objects into one buffer; the receiver    *)
(* gets the buffer, possibly truncated, and calls deserialize() on a new   *)
(* object or on one it has used before.                                    *)
(*                                                                         *)
(* deserialize() is a loop; each iteration, from the tag to the break, is  *)
(* one step.  Nested models make it recursive, so the reader has a stack   *)
(* of calls: [model, obj, data, pos, field], where field is the field of   *)
(* the caller that the call decodes.                                       *)
(***************************************************************************)
EXTENDS Merge

CONSTANT Scenarios   \* records [writer, reader, root, inputs, messages, cut]: the two
                     \* schemas, the model transferred, the objects the sender may
                     \* send, a bound: the objects sent while one target is in use,
                     \* and whether the receiver may get less than was sent

VARIABLES
  scen,      \* the scenario, fixed from the start
  phase,     \* "idle", "reading", or "undefined": memory past the data was used
  sent,      \* the objects serialized into the buffer under way
  buffer,    \* their bytes
  stream,    \* history: the records those bytes are made of
  target,    \* the object deserialize() is called on
  stack,     \* the calls of deserialize() in progress
  result,    \* what the last call returned, "none" before the first
  absorbed   \* history: the objects whose bytes target has been given since it was new

vars == <<scen, phase, sent, buffer, stream, target, stack, result, absorbed>>

Schema == scen.reader

Init ==
  /\ scen \in Scenarios
  /\ phase = "idle"
  /\ sent = <<>>
  /\ buffer = <<>>
  /\ stream = <<>>
  /\ target = Fresh(scen.reader, scen.root)
  /\ stack = <<>>
  /\ result = "none"
  /\ absorbed = <<>>

-----------------------------------------------------------------------------
(* The programs around the generated code *)

Serialize(obj) ==
  /\ phase = "idle"
  /\ Len(sent) + Len(absorbed) < scen.messages
  /\ sent' = Append(sent, obj)
  /\ buffer' = buffer \o serialize(scen.writer, scen.root, obj)
  /\ stream' = stream \o Records(scen.writer, scen.root, obj)
  /\ UNCHANGED <<scen, phase, target, stack, result, absorbed>>

Deserialize(n) ==
  /\ phase = "idle"
  /\ sent # <<>>
  /\ n = Len(buffer) \/ scen.cut
  /\ phase' = "reading"
  /\ stack' = << [model |-> scen.root, obj |-> target, data |-> SubSeq(buffer, 1, n),
                  pos |-> 0, field |-> 0] >>
  /\ result' = "none"
  /\ UNCHANGED <<scen, sent, buffer, stream, target, absorbed>>

NewObject ==
  /\ phase = "idle"
  /\ sent = <<>>
  /\ absorbed # <<>>
  /\ target' = Fresh(scen.reader, scen.root)
  /\ absorbed' = <<>>
  /\ result' = "none"
  /\ UNCHANGED <<scen, phase, sent, buffer, stream, stack>>

-----------------------------------------------------------------------------
(* deserialize() *)

Top == Last(stack)

\* The loop condition, pos < data.size(), is false.
AtEnd(frame) == frame.pos >= Len(frame.data)

\* The check at the head of the loop, pos + 1 > data.size(), returns false, and so do
\* the callers of a call that did.  The loop condition leaves it no case.
Failing == result = "false" \/ (~AtEnd(Top) /\ Top.pos + 1 > Len(Top.data))

Ending == phase = "reading" /\ (AtEnd(Top) \/ Failing)
Iterating == phase = "reading" /\ ~Ending

TagRead == ReadVarint(Top.data, Top.pos)
FieldNumber == FromWord("UINT32", TagRead.value \div 8)
WireTypeRead == TagRead.value % 8

\* The length or the value that follows the tag.
Varint == ReadVarint(Top.data, TagRead.pos)

\* The fields the switch has a case for with this number: one, or none.
Cases == {f \in ToSet(Schema.models[Top.model]) : f.number = FieldNumber}

SetTop(obj, pos) ==
  stack' = [stack EXCEPT ![Len(stack)].obj = obj, ![Len(stack)].pos = pos]

readUnchanged == <<scen, sent, buffer, stream, target, result, absorbed>>

\* A number called pos is assigned to the position of the loop, as a size_t.
ReadNumber(f) ==
  /\ f.type \in NumberKinds \/ IsEnum(Schema, f)
  /\ LET v == FromWord(KindOf(Schema, f), Varint.value)
     IN SetTop(Store(Schema, f, Top.obj, v),
               IF IsPosition(f) THEN ToWord(f.type, v) ELSE Varint.pos)
  /\ UNCHANGED <<phase, readUnchanged>>

InRange == Varint.pos + Varint.value <= Len(Top.data)

Chunk == SubSeq(Top.data, Varint.pos + 1, Varint.pos + Varint.value)

ReadString(f) ==
  /\ f.type = "STRING"
  /\ InRange
  /\ SetTop(Store(Schema, f, Top.obj, Chunk), Varint.pos + Varint.value)
  /\ UNCHANGED <<phase, readUnchanged>>

\* A mistake: the nested call always gets a new object.
EnterModelAfresh(f) ==
  /\ IsModel(Schema, f)
  /\ InRange
  /\ stack' = Append([stack EXCEPT ![Len(stack)].pos = Varint.pos],
                     [model |-> f.type, obj |-> Fresh(Schema, f.type),
                      data |-> Chunk, pos |-> 0, field |-> f.number])
  /\ UNCHANGED <<phase, readUnchanged>>

\* item_data is copied out and decoded by a nested call: into a new object for
\* repeated and optional fields, into the member itself for a plain one.
EnterModel(f) ==
  /\ IsModel(Schema, f)
  /\ InRange
  /\ stack' = Append([stack EXCEPT ![Len(stack)].pos = Varint.pos],
                     [model |-> f.type,
                      obj |-> IF is_single(f) THEN Top.obj[f.number][1] ELSE Fresh(Schema, f.type),
                      data |-> Chunk, pos |-> 0, field |-> f.number])
  /\ UNCHANGED <<phase, readUnchanged>>

\* Neither the string constructor nor the copy of item_data is guarded: with a
\* length beyond the end of the data they use memory that is not part of it.
Overrun(f) ==
  /\ f.type = "STRING" \/ IsModel(Schema, f)
  /\ ~InRange
  /\ phase' = "undefined"
  /\ UNCHANGED <<stack, readUnchanged>>

SkipUnknown ==
  /\ Cases = {}
  /\ SetTop(Top.obj, Skip(Top.data, TagRead.pos, WireTypeRead))
  /\ UNCHANGED <<phase, readUnchanged>>

\* A nested call ends and its caller goes on behind item_data, or fails as well, and
\* then has only what was decoded into a plain member.
ReturnNested ==
  /\ Ending
  /\ Len(stack) > 1
  /\ LET caller == stack[Len(stack) - 1]
         f == CHOOSE g \in ToSet(Schema.models[caller.model]) : g.number = Top.field
     IN stack' = Append(SubSeq(stack, 1, Len(stack) - 2),
                        [caller EXCEPT !.obj = IF Failing /\ ~is_single(f) THEN @
                                               ELSE Store(Schema, f, @, Top.obj),
                                       !.pos = @ + Len(Top.data)])
  /\ result' = IF Failing THEN "false" ELSE result
  /\ UNCHANGED <<scen, phase, sent, buffer, stream, target, absorbed>>

Return ==
  /\ Ending
  /\ Len(stack) = 1
  /\ phase' = "idle"
  /\ target' = Top.obj
  /\ result' = IF Failing THEN "false" ELSE "true"
  /\ absorbed' = absorbed \o sent
  /\ sent' = <<>>
  /\ buffer' = <<>>
  /\ stream' = <<>>
  /\ stack' = <<>>
  /\ UNCHANGED scen

Read ==
  \/ Iterating /\ \E f \in Cases : ReadNumber(f) \/ ReadString(f) \/ EnterModel(f) \/ Overrun(f)
  \/ Iterating /\ SkipUnknown
  \/ ReturnNested
  \/ Return

Next ==
  \/ \E obj \in scen.inputs : Serialize(obj)
  \/ \E n \in 0 .. Len(buffer) : Deserialize(n)
  \/ NewObject
  \/ Read

Spec == Init /\ [][Next]_vars

\* A call of deserialize() that has begun runs on; nobody has to make a call.
FairSpec == Spec /\ WF_vars(Read)

-----------------------------------------------------------------------------
(* The abstract view *)

\* Ends[k] is where the first k records of the buffer end.
Ends ==
  LET sizes == [k \in DOMAIN stream |-> Len(stream[k].bytes)]
  IN [k \in 0 .. Len(stream) |-> FoldLeft(+, 0, SubSeq(sizes, 1, k))]

Position == IF stack = <<>> THEN 0 ELSE stack[1].pos

\* How many records the outermost call has behind it.  The record of a nested call
\* is not one of them, even if there is nothing left of it to read.
Passed ==
  LET ends == Ends
  IN Max({k \in DOMAIN ends : ends[k] < Position \/ (ends[k] = Position /\ Len(stack) <= 1)})

Parts == [k \in DOMAIN stream |-> Carried(stream[k])]

\* Where the receiver may get less, nothing is promised: nothing is ever sent.
T == INSTANCE MessageTransfer WITH
       sch <- scen.reader,
       root <- scen.root,
       pending <- IF scen.cut THEN <<>> ELSE SubSeq(Parts, Passed + 1, Len(stream)),
       object <- IF scen.cut THEN Fresh(scen.reader, scen.root)
                 ELSE IF stack = <<>> THEN target ELSE stack[1].obj

-----------------------------------------------------------------------------
TypeOK ==
  /\ scen \in Scenarios
  /\ phase \in {"idle", "reading", "undefined"}
  /\ sent \in Seq(scen.inputs) /\ absorbed \in Seq(scen.inputs)
  /\ buffer \in Seq(0 .. 255)
  /\ result \in {"none", "true", "false"}
  /\ stack = <<>> <=> phase = "idle"
  /\ \A i \in DOMAIN stack :
       /\ stack[i].data \in Seq(0 .. 255)
       /\ stack[i].pos \in Nat
       /\ DOMAIN stack[i].obj = {f.number : f \in ToSet(Schema.models[stack[i].model])}

\* deserialize() of the whole of what serialize() wrote, with the same schema and
\* a new object, gives the object back, members of every type included.
RoundTrip ==
  (phase = "idle" /\ Len(absorbed) = 1 /\ scen.writer = scen.reader /\ ~scen.cut) =>
    target = absorbed[1]

\* Schema evolution: whatever fields one side has and the other lacks, a field
\* that both know arrives unchanged and a field the sender lacks keeps its
\* initial value, which is never an indeterminate one.
KnownFieldsSurvive ==
  (phase = "idle" /\ Len(absorbed) = 1 /\ ~scen.cut) =>
    \A f \in ToSet(Schema.models[scen.root]) :
      LET n == f.number IN
      ~IsModel(Schema, f) =>
        /\ target[n] = IF n \in DOMAIN absorbed[1] /\ absorbed[1][n] # <<>>
                       THEN absorbed[1][n] ELSE Fresh(Schema, scen.root)[n]
        /\ target[n] # <<Indeterminate>>

\* An object given several messages, in one buffer or one after the other, is
\* the merge of them in order: vectors accumulate, optionals and plain members
\* keep the last value sent, plain models merge member by member.
MergeSemantics ==
  (phase = "idle" /\ ~scen.cut) =>
    target = AbsorbAll(Schema, scen.root, Fresh(Schema, scen.root), absorbed)

\* At the head of its loop the outermost call is between two records and holds
\* exactly the effect of the records before it; the only other state it can be
\* in is at the end of data that was cut inside a record.
InStep ==
  phase = "reading" /\ Len(stack) = 1 =>
    LET boundaries == Range(Ends)
        size == Len(stack[1].data)
    IN \/ /\ Position \in boundaries
          /\ stack[1].obj = AbsorbAll(Schema, scen.root, target, SubSeq(Parts, 1, Passed))
       \/ Position >= size /\ size \notin boundaries

\* The reader of a whole buffer never asks for bytes beyond the end of the data
\* of the call it is in, however deep the nesting.
NeverOverruns == phase = "undefined" => scen.cut

\* The generated reader implements the transfer of records.
Transfers == T!Spec

\* A call of deserialize() returns (or is lost to an overrun): whatever the tags it
\* meets, unknown and cut off ones included, each iteration brings it closer to the
\* end of its data.  The exception is a class with a number called pos, whose value
\* may lead the loop back.
CallsEnd ==
  (phase = "reading" /\ \A m \in DOMAIN Schema.models : \A f \in ToSet(Schema.models[m]) : ~IsPosition(f))
    ~> (phase # "reading")

-----------------------------------------------------------------------------
(* Statements of the documentation that the generated code does not meet *)

\* api_reference.md: "Truncated data: Deserialization fails, returns false".
\* A call whose data ends inside a record does not return true.
TruncatedDataFails ==
  [][Return /\ Len(stack[1].data) \notin Range(Ends) => result' = "false"]_vars

\* api_reference.md, reuse of objects: "user will be overwritten in next
\* iteration".  After a call the object is the one that was sent, whatever it
\* held before.
ReuseOverwrites ==
  [][(Return /\ Len(sent) = 1 /\ scen.writer = scen.reader) => target' = sent[1]]_vars
=============================================================================
