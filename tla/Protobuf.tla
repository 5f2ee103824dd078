------------------------------ MODULE Protobuf ------------------------------
(* The google-protobuf (jspb) runtime the generated *_pb.js files call, as far
   as they use it.  A message in memory is a function from slots to sequences:
   no element for null, one for a scalar or a nested message, any number for a
   repeated field or a map.  A scalar is a string; "" stands for the zero of
   its type (0, false, "", no bytes), which proto3 does not write. *)
EXTENDS Sequences, SequencesExt, TLC

-----------------------------------------------------------------------------
(* Accessors: the slot a field is kept in, and how. *)

Accessor(how, n, d, T) == [how |-> how, slot |-> n, zero |-> d, type |-> T]

Scalar(n) == Accessor("proto3", n, "", "")       \* setProto3...Field
Optional(n, d) == Accessor("proto2", n, d, "")   \* setField, default d
Nested(n, T) == Accessor("nested", n, "", T)     \* setWrapperField
Repeated(n) == Accessor("repeated", n, "", "")
RepeatedOf(n, T) == Accessor("repeated", n, "", T)
MapAt(n, T) == Accessor("map", n, "", T)         \* getMapField

Null == <<>>

\* A message just constructed: every slot is null.
New == [n \in {} |-> Null]

Slot(m, n) == IF n \in DOMAIN m THEN m[n] ELSE Null

Put(m, n, s) == (n :> s) @@ m

\* setF(v).  A proto3 scalar set to its zero is null again.
SetField(acc, m, v) ==
    Put(m, acc.slot, IF acc.how = "proto3" /\ v = "" THEN Null ELSE <<v>>)

\* addF(v)
AddField(acc, m, v) == Put(m, acc.slot, Append(Slot(m, acc.slot), v))

\* setFList(vs)
SetAll(acc, m, vs) == Put(m, acc.slot, vs)

\* getFMap().set(key, v): one entry per key.
SetKey(acc, m, e) ==
    Put(m, acc.slot,
        Append(SelectSeq(Slot(m, acc.slot), LAMBDA o : o.key # e.key), e))

\* clearF(): a proto3 scalar is set to its zero, all others lose their value.
ClearField(acc, m) == Put(m, acc.slot, Null)

\* getF() of a scalar
ScalarOf(acc, m) ==
    IF Slot(m, acc.slot) = Null THEN acc.zero ELSE Head(Slot(m, acc.slot))

-----------------------------------------------------------------------------
(* What toObject shows of a field. *)

Shown(how, at, d, T) == [how |-> how, at |-> at, zero |-> d, type |-> T]

Default(n, d) == Shown("default", n, d, "")  \* getFieldWithDefault(msg, n, d)
Maybe(n) == Shown("maybe", n, "", "")        \* getField, undefined when null
Plain(n) == Shown("maybe", n, "", "")        \* getRepeatedField
Getter(f) == Shown("getter", f, "", "")      \* msg.getF_asB64()
Object(f, T) == Shown("objects", f, "", T)   \* T.toObject(msg.getF())
Objects(f, T) == Shown("objects", f, "", T)  \* toObjectList(msg.getFList())
Pairs(f, T) == Shown("pairs", f, "", T)      \* msg.getFMap().toObject()

-----------------------------------------------------------------------------
(* What a reader does with a wire number, and the calls of a writer. *)

Rule(do, f, T) == [do |-> do, field |-> f, type |-> T]

Set(f) == Rule("set", f, "")
Add(f) == Rule("add", f, "")
SetList(f) == Rule("list", f, "")            \* readPacked..., setFList
SetNested(f, T) == Rule("set", f, T)         \* readMessage, setF
AddNested(f, T) == Rule("add", f, T)         \* readMessage, addF
MapIn(f, T) == Rule("key", f, T)             \* jspb.Map.deserializeBinary

Line(how, from, num, T) ==
    [how |-> how, from |-> from, num |-> num, type |-> T]

NonZero(f, num) == Line("nonzero", f, num, "")      \* if (f.length > 0) ...
Present(n, num) == Line("present", n, num, "")      \* if (f != null) ...
Each(f, num) == Line("each", f, num, "")            \* writeRepeated...
Packed(f, num) == Line("packed", f, num, "")        \* writePacked...
OneNested(f, num, T) == Line("each", f, num, T)     \* writeMessage
EachNested(f, num, T) == Line("each", f, num, T)    \* writeRepeatedMessage
MapOut(f, num, T) == Line("map", f, num, T)         \* Map.serializeBinary

=============================================================================
