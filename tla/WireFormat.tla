----------------------------- MODULE WireFormat -----------------------------
(* Every message of the generated *_pb.js files on its way between two
   programs: the sender fills it with the accessors and serializes it, another
   encoder (the relay and the registry are not written in JavaScript) may put
   the fields in another order or add ones this schema does not know, and the
   receiver deserializes it. *)
EXTENDS RelayPb, PaymentPb, RegistryPb, EntriesPb, Naturals

CONSTANT MaxCalls    \* setters called on one message

ASSUME MaxCallsAssumption == MaxCalls \in Nat

Fields == RelayFields @@ Bip70Fields @@ RegistryFields @@ EntriesFields
ObjectOf == RelayObjects @@ Bip70Objects @@ RegistryObjects @@ EntriesObjects
Readers == RelayReaders @@ Bip70Readers @@ RegistryReaders @@ EntriesReaders
Writers == RelayWriters @@ Bip70Writers @@ RegistryWriters @@ EntriesWriters

Types == DOMAIN Fields

RECURSIVE Encode(_, _), Decode(_, _), ToObject(_, _), Full(_)

-----------------------------------------------------------------------------
\* serializeBinary: the fields that are written, in the writer's order.  A
\* nested message is the sequence its own writer produces.
Encode(T, m) ==
    LET Payload(S, v) == IF S = "" THEN v ELSE Encode(S, v)
        Field(num, v) == [num |-> num, val |-> v]
        Lines(l) ==
          LET acc == Fields[T][l.from]
              vals == IF l.how = "present" THEN Slot(m, l.from)
                                           ELSE Slot(m, acc.slot)
          IN  CASE l.how = "nonzero" ->
                     LET v == ScalarOf(acc, m)
                     IN  IF v = "" THEN <<>> ELSE <<Field(l.num, v)>>
                [] l.how = "present" ->
                     IF vals = Null THEN <<>> ELSE <<Field(l.num, Head(vals))>>
                [] l.how = "packed" ->
                     IF vals = Null THEN <<>> ELSE <<Field(l.num, vals)>>
                [] l.how = "each" ->
                     [i \in DOMAIN vals |-> Field(l.num, Payload(l.type, vals[i]))]
                [] l.how = "map" ->
                     [i \in DOMAIN vals |->
                         Field(l.num, [key |-> vals[i].key,
                                       val |-> Payload(l.type, vals[i].val)])]
    IN  FlattenSeq([i \in DOMAIN Writers[T] |-> Lines(Writers[T][i])])

\* deserializeBinaryFromReader: one field after the other into a new message;
\* a number without a case is skipped.
Decode(T, wire) ==
    LET Value(S, v) == IF S = "" THEN v ELSE Decode(S, v)
        Read(m, w) ==
          LET rule == Readers[T][w.num]
              acc == Fields[T][rule.field]
          IN  CASE w.num \notin DOMAIN Readers[T] -> m
                [] OTHER ->
                   CASE rule.do = "set" -> SetField(acc, m, Value(rule.type, w.val))
                     [] rule.do = "add" -> AddField(acc, m, Value(rule.type, w.val))
                     [] rule.do = "list" -> SetAll(acc, m, w.val)
                     [] rule.do = "key" ->
                          SetKey(acc, m, [key |-> w.val.key,
                                          val |-> Value(rule.type, w.val.val)])
    IN  FoldLeft(Read, New, wire)

\* toObject: what a program sees of a message, nested ones included.
ToObject(T, m) ==
    LET Plainly(S, v) == IF S = "" THEN v ELSE ToObject(S, v)
        Get(s) ==
          LET acc == Fields[T][s.at]
              vals == IF s.how \in {"default", "maybe"} THEN Slot(m, s.at)
                                                        ELSE Slot(m, acc.slot)
          IN  CASE s.how = "maybe" -> vals
                [] s.how = "default" -> IF vals = Null THEN <<s.zero>> ELSE vals
                [] s.how = "getter" ->
                     IF acc.how = "repeated" THEN vals ELSE <<ScalarOf(acc, m)>>
                [] s.how = "objects" ->
                     [i \in DOMAIN vals |-> Plainly(s.type, vals[i])]
                [] s.how = "pairs" ->
                     {<<vals[i].key, Plainly(s.type, vals[i].val)>> :
                         i \in DOMAIN vals}
    IN  [k \in DOMAIN ObjectOf[T] |-> Get(ObjectOf[T][k])]

-----------------------------------------------------------------------------
(* The messages that are sent. *)

\* A message whose fields all have a value.
Full(T) ==
    LET Val(acc) == IF acc.type = "" THEN "b" ELSE Full(acc.type)
        Fill(f, m) ==
          LET acc == Fields[T][f]
          IN  CASE acc.how = "map" ->
                     SetKey(acc, m, [key |-> "k", val |-> Val(acc)])
                [] acc.how = "repeated" -> AddField(acc, m, Val(acc))
                [] OTHER -> SetField(acc, m, Val(acc))
    IN  FoldSet(Fill, New, DOMAIN Fields[T])

\* The values a setter of one field is called with.
Values(acc) ==
    IF acc.type # "" THEN {New, Full(acc.type)} ELSE {"", "a"}

VARIABLES type, calls, filled, wire, got, stage

wireVars == <<type, calls, filled, wire, got, stage>>

WireInit ==
    /\ type = "none" /\ calls = 0
    /\ filled = New /\ wire = <<>> /\ got = New
    /\ stage = "idle"

\* new proto...T(), or one that has every field
Construct(T) ==
    /\ stage = "idle"
    /\ type' = T
    /\ filled' \in {New, Full(T)}
    /\ stage' = "filling"
    /\ UNCHANGED <<calls, wire, got>>

\* One call of an accessor of field f.
CallAccessor(f) ==
    /\ stage = "filling" /\ calls < MaxCalls
    /\ LET acc == Fields[type][f]
       IN  \/ filled' = ClearField(acc, filled)
           \/ \E v \in Values(acc) :
                CASE acc.how = "repeated" -> filled' = AddField(acc, filled, v)
                  [] acc.how = "map" ->
                       \E k \in {"k", "l"} :
                          filled' = SetKey(acc, filled, [key |-> k, val |-> v])
                  [] OTHER -> filled' = SetField(acc, filled, v)
    /\ calls' = calls + 1
    /\ UNCHANGED <<type, wire, got, stage>>

Serialize ==
    /\ stage = "filling"
    /\ wire' = Encode(type, filled)
    /\ stage' = "wire"
    /\ UNCHANGED <<type, calls, filled, got>>

\* Another encoder writes the same message: repeated fields keep their order,
\* numbers may come in another; it may know a field this schema does not.
Reencode ==
    /\ stage = "wire"
    /\ \/ \E n \in {wire[i].num : i \in DOMAIN wire} :
            wire' = SelectSeq(wire, LAMBDA w : w.num = n)
                    \o SelectSeq(wire, LAMBDA w : w.num # n)
       \/ wire' = <<[num |-> 2000, val |-> "a"]>> \o wire
    /\ stage' = "foreign"
    /\ UNCHANGED <<type, calls, filled, got>>

Deserialize ==
    /\ stage \in {"wire", "foreign"}
    /\ got' = Decode(type, wire)
    /\ stage' = "read"
    /\ UNCHANGED <<type, calls, filled, wire>>

WireNext ==
    \/ \E T \in Types : Construct(T)
    \/ type # "none" /\ \E f \in DOMAIN Fields[type] : CallAccessor(f)
    \/ Serialize
    \/ Reencode
    \/ Deserialize

-----------------------------------------------------------------------------
\* What a receiver sees of a message is what its sender put into it, through
\* whichever encoder it came: the accessors, toObject, the reader and the
\* writer of every generated message (four tables kept apart in the *_pb.js
\* files) agree on slots, wire numbers and encodings.
WireAgrees ==
    stage = "read" => ToObject(type, got) = ToObject(type, filled)

=============================================================================
