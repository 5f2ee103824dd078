----------------------------- MODULE EntriesPb ------------------------------
(* relay/stealth_pb.js, relay/filters_pb.js and relay/p2pkh_pb.js: the
   bodies of payload and profile entries.
   Of each message: the accessors (field to slot), toObject, the reader (wire
   number to setter) and the writer (getter to wire number, in call order). *)
EXTENDS Protobuf

\* proto.stealth.StealthOutpoints
StealthOutpointsFields == [stealthTx |-> Scalar(1), vouts |-> Repeated(2)]

StealthOutpointsObject ==
    [stealthTx |-> Getter("stealthTx"), voutsList |-> Plain(2)]

StealthOutpointsReader == 1 :> Set("stealthTx") @@ 2 :> SetList("vouts")

StealthOutpointsWriter == <<NonZero("stealthTx", 1), Packed("vouts", 2)>>

\* proto.stealth.StealthPaymentEntry
StealthPaymentEntryFields ==
    [ephemeralPubKey |-> Scalar(1),
     outpoints |-> RepeatedOf(2, "StealthOutpoints")]

StealthPaymentEntryObject ==
    [ephemeralPubKey |-> Getter("ephemeralPubKey"),
     outpointsList |-> Objects("outpoints", "StealthOutpoints")]

StealthPaymentEntryReader ==
    1 :> Set("ephemeralPubKey") @@
    2 :> AddNested("outpoints", "StealthOutpoints")

StealthPaymentEntryWriter ==
    <<NonZero("ephemeralPubKey", 1),
      EachNested("outpoints", 2, "StealthOutpoints")>>

\* proto.filters.PriceFilter
PriceFilterFields ==
    [public |-> Scalar(1), acceptancePrice |-> Scalar(2),
     notificationPrice |-> Scalar(3)]

PriceFilterObject ==
    [pb_public |-> Default(1, ""), acceptancePrice |-> Default(2, ""),
     notificationPrice |-> Default(3, "")]

PriceFilterReader ==
    1 :> Set("public") @@ 2 :> Set("acceptancePrice") @@
    3 :> Set("notificationPrice")

PriceFilterWriter ==
    <<NonZero("public", 1), NonZero("acceptancePrice", 2),
      NonZero("notificationPrice", 3)>>

\* proto.filters.Filters
FiltersFields == [priceFilter |-> Nested(1, "PriceFilter")]

FiltersObject == [priceFilter |-> Object("priceFilter", "PriceFilter")]

FiltersReader == 1 :> SetNested("priceFilter", "PriceFilter")

FiltersWriter == <<OneNested("priceFilter", 1, "PriceFilter")>>

\* proto.p2pkh.P2PKHEntry
P2PKHEntryFields == [transaction |-> Scalar(1)]

P2PKHEntryObject == [transaction |-> Getter("transaction")]

P2PKHEntryReader == 1 :> Set("transaction")

P2PKHEntryWriter == <<NonZero("transaction", 1)>>

EntriesFields ==
    [StealthOutpoints |-> StealthOutpointsFields,
     StealthPaymentEntry |-> StealthPaymentEntryFields,
     PriceFilter |-> PriceFilterFields,
     Filters |-> FiltersFields,
     P2PKHEntry |-> P2PKHEntryFields]

EntriesObjects ==
    [StealthOutpoints |-> StealthOutpointsObject,
     StealthPaymentEntry |-> StealthPaymentEntryObject,
     PriceFilter |-> PriceFilterObject,
     Filters |-> FiltersObject,
     P2PKHEntry |-> P2PKHEntryObject]

EntriesReaders ==
    [StealthOutpoints |-> StealthOutpointsReader,
     StealthPaymentEntry |-> StealthPaymentEntryReader,
     PriceFilter |-> PriceFilterReader,
     Filters |-> FiltersReader,
     P2PKHEntry |-> P2PKHEntryReader]

EntriesWriters ==
    [StealthOutpoints |-> StealthOutpointsWriter,
     StealthPaymentEntry |-> StealthPaymentEntryWriter,
     PriceFilter |-> PriceFilterWriter,
     Filters |-> FiltersWriter,
     P2PKHEntry |-> P2PKHEntryWriter]

=============================================================================
