------------------------------ MODULE RelayPb -------------------------------
(* relay/relay_pb.js: what sender, relay and recipient exchange.
   Of each message: the accessors (field to slot), toObject, the reader (wire
   number to setter) and the writer (getter to wire number, in call order). *)
EXTENDS Protobuf

\* proto.relay.Header
HeaderFields == [name |-> Scalar(1), value |-> Scalar(2)]

HeaderObject == [name |-> Default(1, ""), value |-> Default(2, "")]

HeaderReader == 1 :> Set("name") @@ 2 :> Set("value")

HeaderWriter == <<NonZero("name", 1), NonZero("value", 2)>>

\* proto.relay.ProfileEntry
ProfileEntryFields ==
    [kind |-> Scalar(1), headers |-> RepeatedOf(2, "Header"),
     body |-> Scalar(3)]

ProfileEntryObject ==
    [kind |-> Default(1, ""), headersList |-> Objects("headers", "Header"),
     body |-> Getter("body")]

ProfileEntryReader ==
    1 :> Set("kind") @@ 2 :> AddNested("headers", "Header") @@
    3 :> Set("body")

ProfileEntryWriter ==
    <<NonZero("kind", 1), EachNested("headers", 2, "Header"),
      NonZero("body", 3)>>

\* proto.relay.Profile
ProfileFields ==
    [timestamp |-> Scalar(1), ttl |-> Scalar(2),
     entries |-> RepeatedOf(3, "ProfileEntry")]

ProfileObject ==
    [timestamp |-> Default(1, ""), ttl |-> Default(2, ""),
     entriesList |-> Objects("entries", "ProfileEntry")]

ProfileReader ==
    1 :> Set("timestamp") @@ 2 :> Set("ttl") @@
    3 :> AddNested("entries", "ProfileEntry")

ProfileWriter ==
    <<NonZero("timestamp", 1), NonZero("ttl", 2),
      EachNested("entries", 3, "ProfileEntry")>>

\* proto.relay.PayloadEntry
PayloadEntryFields ==
    [kind |-> Scalar(1), headers |-> RepeatedOf(2, "Header"),
     body |-> Scalar(3)]

PayloadEntryObject ==
    [kind |-> Default(1, ""), headersList |-> Objects("headers", "Header"),
     body |-> Getter("body")]

PayloadEntryReader ==
    1 :> Set("kind") @@ 2 :> AddNested("headers", "Header") @@
    3 :> Set("body")

PayloadEntryWriter ==
    <<NonZero("kind", 1), EachNested("headers", 2, "Header"),
      NonZero("body", 3)>>

\* proto.relay.Payload
PayloadFields ==
    [timestamp |-> Scalar(1), entries |-> RepeatedOf(2, "PayloadEntry")]

PayloadObject ==
    [timestamp |-> Default(1, ""),
     entriesList |-> Objects("entries", "PayloadEntry")]

\* A reader generated from an older schema.
PayloadReaderStale ==
    1 :> Set("timestamp") @@ 3 :> AddNested("entries", "PayloadEntry")

PayloadReader ==
    1 :> Set("timestamp") @@ 2 :> AddNested("entries", "PayloadEntry")

PayloadWriter ==
    <<NonZero("timestamp", 1), EachNested("entries", 2, "PayloadEntry")>>

\* proto.relay.StampOutpoints
StampOutpointsFields == [stampTx |-> Scalar(1), vouts |-> Repeated(2)]

StampOutpointsObject ==
    [stampTx |-> Getter("stampTx"), voutsList |-> Plain(2)]

StampOutpointsReader == 1 :> Set("stampTx") @@ 2 :> SetList("vouts")

StampOutpointsWriter == <<NonZero("stampTx", 1), Packed("vouts", 2)>>

\* proto.relay.Stamp
StampFields ==
    [stampType |-> Scalar(1),
     stampOutpoints |-> RepeatedOf(2, "StampOutpoints")]

StampObject ==
    [stampType |-> Default(1, ""),
     stampOutpointsList |-> Objects("stampOutpoints", "StampOutpoints")]

StampReader ==
    1 :> Set("stampType") @@
    2 :> AddNested("stampOutpoints", "StampOutpoints")

StampWriter ==
    <<NonZero("stampType", 1),
      EachNested("stampOutpoints", 2, "StampOutpoints")>>

\* proto.relay.Message
MessageKeys ==
    [sourcePublicKey |-> Scalar(1), destinationPublicKey |-> Scalar(2),
     receivedTime |-> Scalar(3)]

MessageStamp ==
    [payloadDigest |-> Scalar(4), stamp |-> Nested(5, "Stamp"),
     scheme |-> Scalar(6), salt |-> Scalar(7)]

MessageBody ==
    [payloadHmac |-> Scalar(8), payloadSize |-> Scalar(9),
     payload |-> Scalar(100)]

MessageFields == MessageKeys @@ MessageStamp @@ MessageBody

MessageObject ==
    [sourcePublicKey |-> Getter("sourcePublicKey"),
     destinationPublicKey |-> Getter("destinationPublicKey"),
     receivedTime |-> Default(3, ""),
     payloadDigest |-> Getter("payloadDigest"),
     stamp |-> Object("stamp", "Stamp"), scheme |-> Default(6, ""),
     salt |-> Getter("salt"), payloadHmac |-> Getter("payloadHmac"),
     payloadSize |-> Default(9, ""), payload |-> Getter("payload")]

MessageReader ==
    1 :> Set("sourcePublicKey") @@ 2 :> Set("destinationPublicKey") @@
    3 :> Set("receivedTime") @@ 4 :> Set("payloadDigest") @@
    5 :> SetNested("stamp", "Stamp") @@ 6 :> Set("scheme") @@
    7 :> Set("salt") @@ 8 :> Set("payloadHmac") @@ 9 :> Set("payloadSize") @@
    100 :> Set("payload")

MessageWriter ==
    <<NonZero("sourcePublicKey", 1), NonZero("destinationPublicKey", 2),
      NonZero("receivedTime", 3), NonZero("payloadDigest", 4),
      OneNested("stamp", 5, "Stamp"), NonZero("scheme", 6),
      NonZero("salt", 7), NonZero("payloadHmac", 8),
      NonZero("payloadSize", 9), NonZero("payload", 100)>>

\* proto.relay.MessageSet
MessageSetFields == [messages |-> RepeatedOf(1, "Message")]

MessageSetObject == [messagesList |-> Objects("messages", "Message")]

MessageSetReader == 1 :> AddNested("messages", "Message")

MessageSetWriter == <<EachNested("messages", 1, "Message")>>

\* proto.relay.PushError
PushErrorFields == [statusCode |-> Scalar(1), errorText |-> Scalar(2)]

PushErrorObject ==
    [statusCode |-> Default(1, ""), errorText |-> Default(2, "")]

PushErrorReader == 1 :> Set("statusCode") @@ 2 :> Set("errorText")

PushErrorWriter == <<NonZero("statusCode", 1), NonZero("errorText", 2)>>

\* proto.relay.PushErrors
PushErrorsFields == [errors |-> MapAt(1, "PushError")]

PushErrorsObject == [errorsMap |-> Pairs("errors", "PushError")]

PushErrorsReader == 1 :> MapIn("errors", "PushError")

PushErrorsWriter == <<MapOut("errors", 1, "PushError")>>

\* proto.relay.MessagePage
MessagePageSpan ==
    [messages |-> RepeatedOf(1, "Message"), startTime |-> Scalar(2),
     endTime |-> Scalar(3)]

MessagePageDigests == [startDigest |-> Scalar(4), endDigest |-> Scalar(5)]

MessagePageFields == MessagePageSpan @@ MessagePageDigests

MessagePageObject ==
    [messagesList |-> Objects("messages", "Message"),
     startTime |-> Default(2, ""), endTime |-> Default(3, ""),
     startDigest |-> Getter("startDigest"),
     endDigest |-> Getter("endDigest")]

MessagePageReader ==
    1 :> AddNested("messages", "Message") @@ 2 :> Set("startTime") @@
    3 :> Set("endTime") @@ 4 :> Set("startDigest") @@ 5 :> Set("endDigest")

MessagePageWriter ==
    <<EachNested("messages", 1, "Message"), NonZero("startTime", 2),
      NonZero("endTime", 3), NonZero("startDigest", 4),
      NonZero("endDigest", 5)>>

\* proto.relay.PayloadPage
PayloadPageSpan == [payloads |-> Repeated(1), startTime |-> Scalar(2)]

PayloadPageDigests ==
    [endTime |-> Scalar(3), startDigest |-> Scalar(4),
     endDigest |-> Scalar(5)]

PayloadPageFields == PayloadPageSpan @@ PayloadPageDigests

PayloadPageObject ==
    [payloadsList |-> Getter("payloads"), startTime |-> Default(2, ""),
     endTime |-> Default(3, ""), startDigest |-> Getter("startDigest"),
     endDigest |-> Getter("endDigest")]

PayloadPageReader ==
    1 :> Add("payloads") @@ 2 :> Set("startTime") @@ 3 :> Set("endTime") @@
    4 :> Set("startDigest") @@ 5 :> Set("endDigest")

PayloadPageWriter ==
    <<Each("payloads", 1), NonZero("startTime", 2), NonZero("endTime", 3),
      NonZero("startDigest", 4), NonZero("endDigest", 5)>>

RelayFields ==
    [Header |-> HeaderFields,
     ProfileEntry |-> ProfileEntryFields,
     Profile |-> ProfileFields,
     PayloadEntry |-> PayloadEntryFields,
     Payload |-> PayloadFields,
     StampOutpoints |-> StampOutpointsFields,
     Stamp |-> StampFields,
     Message |-> MessageFields,
     MessageSet |-> MessageSetFields,
     PushError |-> PushErrorFields,
     PushErrors |-> PushErrorsFields,
     MessagePage |-> MessagePageFields,
     PayloadPage |-> PayloadPageFields]

RelayObjects ==
    [Header |-> HeaderObject,
     ProfileEntry |-> ProfileEntryObject,
     Profile |-> ProfileObject,
     PayloadEntry |-> PayloadEntryObject,
     Payload |-> PayloadObject,
     StampOutpoints |-> StampOutpointsObject,
     Stamp |-> StampObject,
     Message |-> MessageObject,
     MessageSet |-> MessageSetObject,
     PushError |-> PushErrorObject,
     PushErrors |-> PushErrorsObject,
     MessagePage |-> MessagePageObject,
     PayloadPage |-> PayloadPageObject]

RelayReaders ==
    [Header |-> HeaderReader,
     ProfileEntry |-> ProfileEntryReader,
     Profile |-> ProfileReader,
     PayloadEntry |-> PayloadEntryReader,
     Payload |-> PayloadReader,
     StampOutpoints |-> StampOutpointsReader,
     Stamp |-> StampReader,
     Message |-> MessageReader,
     MessageSet |-> MessageSetReader,
     PushError |-> PushErrorReader,
     PushErrors |-> PushErrorsReader,
     MessagePage |-> MessagePageReader,
     PayloadPage |-> PayloadPageReader]

RelayWriters ==
    [Header |-> HeaderWriter,
     ProfileEntry |-> ProfileEntryWriter,
     Profile |-> ProfileWriter,
     PayloadEntry |-> PayloadEntryWriter,
     Payload |-> PayloadWriter,
     StampOutpoints |-> StampOutpointsWriter,
     Stamp |-> StampWriter,
     Message |-> MessageWriter,
     MessageSet |-> MessageSetWriter,
     PushError |-> PushErrorWriter,
     PushErrors |-> PushErrorsWriter,
     MessagePage |-> MessagePageWriter,
     PayloadPage |-> PayloadPageWriter]

=============================================================================
