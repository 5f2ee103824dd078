----------------------------- MODULE RegistryPb -----------------------------
(* registry/metadata_pb.js, registry/broadcast_pb.js and
   signed_payload/payload_pb.js: what the registry keeps.
   Of each message: the accessors (field to slot), toObject, the reader (wire
   number to setter) and the writer (getter to wire number, in call order). *)
EXTENDS Protobuf

\* proto.keyserver.Header
KeyHeaderFields == [name |-> Scalar(1), value |-> Scalar(2)]

KeyHeaderObject == [name |-> Default(1, ""), value |-> Default(2, "")]

KeyHeaderReader == 1 :> Set("name") @@ 2 :> Set("value")

KeyHeaderWriter == <<NonZero("name", 1), NonZero("value", 2)>>

\* proto.keyserver.Entry
KeyEntryFields ==
    [kind |-> Scalar(1), headers |-> RepeatedOf(2, "KeyHeader"),
     body |-> Scalar(3)]

KeyEntryObject ==
    [kind |-> Default(1, ""),
     headersList |-> Objects("headers", "KeyHeader"),
     body |-> Getter("body")]

KeyEntryReader ==
    1 :> Set("kind") @@ 2 :> AddNested("headers", "KeyHeader") @@
    3 :> Set("body")

KeyEntryWriter ==
    <<NonZero("kind", 1), EachNested("headers", 2, "KeyHeader"),
      NonZero("body", 3)>>

\* proto.keyserver.AddressMetadata
AddressMetadataFields ==
    [timestamp |-> Scalar(1), ttl |-> Scalar(2),
     entries |-> RepeatedOf(3, "KeyEntry")]

AddressMetadataObject ==
    [timestamp |-> Default(1, ""), ttl |-> Default(2, ""),
     entriesList |-> Objects("entries", "KeyEntry")]

AddressMetadataReader ==
    1 :> Set("timestamp") @@ 2 :> Set("ttl") @@
    3 :> AddNested("entries", "KeyEntry")

AddressMetadataWriter ==
    <<NonZero("timestamp", 1), NonZero("ttl", 2),
      EachNested("entries", 3, "KeyEntry")>>

\* proto.keyserver.Peer
PeerFields == [url |-> Scalar(1)]

PeerObject == [url |-> Default(1, "")]

PeerReader == 1 :> Set("url")

PeerWriter == <<NonZero("url", 1)>>

\* proto.keyserver.Peers
PeersFields == [peers |-> RepeatedOf(1, "Peer")]

PeersObject == [peersList |-> Objects("peers", "Peer")]

PeersReader == 1 :> AddNested("peers", "Peer")

PeersWriter == <<EachNested("peers", 1, "Peer")>>

\* proto.wrapper.BurnOutputs
BurnOutputsFields == [tx |-> Scalar(1), index |-> Scalar(2)]

BurnOutputsObject == [tx |-> Getter("tx"), index |-> Default(2, "")]

BurnOutputsReader == 1 :> Set("tx") @@ 2 :> Set("index")

BurnOutputsWriter == <<NonZero("tx", 1), NonZero("index", 2)>>

\* proto.wrapper.SignedPayload
SignedPayloadKeys ==
    [publicKey |-> Scalar(1), signature |-> Scalar(2), scheme |-> Scalar(3),
     payload |-> Scalar(4)]

SignedPayloadBurn ==
    [payloadDigest |-> Scalar(5), burnAmount |-> Scalar(6),
     transactions |-> RepeatedOf(7, "BurnOutputs")]

SignedPayloadFields == SignedPayloadKeys @@ SignedPayloadBurn

SignedPayloadObject ==
    [publicKey |-> Getter("publicKey"), signature |-> Getter("signature"),
     scheme |-> Default(3, ""), payload |-> Getter("payload"),
     payloadDigest |-> Getter("payloadDigest"),
     burnAmount |-> Default(6, ""),
     transactionsList |-> Objects("transactions", "BurnOutputs")]

SignedPayloadReader ==
    1 :> Set("publicKey") @@ 2 :> Set("signature") @@ 3 :> Set("scheme") @@
    4 :> Set("payload") @@ 5 :> Set("payloadDigest") @@
    6 :> Set("burnAmount") @@ 7 :> AddNested("transactions", "BurnOutputs")

SignedPayloadWriter ==
    <<NonZero("publicKey", 1), NonZero("signature", 2), NonZero("scheme", 3),
      NonZero("payload", 4), NonZero("payloadDigest", 5),
      NonZero("burnAmount", 6),
      EachNested("transactions", 7, "BurnOutputs")>>

\* proto.wrapper.SignedPayloadSet
SignedPayloadSetFields == [items |-> RepeatedOf(1, "SignedPayload")]

SignedPayloadSetObject == [itemsList |-> Objects("items", "SignedPayload")]

SignedPayloadSetReader == 1 :> AddNested("items", "SignedPayload")

SignedPayloadSetWriter == <<EachNested("items", 1, "SignedPayload")>>

\* proto.broadcast.ForumPost
ForumPostFields ==
    [title |-> Scalar(1), url |-> Scalar(2), message |-> Scalar(3)]

ForumPostObject ==
    [title |-> Default(1, ""), url |-> Default(2, ""),
     message |-> Default(3, "")]

ForumPostReader == 1 :> Set("title") @@ 2 :> Set("url") @@ 3 :> Set("message")

ForumPostWriter ==
    <<NonZero("title", 1), NonZero("url", 2), NonZero("message", 3)>>

\* proto.broadcast.BroadcastEntry
BroadcastEntryFields ==
    [kind |-> Scalar(1), headers |-> MapAt(2, ""), payload |-> Scalar(3)]

BroadcastEntryObject ==
    [kind |-> Default(1, ""), headersMap |-> Pairs("headers", ""),
     payload |-> Getter("payload")]

BroadcastEntryReader ==
    1 :> Set("kind") @@ 2 :> MapIn("headers", "") @@ 3 :> Set("payload")

BroadcastEntryWriter ==
    <<NonZero("kind", 1), MapOut("headers", 2, ""), NonZero("payload", 3)>>

\* proto.broadcast.BroadcastMessage
BroadcastMessageFields ==
    [topic |-> Scalar(1), timestamp |-> Scalar(2),
     entries |-> RepeatedOf(3, "BroadcastEntry"), parentDigest |-> Scalar(4)]

BroadcastMessageObject ==
    [topic |-> Default(1, ""), timestamp |-> Default(2, ""),
     entriesList |-> Objects("entries", "BroadcastEntry"),
     parentDigest |-> Getter("parentDigest")]

BroadcastMessageReader ==
    1 :> Set("topic") @@ 2 :> Set("timestamp") @@
    3 :> AddNested("entries", "BroadcastEntry") @@ 4 :> Set("parentDigest")

BroadcastMessageWriter ==
    <<NonZero("topic", 1), NonZero("timestamp", 2),
      EachNested("entries", 3, "BroadcastEntry"),
      NonZero("parentDigest", 4)>>

RegistryFields ==
    [KeyHeader |-> KeyHeaderFields,
     KeyEntry |-> KeyEntryFields,
     AddressMetadata |-> AddressMetadataFields,
     Peer |-> PeerFields,
     Peers |-> PeersFields,
     BurnOutputs |-> BurnOutputsFields,
     SignedPayload |-> SignedPayloadFields,
     SignedPayloadSet |-> SignedPayloadSetFields,
     ForumPost |-> ForumPostFields,
     BroadcastEntry |-> BroadcastEntryFields,
     BroadcastMessage |-> BroadcastMessageFields]

RegistryObjects ==
    [KeyHeader |-> KeyHeaderObject,
     KeyEntry |-> KeyEntryObject,
     AddressMetadata |-> AddressMetadataObject,
     Peer |-> PeerObject,
     Peers |-> PeersObject,
     BurnOutputs |-> BurnOutputsObject,
     SignedPayload |-> SignedPayloadObject,
     SignedPayloadSet |-> SignedPayloadSetObject,
     ForumPost |-> ForumPostObject,
     BroadcastEntry |-> BroadcastEntryObject,
     BroadcastMessage |-> BroadcastMessageObject]

RegistryReaders ==
    [KeyHeader |-> KeyHeaderReader,
     KeyEntry |-> KeyEntryReader,
     AddressMetadata |-> AddressMetadataReader,
     Peer |-> PeerReader,
     Peers |-> PeersReader,
     BurnOutputs |-> BurnOutputsReader,
     SignedPayload |-> SignedPayloadReader,
     SignedPayloadSet |-> SignedPayloadSetReader,
     ForumPost |-> ForumPostReader,
     BroadcastEntry |-> BroadcastEntryReader,
     BroadcastMessage |-> BroadcastMessageReader]

RegistryWriters ==
    [KeyHeader |-> KeyHeaderWriter,
     KeyEntry |-> KeyEntryWriter,
     AddressMetadata |-> AddressMetadataWriter,
     Peer |-> PeerWriter,
     Peers |-> PeersWriter,
     BurnOutputs |-> BurnOutputsWriter,
     SignedPayload |-> SignedPayloadWriter,
     SignedPayloadSet |-> SignedPayloadSetWriter,
     ForumPost |-> ForumPostWriter,
     BroadcastEntry |-> BroadcastEntryWriter,
     BroadcastMessage |-> BroadcastMessageWriter]

=============================================================================
