----------------------------- MODULE PaymentPb ------------------------------
(* bip70/paymentrequest_pb.js: the payment requests of a 402 answer.
   Of each message: the accessors (field to slot), toObject, the reader (wire
   number to setter) and the writer (getter to wire number, in call order). *)
EXTENDS Protobuf

\* proto.bip70.Output
OutputFields == [amount |-> Optional(1, ""), script |-> Optional(2, "")]

OutputObject == [amount |-> Default(1, ""), script |-> Getter("script")]

OutputReader == 1 :> Set("amount") @@ 2 :> Set("script")

OutputWriter == <<Present(1, 1), Present(2, 2)>>

\* proto.bip70.PaymentDetails
DetailsTerms ==
    [network |-> Optional(1, "main"), outputs |-> RepeatedOf(2, "Output"),
     time |-> Optional(3, ""), expires |-> Optional(4, "")]

DetailsNotes ==
    [memo |-> Optional(5, ""), paymentUrl |-> Optional(6, ""),
     merchantData |-> Optional(7, "")]

PaymentDetailsFields == DetailsTerms @@ DetailsNotes

PaymentDetailsObject ==
    [network |-> Default(1, "main"),
     outputsList |-> Objects("outputs", "Output"), time |-> Maybe(3),
     expires |-> Maybe(4), memo |-> Maybe(5), paymentUrl |-> Maybe(6),
     merchantData |-> Getter("merchantData")]

PaymentDetailsReader ==
    1 :> Set("network") @@ 2 :> AddNested("outputs", "Output") @@
    3 :> Set("time") @@ 4 :> Set("expires") @@ 5 :> Set("memo") @@
    6 :> Set("paymentUrl") @@ 7 :> Set("merchantData")

PaymentDetailsWriter ==
    <<Present(1, 1), EachNested("outputs", 2, "Output"), Present(3, 3),
      Present(4, 4), Present(5, 5), Present(6, 6), Present(7, 7)>>

\* proto.bip70.PaymentRequest
RequestKind ==
    [paymentDetailsVersion |-> Optional(1, "1"),
     pkiType |-> Optional(2, "none"), pkiData |-> Optional(3, "")]

RequestData ==
    [serializedPaymentDetails |-> Optional(4, ""),
     signature |-> Optional(5, "")]

PaymentRequestFields == RequestKind @@ RequestData

PaymentRequestObject ==
    [paymentDetailsVersion |-> Default(1, "1"),
     pkiType |-> Default(2, "none"), pkiData |-> Getter("pkiData"),
     serializedPaymentDetails |-> Getter("serializedPaymentDetails"),
     signature |-> Getter("signature")]

PaymentRequestReader ==
    1 :> Set("paymentDetailsVersion") @@ 2 :> Set("pkiType") @@
    3 :> Set("pkiData") @@ 4 :> Set("serializedPaymentDetails") @@
    5 :> Set("signature")

PaymentRequestWriter ==
    <<Present(1, 1), Present(2, 2), Present(3, 3), Present(4, 4),
      Present(5, 5)>>

\* proto.bip70.X509Certificates
X509CertificatesFields == [certificate |-> Repeated(1)]

X509CertificatesObject == [certificateList |-> Getter("certificate")]

X509CertificatesReader == 1 :> Add("certificate")

X509CertificatesWriter == <<Each("certificate", 1)>>

\* proto.bip70.Payment
PaymentCoins ==
    [merchantData |-> Optional(1, ""), transactions |-> Repeated(2)]

PaymentMemo ==
    [refundTo |-> RepeatedOf(3, "Output"), memo |-> Optional(4, "")]

PaymentFields == PaymentCoins @@ PaymentMemo

PaymentObject ==
    [merchantData |-> Getter("merchantData"),
     transactionsList |-> Getter("transactions"),
     refundToList |-> Objects("refundTo", "Output"), memo |-> Maybe(4)]

PaymentReader ==
    1 :> Set("merchantData") @@ 2 :> Add("transactions") @@
    3 :> AddNested("refundTo", "Output") @@ 4 :> Set("memo")

PaymentWriter ==
    <<Present(1, 1), Each("transactions", 2),
      EachNested("refundTo", 3, "Output"), Present(4, 4)>>

\* proto.bip70.PaymentACK
PaymentACKFields ==
    [payment |-> Nested(1, "Payment"), memo |-> Optional(2, "")]

PaymentACKObject ==
    [payment |-> Object("payment", "Payment"), memo |-> Maybe(2)]

PaymentACKReader == 1 :> SetNested("payment", "Payment") @@ 2 :> Set("memo")

PaymentACKWriter == <<OneNested("payment", 1, "Payment"), Present(2, 2)>>

Bip70Fields ==
    [Output |-> OutputFields,
     PaymentDetails |-> PaymentDetailsFields,
     PaymentRequest |-> PaymentRequestFields,
     X509Certificates |-> X509CertificatesFields,
     Payment |-> PaymentFields,
     PaymentACK |-> PaymentACKFields]

Bip70Objects ==
    [Output |-> OutputObject,
     PaymentDetails |-> PaymentDetailsObject,
     PaymentRequest |-> PaymentRequestObject,
     X509Certificates |-> X509CertificatesObject,
     Payment |-> PaymentObject,
     PaymentACK |-> PaymentACKObject]

Bip70Readers ==
    [Output |-> OutputReader,
     PaymentDetails |-> PaymentDetailsReader,
     PaymentRequest |-> PaymentRequestReader,
     X509Certificates |-> X509CertificatesReader,
     Payment |-> PaymentReader,
     PaymentACK |-> PaymentACKReader]

Bip70Writers ==
    [Output |-> OutputWriter,
     PaymentDetails |-> PaymentDetailsWriter,
     PaymentRequest |-> PaymentRequestWriter,
     X509Certificates |-> X509CertificatesWriter,
     Payment |-> PaymentWriter,
     PaymentACK |-> PaymentACKWriter]

=============================================================================
