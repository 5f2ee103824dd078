------------------------------ MODULE Envelope ------------------------------
(* One message from the text, image or payment a user enters to what the two
   parties see of it: sendMessage and its siblings, encode-entry.ts,
   constructors.ts and crypto.ts on one side, extension.ts, receiveMessage and
   decode-entry.ts on the other, and the keys of the received stamps derived
   again after a restart.  Cryptography is symbolic: a hash or a cipher text is
   a term, equal only to the same term, and a private key is the set of the
   scalars it is the sum of, which also stands for its point on the curve. *)
EXTENDS Naturals, Sequences, SequencesExt, FiniteSets, Subsequence

CONSTANTS Alice, Bob,     \* the sender and the recipient
          MaxTxs,         \* transactions of one stamp or stealth payment
          Faults          \* what a message not made by this code may have wrong

ASSUME EnvelopeAssumption == Alice # Bob /\ MaxTxs \in Nat

-----------------------------------------------------------------------------
(* crypto.ts, over the terms of the curve and hash libraries. *)

sha256(t) == <<"sha256", t>>
sha256hmac(data, key) == <<"hmac", data, key>>

Priv(p) == {<<"key", p>>}
Mul(point, priv) == {<<"mul", {x, y}>> : x \in point, y \in priv}
Scalar256(digest) == {<<"scalar", digest>>}
Bytes(key) == <<"bytes", key>>

constructMergedKey(priv, pub) == Bytes(Mul(pub, priv))

constructSharedKey(priv, pub, salt) ==
    sha256hmac(salt, constructMergedKey(priv, pub))

constructPayloadHmac(sharedKey, digest) == sha256hmac(sharedKey, digest)

encrypt(key, plain) == <<"aes", key, plain>>

\* With another key the padding or the content is not what was encrypted.
decrypt(key, cipher) ==
    IF cipher[1] = "aes" /\ cipher[2] = key THEN cipher[3] ELSE <<>>

\* An HD key: a child is derived from the key, the chain code and the path,
\* alike from the private and from the public side.
HDKey(sum, code) == [sum |-> sum, code |-> code, path |-> <<>>]
deriveChild(hd, i) == [hd EXCEPT !.path = Append(@, i)]
KeyOf(hd) == hd.sum \cup {<<"child", hd.sum, hd.code, hd.path>>}

constructStealthPublicKey(ephPriv, dst) ==
    LET digest == sha256(Bytes(Mul(dst, ephPriv)))
    IN  [sum |-> Scalar256(digest) \cup dst, digest |-> digest]

constructStealthPrivateKey(ephPub, priv) ==
    LET digest == sha256(Bytes(Mul(ephPub, priv)))
    IN  [sum |-> Scalar256(digest) \cup priv, digest |-> digest]

constructHDStealthPublicKey(ephPriv, dst) ==
    LET k == constructStealthPublicKey(ephPriv, dst) IN HDKey(k.sum, k.digest)

constructHDStealthPrivateKey(ephPub, priv) ==
    LET k == constructStealthPrivateKey(ephPub, priv) IN HDKey(k.sum, k.digest)

constructStampHDPublicKey(digest, dst) == HDKey(Scalar256(digest) \cup dst, digest)
constructStampHDPrivateKey(digest, priv) == HDKey(Scalar256(digest) \cup priv, digest)

\* The key of output j of transaction i of a payment.
Outpoint(hd, i, j) ==
    KeyOf(deriveChild(deriveChild(deriveChild(deriveChild(hd, 44), 145), i), j))

-----------------------------------------------------------------------------
VARIABLES
    sent,       \* what the sender built: source, destination, items, transactions
    message,    \* the envelope the relay hands out
    fault,      \* what is wrong with it
    payloads,   \* the relay's payloads, by digest
    shown,      \* per device, the message it shows
    owned,      \* per device, the coins it has put into its wallet
    spent,      \* per device, the transactions whose inputs it has deleted
    restored,   \* once it has restarted, what the recipient's wallet got back
    chain,      \* unspent outputs that pay to the stamp's addresses
    redeemed    \* coins of the stamp spent by redeemStampForProof

envelopeVars == <<sent, message, fault, payloads, shown, owned, spent, restored,
                  chain, redeemed>>

None == [none |-> TRUE]
Devices == {Alice, Bob}
NotYet == <<"not received">>
Nothing == <<"nothing">>

EnvelopeInit ==
    /\ sent = None /\ message = None /\ fault = "none" /\ payloads = {}
    /\ shown = [d \in Devices |-> NotYet]
    /\ owned = [d \in Devices |-> {}]
    /\ spent = [d \in Devices |-> {}]
    /\ restored = {} /\ chain = {} /\ redeemed = {}

-----------------------------------------------------------------------------
(* Sending. *)

\* constructTransactionSet pays amounts that need n transactions; the payee's
\* output of the i-th (outputNumber 0) ends at place at[i].
Bundle(name, hd, at) ==
    [i \in DOMAIN at |->
        [id |-> <<name, i>>, vouts |-> <<at[i]>>,
         outs |-> [k \in {at[i]} |-> Outpoint(hd, i - 1, 0)]]]

Placements == UNION {[1 .. n -> 0 .. 1] : n \in 0 .. MaxTxs}

constructStealthEntry(amount, dst) ==
    LET eph == Priv("ephemeral")
    IN  <<"stealth-payment", eph,
          Bundle("stealth", constructHDStealthPublicKey(eph, dst), amount)>>

constructTextEntry(text) == <<"text-utf8", text>>
constructReplyEntry(digest) == <<"reply", digest>>
constructImageEntry(image) == <<"image", image>>

constructP2PKHEntry(address) ==
    <<"p2pkh", [id |-> <<"p2pkh", 1>>, outs |-> <<address>>]>>

encodeEntry(item, dst) ==
    CASE item[1] = "stealth" -> constructStealthEntry(item[2], dst)
      [] item[1] = "text" -> constructTextEntry(item[2])
      [] item[1] = "reply" -> constructReplyEntry(item[2])
      [] item[1] = "image" -> constructImageEntry(item[2])
      [] item[1] = "p2pkh" -> constructP2PKHEntry(item[2])

\* constructMessage.  The stamp is paid to keys that the digest of the
\* encrypted payload and the recipient's key give.
constructMessage(plain, priv, dst, at) ==
    LET salt == sha256hmac(sha256(plain), Bytes(priv))
        sharedKey == constructSharedKey(priv, dst, salt)
        payload == encrypt(sharedKey, plain)
        digest == sha256(payload)
    IN  [source |-> priv, destination |-> dst, scheme |-> 1, salt |-> salt,
         payload |-> payload, payloadDigest |-> <<>>, payloadSize |-> 0,
         hmac |-> constructPayloadHmac(sharedKey, digest),
         stamp |-> Bundle("stamp", constructStampHDPublicKey(digest, dst), at)]

Transactions(entries, m) ==
    (UNION {{e[3][i].id : i \in DOMAIN e[3]} :
               e \in {f \in ToSet(entries) : f[1] = "stealth-payment"}})
    \cup {e[2].id : e \in {f \in ToSet(entries) : f[1] = "p2pkh"}}
    \cup {m.stamp[i].id : i \in DOMAIN m.stamp}

\* sendMessageImpl, up to the message set.
sendMessageImpl(dst, items, at) ==
    LET entries == [i \in DOMAIN items |-> encodeEntry(items[i], Priv(dst))]
        m == constructMessage(<<"payload", entries>>, Priv(Alice), Priv(dst), at)
    IN  /\ sent = None
        /\ sent' = [to |-> dst, items |-> items, txs |-> Transactions(entries, m)]
        /\ message' = m
        /\ payloads' = {<<sha256(m.payload), m.payload>>}
        /\ chain' = UNION {{[tx |-> t.id, out |-> k, addr |-> t.outs[k]] :
                              k \in DOMAIN t.outs} : t \in ToSet(m.stamp)}
        /\ UNCHANGED <<fault, shown, owned, spent, restored, redeemed>>

\* A caption or memo follows what it describes, a reply comes first.
MaybeText == {<<>>, <<<<"text", "hi">>>>}
MaybeReply == {<<>>, <<<<"reply", sha256(<<"earlier">>)>>>>}

sendMessage(at) ==
    \E r \in MaybeReply : sendMessageImpl(Bob, r \o <<<<"text", "hi">>>>, at)

sendImage(at) ==
    \E r \in MaybeReply, t \in MaybeText :
        sendMessageImpl(Bob, r \o <<<<"image", "pixels">>>> \o t, at)

\* The amount: where the outputs are that it is paid with.
sendStealthPayment(at) ==
    \E t \in MaybeText, amount \in Placements \ {<<>>} :
        sendMessageImpl(Bob, <<<<"stealth", amount>>>> \o t, at)

\* To oneself, without a stamp.
sendToPubKeyHash == sendMessageImpl(Alice, <<<<"p2pkh", "address">>>>, <<>>)

-----------------------------------------------------------------------------
(* The relay hands the message out with its digest and may leave the payload
   to be asked for; the message may also come from a program that makes it
   otherwise than this one. *)

\* The first transaction of the stamp pays to addresses that are not derived.
Diverted(stamp) ==
    [i \in DOMAIN stamp |->
        IF i = 1 THEN [stamp[i] EXCEPT !.outs = [k \in DOMAIN @ |-> {<<"other">>}]]
                 ELSE stamp[i]]

Foreign(m, f) ==
    CASE f = "payload" -> [m EXCEPT !.payload = <<"other">>]
      [] f = "hmac" -> [m EXCEPT !.hmac = <<"other">>]
      [] f = "scheme" -> [m EXCEPT !.scheme = 0]
      [] f = "size" -> [m EXCEPT !.payloadSize = 2]
      [] f = "salt" -> [m EXCEPT !.salt = <<"other">>]
      [] f = "stamp" -> [m EXCEPT !.stamp = Diverted(@)]
      [] OTHER -> m

RelayAnswers ==
    /\ message # None /\ message.payloadDigest = <<>>
    /\ \E f \in Faults \cup {"none"}, strip \in BOOLEAN :
         /\ f = "stamp" => message.stamp # <<>>
         /\ f = "payload" => ~strip
         /\ f = "stored" => strip
         /\ fault' = f
         /\ message' = [Foreign(message, f) EXCEPT
                          !.payloadDigest = sha256(message.payload),
                          !.payload = IF strip THEN <<>> ELSE @]
         /\ payloads' = IF f = "stored"
                        THEN {<<sha256(message.payload), <<"other">>>>}
                        ELSE payloads
    /\ UNCHANGED <<sent, shown, owned, spent, restored, chain, redeemed>>

-----------------------------------------------------------------------------
(* Receiving, on the recipient's device or on another one of the sender. *)

\* digest and parse of messageMixin: a payload that is not the digest's, or
\* not of the reported size (1 stands for the length of the payload).
ParseThrows(m) ==
    \/ m.payload # <<>> /\ sha256(m.payload) # m.payloadDigest
    \/ m.payloadSize \notin {0, IF m.payload = <<>> THEN 0 ELSE 1}

\* The relay is asked for a payload that is not in the message.
getRawPayload(digest) ==
    CHOOSE p \in {q[2] : q \in payloads} : <<digest, p>> \in payloads

Payload(m) == IF m.payload # <<>> THEN m.payload ELSE getRawPayload(m.payloadDigest)

\* open, openSelf: the shared key is made with the other party's public key.
SharedKey(m, d, outbound) ==
    constructSharedKey(Priv(d), IF outbound THEN m.destination ELSE m.source,
                       m.salt)

OpenThrows(m, d, outbound) ==
    \/ m.hmac # constructPayloadHmac(SharedKey(m, d, outbound),
                                     sha256(Payload(m)))
    \/ m.scheme # 1

Same(a, b) == a.tx = b.tx /\ a.out = b.out

\* The outputs of a payment with the keys derived for their places.
Coin(kind, t, j, key) == [kind |-> kind, tx |-> t.id, out |-> t.vouts[j],
                          addr |-> t.outs[t.vouts[j]], key |-> key]

Outpoints(kind, hd, bundle) ==
    FlattenSeq([i \in DOMAIN bundle |->
        [j \in DOMAIN bundle[i].vouts |->
            Coin(kind, bundle[i], j, Outpoint(hd, i - 1, j - 1))]])

\* A stamp output to another address is ignored, a stealth payment is given up
\* at the first one; in a message of one's own they are taken as they are.
StampOutpoints(hd, bundle, outbound) ==
    LET all == Outpoints("stamp", hd, bundle)
    IN  Picked(all, {i \in DOMAIN all : outbound \/ all[i].addr = all[i].key})

StealthOutpoints(hd, bundle, outbound) ==
    LET all == Outpoints("stealth", hd, bundle)
        bad == {i \in DOMAIN all : ~outbound /\ all[i].addr # all[i].key}
    IN  IF bad = {} THEN all ELSE SubSeq(all, 1, Min(bad) - 1)

\* decodeEntry: the item shown, none for a kind it does not know or a payment
\* to an address that is not the derived one.
StealthKey(e, d) == constructHDStealthPrivateKey(e[2], Priv(d))

decodeEntry(e, d, outbound) ==
    CASE e[1] = "text-utf8" -> <<<<"text", e[2]>>>>
      [] e[1] = "reply" -> <<<<"reply", e[2]>>>>
      [] e[1] = "image" -> <<<<"image", e[2]>>>>
      [] e[1] = "stealth-payment" ->
           LET good == StealthOutpoints(StealthKey(e, d), e[3], outbound)
           IN  IF Len(good) = Len(e[3])
               THEN <<<<"stealth", [i \in DOMAIN good |-> good[i].out]>>>> ELSE <<>>
      [] OTHER -> <<>>

EntryCoins(e, d, outbound) ==
    IF e[1] = "stealth-payment"
    THEN StealthOutpoints(StealthKey(e, d), e[3], outbound) ELSE <<>>

\* The transactions whose inputs the entries of one's own message delete: of
\* payments to oneself (receiveSelfSend), else of stealth payments.
EntrySpends(e, self) ==
    CASE self /\ e[1] = "p2pkh" -> <<e[2].id>>
      [] ~self /\ e[1] = "stealth-payment" -> [i \in DOMAIN e[3] |-> e[3][i].id]
      [] OTHER -> <<>>

\* What the entries of a message give together.
Items(entries, d, outbound) ==
    FlattenSeq([i \in DOMAIN entries |-> decodeEntry(entries[i], d, outbound)])
Coins(entries, d, outbound) ==
    FlattenSeq([i \in DOMAIN entries |-> EntryCoins(entries[i], d, outbound)])
Spends(entries, self) ==
    FlattenSeq([i \in DOMAIN entries |-> EntrySpends(entries[i], self)])

\* What the chat is given: the other party, the items and the coins.
finalizedMessage(m, outbound, items, stamps) ==
    <<IF outbound THEN m.destination ELSE m.source, items,
      IF outbound THEN <<>> ELSE stamps>>

\* receiveMessage.  The stamp's coins are put before the message is opened.  The
\* devices share no state: the sender's is taken to be the first.
receiveMessage(d) ==
    /\ message # None /\ message.payloadDigest # <<>>
    /\ d \in {Alice, sent.to} /\ shown[d] = NotYet /\ shown[Bob] = NotYet
    /\ LET m == message
           outbound == m.source = Priv(d)
           self == outbound /\ m.destination = Priv(d)
           stampKey == constructStampHDPrivateKey(m.payloadDigest, Priv(d))
           stamps == StampOutpoints(stampKey, m.stamp, outbound)
           entries == decrypt(SharedKey(m, d, outbound), Payload(m))[2]
           opened == ~OpenThrows(m, d, outbound)
           paid == {m.stamp[i].id : i \in DOMAIN m.stamp}
       IN  IF ParseThrows(m) \/ sha256(Payload(m)) # m.payloadDigest
           THEN shown' = [shown EXCEPT ![d] = Nothing] /\ UNCHANGED <<owned, spent>>
           ELSE /\ shown' = [shown EXCEPT ![d] =
                      IF ~opened \/ self THEN Nothing
                      ELSE finalizedMessage(m, outbound, Items(entries, d, outbound), stamps)]
                /\ owned' = [owned EXCEPT ![d] =
                      IF outbound THEN {}
                      ELSE ToSet(stamps) \cup
                           IF opened THEN ToSet(Coins(entries, d, outbound)) ELSE {}]
                /\ spent' = [spent EXCEPT ![d] =
                      IF ~outbound THEN {}
                      ELSE paid \cup
                           IF opened THEN ToSet(Spends(entries, self)) ELSE {}]
    /\ UNCHANGED <<sent, message, fault, payloads, restored, chain, redeemed>>

-----------------------------------------------------------------------------
(* The stamps kept with a received message, without their keys: these are
   derived again from the digest and the outpoints, grouped by transaction.  An
   older version has kept transaction ids of another form. *)

Kept(legacy) ==
    [i \in DOMAIN shown[Bob][3] |->
        IF legacy THEN [shown[Bob][3][i] EXCEPT !.tx = <<"lotus", @>>]
                  ELSE shown[Bob][3][i]]

\* Counted through, without the groups.
PlaceOverall(stamps, i) == i - 1

\* The place of outpoint i in its group, and of its group among the groups.
Place(stamps, i) == Cardinality({k \in 1 .. i - 1 : stamps[k].tx = stamps[i].tx})

Group(stamps, i) ==
    LET First(t) == Min({k \in DOMAIN stamps : stamps[k].tx = t})
        ids == {stamps[k].tx : k \in DOMAIN stamps}
    IN  Cardinality({t \in ids : First(t) < First(stamps[i].tx)})

deriveReceivedStampKeys(digest, stamps) ==
    LET hd == constructStampHDPrivateKey(digest, Priv(Bob))
        derived == {[stamps[i] EXCEPT !.key =
                        Outpoint(hd, Group(stamps, i), Place(stamps, i))] :
                       i \in DOMAIN stamps}
    IN  {c \in derived : c.addr = c.key}

\* The live output: the exact one, or the only one with the address and amount.
resolveLiveReceivedStamp(c) ==
    LET matching == {o \in chain : o.addr = c.addr}
        exact == {o \in matching : o.tx = c.tx /\ o.out = c.out}
        live == IF Cardinality(matching) = 1 THEN matching ELSE exact
    IN  {[c EXCEPT !.tx = o.tx, !.out = o.out] : o \in live}

\* After a restart; a stamp that cannot be resolved is skipped.
rehydrateReceivedStampUtxos(legacy) ==
    /\ Len(shown[Bob]) = 3 /\ restored = {}
    /\ LET derived == deriveReceivedStampKeys(message.payloadDigest, Kept(legacy))
       IN  restored' = {[coins |-> UNION {resolveLiveReceivedStamp(c) : c \in derived},
                         chain |-> chain, legacy |-> legacy]}
    /\ UNCHANGED <<sent, message, fault, payloads, shown, owned, spent, chain,
                   redeemed>>

\* All stamps of a message are spent together with another coin, or none.
redeemStampForProof(legacy) ==
    /\ Len(shown[Bob]) = 3 /\ shown[Bob][3] # <<>> /\ redeemed = {}
    /\ LET derived == deriveReceivedStampKeys(message.payloadDigest, Kept(legacy))
           live == UNION {resolveLiveReceivedStamp(c) : c \in derived}
       IN  /\ Cardinality(derived) = Len(shown[Bob][3])
           /\ \A c \in derived : resolveLiveReceivedStamp(c) # {}
           /\ redeemed' = live
           /\ chain' = {o \in chain : \A c \in live : ~Same(c, o)}
    /\ UNCHANGED <<sent, message, fault, payloads, shown, owned, spent, restored>>

\* Another device of the recipient spends a stamp; somebody pays the same amount
\* to its address once more.
ChainMoves ==
    /\ Len(shown[Bob]) = 3 /\ redeemed = {} /\ restored = {}
    /\ \E o \in chain :
         \/ chain' = chain \ {o}
         \/ o.out < 9 /\ chain' = chain \cup {[o EXCEPT !.out = 9]}
    /\ UNCHANGED <<sent, message, fault, payloads, shown, owned, spent, restored,
                   redeemed>>

EnvelopeNext ==
    \/ \E at \in Placements :
          sendMessage(at) \/ sendImage(at) \/ sendStealthPayment(at)
    \/ sendToPubKeyHash
    \/ RelayAnswers
    \/ \E d \in Devices : receiveMessage(d)
    \/ \E legacy \in BOOLEAN :
          rehydrateReceivedStampUtxos(legacy) \/ redeemStampForProof(legacy)
    \/ ChainMoves

EnvelopeSpec == EnvelopeInit /\ [][EnvelopeNext]_envelopeVars

-----------------------------------------------------------------------------
Shows(d, other) == shown[d][1] = Priv(other) /\ shown[d][2] = sent.items

StampCoins == {c \in owned[Bob] : c.kind = "stamp"}

\* A message means the same on every device.  As it was sent, it shows the
\* recipient and the sender's other devices the same items, gives the
\* recipient every coin of its stamp and payments and nobody else any, and
\* takes the inputs of all its transactions from the sender's wallet.  A
\* message that was made or changed otherwise is shown as it was sent or not
\* at all.  A coin in a wallet can be spent with the key kept for it.  After a
\* restart, and when a stamp is redeemed, the derived keys belong to outputs
\* that are unspent, and the stamps that are come back, those kept with ids of
\* another form too unless their address was paid twice.
OpenedAsSent ==
    /\ \A d \in Devices : \A c \in owned[d] : c.key = c.addr
    /\ \A d \in Devices :
         shown[d] \notin {NotYet, Nothing} =>
            Shows(d, IF d = Alice THEN Bob ELSE Alice)
    /\ \A c \in redeemed : c.key = c.addr
    /\ \A r \in restored : \A c \in r.coins :
         c.key = c.addr /\ \E o \in r.chain : Same(c, o)
    /\ fault = "none" =>
         /\ shown[Bob] # NotYet =>
              /\ Shows(Bob, Alice)
              /\ {c.tx : c \in owned[Bob]} = sent.txs
         /\ shown[Alice] # NotYet =>
              /\ owned[Alice] = {} /\ spent[Alice] = sent.txs
              /\ sent.to = Bob => Shows(Alice, Bob)
         /\ \A r \in restored, c \in StampCoins :
              (/\ \E o \in r.chain : Same(c, o)
               /\ r.legacy => \A o, q \in r.chain : o.addr = q.addr => o = q)
              => \E e \in r.coins : Same(c, e)

=============================================================================
