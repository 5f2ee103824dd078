# Finney: TLA+ models and proofs

Finney is a desktop messenger on the eCash chain. A message is paid for with a
*stamp*, an ordinary transaction to keys that only the recipient can derive,
and delivered through a relay. Its core is therefore two stores that follow
something outside the process (a chain, a mailbox) and one operation that must
touch both in the right order (pay, then deliver). Around it lie the pages
that set an identity up, the chats, a paid forum, the messages' encoding and
encryption, and the desktop shell with its protected state. This directory
models these from the source, model-checks them on small instances and proves
all of the safety properties (wallet, coin selection, transactions, envelopes,
sending, receiving, chats, registry and forum, set-up, desktop) for instances
of any size, but for the one of the wire format.
`PROJECT.json` maps each definition to the lines it stands for.

Paths below are relative to the repository; `W` is
`src/cashweb/wallet/index.ts`, `R` is `src/cashweb/relay/index.ts`, `REG` is
`src/cashweb/registry/index.ts`.

## 1. Inventory

| Component | State | Operations | Talks to |
|---|---|---|---|
| Wallet (`W`) | `txIdHandled`, listener, polling timer, requests under way | `init`, `updateHDUTXOs`, `refreshUTXOsByAddr`, `addressUpdated`, `updateUTXOsFromTxid`, `checkAndFixUtxos`, `fixUtxos`, `updateAllOutpoints`, `constructTransaction`, `constructTransactionSet`, `finalizeTransaction`, `forwardUTXOsToPubkey` | UTXO store, Chronik |
| UTXO store (`wallet/storage/level-storage.ts`, `boot/setup-apis.ts`, `stores/wallet.ts`) | in-memory map, tombstones, database, GUI balance | `put`, `deleteById`, `freezeById`, `unfreezeById`, `clear`, `loadData` | wallet, GUI |
| Chronik (external) | the chain | UTXO and transaction queries, broadcast, notifications | wallet |
| Relay client, sending (`R`) | one call of `sendMessageImpl` per send | check, preflight, broadcast, deliver with retries, save, announce | wallet, relay, chat |
| Relay client, receiving (`R`, `App.vue`) | websocket, refresh, message pages | `setUpWebsocket`, `receiveMessage`, `refresh`, `getMessages` with its 402, `deleteMessage` | relay, message store, chat, wallet |
| Message store (`relay/storage/level-storage.ts`) | messages, `lastServerTime` | `saveMessage`, `getMessage`, `mostRecentMessageTime`, `deleteMessage` | relay client, chat |
| Message construction and crypto (`relay/constructors.ts`, `crypto.ts`, `extension.ts`, `encode-entry.ts`, `decode-entry.ts`) | none | build, encrypt, open, check, derive the keys of stamps | relay client, wallet |
| Chat store (`stores/chats.ts`) | chats, message index, unread counts, active chat | `receiveMessages`, `sendMessageLocal`, `deleteMessage`, `deleteChat`, rehydration | GUI, relay client |
| Contacts (`stores/contacts.ts`, `pages/AddContact.vue`), pinia persistence | keys and profiles per address | refresh, add, delete, look up; save and restore | registry, chat |
| Topics (`stores/topics.ts`) | topics, message index, replies | `setEntries`, `setMessage`, `refreshMessages`, `fetchMessage`, `deleteTopic` | registry |
| Registry handler (`REG`, `cashweb/pop.ts`) | none | metadata, posts and offerings, each paid with a burn; reading | wallet, registry |
| Local relay and registry (`local-services/server.js`) | mailboxes, payloads, sockets, profiles, keys, posts (memory only) | validate, PUT, GET, DELETE, websocket, authorise | clients |
| Set-up pages (`pages/Setup.vue`, `boot/setup-apis.ts`, `App.vue`) | step, seed, relay data, stored key and profile | three steps, `setUpRelay`, `setUpRegistry`, `setupConnections` | worker, registry, relay |
| Signal state (`src-electron/private-state.js`, `signal-*.js`) | encrypted records, staged batch | stage, commit, provision, receive | Electron shell |
| Electron shell (`src-electron/electron-main.js`) | instance lock, proxy, window, tray | launch, configure, create window, activate, quit | - |
| Generated protocol buffers (`cashweb/**/*_pb.js`) | messages | accessors, `toObject`, reader, writer | all clients |
| bitcore `Transaction` (`local_modules/bitcore-lib-xec`) | inputs, outputs, change, fee, cached amounts | builder calls, sort, sign, serialise | wallet |

What is hard in it: JavaScript runs one turn at a time, but nearly every
operation awaits, and what was read before an `await` is used after it. Coins
are changed by refreshes, notifications, checks and payments at once. Database
writes of the UTXO store are not awaited. A message reaches the client over a
websocket and in a refresh that do not know of each other, and is saved in
three database operations. A request whose reply is lost may have been carried
out. Answers to lookups and pages arrive in any order while the user deletes
what they are about. A second click starts the work of a page again before the
first has ended. Any process may stop between any two of these steps. The
`hazards` of `PROJECT.json` list each place.

What makes the parts correct:

* **Wallet and UTXO store.** A coin that was spent is not selected again; an
  unspent coin is not lost; a coin that a payment holds is not given to
  another; the balance and the store agree; stored coins catch up with the
  chain; the transactions of a set pay what was asked, with change and fee
  within the code's limits.
* **Sending.** No delivery before payment; no payment for what the relay will
  refuse; "confirmed" means delivered; one payment per message; every send ends.
* **Relay.** One copy of an envelope, whatever the retries; the message list
  and the payload table agree.
* **Receiving.** A message is shown once, saved, and still there after a
  restart; one bad message does not block others; what is opened is what was
  sent, and its coins can be spent.
* **Chats and contacts.** A message is listed once, in its chat; nothing stays
  "sending"; the key kept for an address is that address's.
* **Registry and forum.** An acknowledged payment is not spent again, two calls
  do not hold the same coin; posts are listed once and replies found.
* **Set-up.** The phrase on disk is that of the key on disk; a client that says
  it is set up has been published.
* **Desktop.** One stable bundle that verifies and can be answered; a receipt
  consumes its prekey; no window without the proxy.
* **Encodings.** The four generated tables of a message type agree.

## 2. Modules

| Module | Models |
|---|---|
| `Chronik` | the chain as the wallet sees it (external): transactions are accepted, with unspent inputs only, or dropped |
| `UtxoStore` | `LevelUtxoStore`, the adapter of the boot file, the GUI's list of coins |
| `Wallet` | the wallet over both: start-up, refresh, notifications, polling, checks, payments |
| `CoinLifecycle` | abstract specification: the life of each coin in one process |
| `CoinSelection` | coins, change outputs and fees of a transaction or a set, in satoshis |
| `RelayServer` | mailbox, payload table and websocket of the local relay |
| `PaidSend` | `sendMessageImpl` and `pushMessagesWithRetry` over `RelayServer` |
| `MailboxSync` | the recipient's client, message store and chat over `RelayServer` |
| `Envelope` | one message from entry to display, with keys, stamps and their redemption |
| `Chats` | chat and contact stores, navigation, dialogs and their persistence |
| `RegistryPayments` | metadata, forum and mailbox payments with the coins they hold |
| `Forum` | posts and offerings at the registry and in the topic store, over `RegistryPayments` |
| `Setup` | the set-up pages, registry and relay profiles, `setupConnections` |
| `SignalState` | protected records, staged batch, provisioning, prekey messages |
| `ElectronShell` | instance lock, proxy, window and tray of several processes |
| `Desktop` | `ElectronShell` and `SignalState` together: calls run in a process, which may end |
| `Protobuf` | the google-protobuf runtime as the generated code uses it (external) |
| `RelayPb`, `PaymentPb`, `RegistryPb`, `EntriesPb` | the generated tables of each schema |
| `WireFormat` | a message filled, written, re-encoded, read |
| `Transaction` | bitcore's transaction object under any sequence of calls |
| `Totals` | sums of inputs and outputs, for `CoinSelection` and `Transaction` |
| `Subsequence` | the elements of a sequence at some positions: filters without recursion, for `Chats`, `MailboxSync`, `Forum` and `Envelope` |
| `WalletProofs`, `PaidSendProofs`, `MailboxProofs`, `RegistryProofs` | theorems about `Wallet`, `PaidSend`, `MailboxSync`, `RegistryPayments` with `Forum` |
| `PartsProofs` | theorems about `Setup` and `Envelope` |
| `ClientProofs` | theorems about the parts that `MCClient` instantiates: `Desktop` and `Chats` |
| `TransactionProofs` | theorems about `Transaction` and `CoinSelection` |
| `SequenceProofs` | lemmas about sequences, sums and induction that these rest on |
| `MCWallet`, `MCPaidSend`, `MCForum`, `MCClient`, `MCParts` | instances |

`MCClient` and `MCParts` hold several independent specifications. Their
variable `part` is chosen in the initial state and says which one runs; the
variables of the others keep their initial values. A run of such a module
explores the union of the state spaces, not their product.

**Granularity.** A step is what runs between two awaits. A request to Chronik
is two steps, the computation of the answer and the continuation that uses it;
so is a broadcast. Each database operation of the message store and of the
private state is a step; a batch is one. The UTXO store changes its map in the
same turn and writes to disk behind it: the write is a step
(`WriteReachesDisk`) that comes at any later time or never.

**Data.** In `Wallet` a coin is its outpoint and its address a function of its
output index; amounts, fees and keys are left out, so a payment selects any
non-empty set of coins that are not frozen (`CoinSelection` has the amounts,
`Envelope` the keys). In `PaidSend` and `MailboxSync` an envelope is its payload
digest; whether it is well-formed and carries the stamp commitment depends on
its bytes and is given by two sets. One message set carries one envelope. There
is one mailbox and, in `MailboxSync`, one chat.

**History variables.** Some invariants have exceptions that the code really
has. They are not hidden by narrowing the model: the step that leaves the rule
is taken, and a variable records it (`overlap` in `SignalState`; `byPage`,
`dropped` in `Chats`; `early` in `Forum`; `mixed`, `early` in `Setup`). Each
names one window, listed under the observations below.

### Wallet

`boot`, `listening` and `polling` are the progress of `init`; `want` and
`snaps` are the address requests of `updateHDUTXOs` before and after Chronik
computes the answer; `handled` is `txIdHandled` and `handling` its lookups under
way. `phase` and `held` are the progress and the inputs of each payment: a
message send (`Sends`, which freezes its inputs, checks them before broadcasting
and leaves them frozen on failure), or a forward (`Forwards`, which freezes
nothing and calls `fixUtxos` on failure); a registry payment is a member of
`Sends` that goes from "built" to the broadcast without a check and to
`fixUtxos` on failure. A send's inputs are deleted only when the envelope is
delivered and the message saved: phase "accepted" covers that whole time.
`check` is the progress of each `checkAndFixUtxos`, started by a payment or by
the sweep after a relay refresh (`Sweeps`).

Two oddities of the code are kept as they are. `refreshUTXOsByAddr` (W:205) calls
`ids.splice(ids.indexOf(id), 1)` also for a missing id, which drops the *last*
answer (`Misses`, `RefreshDeletes`). `fixUtxos` (W:413-430) filters its list
and then uses positions of the unfiltered one (`fixPairs`). `setXPrivKey` does
not await `init`, so that payments may run during the first refresh: their
guards only ask that the wallet has a key.

### PaidSend

`stage` is where a send of an envelope is in `sendMessageImpl`; `puts` and
`answers` are what is on the network. A PUT whose sender has given up may still
arrive. `LocalRelay` is the localhost test of `validateMessages`: other relays
are not asked before the broadcast. `resend` is the replay button, which builds
a new envelope for the same item.

### MailboxSync

A `task` is one message on its way through `receiveMessage` and `saveMessage`;
the same envelope may have one from the websocket and one from the refresh.
`refresh`, `page`, `threads` and `results` are `RelayClient.refresh` with its
`pAll`; `batches` are announced messages whose contacts are being loaded before
`receiveMessages` of the chat store runs.

### CoinSelection

`constructTransactionSet` with `StageCoin`, and `constructTransaction` with
`PickCoin`, take coins one by one; `AddChange`, `OneOff`, `Sweep` and `Finish` are
the steps of `finalizeTransaction`. The constants are those of the code; the
draws of `Math.random` and the shuffle of the outputs are choices. `SetPaysAsAsked` is the reference: what the
payees get, where the recorded output index points, and the bounds of fee and
change.

### Envelope

A key is the set of scalars it sums, a hash or cipher text a term. The sender
constructs stamp and stealth transactions for entries of each kind and sends
them; a fault (`Faults`) alters what arrives; the recipient opens, checks the
HMAC and the stamp, and stores coins with derived keys; both may restart and
derive the keys of stored stamps again, and the recipient redeems a stamp.

### Chats

`store` holds the index `messages` and the lists of each chat; `calls` are the
batches of `receiveMessages` that wait for a contact; `sends` is the progress of
own messages as far as the store sees it; `deleting`, `refreshing` and `page`
are the dialogs, profile requests and lookups under way. `findIndex` and
`splice(-1)` do what JavaScript does. The comparison of `lastRead` with a server
time may come out either way, as the clocks are not synchronised. A restart
loses all of it but what pinia and the message store have saved.

### RegistryPayments and Forum

`phase` follows each call from its request through the 402, the construction of
the payment (`wallet[c]` goes from "free" to "frozen"), the paying request and
its answer; `sent` and `taken` let a request arrive after its caller gave up.
`spent` and `indexed` differ while the indexer lags, which is when `fixUtxos`
after a failure may thaw a coin. `Forum` adds `items` at the registry, answers
in any order, and the index, lists and replies of the topic store.

### Setup

`work` is what each click on "next" is doing, `saved` what pinia has written,
`walletKey` and `token` the objects in memory, `registered` and `profiles` the
servers. The process and the local services may end anywhere. Verification of
a signed profile is modelled by whose identity it names.

### SignalState, ElectronShell, Desktop

`db` is the database, `local` and `staged` what a call of
`provisionSignalProfile` holds between its awaits. Inbound messages load the
prekeys, are decrypted and commit session, receipt and consumption in one
batch. In `Desktop` one process opens the database, and the calls under way end
with it; the keyring may stop decrypting.

### Protocol buffers

For each message type four tables are transcribed from the generated code:
accessors, `toObject`, reader, writer. `WireFormat` fills a message with any
accessor calls, writes it, lets another encoder reorder the fields or add
unknown ones, reads it and compares every accessor and `toObject`.

### Transaction

One record with inputs, outputs, change script and index, fee settings and the
cached amounts; one action per public builder call, including those the wallet
makes on the outputs directly. `readBack` marks a transaction rebuilt by
`fromObject` whose change has not been computed since.

### CoinLifecycle and the refinement

In one process a coin goes unknown → free ⇄ frozen → gone and never back; a new
process knows what it loads. `Wallet!Lifecycle` maps a coin to "frozen" or
"free" if it is in the map, to "gone" if it has a tombstone, and to "unknown"
otherwise; `LifecycleSpec` is `CoinLifecycle!Spec` under this mapping.

## 3. Runs

Passing runs:

| Run | Instance | Shows |
|---|---|---|
| `wallet_coins` | 2 transactions, 1 send, 1 restart | `TypeOK`; `CommittedInputsStayGone`; `HandledSpendsStayGone`; `ShownCoversCache`; `HeldThawedOnlyByCheckOrNotice`; `LifecycleSpec` |
| `wallet_stamps` | coins of received stamps only, 1 forward, 1 sweep | `CheckDeletesOnlyGone` |
| `wallet_polling` | 3 transactions, no payments, fairness | `PhantomsEventuallyGone` |
| `send_local` | 3 envelopes (one the relay refuses), 2 items, 3 attempts, 1 crash, clock 0..1, localhost relay | `TypeOK`; `PaidBeforeRelayed`; `PaidNeverRefused`; `ConfirmedWasDelivered`; `OneCopy` |
| `send_settles` | 2 envelopes, other relay, fairness | `SendsSettle` |
| `sync_safety` | 2 envelopes, 2 PUTs, 2 threads, 2 tries, 1 broken socket or relay restart, 1 client restart | `TypeOK`; `ShownOnce`; `ShownIsSavedOrSaving`; `PayloadsListed` |
| `sync_live` | a readable, an unreadable and an own message, 3 PUTs, fairness | `NotifiedIsSaved`; `PageIsSaved` |
| `forum` | 2 coins, one call of each kind (3 made, 2 at once), a post, its reply and an offering, 2 reads | `PaidNotFree`; `HeldByOne`; `MailboxBounded`; `PostsListedOnce`; `RepliesAttached` |
| `client`, desktop | 2 processes, 2 provisioning calls, 1 prekey message, 2 ends of a process | `BundleBacked`; `BundlesVerify`; `StableProfile`; `ReceiptConsumes`; `WindowBehindTor` |
| `client`, chats | 2 addresses, 1 message in, 2 out, 2 batches, 4 clicks, 1 restart | `MessagesListedOnce`; `SendingInProgress`; `KeyBelongs`; `ReadWhileOpen` |
| `parts`, wire | every message type, empty or full, 2 setter calls | `WireAgrees` |
| `parts`, coins | up to 4 coins of 6 values, 5 amounts, 3 splits | `SetPaysAsAsked` |
| `parts`, envelope | up to 2 stamp and 2 stealth transactions, 7 faults, a restart | `OpenedAsSent` |
| `parts`, transaction | 6 calls, 2 inputs, 2 outputs besides the change | `ChangeUpToDate` |
| `parts`, setup | a new and an imported seed, 3 clicks of which 2 overlap, 1 end of a client or server | `PhraseOfKey`; `SetUpIsPublished` |

What the less obvious names mean:

* `HeldThawedOnlyByCheckOrNotice`: a coin a send holds becomes selectable again
  only through an outpoint check, the first notice of the transaction that
  made it or, for the coin of a stamp, by being stored again with its message.
* `PaidNotFree`: a coin whose payment was acknowledged is not selectable in the
  same process, also if a later step fails while the indexer lags.
* `StableProfile`: calls that do not overlap return one and the same bundle,
  which belongs to the stored identity, across failures and restarts.
* `KeyBelongs`: the key of a contact is the key of its address, except for one
  that `AddContact` filled with the answer of an older lookup.
* `OpenedAsSent`: what is shown is what was sent or nothing; coins taken into a
  wallet can be spent with the key kept for them, and come back after a restart.
* `SetUpIsPublished`: when `$status.setup` is true, the identity was registered
  and had a profile, and the profile kept is its own, except after work for two
  seeds at once (`mixed`) or after the second and the last step went on at once
  (`early`).

Runs that show a disagreement between the code and what is said of it:

| Run | Said | Shown |
|---|---|---|
| `wallet_refresh` | W:194: "Remove missing utxos" | W:205 also deletes a coin that the answer lists |
| `send_resend` | `FINNEY_STATUS.md:31`: never a replacement stamp | replay pays a second stamp after a failed delivery or a lost reply |

### Observations without a run

Met while modelling; the models keep the behaviour.

*Wallet.* The sweep at R:1417 calls `fixUtxos`, which W:413 says must not be
called "when others hold the UTXO", and unfreezes a coin that a send holds. The
GUI's list may hold a coin that the store refused because of its tombstone
(`setup-apis.ts:90`; hence `ShownCoversCache` is an inclusion). `fixUtxos` may
leave a confirmed coin frozen (W:424). `constructTransaction` freezes before it
builds, and the coins stay frozen if building throws (W:952); the same holds
for coins of a failed `addOfferings` (REG:379) and of the payment of a mailbox
402. A message that arrives a second time stores the coins of its stamp again
(R:1316), and `put` overwrites the record of a coin that a send has frozen.

*Coin selection.* A change output may hold 544 satoshis, two below the dust
limit. When the coins run out the fee may fall short (W:532-534). In a
transaction of two outputs the remainder goes to the payee; if it is negative
the output's setter throws. The shuffle is Sattolo's: the payee never keeps its
place.

*Sending and receiving.* The cursor is written before the message, so a stop in
between loses a message that was shown (`CORE_WORKING_BASELINE.md:16` says
history survives a restart); it is moved by the local clock of sent messages too
(R:961). The relay forgets the digest of a deleted message, so that a PUT that
arrives late brings it back (`server.js:329`). A stamp with an invalid output
shifts the indices from which its keys are derived again; a stamp kept under a
legacy id whose address was paid twice is not restored; `stealthValue` is
always 0; a text to oneself is never shown; p2pkh entries are unknown to
`decodeEntry`; a stripped payload is refused although its size is reported.

*Chats.* The loop over a batch returns at the first known message
(`chats.ts:577`), so the rest is not shown until a restart. A second delete of
a message removes the last one (`splice(-1)`). A message whose construction
failed has no digest and no menu, and a second one overwrites it in the index;
the `previousHash` branch is dead. `clearChat` and `deleteContact` leave index
and disk, so the history is back after a restart. A chat deleted while on the
screen can show unread messages after a notification click; unread counts of
chats never opened are lost at a restart and are not lowered by a delete.
`ensureChatState` passes an empty contact and therefore never fetches it. An
answer of `AddContact` to an older lookup attaches the wrong key.

*Registry and forum.* The local registry stores an offering as an item without
payload, which clients list as a post. A reply that is known before its parent
is never attached. A late answer recreates a deleted topic.

*Set-up.* Two workers that answer out of order leave a key that is not the
phrase's. A wallet that is begun again while the last step publishes clears the
key; if the client ends then, it has a profile without a key, and the next seed
inherits the profile. After a 404 the stepper moves on before the relay lookup, so the last
step can publish the profile of the seed before. A registry failure keeps the
earlier `relayUrl`, which `setUpRegistry` then overwrites. A profile PUT at the
default relay with another relay's token is refused with 401. After three
"insufficient funds" the page goes on without a token. A picture that is not
loaded in time leaves step 3 disabled. `setupConnections` publishes the default
URL again on any error of the lookup.

*Desktop.* Overlapping provisioning calls of one profile may mix identities;
the store has no lock.

*Protocol buffers.* A repeated `uint32` that another encoder did not pack is
misread.

*Transaction.* `removeOutput` before the change output leaves the change index;
a dangling one matches output 0 in `_newOutputOrder`. `fromObject` drops a
change index 0, a fee 0 and the rates. `addOutput`, `lockUntil` and
`shuffleOutputs` without a change address keep old signatures, which the
comments say are reset. `addInput` of an unsupported kind throws after the
push.

### Bounds

`MaxSnaps` bounds address answers waiting to be applied, `MaxRestarts`,
`MaxCrashes` and `MaxStops` ends of processes, `MaxClock` the relay's clock,
`MaxAttempts` the retries of a delivery (3 in the code), `MaxPuts` the PUTs of
senders, `MaxDrops` broken connections and relay restarts, `MaxRetries` the
refreshes of `setupConnections` (in `Forum`: the payments of one `getMessages`,
3 in the code), `Threads` the concurrency of `pAll`, `MaxBusy` and `MaxBegun`
registry calls at once and in all, `MaxFetches` reads of the forum, `MaxClicks`
and `MaxNext` what the user does, `MaxReg` registration ids, `MaxCalls` and
`MaxTxnCalls` calls on a protobuf message and on a transaction. What each is
enough for:

* Two transactions create a coin and spend it, which is what stale answers,
  late notifications and tombstones are about; `wallet_polling` and
  `wallet_refresh` need a third (two coins and a spender). One send against
  refreshes, notifications, other devices and a restart already brings every
  pair of steps on a coin together; two payments that compete for a coin are
  covered by the proofs, which hold for any number.
* One restart at any point, before or after each write, is the case a crash
  property is about: the new process has no memory of the old one but the disk.
  The desktop has two, so that the second one meets a half-provisioned store
  that the first one left.
* Three envelopes for two items give a resend beside an independent send.
* Two messages suffice for the orders of websocket, refresh and cursor; a clock
  with two values puts messages before, at and after the cursor.
* `wallet_coins` has derived coins, which refreshes and notifications follow,
  and `wallet_stamps` coins of stamps, which only checks follow; the mix of the
  two is covered by the proofs. That it matters was seen in one: a send that
  holds the coin of a stamp which is stored again needs both kinds of output,
  and only the proof of `HeldThawedOnlyByCheckOrNotice` met it.
* Three clicks on "next" reach every pair of overlapping steps of the set-up.
  A begun-again wallet that spoils the profile takes four, which make the run
  ten times larger; the theorems about `Setup` hold for any number.
* Two coins and two calls at once let a call select what another has lost or
  still holds; a third call comes after both. Two reads give two answers in
  either order.
* Two batches, a send and a delete with four clicks reach every pair of
  overlapping operations on a chat: open, send, delete, send again.
* The coin values lie on both sides of `minimumNewInputAmount` (5120) and of the
  smallest amounts from which change is made; the size limit of 520 is
  exceeded by three inputs with two outputs. Three change keys give a change
  output, a skipped key and a key tried last.
* Six calls on a transaction are two inputs, an output, a change address, a fee
  and one more, in any order.

Symmetry is used in safety runs only, over transactions, over envelopes with
the same verdict, over coins and over overlapping clicks. `client.cfg` gives
processes and own messages the same model values, and calls and batches, so
that one permutation serves both parts. `CHECK_DEADLOCK FALSE` stands in every
configuration: transactions, envelopes, clicks and restarts are used up and the
system then rests.

`DesktopTypeOK`, `ChatsTypeOK`, `ForumTypeOK` and `SetupTypeOK` state types and
are proved (section 4); the runs are kept to what could go wrong.

### Fairness

`wallet_polling`: the event loop runs every continuation and fires the timer
(weak fairness), and Chronik answers an address that is asked again and again
(strong fairness of `AddressAnswered`; each single request may fail). This is
an assumption about the service that the retry by polling relies on. Nothing is
assumed of payments, notifications or other devices.

`send_settles`: weak fairness of the steps of each send. A request is answered
or fails, since `PushLost`, `PushGivenUp` and `SendFails` are always possible
where the code awaits; nothing is assumed of the relay.

`sync_live`: weak fairness of the continuations. Senders, the clock, the
socket and the start of a refresh are free. The run has no crash, no broken
socket and one unreadable message for two threads: each unreadable message ends
a thread of `pAll` (R:1409), so with as many of them as threads the rest of the
page would wait for the next refresh.

## 4. Proofs

All theorems hold for any values of the constants that satisfy the named
assumptions of the modules: sets of transactions, outputs, envelopes, calls and
posts are finite; addresses derived by the wallet are addresses; kinds of
checkers, of calls and of messages are disjoint; the values that stand for
"none" are no members of the sets; bounds are natural numbers and there is at
least one delivery attempt. Nothing is assumed of the sizes, nor of which
envelopes are well-formed, which posts are replies or which seeds are imported.

Each safety theorem has the form `Spec => []P`. `P` is seldom inductive: it
speaks of what is stored or shown, and what keeps it true is elsewhere, in a
tombstone, in a request under way, in a record that another call holds. The
inductive invariants below say where. Each was checked by TLC on the instance
of its run before it was proved. A proof that a step preserves the invariant
has a case per action; the actions are grouped in lemmas by what they touch.

`WalletProofs`:

* `TypeCorrect`: `TypeOK`, one step per action.
* `CommittedInputsTheorem`, `HandledSpendsTheorem`, `ShownTheorem` rest on the
  inductive invariant `StoreInv`. The properties speak of what is *stored*, and
  are not inductive: a stale answer could put a coin back. What prevents it is
  the tombstone, so the invariant says that the inputs of a finished payment
  and of a processed transaction have tombstones (`CommittedDeleted`,
  `HandledDeleted`), that no stored coin has one (`TombstonesHold`), and that
  nothing is under way before the only action that clears tombstones without
  ending the process (`SetupEmpty`).
* `HeldThawedTheorem`, an action property, rests on `FrozenInv`: only stored
  coins are frozen, and an answer has coins of the address that was asked for.
  So a frozen coin in an answer is among the ids that `refreshUTXOsByAddr`
  finds stored, and is not put again. `ThawSteps` goes through the actions and
  shows which of them can take a coin out of `frozen` and leave it stored.
* `CheckDeletesTheorem` rests on `CheckInv`: each coin under check is still to be
  asked about, was seen unspent, or is gone (`CheckSound`). It needs that a
  coin under check was really created (`KnownCoins`), since only then does its
  absence from an answer mean that it was spent or dropped.
* `LifecycleTheorem`: `Spec => LifecycleSpec`, from `StoreInv` and a
  classification of every action as a move of the store (`StoreSteps`): a put
  that respects the tombstones, a freeze, a deletion, a restart.

`PaidSendProofs`: `SendTypeCorrect`, `PaidBeforeRelayedTheorem`,
`PaidNeverRefusedTheorem`, `ConfirmedTheorem` and `OneCopyTheorem` follow from the
inductive invariant `SendInv`: whatever stage, PUT or answer follows the
broadcast has been paid (`PaidFollows`), an answer tells what the relay did
(`TakenFollows`), what is past the preflight stays acceptable
(`PreflightHolds`), attempts are counted (`AttemptsBounded`).

`MailboxProofs`: `SyncTypeCorrect`, `ShownOnceTheorem`, `SavedTheorem` and
`PayloadsTheorem` follow from `SyncInv` (and `OneCopy` of the relay once more, with
this client). That a shown message is saved or being saved is not inductive: a
refresh hands its messages to `saveMessage` and announces them only when the
whole page is through. `AllHeld` therefore says it of everything announced, the
results of a page and the batches that wait for contacts included, and
`PageNotBegun` that no message of a page is at work before the relay has
answered, since the answer would take it back from `saveMessage`. That the
count of threads stays natural needs a thread for each message at work
(`ThreadForEach`).

`ClientProofs`, on `Chats`: `ChatsTypeCorrect`, `ListedOnceTheorem`, `SendingTheorem`,
`KeyTheorem` and `ReadTheorem` follow from `ChatsInv`. A digest that has not been
sent is nowhere, neither in the index nor on disk nor in a batch
(`UnsentIsNowhere`), so that the chat it goes to can still be chosen; a batch
repeats no message; the index has what the lists have (`Tidy`, preserved by each
operation of the store in a lemma of its own); the active chat is the one on
the screen or was deleted under it (`ActiveOnScreen`).

`RegistryProofs`:

* `ForumImplementsPayments`: `ForumSpec => PaySpec`. A step of the forum is one of
  the payments or leaves them alone, so that the theorems about payments hold
  under the forum.
* `HeldByOneTheorem`, `PaidNotFreeTheorem` and `MailboxBoundedTheorem` follow from
  `PayInv`: a call holds its coins while it is under way and for ever once it was
  acknowledged; coins of holders are disjoint and not free; the coins of an
  acknowledged burn are deleted and its call selects no more. So a coin that
  is selected is new to every holder, and a check that frees the coins of a
  failed call, with an answer of an indexer that lags, frees none of another's.
* `PostsOnceTheorem` and `RepliesTheorem` follow from `ForumInv`: an answer has
  each post once, since the registry keeps posts under their digests, and only
  the items of offerings, which have no payload, repeat (`AnswersOnce`); a known
  reply whose parent is not known was seen too early (`OrphansAreEarly`), as
  `setEntries` looks for parents after the whole answer is in the index.

`PartsProofs`, on `Setup`: `PhraseTheorem` and `SetUpTheorem` follow from `SetupInv`, in three
layers. `Progress` holds always: what a page or a piece of work has behind it.
While no wallet was begun beside work for another seed, all work is for the
phrase on disk (`SeedInv`). While the second and the last step never went on at
once either, the profile at hand is that of the key, and a profile is on disk
only after its identity was registered and published (`PublishInv`).

`PartsProofs`, on `Envelope`: `EnvelopeTheorem` follows from `EnvelopeInv`, for any
number of transactions of a stamp or payment and any set of faults. The
property speaks of what the devices show and own; what keeps it true is how the
message relates to what its sender entered. The invariant names the message
that was made (`Made`) and says what of it may be different when it is handed
out: never the parties nor the digest, the payload, HMAC and stamp only in the
way of a fault, and nothing if there is none (`HandedWell`). Every unspent output is at a key of the stamp
(`PaidWell`), also after somebody has paid to its address again, and the
recipient shows the stamps as they were sent (`SeenWell`). The rest is what the
pure parts compute: an entry gives back the item it was made of, with a coin
and a key for every output (`Decoded`, `StealthDecoded`); both sides derive the
same secrets and keys (`MulSymmetric`, `StealthKeyOf`, `ScalarKeys`); whoever
opens the message has the sender's shared key, as the HMAC is a term of it
(`Opened`); and the i-th stamp is the first of the i-th group, so that
`deriveReceivedStampKeys` derives every key again, also from ids of another form
(`GroupOf`, `DerivedAll`), and `resolveLiveReceivedStamp` finds its output
(`ResolvesTo`).

`ClientProofs`, on `Desktop`: `WindowTheorem`, `BundleBackedTheorem`, `BundlesVerifyTheorem`,
`StableProfileTheorem` and `ReceiptTheorem`, with `DesktopTypeCorrect`, for any
number of processes, calls and messages and any process ending between two
steps. `RecordsHeld` says what a call has read or made at each step, `PreKeysDone`
that stored prekeys are of a finished call, `StoreAsRead` that what a call has
read is still stored as long as no two calls overlapped.

`TransactionProofs`, on `Transaction`: `TxnTypeCorrect` and `ChangeTheorem`
follow from `TxnInv`, for any number of inputs and outputs and all amounts, fees
and rates. `ChangeUpToDate` compares the change with the fee that `getFee`
computed when the change was made, without the change output; the invariant
has the same fact about the transaction as it is now (`ChangeRight`): the size
is that of the outputs less the change output's, the amount at hand that of
the inputs less the other outputs (`FeeFor`). It is then shown once for
`_updateChangeOutput` (`UpdateRight`), and carried over the calls that keep the
sums: a new order, which `_newOutputOrder` follows with the change index
(`NewOrder`), signatures and lock times. Calls that alter inputs, outputs or
rates end in an update (`ChangingCalls`).

`TransactionProofs`, on `CoinSelection`: `CoinTypeCorrect` and `PaysTheorem` follow
from `CoinInv`. The payees of the finished transactions, of the one at hand and
what is left make the amount asked for at every step (`SetSoFar`); the payee's
output is the first until the shuffle, and change is at least dust. The fee
bound is the delicate part: `StageCoin` reserves 34 bytes for the output it adds
and `_estimateSize` counts 35, so that from then on the fee is up to one byte's
rate short of the estimate (`FeeEnough`), the sweep may take that much from a
change output, and only the true size, a byte less for each output, is always
paid for. `ShuffleOrders` shows that whatever is drawn, `shuffleArray` orders the
outputs and the places alike, so that the recorded index is the payee's. The
size limit plays no part in these proofs: it can only end a call.

`SequenceProofs` has what the lists and sums need: the least element of a set of
positions, what `Picked` returns and preserves, when appending, removing,
concatenating and ordering keep a sequence free of repetitions, how `Total`
changes when an element is appended, changed, removed or the order is another,
and what `FlattenSeq` makes of the sequences of a sequence.
The induction theorems of the library take an operator as a parameter, which
the provers cannot instantiate. Two lemmas stand in for them: `InductionOverNat`
takes a *set* that has zero and successors, and `Iterates` gives the function
that a recursive function definition denotes, from which `TotalDef`,
`ShuffleSteps` and `FlattenSteps` get the equations of `Total`, `shuffleArray` and
`FlattenSeq`.

What the proofs found. Two properties that the runs had passed were false in
larger instances, and were corrected, with their exceptions named:
`HeldThawedOnlyByCheckOrNotice` (a stamp stored again) and `SetUpIsPublished` (a
wallet begun again while the profile is published). Both are listed under the
observations of section 3.

Model-checked only:

* `PhantomsEventuallyGone`, `SendsSettle`, `NotifiedIsSaved`, `PageIsSaved`:
  liveness under fairness is out of the prover's reach.
* `WireAgrees`: the tables are read by recursive operators, which the prover does
  not take.

## 5. Not modelled

* Derivation of the wallet's addresses from its seed (module `Setup` has only
  that the key is the seed's).
* Several envelopes in one set; the values and stamp amounts of messages in the
  chat lists; `wipeWallet` and the `clear` of the stores.
* In `MailboxSync`: the recipient's clock and the relay's are one; at most one
  websocket copy of an envelope is worked on at a time; the coins that a
  deletion forwards (module `Wallet`).
* Persistence of topics, the appearance, forum and relay-client stores beyond
  what `Setup` uses: records with setters.
* A websocket that is opened again without a refresh (R:441) and a sender that
  stops between broadcast, delivery and save (R:983) are behaviours of
  `MailboxSync` and `PaidSend`, but nothing in the code repairs them and no
  property is stated.
* bn.js, elliptic curve, script interpreter, keys and addresses of the bitcore
  fork: sequential arithmetic and byte formats, which `Envelope` and
  `Transaction` take as terms; multisig inputs.
* Presentation.

## 6. Plan

Done: all modules above; the proofs of `Wallet`, `PaidSend`, `MailboxSync`,
`Chats`, `RegistryPayments`, `Forum`, `Setup`, `Desktop`, `Transaction` and
`CoinSelection`. Worth doing next: two clocks in `MailboxSync`.

`WireFormat` declares recursive operators and stays with the model checker.
