---------------------------- MODULE ClientProofs ----------------------------
(***************************************************************************)
(* The desktop application and its chat pages.                             *)
(*                                                                         *)
(* The desktop: for any number of processes, of calls that provision a     *)
(* profile and of inbound messages, in any overlap and with any process    *)
(* ending between two steps.                                               *)
(*                                                                         *)
(* The chat pages, for every number of addresses, messages, calls, clicks  *)
(* and restarts. That a message is on the screen at most once needs two    *)
(* facts that the index guards of stores/chats.ts do not show by           *)
(* themselves: a digest that was never sent is nowhere yet, neither in the *)
(* index nor on disk nor in a batch under way (so that its chat may still  *)
(* be chosen), and a batch repeats no message. That the open chat is read  *)
(* needs that the active chat is the one on the screen or was deleted      *)
(* under it.                                                               *)
(***************************************************************************)
EXTENDS Desktop, Chats, SequenceProofs

-----------------------------------------------------------------------------
(* The shell.                                                              *)

\* A window that was closed was once open: activate may open it again.
WindowWasBehindTor == \A p \in Procs : mainWindow[p] # "undefined" => p \in proxied

ShellInv == ShellTypeOK /\ WindowWasBehindTor

\* Every step of electron-main.js keeps the proxy before the window.
LEMMA ShellStepInv == ShellInv /\ ShellStep => ShellInv'
<1> SUFFICES ASSUME ShellInv, ShellStep PROVE ShellInv'
    OBVIOUS
<1> USE DEF ShellInv, ShellTypeOK, WindowWasBehindTor
<1>1. PICK p \in Procs :
        \/ Launch(p) \/ whenReady(p) \/ SmokeTests(p) \/ configurePrivacyTransport(p)
        \/ ProxyFails(p) \/ activate(p) \/ CloseWindow(p) \/ TrayOpen(p)
        \/ TrayQuit(p) \/ MacClose(p)
  BY DEF ShellStep
<1>2. CASE Launch(p)
  BY <1>2 DEF Launch, Open
<1>3. CASE whenReady(p) \/ SmokeTests(p) \/ ProxyFails(p)
  BY <1>3 DEF whenReady, SmokeTests, ProxyFails
<1>4. CASE configurePrivacyTransport(p)
  BY <1>4 DEF configurePrivacyTransport, createWindow
<1>5. CASE activate(p)
  BY <1>5 DEF activate, createWindow
<1>6. CASE CloseWindow(p) \/ TrayOpen(p)
  BY <1>6 DEF CloseWindow, TrayOpen
<1>7. CASE TrayQuit(p) \/ MacClose(p)
  BY <1>7 DEF TrayQuit, MacClose, Open
<1> QED BY <1>1, <1>2, <1>3, <1>4, <1>5, <1>6, <1>7

\* A process that ends leaves neither a window nor a proxied session.
LEMMA ProcessEndsInv ==
    ASSUME NEW p \in Procs, ShellInv, ProcessEnds(p) PROVE ShellInv'
BY DEF ProcessEnds, ShellInv, ShellTypeOK, WindowWasBehindTor

-----------------------------------------------------------------------------
(* The Signal state.                                                       *)

\* The record a call works with is there from the step that reads or makes it
\* on, and the adapter's from createStagedSignalStore on.
RecordsHeld ==
    \A c \in Calls :
        /\ pc[c] \in {"put", "stage", "build", "commit"} => local[c] \in Identities
        /\ pc[c] \in {"build", "commit"} => staged[c] \in Identities

\* A one-time prekey that is stored, loaded or consumed was committed: its call
\* is over, so that no later commit brings it back.
PreKeysDone ==
    /\ db.prekey # None => pc[db.prekey] = "done"
    /\ \A m \in Inbound : inbox[m] # "waiting" => base[m] \in Calls /\ pc[base[m]] = "done"
    /\ \A r \in db.receipts : pc[r[2]] = "done"

\* While calls do not overlap, the one under way finds the store as it has read
\* it: no profile, and the identity it holds.
StoreAsRead ==
    ~overlap =>
        /\ \A c, d \in Calls : Active(c) /\ Active(d) => c = d
        /\ \A c \in Calls :
            /\ pc[c] \in {"identity", "put", "stage", "build", "commit"} => db.profile = None
            /\ pc[c] = "put" => db.identity = None
            /\ pc[c] \in {"stage", "build", "commit"} => db.identity = local[c]
            /\ pc[c] \in {"build", "commit"} => staged[c] = local[c]

SignalInv ==
    /\ SignalTypeOK /\ RecordsHeld /\ PreKeysDone /\ StoreAsRead
    /\ BundleBacked /\ BundlesVerify /\ StableProfile /\ ReceiptConsumes

\* Every step of a provisioning call keeps the invariant.
LEMMA ProvisionStepInv ==
    ASSUME SignalInv, NEW c \in Calls,
           \/ provisionSignalProfile(c) \/ ProfileFound(c) \/ ProfileMissing(c)
           \/ IdentityFound(c) \/ IdentityMissing(c) \/ IdentityStored(c)
           \/ createStagedSignalStore(c) \/ StagePreKeys(c) \/ commit(c)
           \/ ProvisionFails(c)
    PROVE  SignalInv'
<1> USE SignalAssumption DEF SignalInv
<1>1. CASE provisionSignalProfile(c)
  <2> USE <1>1 DEF provisionSignalProfile, Go, Active
  <2>1. SignalTypeOK' /\ RecordsHeld'
    BY DEF SignalTypeOK, PrivateState, RecordsHeld
  <2>2. PreKeysDone' /\ ReceiptConsumes' /\ BundleBacked'
    BY DEF SignalTypeOK, PrivateState, PreKeysDone, ReceiptConsumes, BundleBacked
  <2>3. StoreAsRead'
    BY DEF SignalTypeOK, PrivateState, StoreAsRead
  <2>4. BundlesVerify' /\ StableProfile'
    BY DEF SignalTypeOK, PrivateState, BundlesVerify, StableProfile
  <2> QED BY <2>1, <2>2, <2>3, <2>4
<1>2. CASE ProfileFound(c)
  <2> USE <1>2 DEF ProfileFound, Get, Go, Active
  <2>1. SignalTypeOK' /\ RecordsHeld'
    BY DEF SignalTypeOK, PrivateState, RecordsHeld
  <2>2. PreKeysDone' /\ ReceiptConsumes' /\ BundleBacked'
    BY DEF SignalTypeOK, PrivateState, PreKeysDone, ReceiptConsumes, BundleBacked
  <2>3. StoreAsRead'
    BY DEF SignalTypeOK, PrivateState, StoreAsRead
  <2>4. BundlesVerify' /\ StableProfile'
    BY DEF SignalTypeOK, PrivateState, BundlesVerify, StableProfile
  <2> QED BY <2>1, <2>2, <2>3, <2>4
<1>3. CASE ProfileMissing(c)
  <2> USE <1>3 DEF ProfileMissing, Get, Go, Active
  <2>1. SignalTypeOK' /\ RecordsHeld'
    BY DEF SignalTypeOK, PrivateState, RecordsHeld
  <2>2. PreKeysDone' /\ ReceiptConsumes' /\ BundleBacked'
    BY DEF SignalTypeOK, PrivateState, PreKeysDone, ReceiptConsumes, BundleBacked
  <2>3. StoreAsRead'
    BY DEF SignalTypeOK, PrivateState, StoreAsRead
  <2>4. BundlesVerify' /\ StableProfile'
    BY DEF SignalTypeOK, PrivateState, BundlesVerify, StableProfile
  <2> QED BY <2>1, <2>2, <2>3, <2>4
<1>4. CASE IdentityFound(c)
  <2> USE <1>4 DEF IdentityFound, Get, Go, Active
  <2>1. SignalTypeOK' /\ RecordsHeld'
    BY DEF SignalTypeOK, PrivateState, RecordsHeld
  <2>2. PreKeysDone' /\ ReceiptConsumes' /\ BundleBacked'
    BY DEF SignalTypeOK, PrivateState, PreKeysDone, ReceiptConsumes, BundleBacked
  <2>3. StoreAsRead'
    BY DEF SignalTypeOK, PrivateState, StoreAsRead
  <2>4. BundlesVerify' /\ StableProfile'
    BY DEF SignalTypeOK, PrivateState, BundlesVerify, StableProfile
  <2> QED BY <2>1, <2>2, <2>3, <2>4
<1>5. CASE IdentityMissing(c)
  <2> USE <1>5 DEF IdentityMissing, Get, Go, Active, Identities
  <2>1. SignalTypeOK' /\ RecordsHeld'
    BY DEF SignalTypeOK, PrivateState, RecordsHeld
  <2>2. PreKeysDone' /\ ReceiptConsumes' /\ BundleBacked'
    BY DEF SignalTypeOK, PrivateState, PreKeysDone, ReceiptConsumes, BundleBacked
  <2>3. StoreAsRead'
    BY DEF SignalTypeOK, PrivateState, StoreAsRead
  <2>4. BundlesVerify' /\ StableProfile'
    BY DEF SignalTypeOK, PrivateState, BundlesVerify, StableProfile
  <2> QED BY <2>1, <2>2, <2>3, <2>4
<1>6. CASE IdentityStored(c)
  <2> USE <1>6 DEF IdentityStored, Go, Active
  <2>1. SignalTypeOK' /\ RecordsHeld'
    BY DEF SignalTypeOK, PrivateState, RecordsHeld
  <2>2. PreKeysDone' /\ ReceiptConsumes' /\ BundleBacked'
    BY DEF SignalTypeOK, PrivateState, PreKeysDone, ReceiptConsumes, BundleBacked
  <2>3. StoreAsRead'
    BY DEF SignalTypeOK, PrivateState, StoreAsRead
  <2>4. BundlesVerify' /\ StableProfile'
    BY DEF SignalTypeOK, PrivateState, BundlesVerify, StableProfile, StoreAsRead
  <2> QED BY <2>1, <2>2, <2>3, <2>4
<1>7. CASE createStagedSignalStore(c)
  <2> USE <1>7 DEF createStagedSignalStore, Get, Go, Active
  <2>1. SignalTypeOK' /\ RecordsHeld'
    BY DEF SignalTypeOK, PrivateState, RecordsHeld
  <2>2. PreKeysDone' /\ ReceiptConsumes' /\ BundleBacked'
    BY DEF SignalTypeOK, PrivateState, PreKeysDone, ReceiptConsumes, BundleBacked
  <2>3. StoreAsRead'
    BY DEF SignalTypeOK, PrivateState, StoreAsRead
  <2>4. BundlesVerify' /\ StableProfile'
    BY DEF SignalTypeOK, PrivateState, BundlesVerify, StableProfile
  <2> QED BY <2>1, <2>2, <2>3, <2>4
<1>8. CASE StagePreKeys(c)
  <2> USE <1>8 DEF StagePreKeys, Go, Active
  <2>1. SignalTypeOK' /\ RecordsHeld'
    BY DEF SignalTypeOK, PrivateState, RecordsHeld
  <2>2. PreKeysDone' /\ ReceiptConsumes' /\ BundleBacked'
    BY DEF SignalTypeOK, PrivateState, PreKeysDone, ReceiptConsumes, BundleBacked
  <2>3. StoreAsRead'
    BY DEF SignalTypeOK, PrivateState, StoreAsRead
  <2>4. BundlesVerify' /\ StableProfile'
    BY DEF SignalTypeOK, PrivateState, BundlesVerify, StableProfile
  <2> QED BY <2>1, <2>2, <2>3, <2>4
<1>9. CASE ProvisionFails(c)
  <2> USE <1>9 DEF ProvisionFails, Leave, Active
  <2>1. SignalTypeOK' /\ RecordsHeld'
    BY DEF SignalTypeOK, PrivateState, RecordsHeld
  <2>2. PreKeysDone' /\ ReceiptConsumes' /\ BundleBacked'
    BY DEF SignalTypeOK, PrivateState, PreKeysDone, ReceiptConsumes, BundleBacked
  <2>3. StoreAsRead'
    BY DEF SignalTypeOK, PrivateState, StoreAsRead
  <2>4. BundlesVerify' /\ StableProfile'
    BY DEF SignalTypeOK, PrivateState, BundlesVerify, StableProfile
  <2> QED BY <2>1, <2>2, <2>3, <2>4
<1>10. CASE commit(c)
  <2> USE <1>10 DEF commit, Go, Leave, Active
  <2> DEFINE b == BundleOf(c)
  <2>1. local[c] \in Identities /\ staged[c] \in Identities
    BY DEF RecordsHeld
  <2>2. /\ b \in Bundles /\ b.reg = local[c].reg /\ b.identity = staged[c].key
        /\ b.prekeys = c /\ b.signer = b.identity /\ b.reg \in 1..MaxReg
    BY <2>1 DEF BundleOf, Identities, Bundles
  <2> HIDE DEF b
  <2>3. /\ db' = [db EXCEPT !.prekey = c, !.signed = c, !.kyber = c, !.profile = b]
        /\ returned' = [returned EXCEPT ![c] = b]
    BY DEF b
  <2>4. SignalTypeOK'
    <3>1. db' \in PrivateState
      BY <2>2, <2>3, ZenonT(60) DEF SignalTypeOK, PrivateState
    <3> QED BY <2>2, <2>3, <3>1 DEF SignalTypeOK, PrivateState
  <2>5. RecordsHeld' /\ PreKeysDone' /\ BundleBacked'
    BY <2>2, <2>3 DEF SignalTypeOK, PrivateState, RecordsHeld, PreKeysDone, BundleBacked
  <2>6. StoreAsRead'
    BY <2>3 DEF SignalTypeOK, PrivateState, StoreAsRead
  <2>7. BundlesVerify'
    BY <2>2, <2>3 DEF SignalTypeOK, PrivateState, BundlesVerify, toPreKeyBundle, validateBundle
  <2>8. StableProfile'
    BY <2>2, <2>3 DEF SignalTypeOK, PrivateState, StoreAsRead, StableProfile
  <2>9. ReceiptConsumes'
    <3>1. \A r \in db.receipts : r[2] # c
      BY DEF PreKeysDone
    <3> QED BY <2>3, <3>1 DEF SignalTypeOK, PrivateState, ReceiptConsumes
  <2> QED BY <2>4, <2>5, <2>6, <2>7, <2>8, <2>9
<1> QED BY <1>1, <1>2, <1>3, <1>4, <1>5, <1>6, <1>7, <1>8, <1>9, <1>10

\* So does the receipt of a message.
LEMMA ReceiveStepInv ==
    ASSUME SignalInv, NEW m \in Inbound,
           \/ LoadPreKeys(m)
           \/ \E ok \in BOOLEAN : Decrypted(m, ok) \/ Received(m)
    PROVE  SignalInv'
<1> USE SignalAssumption DEF SignalInv
<1>1. CASE LoadPreKeys(m)
  <2> USE <1>1 DEF LoadPreKeys, Get
  <2>1. SignalTypeOK' /\ RecordsHeld'
    BY DEF SignalTypeOK, PrivateState, RecordsHeld
  <2>2. PreKeysDone'
    <3>1. PICK k \in Calls : db.prekey = k /\ base' = [base EXCEPT ![m] = k]
      OBVIOUS
    <3>2. pc[k] = "done"
      BY <3>1 DEF PreKeysDone
    <3> QED BY <3>1, <3>2 DEF SignalTypeOK, PrivateState, PreKeysDone
  <2>3. StoreAsRead' /\ BundleBacked' /\ BundlesVerify' /\ StableProfile' /\ ReceiptConsumes'
    BY DEF StoreAsRead, Active, BundleBacked, BundlesVerify, StableProfile, ReceiptConsumes
  <2> QED BY <2>1, <2>2, <2>3
<1>2. ASSUME NEW ok \in BOOLEAN, Decrypted(m, ok) PROVE SignalInv'
  <2> USE <1>2 DEF Decrypted
  <2>1. SignalTypeOK' /\ RecordsHeld' /\ PreKeysDone'
    BY DEF SignalTypeOK, PrivateState, RecordsHeld, PreKeysDone
  <2>2. StoreAsRead' /\ BundleBacked' /\ BundlesVerify' /\ StableProfile' /\ ReceiptConsumes'
    BY DEF StoreAsRead, Active, BundleBacked, BundlesVerify, StableProfile, ReceiptConsumes
  <2> QED BY <2>1, <2>2
<1>3. CASE Received(m)
  <2> USE <1>3 DEF Received
  <2>1. base[m] \in Calls /\ pc[base[m]] = "done"
    BY DEF PreKeysDone
  <2>2. SignalTypeOK'
    <3>1. db.used \cup {base[m]} \in SUBSET Calls
      BY <2>1 DEF SignalTypeOK, PrivateState
    <3>2. db.receipts \cup {<<m, base[m]>>} \in SUBSET (Inbound \X Calls)
      BY <2>1 DEF SignalTypeOK, PrivateState
    <3>3. db' \in PrivateState
      BY <2>1, <3>1, <3>2 DEF SignalTypeOK, PrivateState
    <3> QED BY <3>3 DEF SignalTypeOK, PrivateState
  <2>3. RecordsHeld' /\ PreKeysDone'
    BY <2>1 DEF SignalTypeOK, PrivateState, RecordsHeld, PreKeysDone
  <2>4. StoreAsRead' /\ BundleBacked'
    BY DEF SignalTypeOK, PrivateState, StoreAsRead, Active, BundleBacked
  <2>5. BundlesVerify' /\ StableProfile'
    BY DEF SignalTypeOK, PrivateState, BundlesVerify, StableProfile
  <2>6. ReceiptConsumes'
    BY <2>1 DEF SignalTypeOK, PrivateState, ReceiptConsumes
  <2> QED BY <2>2, <2>3, <2>4, <2>5, <2>6
<1> QED BY <1>1, <1>2, <1>3

\* A process that ends takes its calls with it and leaves the database.
LEMMA SignalStopsInv ==
    ASSUME SignalInv, NEW ok \in BOOLEAN, SignalStops(ok) PROVE SignalInv'
<1> USE DEF SignalInv, SignalStops, Active
<1>1. SignalTypeOK' /\ RecordsHeld'
  BY DEF SignalTypeOK, PrivateState, RecordsHeld
<1>2. PreKeysDone' /\ StoreAsRead'
  BY DEF SignalTypeOK, PrivateState, PreKeysDone, StoreAsRead
<1>3. BundleBacked' /\ BundlesVerify' /\ StableProfile' /\ ReceiptConsumes'
  BY DEF BundleBacked, BundlesVerify, StableProfile, ReceiptConsumes
<1> QED BY <1>1, <1>2, <1>3

\* Steps of the shell do not touch the Signal state, and the reverse.
LEMMA SignalUnchanged == SignalInv /\ UNCHANGED signalVars => SignalInv'
BY DEF signalVars, SignalInv, SignalTypeOK, RecordsHeld, PreKeysDone, StoreAsRead, Active,
       BundleBacked, BundlesVerify, StableProfile, ReceiptConsumes

\* A step of the Signal state leaves the shell's invariant.
LEMMA ShellUnchanged == ShellInv /\ UNCHANGED shellVars => ShellInv'
BY DEF shellVars, ShellInv, ShellTypeOK, WindowWasBehindTor

-----------------------------------------------------------------------------
(* The application.                                                        *)

DesktopInv == ShellInv /\ SignalInv

\* No process runs and nothing is provisioned before the first start.
LEMMA DesktopInitInv == DesktopInit => DesktopInv
<1> SUFFICES ASSUME DesktopInit PROVE DesktopInv
    OBVIOUS
<1> USE SignalAssumption DEF DesktopInit
<1>1. ShellInv
  BY DEF ShellInit, ShellInv, ShellTypeOK, WindowWasBehindTor
<1>2. SignalTypeOK
  BY DEF SignalInit, SignalTypeOK, PrivateState
<1>3. RecordsHeld /\ PreKeysDone /\ StoreAsRead
  BY DEF SignalInit, RecordsHeld, PreKeysDone, StoreAsRead, Active
<1>4. BundleBacked /\ BundlesVerify /\ StableProfile /\ ReceiptConsumes
  BY DEF SignalInit, BundleBacked, BundlesVerify, StableProfile, ReceiptConsumes
<1> QED BY <1>1, <1>2, <1>3, <1>4 DEF DesktopInv, SignalInv

\* Every step of the shell, of the Signal state, of opening the store and of
\* a process that ends keeps the invariants of both.
LEMMA DesktopStepInv == DesktopInv /\ [DesktopNext]_desktopVars => DesktopInv'
<1> SUFFICES ASSUME DesktopInv, [DesktopNext]_desktopVars PROVE DesktopInv'
    OBVIOUS
<1> USE DEF DesktopInv
<1>1. CASE ShellStep /\ UNCHANGED <<signalVars, owner, stops>>
  BY <1>1, ShellStepInv, SignalUnchanged
<1>2. CASE owner # None /\ SignalStep /\ UNCHANGED <<shellVars, owner, stops>>
  BY <1>2, ProvisionStepInv, ReceiveStepInv, ShellUnchanged DEF SignalStep
<1>3. ASSUME NEW p \in Procs, createPrivateStateStore(p) PROVE DesktopInv'
  BY <1>3, ShellUnchanged, SignalUnchanged DEF createPrivateStateStore
<1>4. ASSUME NEW p \in Procs, NEW ok \in BOOLEAN, End(p, ok) PROVE DesktopInv'
  <2>1. ShellInv'
    BY <1>4, ProcessEndsInv DEF End
  <2>2. SignalInv'
    BY <1>4, SignalStopsInv, SignalUnchanged DEF End
  <2> QED BY <2>1, <2>2
<1>5. CASE UNCHANGED desktopVars
  BY <1>5, ShellUnchanged, SignalUnchanged DEF desktopVars
<1> QED BY <1>1, <1>2, <1>3, <1>4, <1>5 DEF DesktopNext

\* The invariants of the shell and of the Signal state hold in every
\* behaviour of the application.
THEOREM DesktopInvariant == DesktopSpec => []DesktopInv
BY DesktopInitInv, DesktopStepInv, PTL DEF DesktopSpec

\* The variables of shell and Signal state keep their types, and the counter
\* of ends its bound.
THEOREM DesktopTypeCorrect == DesktopSpec => []DesktopTypeOK
<1> DEFINE Rest == owner \in Procs \cup {None} /\ stops \in 0..MaxStops
<1>1. DesktopInit => Rest
  BY DesktopAssumption DEF DesktopInit
<1>2. Rest /\ [DesktopNext]_desktopVars => Rest'
  BY DesktopAssumption DEF DesktopNext, desktopVars, createPrivateStateStore, End
<1>3. DesktopInv /\ Rest => DesktopTypeOK
  BY DEF DesktopInv, ShellInv, SignalInv, DesktopTypeOK
<1> QED BY <1>1, <1>2, <1>3, DesktopInvariant, PTL DEF DesktopSpec

\* No window is open in a process whose session has no proxy.
THEOREM WindowTheorem == DesktopSpec => []WindowBehindTor
<1>1. DesktopInv => WindowBehindTor
  BY DEF DesktopInv, ShellInv, WindowWasBehindTor, WindowBehindTor, Open
<1> QED BY <1>1, DesktopInvariant, PTL

\* A stored profile is backed by the prekeys it offers.
THEOREM BundleBackedTheorem == DesktopSpec => []BundleBacked
<1>1. DesktopInv => BundleBacked
  BY DEF DesktopInv, SignalInv
<1> QED BY <1>1, DesktopInvariant, PTL

\* Stored and returned bundles verify.
THEOREM BundlesVerifyTheorem == DesktopSpec => []BundlesVerify
<1>1. DesktopInv => BundlesVerify
  BY DEF DesktopInv, SignalInv
<1> QED BY <1>1, DesktopInvariant, PTL

\* Calls that do not overlap return one bundle, that of the stored identity.
THEOREM StableProfileTheorem == DesktopSpec => []StableProfile
<1>1. DesktopInv => StableProfile
  BY DEF DesktopInv, SignalInv
<1> QED BY <1>1, DesktopInvariant, PTL

\* A prekey of a receipt is used up for good.
THEOREM ReceiptTheorem == DesktopSpec => []ReceiptConsumes
<1>1. DesktopInv => ReceiptConsumes
  BY DEF DesktopInv, SignalInv
<1> QED BY <1>1, DesktopInvariant, PTL

-----------------------------------------------------------------------------
(* The chat pages.                                                         *)

Digests == Incoming \cup Outbound
Status == {"sending", "error", "confirmed"}
ChatRecord == [list : Seq(Keys), unread : BOOLEAN]

\* The type of the chat store: the index and the chats.
StoreType(st) ==
    /\ st = [messages |-> st.messages, chats |-> st.chats]
    /\ DOMAIN st.messages \subseteq Keys
    /\ st.messages \in [DOMAIN st.messages -> Status]
    /\ DOMAIN st.chats \subseteq Addrs
    /\ st.chats \in [DOMAIN st.chats -> ChatRecord]

\* What MessagesListedOnce says of a store, for the owners own of the messages.
Tidy(st, own) ==
    /\ \A a \in DOMAIN st.chats :
          /\ IsInjective(st.chats[a].list)
          /\ ToSet(st.chats[a].list) \subseteq DOMAIN st.messages
          /\ \A k \in ToSet(st.chats[a].list) \ {undef} : own[k] = a
    /\ \A a, b \in DOMAIN st.chats :
          undef \in ToSet(st.chats[a].list) /\ undef \in ToSet(st.chats[b].list) => a = b

Owner == [k \in Digests |-> Coparty(k)]

CallType(c) ==
    /\ c \in [batch : Seq(Digests), at : Nat]
    /\ IsInjective(c.batch)
    /\ c \in {Idle, Done} \/ c.at \in DOMAIN c.batch

SendType(x) ==
    /\ x \in [to : Addrs \cup {none}, at : {"idle", "sending", "sent", "failed"}]
    /\ x.at # "idle" => x.to \in Addrs

\* The types of the variables the pages change.
PagesType ==
    /\ active \in Addrs \cup {none}
    /\ route \in Addrs \cup {none}
    /\ DOMAIN contacts \subseteq Addrs
    /\ contacts \in [DOMAIN contacts -> Addrs \cup {none}]
    /\ refreshing \subseteq Addrs
    /\ page \in [address : Addrs \cup {none}, contact : Addrs \cup {none}, lookups : SUBSET Addrs]

\* The types of what is under way and on disk.
WorkType ==
    /\ stored \subseteq Digests
    /\ deleting \subseteq Digests
    /\ calls \in [Batches -> [batch : Seq(Digests), at : Nat]]
    /\ \A r \in Batches : CallType(calls[r])
    /\ sends \in [Outbound -> [to : Addrs \cup {none}, at : {"idle", "sending", "sent", "failed"}]]
    /\ \A s \in Outbound : SendType(sends[s])

\* A message that was never sent is nowhere.
UnsentIsNowhere ==
    \A s \in Outbound : sends[s].at = "idle" =>
        /\ s \notin DOMAIN store.messages
        /\ s \notin stored
        /\ \A r \in Batches : s \notin ToSet(calls[r].batch)

\* The chat on the screen is active, unless it was deleted under the user.
ActiveOnScreen ==
    /\ active \in {none, route}
    /\ route # none /\ active # route => route \in dropped

ChatsInv ==
    /\ PagesType
    /\ WorkType
    /\ StoreType(store)
    /\ UnsentIsNowhere
    /\ Tidy(store, Owner)
    /\ SendingInProgress
    /\ KeyBelongs
    /\ ActiveOnScreen
    /\ ReadWhileOpen

-----------------------------------------------------------------------------
(* What the operations of the chat store make of a tidy store.             *)

\* A list of a chat lies in the index, and so holds digests only.
LEMMA ListFacts ==
    ASSUME NEW st, StoreType(st), NEW a \in DOMAIN st.chats
    PROVE  /\ st.chats[a] \in ChatRecord
           /\ st.chats[a].list \in Seq(Keys)
           /\ st.chats[a].unread \in BOOLEAN
  BY DEF StoreType, ChatRecord

\* Only the owners of listed messages matter.
LEMMA TidyOwners ==
    ASSUME NEW st, NEW own, NEW own2, Tidy(st, own),
           \A k \in DOMAIN st.messages \ {undef} : own2[k] = own[k]
    PROVE  Tidy(st, own2)
  BY DEF Tidy

\* A list with one element spliced out.
LEMMA SplicedFacts ==
    ASSUME NEW l \in Seq(Keys), NEW k
    PROVE  /\ Spliced(l, k) \in Seq(Keys)
           /\ ToSet(Spliced(l, k)) \subseteq ToSet(l)
           /\ IsInjective(l) => IsInjective(Spliced(l, k)) /\ k \notin ToSet(Spliced(l, k))
<1>1. CASE k \in ToSet(l)
  <2>1. PICK j \in DOMAIN l : l[j] = k
    BY <1>1 DEF ToSet
  <2> DEFINE i == CHOOSE n \in DOMAIN l : l[n] = k
  <2>2. i \in DOMAIN l /\ l[i] = k
    BY <2>1
  <2>3. Spliced(l, k) = RemoveAt(l, i)
    BY <1>1 DEF Spliced
  <2> HIDE DEF i
  <2>4. QED
    BY <2>2, <2>3, RemoveOnce
<1>2. CASE k \notin ToSet(l) /\ l = <<>>
  BY <1>2 DEF Spliced
<1>3. CASE k \notin ToSet(l) /\ l # <<>>
  <2>1. Spliced(l, k) = SubSeq(l, 1, Len(l) - 1)
    BY <1>3 DEF Spliced, Front
  <2>2. Len(l) - 1 \in 0..Len(l)
    BY <1>3
  <2> DEFINE n == Len(l) - 1
  <2> HIDE DEF n
  <2>3. /\ SubSeq(l, 1, n) \in Seq(Keys)
        /\ ToSet(SubSeq(l, 1, n)) \subseteq ToSet(l)
        /\ IsInjective(l) => IsInjective(SubSeq(l, 1, n))
    BY <2>2, PrefixOnce DEF n
  <2>4. QED
    BY <1>3, <2>1, <2>3 DEF n
<1>4. QED
  BY <1>1, <1>2, <1>3

\* Removing a message leaves the others where they are.
LEMMA RemovedTidy ==
    ASSUME NEW st, StoreType(st), NEW own, Tidy(st, own),
           NEW a, NEW k \in Digests, own[k] = a, NEW new, new = WithoutMessage(st, a, k)
    PROVE  /\ StoreType(new)
           /\ Tidy(new, own)
           /\ DOMAIN new.messages = DOMAIN st.messages \ {k}
           /\ \A m \in DOMAIN new.messages : new.messages[m] = st.messages[m]
           /\ DOMAIN new.chats = DOMAIN st.chats
           /\ \A x \in DOMAIN new.chats : new.chats[x].unread = st.chats[x].unread
<1>1. /\ new.messages = Without(st.messages, k)
      /\ new = [messages |-> new.messages, chats |-> new.chats]
      /\ new.chats = IF a \in DOMAIN st.chats
                     THEN [st.chats EXCEPT ![a].list = Spliced(@, k)] ELSE st.chats
  BY DEF WithoutMessage
<1>2. /\ DOMAIN new.messages = DOMAIN st.messages \ {k}
      /\ \A m \in DOMAIN new.messages : new.messages[m] = st.messages[m]
  BY <1>1 DEF Without
<1>2a. new.messages \in [DOMAIN new.messages -> Status]
  <2>1. new.messages = [z \in DOMAIN st.messages \ {k} |-> st.messages[z]]
    BY <1>1 DEF Without
  <2>2. st.messages \in [DOMAIN st.messages -> Status]
    BY DEF StoreType
  <2>3. QED
    BY <2>1, <2>2
<1>3. /\ DOMAIN new.chats = DOMAIN st.chats
      /\ \A x \in DOMAIN st.chats : x # a => new.chats[x] = st.chats[x]
      /\ a \in DOMAIN st.chats =>
            new.chats[a] = [st.chats[a] EXCEPT !.list = Spliced(st.chats[a].list, k)]
  BY <1>1 DEF StoreType
<1>4. \A x \in DOMAIN st.chats :
        /\ st.chats[x].list \in Seq(Keys)
        /\ st.chats[x].unread \in BOOLEAN
        /\ st.chats[x] \in ChatRecord
  BY ListFacts
<1>5. a \in DOMAIN st.chats =>
        /\ Spliced(st.chats[a].list, k) \in Seq(Keys)
        /\ ToSet(Spliced(st.chats[a].list, k)) \subseteq ToSet(st.chats[a].list)
        /\ IsInjective(Spliced(st.chats[a].list, k))
        /\ k \notin ToSet(Spliced(st.chats[a].list, k))
  BY <1>4, SplicedFacts DEF Tidy
<1>6. a \in DOMAIN st.chats =>
        /\ new.chats[a] \in ChatRecord
        /\ new.chats[a].list = Spliced(st.chats[a].list, k)
        /\ new.chats[a].unread = st.chats[a].unread
  BY <1>3, <1>4, <1>5 DEF ChatRecord
<1>7. new.chats \in [DOMAIN new.chats -> ChatRecord]
  <2>1. \A x \in DOMAIN new.chats : new.chats[x] \in ChatRecord
    BY <1>3, <1>4, <1>6
  <2>2. new.chats = [x \in DOMAIN new.chats |-> new.chats[x]]
    BY <1>1 DEF StoreType
  <2>3. QED
    BY <2>1, <2>2
<1>8. StoreType(new)
  BY <1>1, <1>2, <1>2a, <1>3, <1>7 DEF StoreType
<1>9. ASSUME NEW x \in DOMAIN new.chats
      PROVE  /\ IsInjective(new.chats[x].list)
             /\ ToSet(new.chats[x].list) \subseteq ToSet(st.chats[x].list)
             /\ k \notin ToSet(new.chats[x].list)
             /\ new.chats[x].unread = st.chats[x].unread
  <2>1. CASE x = a
    BY <2>1, <1>3, <1>5, <1>6
  <2>2. CASE x # a
    <3>1. new.chats[x] = st.chats[x] /\ x \in DOMAIN st.chats
      BY <1>3, <2>2
    <3>2. k # undef
      BY ChatAssumption DEF Digests
    <3>3. QED
      BY <3>1, <3>2, <2>2 DEF Tidy
  <2>3. QED
    BY <2>1, <2>2
<1>10. Tidy(new, own)
  <2>1. \A x \in DOMAIN new.chats :
          /\ IsInjective(new.chats[x].list)
          /\ ToSet(new.chats[x].list) \subseteq DOMAIN new.messages
          /\ \A m \in ToSet(new.chats[x].list) \ {undef} : own[m] = x
    BY <1>2, <1>3, <1>9 DEF Tidy
  <2>2. \A x, y \in DOMAIN new.chats :
          undef \in ToSet(new.chats[x].list) /\ undef \in ToSet(new.chats[y].list) => x = y
    BY <1>3, <1>9 DEF Tidy
  <2>3. QED
    BY <2>1, <2>2 DEF Tidy
<1>11. QED
  BY <1>2, <1>3, <1>8, <1>9, <1>10

\* sendMessageLocal lists a message that the index does not know, in its chat.
LEMMA SentTidy ==
    ASSUME NEW st, StoreType(st), NEW own, Tidy(st, own),
           NEW a \in Addrs, NEW k \in Keys, NEW status \in Status,
           k # undef => own[k] = a,
           NEW new, new = SentLocally(st, a, k, status)
    PROVE  /\ StoreType(new)
           /\ Tidy(new, own)
           /\ DOMAIN new.messages \subseteq DOMAIN st.messages \cup {k}
           /\ \A m \in DOMAIN new.messages :
                 new.messages[m] = IF m = k THEN status ELSE st.messages[m]
           /\ DOMAIN st.chats \subseteq DOMAIN new.chats
           /\ \A x \in DOMAIN new.chats :
                 new.chats[x].unread => x \in DOMAIN st.chats /\ st.chats[x].unread
<1>1. CASE k \in DOMAIN st.messages
  <2>1. /\ new = [messages |-> [st.messages EXCEPT ![k] = status], chats |-> st.chats]
    BY <1>1 DEF SentLocally, StoreType
  <2>2. /\ new.messages = [st.messages EXCEPT ![k] = status]
        /\ new.chats = st.chats
        /\ new = [messages |-> new.messages, chats |-> new.chats]
    BY <2>1
  <2>3. /\ DOMAIN new.messages = DOMAIN st.messages
        /\ new.messages \in [DOMAIN new.messages -> Status]
        /\ \A m \in DOMAIN new.messages :
              new.messages[m] = IF m = k THEN status ELSE st.messages[m]
    BY <2>2, <1>1 DEF StoreType
  <2>4. StoreType(new) /\ Tidy(new, own)
    BY <2>2, <2>3 DEF StoreType, Tidy
  <2>5. QED
    BY <2>2, <2>3, <2>4
<1>2. CASE k \notin DOMAIN st.messages /\ a \notin DOMAIN st.chats /\ a = Me
  <2>1. new = st
    BY <1>2 DEF SentLocally
  <2>2. QED
    BY <1>2, <2>1
<1>3. CASE k \notin DOMAIN st.messages /\ ~(a \notin DOMAIN st.chats /\ a = Me)
  <2> DEFINE o == Opened(st.chats, a)
  <2>1. /\ new.messages = With(st.messages, k, status)
        /\ new = [messages |-> new.messages, chats |-> new.chats]
        /\ new.chats = [o EXCEPT ![a].list = Append(@, k)]
    BY <1>3 DEF SentLocally
  <2>2. /\ DOMAIN new.messages = DOMAIN st.messages \cup {k}
        /\ new.messages \in [DOMAIN new.messages -> Status]
        /\ \A m \in DOMAIN new.messages :
              new.messages[m] = IF m = k THEN status ELSE st.messages[m]
    BY <2>1, <1>3 DEF With, StoreType
  <2>3. /\ DOMAIN o = DOMAIN st.chats \cup {a}
        /\ \A x \in DOMAIN st.chats : o[x] = st.chats[x]
        /\ a \notin DOMAIN st.chats => o[a] = NewChat
        /\ o = [x \in DOMAIN o |-> o[x]]
    BY DEF Opened, With, StoreType
  <2>4. /\ NewChat \in ChatRecord /\ NewChat.list = <<>> /\ NewChat.unread = FALSE
        /\ IsInjective(NewChat.list) /\ ToSet(NewChat.list) = {}
    BY DEF NewChat, ChatRecord, IsInjective, ToSet
  <2> HIDE DEF o
  <2>5. \A x \in DOMAIN o : /\ o[x] \in ChatRecord
                            /\ o[x].list \in Seq(Keys)
                            /\ o[x].unread \in BOOLEAN
    <3>1. \A x \in DOMAIN o : o[x] \in ChatRecord
      BY <2>3, <2>4, ListFacts
    <3>2. QED
      BY <3>1 DEF ChatRecord
  <2>6. \A x \in DOMAIN o :
          /\ IsInjective(o[x].list)
          /\ ToSet(o[x].list) \subseteq DOMAIN st.messages
          /\ \A m \in ToSet(o[x].list) \ {undef} : own[m] = x
          /\ o[x].unread => x \in DOMAIN st.chats /\ st.chats[x].unread
          /\ undef \in ToSet(o[x].list) => x \in DOMAIN st.chats /\ undef \in ToSet(st.chats[x].list)
    BY <2>3, <2>4 DEF Tidy
  <2>7. /\ DOMAIN new.chats = DOMAIN o
        /\ \A x \in DOMAIN o : x # a => new.chats[x] = o[x]
        /\ new.chats[a] = [o[a] EXCEPT !.list = Append(o[a].list, k)]
        /\ new.chats = [x \in DOMAIN o |-> new.chats[x]]
    BY <2>1, <2>3
  <2>8. /\ Append(o[a].list, k) \in Seq(Keys)
        /\ ToSet(Append(o[a].list, k)) = ToSet(o[a].list) \cup {k}
        /\ IsInjective(Append(o[a].list, k))
    <3>1. a \in DOMAIN o /\ k \notin ToSet(o[a].list)
      BY <2>3, <2>6, <1>3
    <3>2. QED
      BY <3>1, <2>5, <2>6, AppendOnce
  <2>9. /\ new.chats[a].list = Append(o[a].list, k)
        /\ new.chats[a].unread = o[a].unread
        /\ new.chats[a] \in ChatRecord
    BY <2>3, <2>5, <2>7, <2>8 DEF ChatRecord
  <2>10. StoreType(new)
    <3>1. \A x \in DOMAIN new.chats : new.chats[x] \in ChatRecord
      BY <2>5, <2>7, <2>9
    <3>2. new.chats \in [DOMAIN new.chats -> ChatRecord]
      BY <3>1, <2>7
    <3>3. DOMAIN new.chats \subseteq Addrs /\ DOMAIN new.messages \subseteq Keys
      BY <2>2, <2>3, <2>7 DEF StoreType
    <3>4. QED
      BY <3>2, <3>3, <2>1, <2>2 DEF StoreType
  <2>11. ASSUME NEW x \in DOMAIN new.chats
         PROVE  /\ IsInjective(new.chats[x].list)
                /\ ToSet(new.chats[x].list) \subseteq DOMAIN new.messages
                /\ \A m \in ToSet(new.chats[x].list) \ {undef} : own[m] = x
                /\ new.chats[x].unread = o[x].unread
                /\ undef \in ToSet(new.chats[x].list) =>
                      undef \in ToSet(o[x].list) \/ (k = undef /\ x = a)
    <3>1. CASE x = a
      BY <3>1, <2>2, <2>6, <2>7, <2>8, <2>9
    <3>2. CASE x # a
      BY <3>2, <2>2, <2>6, <2>7
    <3>3. QED
      BY <3>1, <3>2
  <2>12. ASSUME NEW x \in DOMAIN new.chats, NEW y \in DOMAIN new.chats,
                undef \in ToSet(new.chats[x].list), undef \in ToSet(new.chats[y].list)
         PROVE  x = y
    <3>1. CASE k = undef
      <4>1. \A z \in DOMAIN o : undef \notin ToSet(o[z].list)
        BY <3>1, <1>3, <2>6
      <4>2. QED
        BY <4>1, <2>7, <2>11, <2>12
    <3>2. CASE k # undef
      <4>1. undef \in ToSet(o[x].list) /\ undef \in ToSet(o[y].list)
        BY <3>2, <2>11, <2>12
      <4>2. QED
        BY <4>1, <2>6, <2>7 DEF Tidy
    <3>3. QED
      BY <3>1, <3>2
  <2>13. Tidy(new, own)
    BY <2>11, <2>12 DEF Tidy
  <2>14. QED
    BY <2>2, <2>3, <2>6, <2>7, <2>10, <2>11, <2>13
<1>4. QED
  BY <1>1, <1>2, <1>3

\* What the actions make of the store with an EXCEPT, by name.
Shown(st, a) == [st EXCEPT !.chats = Opened(ReadAll(@, a), a)]
Dropped(st, a) == [st EXCEPT !.chats = Without(@, a)]
Cleared(st, a) == [st EXCEPT !.chats[a].list = <<>>]
Emptied(st) ==
    [messages |-> <<>>,
     chats |-> [a \in DOMAIN st.chats |-> [st.chats[a] EXCEPT !.list = <<>>]]]

\* A store whose lists are lists of a tidy one, or empty, is tidy.
LEMMA KeptTidy ==
    ASSUME NEW st, NEW own, Tidy(st, own), NEW new,
           \A x \in DOMAIN new.chats :
               \/ new.chats[x].list = <<>>
               \/ /\ x \in DOMAIN st.chats
                  /\ new.chats[x].list = st.chats[x].list
                  /\ DOMAIN st.messages \subseteq DOMAIN new.messages
    PROVE  Tidy(new, own)
<1>1. IsInjective(<<>>) /\ ToSet(<<>>) = {}
  BY DEF IsInjective, ToSet
<1>2. QED
  BY <1>1 DEF Tidy

\* The chat that is shown: opened, and read.
LEMMA OpenedTidy ==
    ASSUME NEW st, StoreType(st), NEW own, Tidy(st, own), NEW a \in Addrs,
           NEW new, new = Shown(st, a)
    PROVE  /\ StoreType(new)
           /\ Tidy(new, own)
           /\ new.messages = st.messages
           /\ a \in DOMAIN new.chats => ~ new.chats[a].unread
<1> DEFINE c == ReadAll(st.chats, a)
<1>1. /\ DOMAIN c = DOMAIN st.chats
      /\ \A x \in DOMAIN c : x # a => c[x] = st.chats[x]
      /\ a \in DOMAIN c => c[a] = [st.chats[a] EXCEPT !.unread = FALSE]
      /\ c = [x \in DOMAIN c |-> c[x]]
  BY DEF ReadAll, StoreType
<1>2. \A x \in DOMAIN st.chats : /\ st.chats[x] \in ChatRecord
                                 /\ st.chats[x].list \in Seq(Keys)
  BY ListFacts
<1>3. a \in DOMAIN c => /\ c[a] \in ChatRecord
                        /\ c[a].list = st.chats[a].list
                        /\ c[a].unread = FALSE
  BY <1>1, <1>2 DEF ChatRecord
<1>4. /\ new.messages = st.messages
      /\ new.chats = Opened(c, a)
      /\ new = [messages |-> new.messages, chats |-> new.chats]
  BY DEF StoreType, Shown
<1> HIDE DEF c
<1>5. /\ NewChat \in ChatRecord /\ NewChat.list = <<>> /\ NewChat.unread = FALSE
  BY DEF NewChat, ChatRecord
<1>6. /\ DOMAIN new.chats = DOMAIN c \cup {a}
      /\ \A x \in DOMAIN c : new.chats[x] = c[x]
      /\ a \notin DOMAIN c => new.chats[a] = NewChat
      /\ new.chats = [x \in DOMAIN new.chats |-> new.chats[x]]
  <2>1. CASE a \in DOMAIN c
    <3>1. new.chats = c
      BY <1>4, <2>1 DEF Opened
    <3>2. QED
      BY <3>1, <1>1, <2>1
  <2>2. CASE a \notin DOMAIN c
    <3>1. new.chats = [z \in DOMAIN c \cup {a} |-> IF z = a THEN NewChat ELSE c[z]]
      BY <1>4, <2>2 DEF Opened, With
    <3>2. QED
      BY <3>1, <2>2
  <2>3. QED
    BY <2>1, <2>2
<1>7. \A x \in DOMAIN new.chats :
        /\ new.chats[x] \in ChatRecord
        /\ new.chats[x].list = <<>> \/ (x \in DOMAIN st.chats /\ new.chats[x].list = st.chats[x].list)
        /\ x = a => ~ new.chats[x].unread
  BY <1>1, <1>2, <1>3, <1>5, <1>6
<1>8. new.chats \in [DOMAIN new.chats -> ChatRecord]
  BY <1>6, <1>7
<1>9. StoreType(new)
  BY <1>1, <1>4, <1>6, <1>8 DEF StoreType
<1>10. Tidy(new, own)
  BY <1>4, <1>7, KeptTidy
<1>11. QED
  BY <1>4, <1>7, <1>9, <1>10

\* A chat is dropped.
LEMMA DroppedTidy ==
    ASSUME NEW st, StoreType(st), NEW own, Tidy(st, own), NEW a,
           NEW new, new = Dropped(st, a)
    PROVE  /\ StoreType(new)
           /\ Tidy(new, own)
           /\ new.messages = st.messages
           /\ DOMAIN new.chats = DOMAIN st.chats \ {a}
           /\ \A x \in DOMAIN new.chats : new.chats[x] = st.chats[x]
<1>1. /\ new.messages = st.messages
      /\ new.chats = Without(st.chats, a)
      /\ new = [messages |-> new.messages, chats |-> new.chats]
  BY DEF StoreType, Dropped
<1>2. /\ DOMAIN new.chats = DOMAIN st.chats \ {a}
      /\ \A x \in DOMAIN new.chats : new.chats[x] = st.chats[x]
      /\ new.chats = [x \in DOMAIN new.chats |-> new.chats[x]]
  BY <1>1 DEF Without
<1>3. new.chats \in [DOMAIN new.chats -> ChatRecord]
  BY <1>2, ListFacts
<1>4. StoreType(new)
  BY <1>1, <1>2, <1>3 DEF StoreType
<1>5. Tidy(new, own)
  BY <1>1, <1>2, KeptTidy
<1>6. QED
  BY <1>1, <1>2, <1>4, <1>5

\* The list of a chat is cleared; the index keeps its messages.
LEMMA ClearedTidy ==
    ASSUME NEW st, StoreType(st), NEW own, Tidy(st, own), NEW a \in DOMAIN st.chats,
           NEW new, new = Cleared(st, a)
    PROVE  /\ StoreType(new)
           /\ Tidy(new, own)
           /\ new.messages = st.messages
           /\ DOMAIN new.chats = DOMAIN st.chats
           /\ \A x \in DOMAIN new.chats : new.chats[x].unread = st.chats[x].unread
<1>1. /\ new.messages = st.messages
      /\ new.chats = [st.chats EXCEPT ![a] = [st.chats[a] EXCEPT !.list = <<>>]]
      /\ new = [messages |-> new.messages, chats |-> new.chats]
  BY DEF StoreType, Cleared
<1>2. \A x \in DOMAIN st.chats : st.chats[x] \in ChatRecord
  BY ListFacts
<1> DEFINE e == [st.chats[a] EXCEPT !.list = <<>>]
<1>2a. <<>> \in Seq(Keys)
  OBVIOUS
<1>3. e \in ChatRecord /\ e.list = <<>> /\ e.unread = st.chats[a].unread
  BY <1>2, <1>2a DEF ChatRecord
<1>4. new.chats = [st.chats EXCEPT ![a] = e]
  BY <1>1
<1> HIDE DEF e
<1>5. /\ DOMAIN new.chats = DOMAIN st.chats
      /\ \A x \in DOMAIN new.chats : new.chats[x] = IF x = a THEN e ELSE st.chats[x]
      /\ new.chats = [x \in DOMAIN new.chats |-> new.chats[x]]
  BY <1>4 DEF StoreType
<1>6. new.chats \in [DOMAIN new.chats -> ChatRecord]
  BY <1>2, <1>3, <1>5
<1>7. StoreType(new)
  BY <1>1, <1>5, <1>6 DEF StoreType
<1>8. Tidy(new, own)
  BY <1>1, <1>3, <1>5, KeptTidy
<1>9. QED
  BY <1>1, <1>3, <1>5, <1>7, <1>8

\* The store is emptied, the chats stay.
LEMMA ResetTidy ==
    ASSUME NEW st, StoreType(st), NEW own, Tidy(st, own), NEW new, new = Emptied(st)
    PROVE  /\ StoreType(new)
           /\ Tidy(new, own)
           /\ DOMAIN new.messages = {}
           /\ DOMAIN new.chats = DOMAIN st.chats
           /\ \A x \in DOMAIN new.chats : new.chats[x].unread = st.chats[x].unread
<1>1. /\ new.messages = <<>>
      /\ new.chats = [a \in DOMAIN st.chats |-> [st.chats[a] EXCEPT !.list = <<>>]]
      /\ new = [messages |-> new.messages, chats |-> new.chats]
  BY DEF Emptied
<1>2. DOMAIN new.messages = {} /\ new.messages \in [DOMAIN new.messages -> Status]
  BY <1>1
<1>3. ASSUME NEW x \in DOMAIN st.chats
      PROVE  LET e == [st.chats[x] EXCEPT !.list = <<>>]
             IN  e \in ChatRecord /\ e.list = <<>> /\ e.unread = st.chats[x].unread
  <2>1. st.chats[x] \in ChatRecord
    BY ListFacts
  <2>1a. <<>> \in Seq(Keys)
    OBVIOUS
  <2>2. QED
    BY <2>1, <2>1a DEF ChatRecord
<1>4. DOMAIN new.chats = DOMAIN st.chats
  BY <1>1
<1>5. \A x \in DOMAIN new.chats :
        new.chats[x] \in ChatRecord /\ new.chats[x].list = <<>> /\ new.chats[x].unread = st.chats[x].unread
  BY <1>1, <1>3
<1>6. new.chats \in [DOMAIN new.chats -> ChatRecord]
  <2>1. new.chats = [x \in DOMAIN new.chats |-> new.chats[x]]
    BY <1>1
  <2>2. QED
    BY <2>1, <1>5
<1>7. StoreType(new)
  BY <1>1, <1>2, <1>4, <1>6 DEF StoreType
<1>8. Tidy(new, own)
  BY <1>5, KeptTidy
<1>9. QED
  BY <1>2, <1>4, <1>5, <1>7, <1>8

\* The part of a batch that is new: without repetitions, unknown to the index.
LEMMA NewPartFacts ==
    ASSUME NEW st, NEW batch \in Seq(Digests), IsInjective(batch)
    PROVE  LET new == NewPart(st, batch)
           IN  /\ new \in Seq(Digests)
               /\ Len(new) \in 0..Len(batch)
               /\ IsInjective(new)
               /\ ToSet(new) \subseteq ToSet(batch)
               /\ ToSet(new) \cap DOMAIN st.messages = {}
<1> DEFINE known == {i \in DOMAIN batch : batch[i] \in DOMAIN st.messages}
           end == IF known = {} THEN Len(batch) ELSE Min(known) - 1
<1>1. NewPart(st, batch) = SubSeq(batch, 1, end)
  BY DEF NewPart
<1>2. known \subseteq Nat
  OBVIOUS
<1>3. known # {} => Min(known) \in known /\ \A i \in known : Min(known) <= i
  BY <1>2, MinProperties
<1>4. end \in 0..Len(batch)
  BY <1>3
<1>5. ASSUME NEW i \in 1..end, batch[i] \in DOMAIN st.messages
      PROVE  FALSE
  <2>1. i \in DOMAIN batch
    BY <1>4
  <2>2. i \in known
    BY <1>5, <2>1
  <2> HIDE DEF known
  <2>3. Min(known) <= i /\ Min(known) \in Nat /\ end = Min(known) - 1
    BY <1>2, <1>3, <2>2
  <2>4. QED
    BY <2>3
<1> HIDE DEF end, known
<1>6. /\ SubSeq(batch, 1, end) \in Seq(Digests)
      /\ Len(SubSeq(batch, 1, end)) = end
      /\ ToSet(SubSeq(batch, 1, end)) = {batch[i] : i \in 1..end}
      /\ ToSet(SubSeq(batch, 1, end)) \subseteq ToSet(batch)
      /\ IsInjective(SubSeq(batch, 1, end))
  BY <1>4, PrefixOnce
<1>7. QED
  BY <1>1, <1>4, <1>5, <1>6

\* receiveMessages lists what is new of a batch, each message in its chat,
\* and counts nothing as unread in the active chat.
LEMMA BatchTidy ==
    ASSUME NEW st, StoreType(st), Tidy(st, Owner),
           NEW batch \in Seq(Digests), IsInjective(batch),
           \A m \in ToSet(batch) : Coparty(m) \in Addrs,
           NEW counted, NEW new, new = WithBatch(st, batch, counted)
    PROVE  /\ StoreType(new)
           /\ Tidy(new, Owner)
           /\ DOMAIN new.messages \subseteq DOMAIN st.messages \cup ToSet(batch)
           /\ \A m \in DOMAIN new.messages :
                 \/ new.messages[m] = "confirmed"
                 \/ m \in DOMAIN st.messages /\ new.messages[m] = st.messages[m]
           /\ active \in DOMAIN new.chats /\ new.chats[active].unread =>
                 active \in DOMAIN st.chats /\ st.chats[active].unread
<1> DEFINE fresh == NewPart(st, batch)
           at(a) == {i \in DOMAIN fresh : Coparty(fresh[i]) = a}
           of(a) == Picked(fresh, at(a))
           touched == {Coparty(m) : m \in ToSet(fresh)}
           chat(a) == IF a \in DOMAIN st.chats THEN st.chats[a] ELSE NewChat
           someUnread(a) == a # active /\ ToSet(of(a)) \cap counted # {}
           updated == IF Len(fresh) < Len(batch) THEN {batch[Len(fresh) + 1]} ELSE {}
<1>1. /\ new.messages = [m \in DOMAIN st.messages \cup ToSet(fresh) |->
                          IF m \in ToSet(fresh) \cup updated THEN "confirmed" ELSE st.messages[m]]
      /\ new.chats = [a \in DOMAIN st.chats \cup touched |->
                        [list |-> chat(a).list \o of(a), unread |-> chat(a).unread \/ someUnread(a)]]
      /\ new = [messages |-> new.messages, chats |-> new.chats]
  BY DEF WithBatch
<1>2. /\ fresh \in Seq(Digests)
      /\ IsInjective(fresh)
      /\ ToSet(fresh) \subseteq ToSet(batch)
      /\ ToSet(fresh) \cap DOMAIN st.messages = {}
  BY NewPartFacts
<1>3. Digests \subseteq Keys /\ undef \notin Digests
  BY ChatAssumption DEF Digests, Keys
<1>4. ToSet(batch) \subseteq Digests
  BY DEF ToSet
<1>5. /\ DOMAIN new.messages = DOMAIN st.messages \cup ToSet(fresh)
      /\ \A m \in DOMAIN new.messages :
            \/ new.messages[m] = "confirmed"
            \/ m \in DOMAIN st.messages /\ new.messages[m] = st.messages[m]
  <2> HIDE DEF fresh, updated
  <2>1. QED
    BY <1>1
<1>6. DOMAIN new.messages \subseteq Keys
  BY <1>2, <1>3, <1>4, <1>5 DEF StoreType
<1>7. new.messages \in [DOMAIN new.messages -> Status]
  <2>1. \A m \in DOMAIN new.messages : new.messages[m] \in Status
    BY <1>5 DEF StoreType, Status
  <2>2. new.messages = [m \in DOMAIN new.messages |-> new.messages[m]]
    BY <1>1
  <2>3. QED
    BY <2>1, <2>2
<1> HIDE DEF fresh, updated
<1>8. ASSUME NEW a
      PROVE  /\ of(a) \in Seq(Keys)
             /\ IsInjective(of(a))
             /\ ToSet(of(a)) \subseteq ToSet(fresh)
             /\ \A m \in ToSet(of(a)) : Coparty(m) = a
  <2>1. fresh \in Seq(Keys)
    BY <1>2, <1>3
  <2>2. at(a) \subseteq DOMAIN fresh
    OBVIOUS
  <2>3. /\ of(a) \in Seq(Keys)
        /\ ToSet(of(a)) = {fresh[i] : i \in at(a)}
        /\ IsInjective(of(a))
    <3> HIDE DEF at
    <3>1. QED
      BY <1>2, <2>1, <2>2, PickedProperties
  <2>4. QED
    BY <2>3 DEF ToSet
<1>9. ASSUME NEW a \in DOMAIN new.chats
      PROVE  /\ chat(a) \in ChatRecord
             /\ chat(a).list \in Seq(Keys)
             /\ chat(a).unread \in BOOLEAN
             /\ IsInjective(chat(a).list)
             /\ ToSet(chat(a).list) \subseteq DOMAIN st.messages
             /\ \A m \in ToSet(chat(a).list) \ {undef} : Owner[m] = a
             /\ chat(a).unread => a \in DOMAIN st.chats /\ st.chats[a].unread
             /\ undef \in ToSet(chat(a).list) =>
                   a \in DOMAIN st.chats /\ undef \in ToSet(st.chats[a].list)
  <2>1. CASE a \in DOMAIN st.chats
    <3>1. chat(a) = st.chats[a]
      BY <2>1
    <3> HIDE DEF chat
    <3>2. QED
      BY <2>1, <3>1, ListFacts DEF Tidy
  <2>2. CASE a \notin DOMAIN st.chats
    <3>1. chat(a) = NewChat
      BY <2>2
    <3>2. /\ NewChat \in ChatRecord /\ NewChat.list = <<>> /\ NewChat.unread = FALSE
          /\ NewChat.list \in Seq(Keys)
      BY DEF NewChat, ChatRecord
    <3>3. IsInjective(<<>>) /\ ToSet(<<>>) = {}
      BY DEF IsInjective, ToSet
    <3> HIDE DEF chat
    <3>4. QED
      BY <3>1, <3>2, <3>3
  <2>3. QED
    BY <2>1, <2>2
<1>10. ASSUME NEW a \in DOMAIN new.chats
       PROVE  /\ new.chats[a] \in ChatRecord
              /\ new.chats[a].list = chat(a).list \o of(a)
              /\ new.chats[a].unread = (chat(a).unread \/ someUnread(a))
  <2>1. new.chats[a] = [list |-> chat(a).list \o of(a), unread |-> chat(a).unread \/ someUnread(a)]
    BY <1>1
  <2>2. chat(a).list \in Seq(Keys) /\ of(a) \in Seq(Keys)
    BY <1>8, <1>9
  <2> DEFINE l == chat(a).list
             f == of(a)
             u == chat(a).unread \/ someUnread(a)
  <2>3. u \in BOOLEAN
    OBVIOUS
  <2>4. new.chats[a] = [list |-> l \o f, unread |-> u] /\ l \in Seq(Keys) /\ f \in Seq(Keys)
    BY <2>1, <2>2
  <2> HIDE DEF l, f, u
  <2>5. /\ new.chats[a] \in ChatRecord
        /\ new.chats[a].list = l \o f
        /\ new.chats[a].unread = u
    BY <2>3, <2>4 DEF ChatRecord
  <2>6. QED
    BY <2>5 DEF l, f, u
<1>11. ASSUME NEW a \in DOMAIN new.chats
       PROVE  /\ IsInjective(new.chats[a].list)
              /\ ToSet(new.chats[a].list) = ToSet(chat(a).list) \cup ToSet(of(a))
  <2>1. ToSet(chat(a).list) \cap ToSet(of(a)) = {}
    <3>1. /\ ToSet(chat(a).list) \subseteq DOMAIN st.messages
          /\ ToSet(of(a)) \subseteq ToSet(fresh)
      BY <1>8, <1>9
    <3> HIDE DEF chat, of
    <3>2. QED
      BY <3>1, <1>2
  <2>2. chat(a).list \in Seq(Keys) /\ of(a) \in Seq(Keys)
    BY <1>8, <1>9
  <2>3. IsInjective(chat(a).list) /\ IsInjective(of(a))
    BY <1>8, <1>9
  <2> HIDE DEF chat, of
  <2>4. /\ ToSet(chat(a).list \o of(a)) = ToSet(chat(a).list) \cup ToSet(of(a))
        /\ IsInjective(chat(a).list \o of(a))
    BY <2>1, <2>2, <2>3, ConcatOnce
  <2>5. QED
    BY <1>10, <2>4
<1>12. ASSUME NEW a \in DOMAIN new.chats
       PROVE  /\ ToSet(new.chats[a].list) \subseteq DOMAIN new.messages
              /\ \A k \in ToSet(new.chats[a].list) \ {undef} : Owner[k] = a
              /\ undef \in ToSet(new.chats[a].list) =>
                   a \in DOMAIN st.chats /\ undef \in ToSet(st.chats[a].list)
  <2>1. ToSet(of(a)) \subseteq Digests
    BY <1>2, <1>4, <1>8
  <2>2. \A k \in ToSet(of(a)) : Owner[k] = a
    BY <1>8, <2>1 DEF Owner
  <2> HIDE DEF chat, of
  <2>3. QED
    BY <1>3, <1>5, <1>8, <1>9, <1>11, <2>1, <2>2
<1>13. Tidy(new, Owner)
  <2> HIDE DEF chat, of
  <2>1. \A a, b \in DOMAIN new.chats :
          undef \in ToSet(new.chats[a].list) /\ undef \in ToSet(new.chats[b].list) => a = b
    BY <1>12 DEF Tidy
  <2>2. QED
    BY <2>1, <1>11, <1>12 DEF Tidy
<1>14. StoreType(new)
  <2>1. touched \subseteq Addrs
    BY <1>2
  <2>2. DOMAIN new.chats = DOMAIN st.chats \cup touched
    BY <1>1
  <2>3. DOMAIN new.chats \subseteq Addrs
    BY <2>1, <2>2 DEF StoreType
  <2>4. new.chats = [a \in DOMAIN new.chats |-> new.chats[a]]
    BY <1>1
  <2>5. new.chats \in [DOMAIN new.chats -> ChatRecord]
    BY <1>10, <2>4
  <2>6. QED
    BY <1>1, <1>6, <1>7, <2>3, <2>5 DEF StoreType
<1>15. active \in DOMAIN new.chats /\ new.chats[active].unread =>
          active \in DOMAIN st.chats /\ st.chats[active].unread
  BY <1>9, <1>10
<1>16. QED
  BY <1>2, <1>5, <1>13, <1>14, <1>15

\* What a process finds on disk is listed once, each message in its chat.
LEMMA RehydratedTidy ==
    ASSUME stored \subseteq Digests, DOMAIN store.chats \subseteq Addrs,
           \A m \in stored : Coparty(m) \in Addrs,
           NEW order \in SetToSeqs(stored), NEW unread,
           NEW new, new = Rehydrated(order, unread)
    PROVE  /\ StoreType(new)
           /\ Tidy(new, Owner)
           /\ DOMAIN new.messages = stored
           /\ \A m \in stored : new.messages[m] = "confirmed"
<1> DEFINE at(a) == {i \in DOMAIN order : Coparty(order[i]) = a}
           of(a) == Picked(order, at(a))
           some(a) == \E m \in unread : From[m] = a
           D == DOMAIN store.chats \cup {Coparty(m) : m \in stored}
<1>1. IsFiniteSet(stored)
  BY ChatAssumption, FS_Union, FS_Subset DEF Digests
<1>2. order \in Seq(stored) /\ IsInjective(order) /\ ToSet(order) = stored
  BY <1>1, OrderOnce
<1>3. Digests \subseteq Keys /\ undef \notin Digests
  BY ChatAssumption DEF Digests, Keys
<1>4. /\ new.messages = [m \in stored |-> "confirmed"]
      /\ new.chats = [a \in D |-> [list |-> of(a), unread |-> some(a)]]
      /\ new = [messages |-> new.messages, chats |-> new.chats]
  BY DEF Rehydrated
<1>5. ASSUME NEW a
      PROVE  /\ of(a) \in Seq(Keys)
             /\ IsInjective(of(a))
             /\ ToSet(of(a)) \subseteq stored
             /\ \A m \in ToSet(of(a)) : Coparty(m) = a
  <2>1. order \in Seq(Keys)
    BY <1>2, <1>3
  <2>2. at(a) \subseteq DOMAIN order
    OBVIOUS
  <2>3. /\ of(a) \in Seq(Keys)
        /\ ToSet(of(a)) = {order[i] : i \in at(a)}
        /\ IsInjective(of(a))
    <3> HIDE DEF at
    <3>1. QED
      BY <1>2, <2>1, <2>2, PickedProperties
  <2>4. QED
    BY <1>2, <2>3 DEF ToSet
<1>6. ASSUME NEW a \in DOMAIN new.chats
      PROVE  new.chats[a] \in ChatRecord /\ new.chats[a].list = of(a)
  <2> DEFINE l == of(a)
             u == some(a)
  <2>1. l \in Seq(Keys) /\ u \in BOOLEAN
    BY <1>5
  <2>2. new.chats[a] = [list |-> l, unread |-> u]
    BY <1>4
  <2> HIDE DEF l, u
  <2>3. new.chats[a] \in ChatRecord /\ new.chats[a].list = l
    BY <2>1, <2>2 DEF ChatRecord
  <2>4. QED
    BY <2>3 DEF l
<1>7. StoreType(new)
  <2>1. DOMAIN new.chats = D /\ D \subseteq Addrs
    BY <1>4
  <2>2. new.chats = [a \in DOMAIN new.chats |-> new.chats[a]]
    BY <1>4
  <2>3. new.chats \in [DOMAIN new.chats -> ChatRecord]
    BY <1>6, <2>2
  <2>4. DOMAIN new.messages \subseteq Keys /\ new.messages \in [DOMAIN new.messages -> Status]
    BY <1>3, <1>4 DEF Status
  <2>5. QED
    BY <1>4, <2>1, <2>3, <2>4 DEF StoreType
<1>8. Tidy(new, Owner)
  <2>1. \A a \in DOMAIN new.chats :
          /\ IsInjective(new.chats[a].list)
          /\ ToSet(new.chats[a].list) \subseteq DOMAIN new.messages
          /\ \A k \in ToSet(new.chats[a].list) : Owner[k] = a
          /\ undef \notin ToSet(new.chats[a].list)
    <3>1. DOMAIN new.messages = stored
      BY <1>4
    <3>2. \A a, k : k \in ToSet(of(a)) => Owner[k] = a /\ k # undef
      BY <1>3, <1>5 DEF Owner
    <3> HIDE DEF of
    <3>3. QED
      BY <1>5, <1>6, <3>1, <3>2
  <2>2. QED
    BY <2>1 DEF Tidy
<1>9. QED
  BY <1>4, <1>7, <1>8

-----------------------------------------------------------------------------
(* What is left to show of a step that changes little.                     *)

\* The parts of the invariant about the store.
StoreInv ==
    /\ StoreType(store)
    /\ UnsentIsNowhere
    /\ Tidy(store, Owner)
    /\ SendingInProgress

\* A step that starts no send and no call, and writes nothing to the disk.
LEMMA SameSends ==
    ASSUME StoreInv, WorkType, sends' = sends, calls' = calls, stored' \subseteq stored,
           StoreType(store'), Tidy(store', Owner),
           \A m \in DOMAIN store'.messages :
               \/ m \in DOMAIN store.messages /\ store'.messages[m] = store.messages[m]
               \/ m = undef /\ store'.messages[m] # "sending"
    PROVE  StoreInv'
<1>1. Owner' = Owner
  BY DEF Owner, Coparty
<1>2. UnsentIsNowhere'
  BY ChatAssumption DEF StoreInv, UnsentIsNowhere
<1>3. SendingInProgress'
  BY DEF StoreInv, SendingInProgress
<1>4. QED
  BY <1>1, <1>2, <1>3 DEF StoreInv

\* A step that leaves the store and what is under way alone.
LEMMA SameStore ==
    ASSUME StoreInv, sends' = sends, calls' = calls, stored' = stored, store' = store
    PROVE  StoreInv'
<1>1. Owner' = Owner
  BY DEF Owner, Coparty
<1>2. UnsentIsNowhere' /\ SendingInProgress'
  BY DEF StoreInv, UnsentIsNowhere, SendingInProgress
<1>3. QED
  BY <1>1, <1>2 DEF StoreInv

\* A step after which the active chat has nothing unread that it had not.
LEMMA SameReading ==
    ASSUME ReadWhileOpen, active' = active, dropped' = dropped,
           active \in DOMAIN store'.chats /\ store'.chats[active].unread =>
               active \in DOMAIN store.chats /\ store.chats[active].unread
    PROVE  ReadWhileOpen'
  BY DEF ReadWhileOpen

\* Nothing changes on the screen while route and chat stay.
LEMMA SameScreen ==
    ASSUME ActiveOnScreen, active' = active, route' = route, dropped' = dropped
    PROVE  ActiveOnScreen'
  BY DEF ActiveOnScreen

\* Keys belong to their contacts while neither store nor pages change.
LEMMA SameKeys ==
    ASSUME KeyBelongs, contacts' = contacts, byPage' = byPage
    PROVE  KeyBelongs'
  BY DEF KeyBelongs

\* A step that begins no send and no call keeps the types of those under way.
LEMMA SameWork ==
    ASSUME WorkType, sends' = sends, calls' = calls, stored' \subseteq stored,
           deleting' \subseteq Digests
    PROVE  WorkType'
  BY DEF WorkType

\* An answer for an address keeps the keys of the others.
LEMMA UpdatedKeys ==
    ASSUME NEW known, DOMAIN known \subseteq Addrs,
           known \in [DOMAIN known -> Addrs \cup {none}], NEW a \in Addrs
    PROVE  /\ DOMAIN Updated(known, a) = DOMAIN known
           /\ Updated(known, a) \in [DOMAIN known -> Addrs \cup {none}]
           /\ \A x \in DOMAIN known : Updated(known, a)[x] \in {known[x], x}
  BY DEF Updated

-----------------------------------------------------------------------------
(* The steps.                                                              *)

\* The invariant holds when the client is started for the first time.
LEMMA ChatsInitInv == ChatsInit => ChatsInv
<1> SUFFICES ASSUME ChatsInit PROVE ChatsInv
  OBVIOUS
<1>1. /\ store.messages = <<>> /\ store.chats = <<>>
      /\ store = [messages |-> store.messages, chats |-> store.chats]
      /\ DOMAIN store.messages = {} /\ DOMAIN store.chats = {}
  BY DEF ChatsInit
<1>2. PagesType
  BY DEF ChatsInit, PagesType, NewPage
<1>3. Idle \in [batch : Seq(Digests), at : Nat] /\ Idle.batch = <<>>
  BY DEF Idle
<1>4. IsInjective(<<>>) /\ ToSet(<<>>) = {}
  BY DEF IsInjective, ToSet
<1>5. CallType(Idle)
  BY <1>3, <1>4 DEF CallType
<1>6. WorkType
  BY <1>3, <1>5 DEF ChatsInit, WorkType, SendType
<1>7. StoreType(store)
  <2>1. /\ store.messages \in [DOMAIN store.messages -> Status]
        /\ store.chats \in [DOMAIN store.chats -> ChatRecord]
    BY <1>1
  <2>2. QED
    BY <1>1, <2>1 DEF StoreType
<1>8. UnsentIsNowhere
  BY <1>1, <1>3, <1>4 DEF ChatsInit, UnsentIsNowhere
<1>9. Tidy(store, Owner) /\ SendingInProgress /\ ReadWhileOpen
  BY <1>1 DEF Tidy, SendingInProgress, ReadWhileOpen
<1>10. KeyBelongs /\ ActiveOnScreen
  BY DEF ChatsInit, KeyBelongs, ActiveOnScreen
<1>11. QED
  BY <1>2, <1>6, <1>7, <1>8, <1>9, <1>10 DEF ChatsInv

\* A chat comes to the screen, with the contacts known.
LEMMA EnsureStep ==
    ASSUME ChatsInv, NEW a \in Addrs, NEW known, ensureChatState(a, known),
           DOMAIN known \subseteq Addrs, known \in [DOMAIN known -> Addrs \cup {none}],
           refreshing' \subseteq Addrs, UNCHANGED <<calls, sends, deleting, stored>>
    PROVE  PagesType' /\ WorkType' /\ StoreInv' /\ ActiveOnScreen' /\ ReadWhileOpen'
<1>1. PagesType'
  <2>1. NewPage \in [address : Addrs \cup {none}, contact : Addrs \cup {none}, lookups : SUBSET Addrs]
    BY DEF NewPage
  <2>2. QED
    BY <2>1 DEF ensureChatState, PagesType
<1>2. WorkType'
  BY SameWork DEF ChatsInv, WorkType
<1>3. /\ StoreType(store') /\ Tidy(store', Owner)
      /\ store'.messages = store.messages
      /\ a \in DOMAIN store'.chats => ~ store'.chats[a].unread
  <2>1. store' = Shown(store, a)
    BY DEF ensureChatState, Shown
  <2>2. StoreType(store) /\ Tidy(store, Owner)
    BY DEF ChatsInv
  <2>3. QED
    BY <2>1, <2>2, OpenedTidy
<1>4. StoreInv'
  BY <1>3, SameSends DEF ChatsInv, StoreInv
<1>5. ActiveOnScreen' /\ ReadWhileOpen'
  BY <1>3 DEF ensureChatState, ActiveOnScreen, ReadWhileOpen
<1>6. QED
  BY <1>1, <1>2, <1>4, <1>5

\* The navigation and the contacts: what leaves the store alone.
LEMMA PageSteps ==
    ASSUME ChatsInv,
           \/ LeaveChat
           \/ \E a \in Addrs : ClickNotification(a) \/ RefreshContact(a)
           \/ \E a \in Addrs, ok \in BOOLEAN : RefreshAnswered(a, ok) \/ LookupAnswered(a, ok)
           \/ \E a \in Addrs \cup {none} : TypeAddress(a)
           \/ \E k \in Digests : ClickDelete(k)
    PROVE  ChatsInv'
<1>0. PagesType /\ WorkType /\ StoreInv /\ KeyBelongs /\ ActiveOnScreen /\ ReadWhileOpen
  BY DEF ChatsInv, StoreInv
<1>1. /\ store' = store /\ sends' = sends /\ calls' = calls /\ stored' = stored
      /\ byPage' = byPage /\ dropped' = dropped
  BY DEF LeaveChat, ClickNotification, RefreshContact, RefreshAnswered, LookupAnswered,
         TypeAddress, ClickDelete
<1>2. deleting' \subseteq Digests
  BY <1>0 DEF LeaveChat, ClickNotification, RefreshContact, RefreshAnswered, LookupAnswered,
              TypeAddress, ClickDelete, WorkType
<1>3. StoreInv' /\ WorkType'
  BY <1>0, <1>1, <1>2, SameStore, SameWork
<1>4. CASE LeaveChat
  <2>1. PagesType' /\ KeyBelongs' /\ ActiveOnScreen'
    BY <1>0, <1>1, <1>4 DEF LeaveChat, PagesType, KeyBelongs, ActiveOnScreen
  <2>2. ReadWhileOpen'
    <3>1. none \notin DOMAIN store.chats
      BY <1>0, ChatAssumption DEF StoreInv, StoreType
    <3>2. QED
      BY <1>1, <1>4, <3>1 DEF LeaveChat, ReadWhileOpen
  <2>3. QED
    BY <1>3, <2>1, <2>2 DEF ChatsInv, StoreInv
<1>5. CASE \E a \in Addrs : ClickNotification(a)
  <2>1. PICK a \in Addrs : ClickNotification(a)
    BY <1>5
  <2>2. PagesType' /\ KeyBelongs' /\ ActiveOnScreen'
    BY <1>0, <1>1, <2>1 DEF ClickNotification, PagesType, KeyBelongs, ActiveOnScreen
  <2>3. route = a /\ active # a /\ active' = a
    BY <2>1 DEF ClickNotification
  <2>4. a \in dropped
    BY <1>0, <2>3, ChatAssumption DEF ActiveOnScreen
  <2>5. ReadWhileOpen'
    BY <1>1, <2>3, <2>4 DEF ReadWhileOpen
  <2>6. QED
    BY <1>3, <2>2, <2>5 DEF ChatsInv, StoreInv
<1>6. ASSUME active' = active, route' = route, PagesType', KeyBelongs'
      PROVE  ChatsInv'
  <2>1. ActiveOnScreen' /\ ReadWhileOpen'
    BY <1>0, <1>1, <1>6, SameScreen, SameReading
  <2>2. QED
    BY <1>3, <1>6, <2>1 DEF ChatsInv, StoreInv
<1>7. CASE \E a \in Addrs : RefreshContact(a)
  <2>1. PICK a \in Addrs : RefreshContact(a)
    BY <1>7
  <2>2. active' = active /\ route' = route /\ PagesType' /\ KeyBelongs'
    BY <1>0, <1>1, <2>1 DEF RefreshContact, PagesType, KeyBelongs
  <2>3. QED
    BY <1>6, <2>2
<1>8. CASE \E a \in Addrs, ok \in BOOLEAN : RefreshAnswered(a, ok)
  <2>1. PICK a \in Addrs, ok \in BOOLEAN : RefreshAnswered(a, ok)
    BY <1>8
  <2>2. /\ active' = active /\ route' = route /\ page' = page
        /\ refreshing' \subseteq refreshing
        /\ contacts' = Updated(contacts, a) \/ contacts' = contacts
    BY <2>1 DEF RefreshAnswered
  <2>3. /\ DOMAIN Updated(contacts, a) = DOMAIN contacts
        /\ Updated(contacts, a) \in [DOMAIN contacts -> Addrs \cup {none}]
        /\ \A x \in DOMAIN contacts : Updated(contacts, a)[x] \in {contacts[x], x}
    BY <1>0, UpdatedKeys DEF PagesType
  <2>4. PagesType'
    BY <1>0, <2>2, <2>3 DEF PagesType
  <2>5. KeyBelongs'
    BY <1>0, <1>1, <2>2, <2>3 DEF KeyBelongs
  <2>6. QED
    BY <1>6, <2>2, <2>4, <2>5
<1>9. CASE \E a \in Addrs, ok \in BOOLEAN : LookupAnswered(a, ok)
  <2>1. PICK a \in Addrs, ok \in BOOLEAN : LookupAnswered(a, ok)
    BY <1>9
  <2>2. /\ active' = active /\ route' = route /\ contacts' = contacts /\ refreshing' = refreshing
        /\ page' = [page EXCEPT !.contact = IF ok THEN a ELSE none, !.lookups = @ \ {a}]
    BY <2>1 DEF LookupAnswered
  <2>3. PagesType'
    BY <1>0, <2>2 DEF PagesType
  <2>4. QED
    BY <1>0, <1>1, <1>6, <2>2, <2>3, SameKeys
<1>10. CASE \E a \in Addrs \cup {none} : TypeAddress(a)
  <2>1. PICK a \in Addrs \cup {none} : TypeAddress(a)
    BY <1>10
  <2>2. /\ active' = active /\ route' = route /\ contacts' = contacts /\ refreshing' = refreshing
        /\ page' = IF a = none
               THEN [page EXCEPT !.address = none, !.contact = none]
               ELSE [page EXCEPT !.address = a, !.lookups = @ \cup {a}]
    BY <2>1 DEF TypeAddress
  <2>3. PagesType'
    BY <1>0, <2>2 DEF PagesType
  <2>4. QED
    BY <1>0, <1>1, <1>6, <2>2, <2>3, SameKeys
<1>11. CASE \E k \in Digests : ClickDelete(k)
  <2>1. PICK k \in Digests : ClickDelete(k)
    BY <1>11
  <2>2. active' = active /\ route' = route /\ PagesType' /\ KeyBelongs'
    BY <1>0, <1>1, <2>1 DEF ClickDelete, PagesType, KeyBelongs
  <2>3. QED
    BY <1>6, <2>2
<1>12. QED
  BY <1>4, <1>5, <1>7, <1>8, <1>9, <1>10, <1>11

\* A chat is opened, from the list of chats or by the page that adds a contact.
LEMMA OpenSteps ==
    ASSUME ChatsInv, AddContact \/ \E a \in Addrs : Navigate(a)
    PROVE  ChatsInv'
<1>0. PagesType /\ WorkType /\ StoreInv /\ KeyBelongs /\ ActiveOnScreen /\ ReadWhileOpen
  BY DEF ChatsInv, StoreInv
<1>1. CASE AddContact
  <2> DEFINE a == page.address
             y == page.contact
             known == With(contacts, a, y)
  <2>1. /\ a \in Addrs /\ y \in Addrs \cup {none}
        /\ ensureChatState(a, known)
        /\ byPage' = byPage \cup {a}
        /\ refreshing' \subseteq refreshing \cup {a}
        /\ UNCHANGED <<calls, sends, deleting, stored>>
    BY <1>0, <1>1 DEF AddContact, PagesType
  <2>2. /\ DOMAIN known \subseteq Addrs
        /\ known \in [DOMAIN known -> Addrs \cup {none}]
        /\ DOMAIN known = DOMAIN contacts \cup {a}
        /\ \A x \in DOMAIN contacts \cup {a} : known[x] = IF x = a THEN y ELSE contacts[x]
    <3>1. DOMAIN contacts \subseteq Addrs /\ contacts \in [DOMAIN contacts -> Addrs \cup {none}]
      BY <1>0 DEF PagesType
    <3>2. a \in Addrs /\ y \in Addrs \cup {none}
      BY <2>1
    <3> HIDE DEF a, y
    <3>3. QED
      BY <3>1, <3>2 DEF With
  <2>3. contacts' = known
    BY <2>1 DEF ensureChatState
  <2> HIDE DEF a, y, known
  <2>4. KeyBelongs'
    BY <1>0, <2>1, <2>2, <2>3 DEF KeyBelongs
  <2>5. refreshing' \subseteq Addrs
    BY <1>0, <2>1 DEF PagesType
  <2>6. PagesType' /\ WorkType' /\ StoreInv' /\ ActiveOnScreen' /\ ReadWhileOpen'
    BY <2>1, <2>2, <2>5, EnsureStep
  <2>7. QED
    BY <2>4, <2>6 DEF ChatsInv, StoreInv
<1>2. CASE \E a \in Addrs : Navigate(a)
  <2>1. PICK a \in Addrs : Navigate(a)
    BY <1>2
  <2> DEFINE known == IF a \in DOMAIN contacts THEN contacts ELSE With(contacts, a, none)
  <2>2. /\ ensureChatState(a, known)
        /\ byPage' = byPage
        /\ refreshing' \subseteq refreshing \cup {a}
        /\ UNCHANGED <<calls, sends, deleting, stored>>
    BY <2>1 DEF Navigate
  <2>3. /\ DOMAIN With(contacts, a, none) = DOMAIN contacts \cup {a}
        /\ With(contacts, a, none) \in [DOMAIN With(contacts, a, none) -> Addrs \cup {none}]
        /\ \A x \in DOMAIN contacts \cup {a} :
              With(contacts, a, none)[x] = IF x = a THEN none ELSE contacts[x]
    <3>1. DOMAIN contacts \subseteq Addrs /\ contacts \in [DOMAIN contacts -> Addrs \cup {none}]
      BY <1>0 DEF PagesType
    <3>2. none \in Addrs \cup {none}
      OBVIOUS
    <3>3. QED
      BY <3>1, <3>2 DEF With
  <2>4. /\ DOMAIN known \subseteq Addrs
        /\ known \in [DOMAIN known -> Addrs \cup {none}]
        /\ \A x \in DOMAIN known : known[x] = none \/ (x \in DOMAIN contacts /\ known[x] = contacts[x])
    <3>1. CASE a \in DOMAIN contacts
      BY <3>1, <1>0 DEF PagesType
    <3>2. CASE a \notin DOMAIN contacts
      <4>1. known = With(contacts, a, none)
        BY <3>2
      <4>2. DOMAIN contacts \cup {a} \subseteq Addrs
        BY <1>0 DEF PagesType
      <4>3. DOMAIN known = DOMAIN contacts \cup {a}
        BY <4>1, <2>3
      <4>4. \A x \in DOMAIN contacts \cup {a} : known[x] = IF x = a THEN none ELSE contacts[x]
        BY <4>1, <2>3
      <4>5. known \in [DOMAIN known -> Addrs \cup {none}]
        BY <4>1, <2>3
      <4> HIDE DEF known
      <4>6. \A x \in DOMAIN known : known[x] = none \/ (x \in DOMAIN contacts /\ known[x] = contacts[x])
        BY <4>3, <4>4
      <4>7. DOMAIN known \subseteq Addrs
        BY <4>2, <4>3
      <4>8. QED
        BY <4>5, <4>6, <4>7
    <3>3. QED
      BY <3>1, <3>2
  <2>5. contacts' = known
    BY <2>2 DEF ensureChatState
  <2> HIDE DEF known
  <2>6. KeyBelongs'
    BY <1>0, <2>2, <2>4, <2>5 DEF KeyBelongs
  <2>7. refreshing' \subseteq Addrs
    BY <1>0, <2>2 DEF PagesType
  <2>8. PagesType' /\ WorkType' /\ StoreInv' /\ ActiveOnScreen' /\ ReadWhileOpen'
    BY <2>2, <2>4, <2>7, EnsureStep
  <2>9. QED
    BY <2>6, <2>8 DEF ChatsInv, StoreInv
<1>3. QED
  BY <1>1, <1>2

\* The removals, the failed construction and the reset: no send is started.
LEMMA StoreSteps ==
    ASSUME ChatsInv,
           \/ ConstructFails \/ reset
           \/ \E a \in Addrs : clearChat(a) \/ deleteChat(a) \/ deleteContact(a)
           \/ \E k \in Digests, ok \in BOOLEAN : DeleteAnswered(k, ok)
    PROVE  ChatsInv'
<1>0. PagesType /\ WorkType /\ StoreInv /\ KeyBelongs /\ ActiveOnScreen /\ ReadWhileOpen
  BY DEF ChatsInv, StoreInv
<1>1. StoreType(store) /\ Tidy(store, Owner)
  BY <1>0 DEF StoreInv
<1>2. /\ sends' = sends /\ calls' = calls /\ byPage' = byPage /\ route' = route
      /\ refreshing' = refreshing /\ page' = page
      /\ stored' \subseteq stored /\ deleting' \subseteq deleting
  BY DEF ConstructFails, reset, clearChat, deleteChat, deleteContact, ChatDropped, DeleteAnswered
<1>3. WorkType'
  BY <1>0, <1>2, SameWork DEF WorkType
<1>4. ASSUME active' = active, dropped' = dropped, contacts' = contacts,
             StoreType(store'), Tidy(store', Owner),
             \A m \in DOMAIN store'.messages :
               \/ m \in DOMAIN store.messages /\ store'.messages[m] = store.messages[m]
               \/ m = undef /\ store'.messages[m] # "sending",
             \A x \in DOMAIN store'.chats :
                 store'.chats[x].unread => x \in DOMAIN store.chats /\ store.chats[x].unread
      PROVE  ChatsInv'
  <2>1. StoreInv'
    BY <1>0, <1>2, <1>4, SameSends
  <2>2. ActiveOnScreen' /\ ReadWhileOpen' /\ KeyBelongs'
    BY <1>0, <1>2, <1>4, SameScreen, SameReading, SameKeys
  <2>3. PagesType'
    BY <1>0, <1>2, <1>4 DEF PagesType
  <2>4. QED
    BY <1>3, <2>1, <2>2, <2>3 DEF ChatsInv, StoreInv
<1>5. CASE ConstructFails
  <2>1. /\ store' = SentLocally(store, route, undef, "error")
        /\ route # none /\ active' = active /\ dropped' = dropped /\ contacts' = contacts
    BY <1>5 DEF ConstructFails
  <2>2. route \in Addrs /\ undef \in Keys /\ "error" \in Status
    BY <1>0, <2>1 DEF PagesType, Keys, Status
  <2>3. /\ StoreType(store') /\ Tidy(store', Owner)
        /\ DOMAIN store'.messages \subseteq DOMAIN store.messages \cup {undef}
        /\ \A m \in DOMAIN store'.messages :
              store'.messages[m] = IF m = undef THEN "error" ELSE store.messages[m]
        /\ \A x \in DOMAIN store'.chats :
                 store'.chats[x].unread => x \in DOMAIN store.chats /\ store.chats[x].unread
    BY <1>1, <2>1, <2>2, SentTidy
  <2>4. QED
    BY <1>4, <2>1, <2>3
<1>6. CASE reset
  <2>1. /\ store' = Emptied(store)
        /\ active' = active /\ dropped' = dropped /\ contacts' = contacts
    BY <1>6 DEF reset, Emptied
  <2>2. /\ StoreType(store') /\ Tidy(store', Owner)
        /\ DOMAIN store'.messages = {}
        /\ DOMAIN store'.chats = DOMAIN store.chats
        /\ \A x \in DOMAIN store'.chats : store'.chats[x].unread = store.chats[x].unread
    BY <1>1, <2>1, ResetTidy
  <2>3. QED
    BY <1>4, <2>1, <2>2
<1>7. CASE \E a \in Addrs : clearChat(a)
  <2>1. PICK a \in Addrs : clearChat(a)
    BY <1>7
  <2>2. /\ store' = Cleared(store, a) /\ a \in DOMAIN store.chats
        /\ active' = active /\ dropped' = dropped /\ contacts' = contacts
    BY <2>1 DEF clearChat, Cleared
  <2>3. /\ StoreType(store') /\ Tidy(store', Owner)
        /\ store'.messages = store.messages
        /\ DOMAIN store'.chats = DOMAIN store.chats
        /\ \A x \in DOMAIN store'.chats : store'.chats[x].unread = store.chats[x].unread
    BY <1>1, <2>2, ClearedTidy
  <2>4. QED
    BY <1>4, <2>2, <2>3
<1>8. CASE \E a \in Addrs : deleteChat(a) \/ deleteContact(a)
  <2>1. PICK a \in Addrs : deleteChat(a) \/ deleteContact(a)
    BY <1>8
  <2>2. /\ store' = Dropped(store, a)
        /\ active' = IF active = a THEN none ELSE active
        /\ dropped' = IF route = a THEN dropped \cup {a} ELSE dropped
        /\ contacts' = contacts \/ contacts' = Without(contacts, a)
    BY <2>1 DEF deleteChat, deleteContact, ChatDropped, Dropped
  <2>3. /\ StoreType(store') /\ Tidy(store', Owner)
        /\ store'.messages = store.messages
        /\ DOMAIN store'.chats = DOMAIN store.chats \ {a}
        /\ \A x \in DOMAIN store'.chats : store'.chats[x] = store.chats[x]
    BY <1>1, <2>2, DroppedTidy
  <2>4. StoreInv'
    BY <1>0, <1>2, <2>3, SameSends
  <2>5. PagesType' /\ KeyBelongs'
    BY <1>0, <1>2, <2>2 DEF PagesType, KeyBelongs, Without
  <2>6. ActiveOnScreen'
    BY <1>0, <1>2, <2>2 DEF ActiveOnScreen
  <2>7. ReadWhileOpen'
    <3>1. none \notin DOMAIN store'.chats
      BY <2>3, ChatAssumption DEF StoreType
    <3>2. QED
      BY <1>0, <2>2, <2>3, <3>1 DEF ReadWhileOpen
  <2>8. QED
    BY <1>3, <2>4, <2>5, <2>6, <2>7 DEF ChatsInv, StoreInv
<1>9. CASE \E k \in Digests, ok \in BOOLEAN : DeleteAnswered(k, ok)
  <2>1. PICK k \in Digests, ok \in BOOLEAN : DeleteAnswered(k, ok)
    BY <1>9
  <2>2. /\ store' = WithoutMessage(store, Coparty(k), k) \/ store' = store
        /\ active' = active /\ dropped' = dropped /\ contacts' = contacts
    BY <2>1 DEF DeleteAnswered
  <2>3. Owner[k] = Coparty(k)
    BY DEF Owner
  <2>4. CASE store' = WithoutMessage(store, Coparty(k), k)
    <3>1. /\ StoreType(store') /\ Tidy(store', Owner)
          /\ DOMAIN store'.messages = DOMAIN store.messages \ {k}
          /\ \A m \in DOMAIN store'.messages : store'.messages[m] = store.messages[m]
          /\ DOMAIN store'.chats = DOMAIN store.chats
          /\ \A x \in DOMAIN store'.chats : store'.chats[x].unread = store.chats[x].unread
      BY <1>1, <2>3, <2>4, RemovedTidy
    <3>2. QED
      BY <1>4, <2>2, <3>1
  <2>5. CASE store' = store
    BY <1>1, <1>4, <2>2, <2>5
  <2>6. QED
    BY <2>2, <2>4, <2>5
<1>10. QED
  BY <1>5, <1>6, <1>7, <1>8, <1>9

\* A send starts, in a store that lost at most a message.
LEMMA SendStartsStep ==
    ASSUME StoreInv, WorkType, NEW st, StoreType(st), Tidy(st, Owner),
           DOMAIN st.messages \subseteq DOMAIN store.messages,
           \A m \in DOMAIN st.messages : st.messages[m] = store.messages[m],
           \A x \in DOMAIN st.chats : st.chats[x].unread => x \in DOMAIN store.chats /\ store.chats[x].unread,
           NEW s \in Outbound, NEW a \in Addrs, SendStarts(st, s, a),
           calls' = calls, stored' = stored, deleting' = deleting
    PROVE  /\ StoreInv' /\ WorkType'
           /\ \A x \in DOMAIN store'.chats :
                 store'.chats[x].unread => x \in DOMAIN store.chats /\ store.chats[x].unread
<1>1. /\ sends[s].at = "idle"
      /\ sends' = [sends EXCEPT ![s] = [to |-> a, at |-> "sending"]]
      /\ store' = SentLocally(st, a, s, "sending")
  BY DEF SendStarts
<1>2. /\ sends' \in [Outbound -> [to : Addrs \cup {none}, at : {"idle", "sending", "sent", "failed"}]]
      /\ sends'[s].at = "sending" /\ sends'[s].to = a
      /\ \A q \in Outbound \ {s} : sends'[q] = sends[q]
  BY <1>1 DEF WorkType
<1>3. WorkType'
  <2>1. \A q \in Outbound : SendType(sends'[q])
    <3>1. SendType(sends'[s])
      BY <1>2 DEF SendType
    <3>2. QED
      BY <1>2, <3>1 DEF WorkType
  <2>2. QED
    BY <1>2, <2>1 DEF WorkType
<1>4. s \in Digests /\ s # undef /\ s \in Keys /\ "sending" \in Status /\ s \notin Incoming
  BY ChatAssumption DEF Digests, Keys, Status
<1>5. /\ Owner'[s] = a
      /\ \A k \in Digests \ {s} : Owner'[k] = Owner[k]
  BY <1>2, <1>4 DEF Owner, Coparty, Digests
<1>6. s \notin DOMAIN store.messages
  BY <1>1 DEF StoreInv, UnsentIsNowhere
<1>7. Tidy(st, Owner')
  <2>1. \A k \in DOMAIN st.messages \ {undef} : Owner'[k] = Owner[k]
    BY <1>5, <1>6 DEF StoreType, Keys, Digests
  <2>2. QED
    BY <2>1, TidyOwners
<1>8. /\ StoreType(store') /\ Tidy(store', Owner')
      /\ DOMAIN store'.messages \subseteq DOMAIN st.messages \cup {s}
      /\ \A m \in DOMAIN store'.messages :
            store'.messages[m] = IF m = s THEN "sending" ELSE st.messages[m]
      /\ \A x \in DOMAIN store'.chats :
            store'.chats[x].unread => x \in DOMAIN st.chats /\ st.chats[x].unread
  BY <1>1, <1>4, <1>5, <1>7, SentTidy
<1>9. UnsentIsNowhere'
  BY <1>2, <1>8 DEF StoreInv, UnsentIsNowhere
<1>10. SendingInProgress'
  BY <1>2, <1>8 DEF StoreInv, SendingInProgress
<1>11. QED
  BY <1>3, <1>8, <1>9, <1>10 DEF StoreInv

\* The outcome of a send is reported.
LEMMA OutcomeStep ==
    ASSUME StoreInv, WorkType, NEW s \in Outbound, sends[s].at = "sending",
           NEW end \in {"sent", "failed"}, sends' = [sends EXCEPT ![s].at = end],
           NEW status \in {"error", "confirmed"}, store' = SentLocally(store, sends[s].to, s, status),
           calls' = calls, stored' \subseteq stored \cup {s}, deleting' = deleting
    PROVE  /\ StoreInv' /\ WorkType'
           /\ \A x \in DOMAIN store'.chats :
                 store'.chats[x].unread => x \in DOMAIN store.chats /\ store.chats[x].unread
<1>1. /\ sends[s] \in [to : Addrs \cup {none}, at : {"idle", "sending", "sent", "failed"}]
      /\ sends[s].to \in Addrs
  BY DEF WorkType, SendType
<1> DEFINE e == [sends[s] EXCEPT !.at = end]
<1>2. /\ e \in [to : Addrs \cup {none}, at : {"idle", "sending", "sent", "failed"}]
      /\ e.at = end /\ e.to = sends[s].to
  BY <1>1
<1>3. sends' = [sends EXCEPT ![s] = e]
  OBVIOUS
<1> HIDE DEF e
<1>4. /\ sends' \in [Outbound -> [to : Addrs \cup {none}, at : {"idle", "sending", "sent", "failed"}]]
      /\ sends'[s] = e
      /\ \A q \in Outbound \ {s} : sends'[q] = sends[q]
  BY <1>2, <1>3 DEF WorkType
<1>5. s \in Digests /\ s # undef /\ s \in Keys /\ status \in Status /\ s \notin Incoming
  BY ChatAssumption DEF Digests, Keys, Status
<1>6. WorkType'
  <2>1. SendType(sends'[s])
    BY <1>1, <1>2, <1>4 DEF SendType
  <2>2. \A q \in Outbound : SendType(sends'[q])
    BY <1>4, <2>1 DEF WorkType
  <2>3. QED
    BY <1>4, <1>5, <2>2 DEF WorkType
<1>7. Owner' = Owner
  BY <1>2, <1>4 DEF Owner, Coparty, Digests
<1>8. Owner[s] = sends[s].to
  BY <1>5 DEF Owner, Coparty
<1>9. /\ StoreType(store') /\ Tidy(store', Owner)
      /\ DOMAIN store'.messages \subseteq DOMAIN store.messages \cup {s}
      /\ \A m \in DOMAIN store'.messages :
            store'.messages[m] = IF m = s THEN status ELSE store.messages[m]
      /\ \A x \in DOMAIN store'.chats :
            store'.chats[x].unread => x \in DOMAIN store.chats /\ store.chats[x].unread
  <2>1. StoreType(store) /\ Tidy(store, Owner)
    BY DEF StoreInv
  <2>2. QED
    BY <1>1, <1>5, <1>8, <2>1, SentTidy
<1>10. UnsentIsNowhere'
  BY <1>2, <1>4, <1>9 DEF StoreInv, UnsentIsNowhere
<1>11. SendingInProgress'
  BY <1>4, <1>9 DEF StoreInv, SendingInProgress
<1>12. QED
  BY <1>6, <1>7, <1>9, <1>10, <1>11 DEF StoreInv

\* Sending, and the ways a send ends.
LEMMA SendSteps ==
    ASSUME ChatsInv,
           \/ \E s \in Outbound : Send(s) \/ SendFails(s)
           \/ \E s \in Outbound, ok \in BOOLEAN : SendSucceeds(s, ok)
           \/ \E k \in Outbound, s \in Outbound : Resend(k, s)
    PROVE  ChatsInv'
<1>0. PagesType /\ WorkType /\ StoreInv /\ KeyBelongs /\ ActiveOnScreen /\ ReadWhileOpen
  BY DEF ChatsInv, StoreInv
<1>1. StoreType(store) /\ Tidy(store, Owner)
  BY <1>0 DEF StoreInv
<1>2. /\ active' = active /\ route' = route /\ contacts' = contacts /\ refreshing' = refreshing
      /\ page' = page /\ byPage' = byPage /\ dropped' = dropped
      /\ calls' = calls /\ deleting' = deleting
  BY DEF Send, SendFails, SendSucceeds, Resend
<1>3. ASSUME StoreInv', WorkType',
             \A x \in DOMAIN store'.chats :
                 store'.chats[x].unread => x \in DOMAIN store.chats /\ store.chats[x].unread
      PROVE  ChatsInv'
  <2>1. ActiveOnScreen' /\ ReadWhileOpen' /\ KeyBelongs'
    BY <1>0, <1>2, <1>3, SameScreen, SameReading, SameKeys
  <2>2. PagesType'
    BY <1>0, <1>2 DEF PagesType
  <2>3. QED
    BY <1>3, <2>1, <2>2 DEF ChatsInv, StoreInv
<1>4. CASE \E s \in Outbound : Send(s)
  <2>1. PICK s \in Outbound : Send(s)
    BY <1>4
  <2>2. SendStarts(store, s, route) /\ route # none /\ stored' = stored
    BY <2>1 DEF Send
  <2>3. route \in Addrs
    BY <1>0, <2>2 DEF PagesType
  <2>4. QED
    BY <1>0, <1>1, <1>2, <1>3, <2>2, <2>3, SendStartsStep
<1>5. CASE \E k \in Outbound, s \in Outbound : Resend(k, s)
  <2>1. PICK k \in Outbound, s \in Outbound : Resend(k, s)
    BY <1>5
  <2> DEFINE st == WithoutMessage(store, route, k)
  <2>2. /\ SendStarts(st, s, route) /\ stored' = stored
        /\ route \in DOMAIN store.chats
        /\ k \in ToSet(store.chats[route].list) \ {undef}
    BY <2>1 DEF Resend, OnScreen
  <2>3. route \in Addrs /\ Owner[k] = route /\ k \in Digests
    BY <1>1, <2>2 DEF StoreType, Tidy, Digests
  <2>4. /\ StoreType(st) /\ Tidy(st, Owner)
        /\ DOMAIN st.messages = DOMAIN store.messages \ {k}
        /\ \A m \in DOMAIN st.messages : st.messages[m] = store.messages[m]
        /\ DOMAIN st.chats = DOMAIN store.chats
        /\ \A x \in DOMAIN st.chats : st.chats[x].unread = store.chats[x].unread
    BY <1>1, <2>3, RemovedTidy
  <2> HIDE DEF st
  <2>5. QED
    BY <1>0, <1>2, <1>3, <2>2, <2>3, <2>4, SendStartsStep
<1>6. CASE \E s \in Outbound : SendFails(s)
  <2>1. PICK s \in Outbound : SendFails(s)
    BY <1>6
  <2>2. /\ sends[s].at = "sending" /\ sends' = [sends EXCEPT ![s].at = "failed"]
        /\ store' = SentLocally(store, sends[s].to, s, "error")
        /\ stored' \subseteq stored \cup {s}
    BY <2>1 DEF SendFails
  <2>3. /\ StoreInv' /\ WorkType'
        /\ \A x \in DOMAIN store'.chats :
              store'.chats[x].unread => x \in DOMAIN store.chats /\ store.chats[x].unread
    BY <1>0, <1>2, <2>2, OutcomeStep
  <2>4. QED
    BY <1>3, <2>3
<1>7. CASE \E s \in Outbound, ok \in BOOLEAN : SendSucceeds(s, ok)
  <2>1. PICK s \in Outbound, ok \in BOOLEAN : SendSucceeds(s, ok)
    BY <1>7
  <2>2. /\ sends[s].at = "sending" /\ sends' = [sends EXCEPT ![s].at = "sent"]
        /\ store' = SentLocally(store, sends[s].to, s, "confirmed")
        /\ stored' \subseteq stored \cup {s}
    BY <2>1 DEF SendSucceeds
  <2>3. /\ StoreInv' /\ WorkType'
        /\ \A x \in DOMAIN store'.chats :
              store'.chats[x].unread => x \in DOMAIN store.chats /\ store.chats[x].unread
    BY <1>0, <1>2, <2>2, OutcomeStep
  <2>4. QED
    BY <1>3, <2>3
<1>8. QED
  BY <1>4, <1>5, <1>6, <1>7

\* A batch that may be under way: no message of it is one never sent.
Known(batch) ==
    /\ batch \in Seq(Digests)
    /\ IsInjective(batch)
    /\ \A m \in ToSet(batch) \cap Outbound : sends[m].at # "idle"

\* A call goes on to the next stranger or adds its messages.
LEMMA ProceedStep ==
    ASSUME ChatsInv, NEW r \in Batches, NEW batch, Known(batch), NEW i \in Nat \ {0},
           NEW known, DOMAIN known \subseteq Addrs, known \in [DOMAIN known -> Addrs \cup {none}],
           \A x \in DOMAIN known : known[x] \in {none, x} \/ x \in byPage,
           Proceed(r, batch, i, known),
           stored \subseteq stored', stored' \subseteq stored \cup ToSet(batch),
           UNCHANGED <<active, route, refreshing, sends, deleting, page, byPage, dropped>>
    PROVE  ChatsInv'
<1>0. PagesType /\ WorkType /\ StoreInv /\ KeyBelongs /\ ActiveOnScreen /\ ReadWhileOpen
  BY DEF ChatsInv, StoreInv
<1>1. StoreType(store) /\ Tidy(store, Owner)
  BY <1>0 DEF StoreInv
<1>2. batch \in Seq(Digests) /\ IsInjective(batch)
  BY DEF Known
<1>3. \A m \in ToSet(batch) : m \in Digests
  BY <1>2 DEF ToSet
<1>4. \A m \in ToSet(batch) : Coparty(m) \in Addrs
  BY <1>0, <1>3, ChatAssumption DEF Known, Coparty, Digests, WorkType, SendType
<1>5. \A m \in Outbound : sends[m].at = "idle" => m \notin ToSet(batch)
  BY DEF Known
<1>6. Owner' = Owner
  BY DEF Owner, Coparty
<1> DEFINE strangers == {j \in i..Len(batch) : Coparty(batch[j]) \notin DOMAIN known}
<1>7. CASE /\ strangers # {}
           /\ contacts' = With(known, Coparty(batch[Min(strangers)]), Coparty(batch[Min(strangers)]))
           /\ calls' = [calls EXCEPT ![r] = [batch |-> batch, at |-> Min(strangers)]]
           /\ store' = store
  <2> DEFINE j == Min(strangers)
             a == Coparty(batch[j])
  <2>1. strangers \subseteq Nat
    BY <1>2
  <2>2. j \in strangers
    BY <1>7, <2>1, MinProperties
  <2>3. j \in DOMAIN batch /\ j \in Nat
    BY <1>2, <2>2
  <2>4. batch[j] \in ToSet(batch)
    BY <2>3 DEF ToSet
  <2>5. a \in Addrs
    BY <1>4, <2>4
  <2>6. /\ contacts' = With(known, a, a)
        /\ calls' = [calls EXCEPT ![r] = [batch |-> batch, at |-> j]]
    BY <1>7
  <2> HIDE DEF strangers, j, a
  <2>7. /\ DOMAIN contacts' = DOMAIN known \cup {a}
        /\ contacts' \in [DOMAIN contacts' -> Addrs \cup {none}]
        /\ \A x \in DOMAIN known \cup {a} : contacts'[x] = IF x = a THEN a ELSE known[x]
    BY <2>5, <2>6 DEF With
  <2>8. PagesType'
    <3>1. DOMAIN contacts' \subseteq Addrs
      BY <2>5, <2>7
    <3>2. QED
      BY <1>0, <2>7, <3>1 DEF PagesType
  <2>9. KeyBelongs'
    BY <2>7 DEF KeyBelongs
  <2> DEFINE c == [batch |-> batch, at |-> j]
  <2>10. c \in [batch : Seq(Digests), at : Nat] /\ c.batch = batch /\ c.at = j
    BY <1>2, <2>3
  <2>11. calls' = [calls EXCEPT ![r] = c]
    BY <2>6
  <2> HIDE DEF c
  <2>12. CallType(c)
    BY <1>2, <2>3, <2>10 DEF CallType
  <2>13. /\ calls' \in [Batches -> [batch : Seq(Digests), at : Nat]]
         /\ \A q \in Batches : calls'[q] = IF q = r THEN c ELSE calls[q]
    BY <1>0, <2>10, <2>11 DEF WorkType
  <2>14. WorkType'
    <3>1. \A q \in Batches : CallType(calls'[q])
      BY <1>0, <2>12, <2>13 DEF WorkType
    <3>2. stored' \subseteq Digests
      BY <1>0, <1>3 DEF WorkType
    <3>3. QED
      BY <1>0, <2>13, <3>1, <3>2 DEF WorkType
  <2>15. StoreInv'
    <3>1. UnsentIsNowhere'
      BY <1>0, <1>5, <1>7, <2>10, <2>13 DEF StoreInv, UnsentIsNowhere
    <3>2. SendingInProgress'
      BY <1>0, <1>7 DEF StoreInv, SendingInProgress
    <3>3. QED
      BY <1>1, <1>6, <1>7, <3>1, <3>2 DEF StoreInv
  <2>16. ActiveOnScreen' /\ ReadWhileOpen'
    BY <1>0, <1>7, SameScreen, SameReading
  <2>17. QED
    BY <2>8, <2>9, <2>14, <2>15, <2>16 DEF ChatsInv, StoreInv
<1>8. CASE /\ contacts' = known
           /\ calls' = [calls EXCEPT ![r] = Done]
           /\ \E counted \in SUBSET ToSet(NewPart(store, batch)) : store' = WithBatch(store, batch, counted)
  <2>1. PICK counted \in SUBSET ToSet(NewPart(store, batch)) : store' = WithBatch(store, batch, counted)
    BY <1>8
  <2>2. /\ StoreType(store')
        /\ Tidy(store', Owner)
        /\ DOMAIN store'.messages \subseteq DOMAIN store.messages \cup ToSet(batch)
        /\ \A m \in DOMAIN store'.messages :
              \/ store'.messages[m] = "confirmed"
              \/ m \in DOMAIN store.messages /\ store'.messages[m] = store.messages[m]
        /\ active \in DOMAIN store'.chats /\ store'.chats[active].unread =>
              active \in DOMAIN store.chats /\ store.chats[active].unread
    BY <1>1, <1>2, <1>4, <2>1, BatchTidy
  <2>3. /\ Done \in [batch : Seq(Digests), at : Nat] /\ Done.batch = <<>>
    BY DEF Done
  <2>4. IsInjective(<<>>) /\ ToSet(<<>>) = {}
    BY DEF IsInjective, ToSet
  <2>5. CallType(Done)
    BY <2>3, <2>4 DEF CallType
  <2>6. /\ calls' \in [Batches -> [batch : Seq(Digests), at : Nat]]
        /\ \A q \in Batches : calls'[q] = IF q = r THEN Done ELSE calls[q]
    BY <1>0, <1>8, <2>3 DEF WorkType
  <2>7. WorkType'
    <3>1. \A q \in Batches : CallType(calls'[q])
      BY <1>0, <2>5, <2>6 DEF WorkType
    <3>2. stored' \subseteq Digests
      BY <1>0, <1>3 DEF WorkType
    <3>3. QED
      BY <1>0, <2>6, <3>1, <3>2 DEF WorkType
  <2>8. StoreInv'
    <3>1. UnsentIsNowhere'
      BY <1>0, <1>5, <2>2, <2>3, <2>4, <2>6 DEF StoreInv, UnsentIsNowhere
    <3>2. SendingInProgress'
      BY <1>0, <2>2 DEF StoreInv, SendingInProgress
    <3>3. QED
      BY <1>6, <2>2, <3>1, <3>2 DEF StoreInv
  <2>9. PagesType' /\ KeyBelongs'
    BY <1>0, <1>8 DEF PagesType, KeyBelongs
  <2>10. ActiveOnScreen' /\ ReadWhileOpen'
    BY <1>0, <2>2, SameScreen, SameReading
  <2>11. QED
    BY <2>7, <2>8, <2>9, <2>10 DEF ChatsInv, StoreInv
<1>9. QED
  BY <1>7, <1>8 DEF Proceed

\* Messages arrive, and a call goes on when a contact has loaded.
LEMMA ReceiveSteps ==
    ASSUME ChatsInv,
           \/ \E r \in Batches : receiveMessages(r)
           \/ \E r \in Batches, ok \in BOOLEAN : ContactLoaded(r, ok)
    PROVE  ChatsInv'
<1>0. PagesType /\ WorkType /\ StoreInv /\ KeyBelongs
  BY DEF ChatsInv, StoreInv
<1>1. /\ DOMAIN contacts \subseteq Addrs
      /\ contacts \in [DOMAIN contacts -> Addrs \cup {none}]
      /\ \A x \in DOMAIN contacts : contacts[x] \in {none, x} \/ x \in byPage
  BY <1>0 DEF PagesType, KeyBelongs
<1>2. CASE \E r \in Batches : receiveMessages(r)
  <2>1. PICK r \in Batches : receiveMessages(r)
    BY <1>2
  <2>2. PICK ms \in SUBSET Deliverable \ {{}} : \E batch \in SetToSeqs(ms) :
          /\ stored' = stored \cup ms
          /\ Proceed(r, batch, 1, contacts)
    BY <2>1 DEF receiveMessages
  <2>3. PICK batch \in SetToSeqs(ms) :
          /\ stored' = stored \cup ms
          /\ Proceed(r, batch, 1, contacts)
    BY <2>2
  <2>4. ms \subseteq Digests /\ \A m \in ms \cap Outbound : sends[m].at # "idle"
    BY ChatAssumption DEF Deliverable, Digests
  <2>5. IsFiniteSet(ms)
    BY <2>4, ChatAssumption, FS_Union, FS_Subset DEF Digests
  <2>6. batch \in Seq(ms) /\ IsInjective(batch) /\ ToSet(batch) = ms
    BY <2>5, OrderOnce
  <2>7. Known(batch)
    BY <2>4, <2>6 DEF Known
  <2>8. UNCHANGED <<active, route, refreshing, sends, deleting, page, byPage, dropped>>
    BY <2>1 DEF receiveMessages
  <2>9. stored \subseteq stored' /\ stored' \subseteq stored \cup ToSet(batch) /\ 1 \in Nat \ {0}
    BY <2>3, <2>6
  <2>10. Proceed(r, batch, 1, contacts)
    BY <2>3
  <2>11. QED
    BY <1>1, <2>7, <2>8, <2>9, <2>10, ProceedStep
<1>3. CASE \E r \in Batches, ok \in BOOLEAN : ContactLoaded(r, ok)
  <2>1. PICK r \in Batches, ok \in BOOLEAN : ContactLoaded(r, ok)
    BY <1>3
  <2> DEFINE b == calls[r].batch
             i == calls[r].at
             a == Coparty(b[i])
             known == IF ok THEN Updated(contacts, a) ELSE contacts
  <2>2. /\ calls[r] \notin {Idle, Done}
        /\ Proceed(r, b, i + 1, known)
        /\ stored' = stored
        /\ UNCHANGED <<active, route, refreshing, sends, deleting, page, byPage, dropped>>
    BY <2>1 DEF ContactLoaded
  <2>3. CallType(calls[r])
    BY <1>0 DEF WorkType
  <2>4. /\ b \in Seq(Digests) /\ IsInjective(b) /\ i \in Nat /\ i \in DOMAIN b
    BY <2>2, <2>3 DEF CallType
  <2>5. Known(b)
    BY <1>0, <2>4 DEF Known, StoreInv, UnsentIsNowhere
  <2>6. a \in Addrs
    <3>1. b[i] \in Digests /\ b[i] \in ToSet(b)
      BY <2>4 DEF ToSet
    <3>2. QED
      BY <1>0, <2>5, <3>1, ChatAssumption DEF Known, Coparty, Digests, WorkType, SendType
  <2>7. /\ DOMAIN known \subseteq Addrs
        /\ known \in [DOMAIN known -> Addrs \cup {none}]
        /\ \A x \in DOMAIN known : known[x] \in {none, x} \/ x \in byPage
    <3>1. CASE ok
      <4>1. known = Updated(contacts, a)
        BY <3>1
      <4> HIDE DEF a
      <4>2. /\ DOMAIN Updated(contacts, a) = DOMAIN contacts
            /\ Updated(contacts, a) \in [DOMAIN contacts -> Addrs \cup {none}]
            /\ \A x \in DOMAIN contacts : Updated(contacts, a)[x] \in {contacts[x], x}
        BY <1>1, <2>6, UpdatedKeys
      <4> HIDE DEF known
      <4>3. QED
        BY <1>1, <4>1, <4>2
    <3>2. CASE ~ ok
      <4>1. known = contacts
        BY <3>2
      <4> HIDE DEF known
      <4>2. QED
        BY <1>1, <4>1
    <3>3. QED
      BY <3>1, <3>2
  <2> HIDE DEF b, i, a, known
  <2>8. i + 1 \in Nat \ {0}
    BY <2>4
  <2>9. QED
    BY <2>2, <2>5, <2>7, <2>8, ProceedStep
<1>4. QED
  BY <1>2, <1>3

\* The process ends, and the next one reads the disk.
LEMMA RestartStep ==
    ASSUME ChatsInv, Restart
    PROVE  ChatsInv'
<1>0. PagesType /\ WorkType /\ StoreInv /\ KeyBelongs
  BY DEF ChatsInv, StoreInv
<1>1. /\ active' = none /\ route' = none /\ refreshing' = {} /\ deleting' = {}
      /\ page' = NewPage /\ dropped' = {}
      /\ contacts' = contacts /\ stored' = stored /\ byPage' = byPage
      /\ calls' = [r \in Batches |-> Idle]
      /\ sends' = [s \in Outbound |-> IF sends[s].at = "sending"
                                    THEN [sends[s] EXCEPT !.at = "failed"] ELSE sends[s]]
  BY DEF Restart
<1>2. \A s \in Outbound :
        /\ sends[s] \in [to : Addrs \cup {none}, at : {"idle", "sending", "sent", "failed"}]
        /\ SendType(sends[s])
  BY <1>0 DEF WorkType
<1>3. ASSUME NEW s \in Outbound
      PROVE  /\ sends'[s] \in [to : Addrs \cup {none}, at : {"idle", "sending", "sent", "failed"}]
             /\ sends'[s].to = sends[s].to
             /\ sends'[s].at = "idle" => sends[s].at = "idle"
             /\ SendType(sends'[s])
  <2>1. CASE sends[s].at = "sending"
    <3>1. sends'[s] = [sends[s] EXCEPT !.at = "failed"]
      BY <1>1, <2>1
    <3>2. /\ sends'[s] \in [to : Addrs \cup {none}, at : {"idle", "sending", "sent", "failed"}]
          /\ sends'[s].to = sends[s].to /\ sends'[s].at = "failed"
      BY <1>2, <3>1
    <3>3. sends[s].to \in Addrs
      BY <1>2, <2>1 DEF SendType
    <3>4. QED
      BY <3>2, <3>3 DEF SendType
  <2>2. CASE sends[s].at # "sending"
    <3>1. sends'[s] = sends[s]
      BY <1>1, <2>2
    <3>2. QED
      BY <1>2, <3>1
  <2>3. QED
    BY <2>1, <2>2
<1>4. sends' \in [Outbound -> [to : Addrs \cup {none}, at : {"idle", "sending", "sent", "failed"}]]
  <2>1. sends' = [s \in Outbound |-> sends'[s]]
    BY <1>1
  <2>2. QED
    BY <1>3, <2>1
<1>5. /\ Idle \in [batch : Seq(Digests), at : Nat] /\ Idle.batch = <<>>
      /\ IsInjective(<<>>) /\ ToSet(<<>>) = {}
  BY DEF Idle, IsInjective, ToSet
<1>6. CallType(Idle)
  BY <1>5 DEF CallType
<1>7. WorkType'
  BY <1>0, <1>1, <1>3, <1>4, <1>5, <1>6 DEF WorkType
<1>8. PagesType'
  BY <1>0, <1>1 DEF PagesType, NewPage
<1>9. Owner' = Owner
  BY <1>3 DEF Owner, Coparty, Digests
<1>10a. PICK unread \in SUBSET (stored \cap Incoming) :
           \E order \in SetToSeqs(stored) : store' = Rehydrated(order, unread)
  BY DEF Restart
<1>10. PICK order \in SetToSeqs(stored) : store' = Rehydrated(order, unread)
  BY <1>10a
<1>11. /\ stored \subseteq Digests
       /\ \A m \in stored : Coparty(m) \in Addrs
       /\ DOMAIN store.chats \subseteq Addrs
  <2>1. stored \subseteq Digests /\ DOMAIN store.chats \subseteq Addrs
    BY <1>0 DEF WorkType, StoreInv, StoreType
  <2>2. \A m \in stored \cap Outbound : sends[m].at # "idle"
    BY <1>0 DEF StoreInv, UnsentIsNowhere
  <2>3. QED
    BY <1>2, <2>1, <2>2, ChatAssumption DEF Coparty, Digests, SendType
<1>12. /\ StoreType(store')
       /\ Tidy(store', Owner)
       /\ DOMAIN store'.messages = stored
       /\ \A m \in stored : store'.messages[m] = "confirmed"
  BY <1>10, <1>11, RehydratedTidy
<1>13. UnsentIsNowhere'
  BY <1>0, <1>1, <1>3, <1>5, <1>12 DEF StoreInv, UnsentIsNowhere
<1>14. SendingInProgress'
  BY <1>12 DEF SendingInProgress
<1>15. KeyBelongs' /\ ActiveOnScreen'
  BY <1>0, <1>1 DEF KeyBelongs, ActiveOnScreen
<1>16. ReadWhileOpen'
  BY <1>1, <1>12, ChatAssumption DEF ReadWhileOpen, StoreType
<1>17. QED
  BY <1>7, <1>8, <1>9, <1>12, <1>13, <1>14, <1>15, <1>16 DEF ChatsInv

\* Every step of the pages, of the relay and of the disk keeps the invariant.
LEMMA ChatsStepInv == ChatsInv /\ [ChatsNext]_chatVars => ChatsInv'
<1> SUFFICES ASSUME ChatsInv, [ChatsNext]_chatVars PROVE ChatsInv'
  OBVIOUS
<1>1. CASE UNCHANGED chatVars
  <2>1. PagesType' /\ WorkType' /\ StoreInv'
    BY <1>1, SameStore DEF chatVars, ChatsInv, StoreInv, PagesType, WorkType
  <2>2. KeyBelongs' /\ ActiveOnScreen' /\ ReadWhileOpen'
    BY <1>1 DEF chatVars, ChatsInv, KeyBelongs, ActiveOnScreen, ReadWhileOpen
  <2>3. QED
    BY <2>1, <2>2 DEF ChatsInv, StoreInv
<1>2. CASE ChatsNext
  BY <1>2, PageSteps, OpenSteps, StoreSteps, SendSteps, ReceiveSteps, RestartStep DEF ChatsNext, Digests
<1>3. QED
  BY <1>1, <1>2

\* The chat pages keep their types, list a message at most once, attach keys
\* to their own addresses and show no unread messages in the open chat,
\* whatever the order of clicks, answers, arrivals, deletions and restarts.
THEOREM ChatsInvariant == ChatsSpec => []ChatsInv
<1>1. QED
  BY ChatsInitInv, ChatsStepInv, PTL DEF ChatsSpec

\* The variables of the chat pages have their types, for every run of the
\* stores (stores/chats.ts:24-67, stores/contacts.ts:67-79).
THEOREM ChatsTypeCorrect == ChatsSpec => []ChatsTypeOK
<1>1. ChatsInv => ChatsTypeOK
  <2> SUFFICES ASSUME ChatsInv PROVE ChatsTypeOK
    OBVIOUS
  <2>1. StoreType(store) /\ PagesType /\ WorkType
    BY DEF ChatsInv
  <2>2. \A k \in DOMAIN store.messages : store.messages[k] \in {"sending", "error", "confirmed"}
    BY <2>1 DEF StoreType, Status
  <2>3. \A a \in DOMAIN store.chats :
          store.chats[a].list \in Seq(Keys) /\ store.chats[a].unread \in BOOLEAN
    BY <2>1, ListFacts
  <2>4. stored \subseteq Keys \ {undef}
    BY <2>1, ChatAssumption DEF WorkType, Digests, Keys
  <2>5. \A r \in Batches : calls[r] \in {Idle, Done} \/ calls[r].at \in DOMAIN calls[r].batch
    BY <2>1 DEF WorkType, CallType
  <2>6. \A a \in DOMAIN contacts : contacts[a] \in Addrs \cup {none}
    BY <2>1 DEF PagesType
  <2>7. QED
    BY <2>1, <2>2, <2>3, <2>4, <2>5, <2>6 DEF ChatsTypeOK, StoreType, PagesType
<1>2. QED
  BY <1>1, ChatsInvariant, PTL

\* A message is on the screen at most once, in its own chat and in the index,
\* however it is announced, resent, deleted or read back (stores/chats.ts:381
\* and :572).
THEOREM ListedOnceTheorem == ChatsSpec => []MessagesListedOnce
<1>1. ChatsInv => MessagesListedOnce
  <2> SUFFICES ASSUME ChatsInv PROVE MessagesListedOnce
    OBVIOUS
  <2>1. StoreType(store) /\ Tidy(store, Owner)
    BY DEF ChatsInv
  <2>2. ASSUME NEW a \in DOMAIN store.chats, NEW k \in ToSet(store.chats[a].list) \ {undef}
        PROVE  Coparty(k) = a
    <3>1. k \in Digests
      BY <2>1 DEF StoreType, Tidy, Keys, Digests
    <3>2. QED
      BY <2>1, <3>1 DEF Tidy, Owner
  <2>3. QED
    BY <2>1, <2>2 DEF MessagesListedOnce, Tidy
<1>2. QED
  BY <1>1, ChatsInvariant, PTL

\* A message shown as being sent is being sent (relay/index.ts:939, :986,
\* :1005).
THEOREM SendingTheorem == ChatsSpec => []SendingInProgress
<1>1. ChatsInv => SendingInProgress
  BY DEF ChatsInv
<1>2. QED
  BY <1>1, ChatsInvariant, PTL

\* The key kept for an address is its own, unless the page that adds a contact
\* attached it (pages/AddContact.vue:121).
THEOREM KeyTheorem == ChatsSpec => []KeyBelongs
<1>1. ChatsInv => KeyBelongs
  BY DEF ChatsInv
<1>2. QED
  BY <1>1, ChatsInvariant, PTL

\* The chat the user looks at has no unread messages, unless it was deleted
\* while it was on the screen (setActiveChat, receiveMessages).
THEOREM ReadTheorem == ChatsSpec => []ReadWhileOpen
<1>1. ChatsInv => ReadWhileOpen
  BY DEF ChatsInv
<1>2. QED
  BY <1>1, ChatsInvariant, PTL
=============================================================================
