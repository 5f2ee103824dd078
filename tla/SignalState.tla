---------------------------- MODULE SignalState ----------------------------
(***************************************************************************)
(* The protected store of the desktop application (private-state.js), the  *)
(* staged adapter that libsignal writes through (signal-store.js) and the  *)
(* provisioning of a messaging profile (signal-profile.js,                 *)
(* signal-profile-bundle.js).                                              *)
(*                                                                         *)
(* One messaging identity.  A call of provisionSignalProfile generates at  *)
(* most one identity key and one set of prekeys, which carry its name.  A  *)
(* step is what runs between two awaits of the database; a batch is one    *)
(* atomic write.  Inbound is the use of the adapter that the repository's  *)
(* tests exercise: libsignal decrypts a prekey message through the store.  *)
(***************************************************************************)
EXTENDS Naturals, FiniteSets

CONSTANTS
    Calls,      \* calls of provisionSignalProfile
    Inbound,    \* prekey messages that arrive
    MaxReg,     \* MAX_REGISTRATION_ID
    None

ASSUME SignalAssumption ==
    /\ IsFiniteSet(Calls)
    /\ MaxReg \in Nat \ {0}
    /\ None \notin Calls

VARIABLES
    db,        \* the private-state database
    readable,  \* safeStorage decrypts the records that are stored
    pc,        \* progress of each call
    local,     \* the identity record that a call holds (its localIdentity)
    staged,    \* the identity record that its staged adapter holds
    returned,  \* the bundle that a call has returned
    inbox,     \* progress of each inbound message
    base,      \* the prekey that an inbound message has loaded
    overlap    \* history: two calls were under way at the same time

signalVars == <<db, readable, pc, local, staged, returned, inbox, base, overlap>>

Identities == [key : Calls, reg : 1..MaxReg]
Bundles == [reg : 0..MaxReg, identity : Calls, prekeys : Calls, signer : Calls]

PrivateState ==
    [identity : Identities \cup {None}, profile : Bundles \cup {None},
     prekey : Calls \cup {None}, signed : Calls \cup {None},
     kyber : Calls \cup {None}, used : SUBSET Calls,
     session : Calls \cup {None}, receipts : SUBSET (Inbound \X Calls)]

SignalTypeOK ==
    /\ db \in PrivateState
    /\ readable \in BOOLEAN
    /\ pc \in [Calls -> {"idle", "profile", "identity", "put", "stage", "build",
                         "commit", "done", "failed"}]
    /\ local \in [Calls -> Identities \cup {None}]
    /\ staged \in [Calls -> Identities \cup {None}]
    /\ returned \in [Calls -> Bundles \cup {None}]
    /\ inbox \in [Inbound -> {"waiting", "decrypt", "commit"}]
    /\ base \in [Inbound -> Calls \cup {None}]
    /\ overlap \in BOOLEAN

SignalInit ==
    /\ db = [identity |-> None, profile |-> None, prekey |-> None, signed |-> None,
             kyber |-> None, used |-> {}, session |-> None, receipts |-> {}]
    /\ readable = TRUE
    /\ pc = [c \in Calls |-> "idle"]
    /\ local = [c \in Calls |-> None]
    /\ staged = [c \in Calls |-> None]
    /\ returned = [c \in Calls |-> None]
    /\ inbox = [m \in Inbound |-> "waiting"]
    /\ base = [m \in Inbound |-> None]
    /\ overlap = FALSE

-----------------------------------------------------------------------------
(* private-state.js *)

\* Mutant of Get: a record that cannot be decrypted is taken for missing.
GetLenient(key, answer) == answer = IF readable THEN db[key] ELSE None

\* get: a missing record is undefined, one that cannot be decrypted throws.
Get(key, answer) ==
    /\ db[key] = None \/ readable
    /\ answer = db[key]

Active(c) == pc[c] \notin {"idle", "done", "failed"}
Go(c, from, to) == pc[c] = from /\ pc' = [pc EXCEPT ![c] = to]

\* A call ends, and its records go out of scope.
Leave(c) == /\ local' = [local EXCEPT ![c] = None]
            /\ staged' = [staged EXCEPT ![c] = None]

-----------------------------------------------------------------------------
(* signal-profile.js *)

provisionSignalProfile(c) ==
    /\ Go(c, "idle", "profile")
    /\ overlap' = (overlap \/ \E d \in Calls : Active(d))
    /\ UNCHANGED <<db, readable, local, staged, returned, inbox, base>>

\* validateBundle: parsePublicBundle and serializePublicBundle refuse a
\* registration id outside 1..MAX_REGISTRATION_ID.
validateBundle(b) == b.reg \in 1..MaxReg

\* toPreKeyBundle: both prekeys are signed by the identity of the bundle.
toPreKeyBundle(b) == validateBundle(b) /\ b.signer = b.identity

\* An existing profile is returned as it is stored ...
ProfileFound(c) ==
    \E b \in Bundles :
        /\ Get("profile", b)
        /\ validateBundle(b)
        /\ Go(c, "profile", "done")
        /\ returned' = [returned EXCEPT ![c] = b]
        /\ UNCHANGED <<db, readable, local, staged, inbox, base, overlap>>

\* ... otherwise the identity is read,
ProfileMissing(c) ==
    /\ Get("profile", None)
    /\ Go(c, "profile", "identity")
    /\ UNCHANGED <<db, readable, local, staged, returned, inbox, base, overlap>>

IdentityFound(c) ==
    \E i \in Identities :
        /\ Get("identity", i)
        /\ Go(c, "identity", "stage")
        /\ local' = [local EXCEPT ![c] = i]
        /\ UNCHANGED <<db, readable, staged, returned, inbox, base, overlap>>

\* or generated with a random registration id
IdentityMissing(c) ==
    /\ Get("identity", None)
    /\ Go(c, "identity", "put")
    /\ \E r \in 1..MaxReg : local' = [local EXCEPT ![c] = [key |-> c, reg |-> r]]
    /\ UNCHANGED <<db, readable, staged, returned, inbox, base, overlap>>

\* and stored.
IdentityStored(c) ==
    /\ Go(c, "put", "stage")
    /\ db' = [db EXCEPT !.identity = local[c]]
    /\ UNCHANGED <<readable, local, staged, returned, inbox, base, overlap>>

\* createStagedSignalStore reads the identity again and throws if it is missing.
createStagedSignalStore(c) ==
    \E i \in Identities :
        /\ Get("identity", i)
        /\ Go(c, "stage", "build")
        /\ staged' = [staged EXCEPT ![c] = i]
        /\ UNCHANGED <<db, readable, local, returned, inbox, base, overlap>>

\* Mutant of BundleOf: the identity key of the caller's own record.
BundleOfLocal(c) ==
    [reg |-> local[c].reg, identity |-> local[c].key, prekeys |-> c,
     signer |-> staged[c].key]

\* The prekeys are new and signed with the adapter's identity, the
\* registration id is that of the caller's record.
BundleOf(c) ==
    [reg |-> local[c].reg, identity |-> staged[c].key, prekeys |-> c,
     signer |-> staged[c].key]

\* savePreKey, saveSignedPreKey and saveKyberPreKey stage their records.
StagePreKeys(c) ==
    /\ Go(c, "build", "commit")
    /\ validateBundle(BundleOf(c))
    /\ UNCHANGED <<db, readable, local, staged, returned, inbox, base, overlap>>

\* Mutant of commit: the profile is written without the staged records.
commitProfileOnly(c) ==
    /\ Go(c, "commit", "done")
    /\ db' = [db EXCEPT !.profile = BundleOf(c)]
    /\ returned' = [returned EXCEPT ![c] = BundleOf(c)]
    /\ Leave(c)
    /\ UNCHANGED <<readable, inbox, base, overlap>>

\* commit: the staged records and the public profile are one batch.
commit(c) ==
    /\ Go(c, "commit", "done")
    /\ db' = [db EXCEPT !.prekey = c, !.signed = c, !.kyber = c,
                        !.profile = BundleOf(c)]
    /\ returned' = [returned EXCEPT ![c] = BundleOf(c)]
    /\ Leave(c)
    /\ UNCHANGED <<readable, inbox, base, overlap>>

\* A read, a write or a check throws; staged records are discarded.
ProvisionFails(c) ==
    /\ Active(c)
    /\ pc' = [pc EXCEPT ![c] = "failed"]
    /\ Leave(c)
    /\ UNCHANGED <<db, readable, returned, inbox, base, overlap>>

-----------------------------------------------------------------------------
(* signal-store.js under a libsignal decryption *)

\* getPreKey, getSignedPreKey and getKyberPreKey load; a missing record throws.
LoadPreKeys(m) ==
    \E k \in Calls :
        /\ inbox[m] = "waiting"
        /\ Get("prekey", k) /\ Get("signed", k) /\ Get("kyber", k)
        /\ inbox' = [inbox EXCEPT ![m] = "decrypt"]
        /\ base' = [base EXCEPT ![m] = k]
        /\ UNCHANGED <<db, readable, pc, local, staged, returned, overlap>>

\* saveIdentity, saveSession, removePreKey, markKyberPreKeyUsed stage their
\* records; a message that does not decrypt discards them.
Decrypted(m, ok) ==
    /\ inbox[m] = "decrypt"
    /\ inbox' = [inbox EXCEPT ![m] = IF ok THEN "commit" ELSE "waiting"]
    /\ base' = [base EXCEPT ![m] = IF ok THEN @ ELSE None]
    /\ UNCHANGED <<db, readable, pc, local, staged, returned, overlap>>

\* Mutant of Received: the removal of the one-time prekey is not staged.
ReceivedWithoutRemoval(m) ==
    /\ inbox[m] = "commit"
    /\ inbox' = [inbox EXCEPT ![m] = "waiting"]
    /\ db' = [db EXCEPT !.used = @ \cup {base[m]}, !.session = base[m],
                        !.receipts = @ \cup {<<m, base[m]>>}]
    /\ base' = [base EXCEPT ![m] = None]
    /\ UNCHANGED <<readable, pc, local, staged, returned, overlap>>

\* commit of an inbound message, with its receipt.
Received(m) ==
    /\ inbox[m] = "commit"
    /\ inbox' = [inbox EXCEPT ![m] = "waiting"]
    /\ db' = [db EXCEPT !.prekey = None, !.used = @ \cup {base[m]},
                        !.session = base[m], !.receipts = @ \cup {<<m, base[m]>>}]
    /\ base' = [base EXCEPT ![m] = None]
    /\ UNCHANGED <<readable, pc, local, staged, returned, overlap>>

-----------------------------------------------------------------------------
\* The process ends: calls and staged records are gone, and the next process
\* may find a keyring that does not decrypt.
SignalStops(ok) ==
    /\ readable' = ok
    /\ pc' = [c \in Calls |-> IF Active(c) THEN "failed" ELSE pc[c]]
    /\ local' = [c \in Calls |-> None]
    /\ staged' = [c \in Calls |-> None]
    /\ inbox' = [m \in Inbound |-> "waiting"]
    /\ base' = [m \in Inbound |-> None]
    /\ UNCHANGED <<db, returned, overlap>>

SignalStep ==
    \/ \E c \in Calls :
          \/ provisionSignalProfile(c) \/ ProfileFound(c) \/ ProfileMissing(c)
          \/ IdentityFound(c) \/ IdentityMissing(c) \/ IdentityStored(c)
          \/ createStagedSignalStore(c) \/ StagePreKeys(c) \/ commit(c)
          \/ ProvisionFails(c)
    \/ \E m \in Inbound :
          \/ LoadPreKeys(m) \/ \E ok \in BOOLEAN : Decrypted(m, ok) \/ Received(m)

-----------------------------------------------------------------------------
\* What a stored profile offers to peers can be answered: the long-lived
\* prekeys of the bundle are the stored ones and the one-time prekey is stored
\* or was consumed, whatever calls overlap, fail or end with their process.
BundleBacked ==
    db.profile # None =>
        /\ db.signed = db.profile.prekeys
        /\ db.kyber = db.profile.prekeys
        /\ db.prekey \in {db.profile.prekeys, None}

\* Every bundle that a call has returned, and the stored one, passes the
\* verification that a peer applies to it, also when calls overlap.
BundlesVerify ==
    /\ \A c \in Calls : returned[c] # None => toPreKeyBundle(returned[c])
    /\ db.profile # None => toPreKeyBundle(db.profile)

\* "Signal profile provisioning persists one stable public bundle": calls that
\* do not overlap all return the stored bundle, which belongs to the stored
\* identity, across failures, restarts and an unreadable keyring.
StableProfile ==
    ~overlap =>
        /\ \A c \in Calls : returned[c] # None => returned[c] = db.profile
        /\ db.profile # None => /\ db.profile.identity = db.identity.key
                                /\ db.profile.reg = db.identity.reg

\* A receipt, a session and the consumption of the one-time prekey are durable
\* together: no prekey of a receipt can be loaded again.
ReceiptConsumes ==
    \A r \in db.receipts : db.prekey # r[2] /\ r[2] \in db.used /\ db.session # None
=============================================================================
