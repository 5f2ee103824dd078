----------------------------- MODULE UtxoStore -----------------------------
(***************************************************************************)
(* LevelUtxoStore (wallet/storage/level-storage.ts) behind the adapter     *)
(* that keeps the balance shown by the GUI (boot/setup-apis.ts and         *)
(* stores/wallet.ts).                                                      *)
(*                                                                         *)
(* A stored UTXO is reduced to its id and its "frozen" flag: its amount,   *)
(* address and key are functions of the id.  The store is an in-memory     *)
(* map, a set of tombstones that lives as long as the process, and a       *)
(* database written without awaiting: "dirty" are the keys whose last      *)
(* write has not reached the disk.                                         *)
(***************************************************************************)
EXTENDS Chronik

VARIABLES
    cache,       \* keys of LevelUtxoStore.cache
    frozen,      \* those whose record has frozen = true
    deleted,     \* LevelUtxoStore.deletedUtxos
    disk,        \* keys on disk
    diskFrozen,  \* those stored with frozen = true
    dirty,       \* keys with a write under way
    shown        \* keys of the GUI store's utxos; balance is their sum

storeVars == <<cache, frozen, deleted, disk, diskFrozen, dirty, shown>>

StoreTypeOK ==
    /\ cache \in SUBSET Ids
    /\ frozen \in SUBSET Ids
    /\ deleted \in SUBSET Ids
    /\ disk \in SUBSET Ids
    /\ diskFrozen \in SUBSET Ids
    /\ dirty \in SUBSET Ids
    /\ shown \in SUBSET Ids

StoreInit ==
    /\ cache = {}
    /\ frozen = {}
    /\ deleted = {}
    /\ disk = {}
    /\ diskFrozen = {}
    /\ dirty = {}
    /\ shown = {}

\* Mutant of Accepted: put without its tombstone test.
AcceptedAlways(P) == P

\* put ignores an id that has a tombstone.
Accepted(P) == P \ deleted

\* deleteById of every id of D, put of a fresh record for every id of P and
\* unfreezeById of every id of T, in one turn of the event loop.  No caller
\* puts an id it deletes.  A put replaces the record, and a record built from
\* a Chronik answer is not frozen.  The adapter tells the GUI store of every
\* put, refused or not.
Update(D, P, T) ==
    /\ cache' = (cache \ D) \cup Accepted(P)
    /\ frozen' = frozen \ (D \cup Accepted(P) \cup T)
    /\ deleted' = deleted \cup D
    /\ dirty' = dirty \cup D \cup Accepted(P) \cup (T \cap cache)
    /\ shown' = (shown \ D) \cup P
    /\ UNCHANGED <<disk, diskFrozen>>

\* freezeById of every id of F: an id that is not stored is skipped.
Freeze(F) ==
    /\ frozen' = frozen \cup (F \cap cache)
    /\ dirty' = dirty \cup (F \cap cache)
    /\ UNCHANGED <<cache, deleted, disk, diskFrozen, shown>>

\* A write under way reaches the disk.
Flush(id) ==
    /\ id \in dirty
    /\ dirty' = dirty \ {id}
    /\ disk' = IF id \in cache THEN disk \cup {id} ELSE disk \ {id}
    /\ diskFrozen' = IF id \in frozen THEN diskFrozen \cup {id}
                                      ELSE diskFrozen \ {id}
    /\ UNCHANGED <<cache, frozen, deleted, shown>>

\* Mutant of Reload: the balance is restored from the saved GUI state, which
\* holds no utxos, instead of from the loaded map.
ReloadWithoutBalance ==
    /\ cache' = disk \ diskFrozen
    /\ frozen' = {}
    /\ deleted' = {}
    /\ dirty' = {}
    /\ shown' = {}
    /\ UNCHANGED <<disk, diskFrozen>>

\* The process ends and starts again.  The constructor makes an empty map and
\* no tombstones; loadData skips the records stored as frozen; rehydrateWallet
\* computes the balance from what was loaded.
Reload ==
    /\ cache' = disk \ diskFrozen
    /\ frozen' = {}
    /\ deleted' = {}
    /\ dirty' = {}
    /\ shown' = disk \ diskFrozen
    /\ UNCHANGED <<disk, diskFrozen>>

\* The setup wizard empties the GUI store, then calls clear: the map, the
\* tombstones and the database.
Clear ==
    /\ cache' = {}
    /\ frozen' = {}
    /\ deleted' = {}
    /\ disk' = {}
    /\ diskFrozen' = {}
    /\ dirty' = {}
    /\ shown' = {}

-----------------------------------------------------------------------------
\* A record deleted in this process is not stored (put's tombstone test).
TombstonesHold == cache \cap deleted = {}

\* A record that can be spent is counted in the balance the GUI shows.
ShownCoversCache == cache \subseteq shown
=============================================================================
