------------------------------ MODULE MCWallet ------------------------------
(* Small instances of the wallet for TLC.                                  *)
EXTENDS Wallet, TLC

CONSTANTS hd, stamp

\* Output 0 pays a derived address, output 1 the key of a received stamp.
MCOutAddr == [o \in Outs |-> IF o = 0 THEN hd ELSE stamp]

Symmetry == Permutations(TxIds) \cup Permutations(Sends)
=============================================================================
