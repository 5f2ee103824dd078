------------------------------- MODULE MCParts -------------------------------
(* Parts of the client that are checked each on its own, from its first step:
   messages on the wire, transactions from coins, envelopes, the transaction
   object under any sequence of calls, and the set-up pages. *)
EXTENDS WireFormat, CoinSelection, Envelope, Transaction, Setup

CONSTANTS s1, s2, c1, c2

VARIABLE part     \* the one that runs

Symmetry == Permutations(Clicks)

Profiled(ids) == \A s \in ids : getRelayData(registered[s], s) # nothing

PartsInit ==
    /\ WireInit /\ CoinInit /\ EnvelopeInit /\ TxnInit /\ SetupInit
    /\ part \in {"wire", "coins", "envelope", "transaction", "setup"}
    /\ part # "setup" => /\ "other" \notin Range(registered)
                         /\ Profiled(Imported)

PartsNext ==
    /\ \/ /\ part = "wire" /\ WireNext
          /\ UNCHANGED <<coinVars, envelopeVars, txnVars, setupVars>>
       \/ /\ part = "coins" /\ CoinNext
          /\ UNCHANGED <<wireVars, envelopeVars, txnVars, setupVars>>
       \/ /\ part = "envelope" /\ EnvelopeNext
          /\ UNCHANGED <<wireVars, coinVars, txnVars, setupVars>>
       \/ /\ part = "transaction" /\ TxnNext
          /\ UNCHANGED <<wireVars, coinVars, envelopeVars, setupVars>>
       \/ /\ part = "setup" /\ SetupNext
          /\ UNCHANGED <<wireVars, coinVars, envelopeVars, txnVars>>
    /\ UNCHANGED part

PartsSpec ==
    /\ PartsInit
    /\ [][PartsNext]_<<wireVars, coinVars, envelopeVars, txnVars, setupVars, part>>

=============================================================================
