--------------------------- MODULE CoinLifecycle ---------------------------
(***************************************************************************)
(* What the wallet promises about each coin while one process runs: it is  *)
(* learnt of, it may be frozen for a payment and unfrozen again, and once  *)
(* it is gone it is gone until the process ends.  The wallet's stores,     *)
(* requests and notifications implement this (Wallet!LifecycleSpec).       *)
(***************************************************************************)
EXTENDS Naturals

CONSTANT Coins

VARIABLES
    coin,      \* what the wallet makes of each coin
    session    \* the number of times the process was started again

States == {"unknown", "free", "frozen", "gone"}

Init ==
    /\ coin = [c \in Coins |-> "unknown"]
    /\ session = 0

MayBecome(s) ==
    CASE s = "unknown" -> {"unknown", "free", "gone"}
      [] s = "free"    -> {"free", "frozen", "gone"}
      [] s = "frozen"  -> {"frozen", "free", "gone"}
      [] s = "gone"    -> {"gone"}

\* Any number of coins move, each along its life.
Move ==
    /\ coin' \in [Coins -> States]
    /\ \A c \in Coins : coin'[c] \in MayBecome(coin[c])
    /\ UNCHANGED session

\* A new process knows what it reads from its database: nothing is frozen
\* and nothing is known to be gone.
NewSession ==
    /\ coin' \in [Coins -> {"unknown", "free"}]
    /\ session' = session + 1

Next == Move \/ NewSession

Spec == Init /\ [][Next]_<<coin, session>>
=============================================================================
