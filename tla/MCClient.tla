------------------------------ MODULE MCClient ------------------------------
(* Two parts of the client with state of their own beside wallet and mailbox,
   each checked from its first step: the desktop application with its Signal
   state, and the chat pages. *)
EXTENDS Desktop, Chats

CONSTANT addr1

VARIABLE part     \* the one that runs

MCFrom == [m \in Incoming |-> addr1]

\* The configuration gives processes and sent messages the same model values,
\* and calls and batches: each part is symmetric in its own.
Symmetry == Permutations(Procs) \cup Permutations(Calls)

ClientInit ==
    /\ DesktopInit /\ ChatsInit
    /\ part \in {"desktop", "chats"}

ClientNext ==
    /\ \/ part = "desktop" /\ DesktopNext /\ UNCHANGED chatVars
       \/ part = "chats" /\ ChatsNext /\ UNCHANGED desktopVars
    /\ UNCHANGED part

ClientSpec == ClientInit /\ [][ClientNext]_<<desktopVars, chatVars, part>>
=============================================================================
