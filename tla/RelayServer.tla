---------------------------- MODULE RelayServer ----------------------------
(***************************************************************************)
(* The messages part of the local relay (local-services/server.js): one    *)
(* mailbox, its payload table, and the websocket of its owner.             *)
(*                                                                         *)
(* An envelope is named by its payload digest.  Whether an envelope passes *)
(* the relay's two checks depends on its bytes alone, so that the checks   *)
(* are two sets.  A client sends one envelope per message set.             *)
(***************************************************************************)
EXTENDS Naturals, Sequences

CONSTANTS
    Envelopes,   \* payload digests
    Genuine,     \* those that verifyMessageEnvelope accepts
    Stamped,     \* those that verifyStampCommitment accepts
    MaxClock     \* bound on the relay's clock

ASSUME RelayAssumption ==
    /\ Genuine \subseteq Envelopes
    /\ Stamped \subseteq Envelopes
    /\ MaxClock \in Nat

VARIABLES
    clock,      \* Date.now()
    mailbox,    \* the messages of the mailbox with their received time
    payloads,   \* keys of the payload table
    socket,     \* the owner's websocket is open
    wire        \* messages sent to the websocket and not yet delivered

relayVars == <<clock, mailbox, payloads, socket, wire>>

Records == [env : Envelopes, time : 0..MaxClock]

RelayTypeOK ==
    /\ clock \in 0..MaxClock
    /\ mailbox \in SUBSET Records
    /\ payloads \in SUBSET Envelopes
    /\ socket \in BOOLEAN
    /\ wire \in Seq(Records)

RelayInit ==
    /\ clock = 0
    /\ mailbox = {}
    /\ payloads = {}
    /\ socket = FALSE
    /\ wire = <<>>

Listed == {r.env : r \in mailbox}

\* The checks of validate and of PUT are the same.
Accepts(e) == e \in Genuine \cap Stamped

\* Mutant of Fresh: every PUT is stored, retries included.
FreshAlways(e) == TRUE

\* "exists": is the digest already in the mailbox?
Fresh(e) == e \notin Listed

\* PUT: stamp the message with the time, keep its payload and, when the digest
\* is new, append it and notify the open sockets.
PutMessage(e) ==
    LET r == [env |-> e, time |-> clock]
    IN  /\ Accepts(e)
        /\ payloads' = payloads \cup {e}
        /\ mailbox' = IF Fresh(e) THEN mailbox \cup {r} ELSE mailbox
        /\ wire' = IF Fresh(e) /\ socket THEN Append(wire, r) ELSE wire
        /\ UNCHANGED <<clock, socket>>

\* GET: both ends of the interval are included.
GetMessages(start) == {r \in mailbox : r.time >= start}

\* Mutant of DeleteMessage: the payload is left behind.
DeleteMessageOnly(e) ==
    /\ mailbox' = {r \in mailbox : r.env # e}
    /\ UNCHANGED <<clock, payloads, socket, wire>>

DeleteMessage(e) ==
    /\ mailbox' = {r \in mailbox : r.env # e}
    /\ payloads' = payloads \ {e}
    /\ UNCHANGED <<clock, socket, wire>>

\* The relay keeps everything in memory.
RelayRestart ==
    /\ mailbox' = {}
    /\ payloads' = {}
    /\ socket' = FALSE
    /\ wire' = <<>>
    /\ UNCHANGED clock

Tick ==
    /\ clock < MaxClock
    /\ clock' = clock + 1
    /\ UNCHANGED <<mailbox, payloads, socket, wire>>

-----------------------------------------------------------------------------
\* The mailbox holds one copy of an envelope, however often a sender repeats
\* its PUT: a retry after a lost reply, or a first attempt that arrives late.
OneCopy == \A r, s \in mailbox : r.env = s.env => r = s

\* What GET lists, GET payloads can return, and nothing else.
PayloadsListed == payloads = Listed
=============================================================================
