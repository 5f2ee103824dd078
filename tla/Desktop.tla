------------------------------ MODULE Desktop ------------------------------
(***************************************************************************)
(* The desktop application: the shell of ElectronShell and the Signal      *)
(* state, which lives in the main process of the instance that holds the   *)
(* single-instance lock and ends with it.                                  *)
(***************************************************************************)
EXTENDS ElectronShell, SignalState

CONSTANT MaxStops   \* bound on the ends of processes

ASSUME DesktopAssumption == MaxStops \in Nat

VARIABLES
    owner,   \* the process that has opened the private state, or None
    stops

desktopVars == <<shellVars, signalVars, owner, stops>>

DesktopTypeOK ==
    /\ ShellTypeOK
    /\ SignalTypeOK
    /\ owner \in Procs \cup {None}
    /\ stops \in 0..MaxStops

DesktopInit == ShellInit /\ SignalInit /\ owner = None /\ stops = 0

\* createPrivateStateStore: LevelDB lets one process open the database, and
\* assertSafeStorage refuses an unprotected keyring.
createPrivateStateStore(p) ==
    /\ owner = None
    /\ run[p] = "ready"
    /\ owner' = p
    /\ UNCHANGED <<shellVars, signalVars, stops>>

\* A process ends, with the private state if it has opened it.
End(p, ok) ==
    /\ stops < MaxStops
    /\ stops' = stops + 1
    /\ ProcessEnds(p)
    /\ IF owner = p THEN owner' = None /\ SignalStops(ok)
                    ELSE UNCHANGED <<owner, signalVars>>

DesktopNext ==
    \/ ShellStep /\ UNCHANGED <<signalVars, owner, stops>>
    \/ owner # None /\ SignalStep /\ UNCHANGED <<shellVars, owner, stops>>
    \/ \E p \in Procs : createPrivateStateStore(p) \/ \E ok \in BOOLEAN : End(p, ok)

DesktopSpec == DesktopInit /\ [][DesktopNext]_desktopVars
=============================================================================
