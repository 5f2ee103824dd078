--------------------------- MODULE ElectronShell ---------------------------
(***************************************************************************)
(* The main process of the desktop application (electron-main.js): the     *)
(* single-instance lock, the proxy that must be set before any window is   *)
(* opened, the window and its tray.  Two processes of one installation may *)
(* be started.                                                             *)
(***************************************************************************)
EXTENDS Naturals

CONSTANTS
    Procs,   \* processes of the application
    Mac      \* process.platform is darwin

ASSUME ShellAssumption == Mac \in BOOLEAN

VARIABLES
    run,         \* progress of each process
    lock,        \* the processes that hold the single-instance lock
    proxied,     \* setProxy has completed in the process
    mainWindow   \* "undefined", "shown", "hidden" or "null"

shellVars == <<run, lock, proxied, mainWindow>>

ShellTypeOK ==
    /\ run \in [Procs -> {"off", "starting", "setProxy", "ready", "quitting"}]
    /\ lock \in SUBSET Procs
    /\ proxied \in SUBSET Procs
    /\ mainWindow \in [Procs -> {"undefined", "shown", "hidden", "null"}]

ShellInit ==
    /\ run = [p \in Procs |-> "off"]
    /\ lock = {}
    /\ proxied = {}
    /\ mainWindow = [p \in Procs |-> "undefined"]

Open(p) == mainWindow[p] \in {"shown", "hidden"}

\* requestSingleInstanceLock: the second process asks the first one to show
\* its window and quits; its script goes on until the process ends.
Launch(p) ==
    /\ run[p] = "off"
    /\ run' = [run EXCEPT ![p] = "starting"]
    /\ IF lock = {}
       THEN lock' = {p} /\ UNCHANGED mainWindow
       ELSE /\ UNCHANGED lock
            /\ mainWindow' = [q \in Procs |-> IF q \in lock /\ Open(q) THEN "shown"
                                              ELSE mainWindow[q]]
    /\ UNCHANGED proxied

\* whenReady: the handler asks for the proxy, or for the smoke tests and quits.
whenReady(p) ==
    /\ run[p] = "starting"
    /\ run' = [run EXCEPT ![p] = "setProxy"]
    /\ UNCHANGED <<lock, proxied, mainWindow>>

SmokeTests(p) ==
    /\ run[p] = "starting"
    /\ run' = [run EXCEPT ![p] = "quitting"]
    /\ UNCHANGED <<lock, proxied, mainWindow>>

createWindow(p) == mainWindow' = [mainWindow EXCEPT ![p] = "shown"]

configurePrivacyTransport(p) ==
    /\ run[p] = "setProxy"
    /\ run' = [run EXCEPT ![p] = "ready"]
    /\ proxied' = proxied \cup {p}
    /\ createWindow(p)
    /\ UNCHANGED lock

\* Mutant of ProxyFails: the window is opened all the same.
ProxyFailsOpen(p) ==
    /\ run[p] = "setProxy"
    /\ run' = [run EXCEPT ![p] = "ready"]
    /\ createWindow(p)
    /\ UNCHANGED <<lock, proxied>>

\* "Fail closed."
ProxyFails(p) ==
    /\ run[p] = "setProxy"
    /\ run' = [run EXCEPT ![p] = "quitting"]
    /\ UNCHANGED <<lock, proxied, mainWindow>>

\* Mutant of activate: any missing window is opened.
activateAny(p) ==
    /\ run[p] \in {"starting", "setProxy", "ready"}
    /\ ~Open(p)
    /\ createWindow(p)
    /\ UNCHANGED <<run, lock, proxied>>

\* activate opens a window only in place of one that was closed: before the
\* first one mainWindow is undefined and not null.
activate(p) ==
    /\ run[p] \in {"starting", "setProxy", "ready"}
    /\ mainWindow[p] = "null"
    /\ createWindow(p)
    /\ UNCHANGED <<run, lock, proxied>>

\* close hides the window; the tray shows it again, or destroys it and quits.
CloseWindow(p) ==
    /\ run[p] = "ready"
    /\ mainWindow[p] = "shown"
    /\ mainWindow' = [mainWindow EXCEPT ![p] = "hidden"]
    /\ UNCHANGED <<run, lock, proxied>>

TrayOpen(p) ==
    /\ run[p] = "ready"
    /\ mainWindow[p] = "hidden"
    /\ mainWindow' = [mainWindow EXCEPT ![p] = "shown"]
    /\ UNCHANGED <<run, lock, proxied>>

TrayQuit(p) ==
    /\ run[p] = "ready"
    /\ Open(p)
    /\ mainWindow' = [mainWindow EXCEPT ![p] = "null"]
    /\ run' = [run EXCEPT ![p] = "quitting"]
    /\ UNCHANGED <<lock, proxied>>

\* On a Mac, before-quit sets forceQuit: the window closes and the
\* application may stay, since window-all-closed does not quit there.
MacClose(p) ==
    /\ Mac
    /\ run[p] = "ready"
    /\ Open(p)
    /\ mainWindow' = [mainWindow EXCEPT ![p] = "null"]
    /\ UNCHANGED <<run, lock, proxied>>

\* The process ends, by quit or by a crash.
ProcessEnds(p) ==
    /\ run[p] # "off"
    /\ run' = [run EXCEPT ![p] = "off"]
    /\ lock' = lock \ {p}
    /\ proxied' = proxied \ {p}
    /\ mainWindow' = [mainWindow EXCEPT ![p] = "undefined"]

ShellStep ==
    \E p \in Procs :
        \/ Launch(p) \/ whenReady(p) \/ SmokeTests(p) \/ configurePrivacyTransport(p)
        \/ ProxyFails(p) \/ activate(p) \/ CloseWindow(p) \/ TrayOpen(p)
        \/ TrayQuit(p) \/ MacClose(p)

-----------------------------------------------------------------------------
\* "There is intentionally no direct-network fallback": a window, hidden or
\* shown, exists only in a process whose session has its proxy, however
\* start-up, activation, a second launch and quitting interleave.
WindowBehindTor == \A p \in Procs : Open(p) => p \in proxied
=============================================================================
