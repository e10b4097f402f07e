---------------------------- MODULE ConfigReload ----------------------------
(***************************************************************************)
(* The server's main program (llama-swap.go) with -watch-config: the first *)
(* loads of the configuration, the file watcher, which starts only after   *)
(* them, its debounced reload, the swap of the HTTP server's handler, and  *)
(* the shutdown on a signal.                                               *)
(*                                                                         *)
(* A reload runs in the goroutine of its timer; stopping a timer does not  *)
(* stop a reload that runs, so reloads may overlap.  They share the        *)
(* variables conf and err that main declares, and srv.Handler.  A proxy    *)
(* manager is reduced to its configuration and its life.                   *)
(***************************************************************************)
EXTENDS Naturals, FiniteSets

CONSTANTS
    Docs,                \* documents the configuration file may hold
    EditDocs,            \* bound: the documents that edits take and leave
    LoadSucceeds(_),     \* LoadConfig returns no error for the document
    ReloadSlots,         \* goroutines of the debounce timer
    MaxEdits,            \* bound: edits of the file
    MaxManagers,         \* bound: proxy managers created
    None                 \* no document: the zero Config of a failed load

ASSUME ReloadAssumption ==
    /\ None \notin Docs
    /\ EditDocs \subseteq Docs
    /\ MaxEdits \in Nat /\ MaxManagers \in Nat \ {0}
    /\ ReloadSlots \subseteq Nat \ {0}

Managers == 1 .. MaxManagers
Signal == 0                              \* the thread that waits for a signal
Threads == ReloadSlots \cup {Signal}

VARIABLES
    file, edits,         \* content of the file, and how often it was edited
    changed,             \* a watcher event is under way
    watching,            \* the watcher of the file's directory is added
    unwatched,           \* history: the last edit came after the start read the file
                         \* and before the watcher was added
    timer,               \* the debounce timer is armed
    conf, err,           \* main's variables, shared by the reloads
    handler,             \* srv.Handler, 0 before the first load
    config, life,        \* of each proxy manager
    pc,                  \* where each thread is
    cur, got, made,      \* the manager it found, the document it read, the manager it made
    phase,               \* of the program
    overlap              \* history: which critical sections ran side by side

vars == <<file, edits, changed, watching, unwatched, timer, conf, err, handler, config, life,
          pc, cur, got, made, phase, overlap>>
watch == <<watching, unwatched>>
files == <<file, edits, changed, watch, timer>>

ReloadPCs == {"idle", "load", "assign", "check", "shutdown", "closing", "new", "swap"}
SignalPCs == {"wait", "shutdown", "closing", "server", "done"}

\* The documents, managers, positions and phases are ones that main and its
\* goroutines can produce (the other variables are Booleans that main sets).
TypeOK ==
    /\ file \in Docs /\ edits \in Nat /\ conf \in Docs \cup {None}
    /\ handler \in Managers \cup {0}
    /\ config \in [Managers -> Docs \cup {None}]
    /\ life \in [Managers -> {"none", "live", "closing", "closed"}]
    /\ pc \in [Threads -> ReloadPCs \cup SignalPCs]
    /\ \A t \in Threads : pc[t] \in IF t = Signal THEN SignalPCs ELSE ReloadPCs
    /\ cur \in [Threads -> Managers \cup {0}] /\ made \in [Threads -> Managers \cup {0}]
    /\ got \in [Threads -> Docs \cup {None}]
    /\ phase \in {"boot", "built", "loaded", "failed", "serving", "exited"}
    /\ overlap \subseteq {"reloads", "signal"}

Idle == {t \in ReloadSlots : pc[t] = "idle"}
Running == Threads \ (Idle \cup (IF pc[Signal] = "wait" THEN {Signal} ELSE {}))
Live == {m \in Managers : life[m] \in {"live", "closing"}}
Unused == {m \in Managers : life[m] = "none"}
Goto(t, from, to) == pc[t] = from /\ pc' = [pc EXCEPT ![t] = to]

Init ==
    /\ file \in Docs /\ edits = 0 /\ changed = FALSE /\ timer = FALSE
    /\ watching = FALSE /\ unwatched = FALSE
    /\ conf = None /\ err = FALSE
    /\ handler = 0
    /\ config = [m \in Managers |-> None]
    /\ life = [m \in Managers |-> "none"]
    /\ pc = [t \in Threads |-> IF t = Signal THEN "wait" ELSE "idle"]
    /\ cur = [t \in Threads |-> 0]
    /\ got = [t \in Threads |-> None]
    /\ made = [t \in Threads |-> 0]
    /\ phase = "boot"
    /\ overlap = {}
-----------------------------------------------------------------------------
(***************************************************************************)
(* The start: main loads the file, and loads it again when it runs         *)
(* reloadProxyManager for the first time; an error ends the program.       *)
(***************************************************************************)
\* conf, err = config.LoadConfig(*configPath), of one goroutine.
LoadConf(then) ==
    /\ conf' = IF LoadSucceeds(file) THEN file ELSE None
    /\ err' = ~LoadSucceeds(file)
    /\ phase' = IF LoadSucceeds(file) THEN then ELSE "failed"
    /\ unwatched' = FALSE
    /\ UNCHANGED <<file, edits, changed, watching, timer, handler, config, life, pc, cur, got, made, overlap>>

FirstLoad == phase = "boot" /\ LoadConf("built")

SecondLoad == phase = "built" /\ LoadConf("loaded")

\* The manager of what was read is installed, and main goes on: event.On, the watcher's
\* goroutine, the HTTP server.
Start ==
    /\ phase = "loaded"
    /\ phase' = "serving"
    /\ handler' = 1
    /\ config' = [config EXCEPT ![1] = conf]
    /\ life' = [life EXCEPT ![1] = "live"]
    /\ UNCHANGED <<files, conf, err, pc, cur, got, made, overlap>>
-----------------------------------------------------------------------------
(***************************************************************************)
(* The watcher and the debounce timer.                                     *)
(***************************************************************************)
\* The watcher's goroutine comes to watcher.Add.
Watch ==
    /\ phase = "serving" /\ ~watching
    /\ watching' = TRUE
    /\ UNCHANGED <<file, edits, changed, unwatched, timer, conf, err, handler, config, life,
                   pc, cur, got, made, phase, overlap>>

\* Somebody writes the file; the watcher, once it is added, emits the event that it
\* changed.  (What the file holds before the first load is a choice of Init.)
Edit(d) ==
    /\ phase \in {"built", "loaded", "serving"}
    /\ edits < MaxEdits /\ {file, d} \subseteq EditDocs
    /\ file' = d
    /\ edits' = edits + 1
    /\ changed' = (changed \/ watching)
    /\ unwatched' = ~watching
    /\ UNCHANGED <<watching, timer, conf, err, handler, config, life, pc, cur, got, made, phase, overlap>>

\* Mutant: an event that arrives during a reload is taken for a part of it.
DebounceWhenIdle ==
    /\ phase = "serving" /\ changed
    /\ changed' = FALSE
    /\ timer' = (Idle = ReloadSlots)
    /\ UNCHANGED <<file, edits, watch, conf, err, handler, config, life, pc, cur, got, made, phase, overlap>>

\* The event reaches debouncedReload, which stops the timer and arms a new one.
Debounce ==
    /\ phase = "serving" /\ changed
    /\ changed' = FALSE
    /\ timer' = TRUE
    /\ UNCHANGED <<file, edits, watch, conf, err, handler, config, life, pc, cur, got, made, phase, overlap>>

\* A reload is in progress beside another one, or beside the shutdown.
Overlaps(t) ==
    (IF Running \ {t, Signal} # {} THEN {"reloads"} ELSE {})
        \cup (IF pc[Signal] # "wait" THEN {"signal"} ELSE {})

\* The timer fires: reloadProxyManager reads srv.Handler.
TimerFires(t) ==
    /\ phase = "serving" /\ timer
    /\ Goto(t, "idle", "load")
    /\ timer' = FALSE
    /\ cur' = [cur EXCEPT ![t] = handler]
    /\ overlap' = overlap \cup Overlaps(t)
    /\ UNCHANGED <<file, edits, changed, watch, conf, err, handler, config, life, got, made, phase>>
-----------------------------------------------------------------------------
(***************************************************************************)
(* reloadProxyManager.                                                     *)
(***************************************************************************)
\* config.LoadConfig(*configPath) reads the file ...
ReadFile(t) ==
    /\ phase = "serving"
    /\ Goto(t, "load", "assign")
    /\ got' = [got EXCEPT ![t] = file]
    /\ UNCHANGED <<files, conf, err, handler, config, life, cur, made, phase, overlap>>

\* Mutant: the error of the load is ignored.
AssignIgnoringError(t) ==
    /\ phase = "serving"
    /\ Goto(t, "assign", "check")
    /\ conf' = IF LoadSucceeds(got[t]) THEN got[t] ELSE None
    /\ err' = FALSE
    /\ got' = [got EXCEPT ![t] = None]
    /\ UNCHANGED <<files, handler, config, life, cur, made, phase, overlap>>

\* ... and its results go to main's variables; a failed load returns a zero Config.
Assign(t) ==
    /\ phase = "serving"
    /\ Goto(t, "assign", "check")
    /\ conf' = IF LoadSucceeds(got[t]) THEN got[t] ELSE None
    /\ err' = ~LoadSucceeds(got[t])
    /\ got' = [got EXCEPT ![t] = None]
    /\ UNCHANGED <<files, handler, config, life, cur, made, phase, overlap>>

CheckError(t) ==
    /\ phase = "serving"
    /\ Goto(t, "check", IF err THEN "idle" ELSE "shutdown")
    /\ cur' = IF err THEN [cur EXCEPT ![t] = 0] ELSE cur
    /\ UNCHANGED <<files, conf, err, handler, config, life, got, made, phase, overlap>>

AfterShutdown(t) == IF t = Signal THEN "server" ELSE "new"

\* ProxyManager.Shutdown takes the manager's lock ...
ShutdownBegins(t) ==
    /\ phase = "serving"
    /\ Goto(t, "shutdown", "closing")
    /\ life[cur[t]] = "live"
    /\ life' = [life EXCEPT ![cur[t]] = "closing"]
    /\ UNCHANGED <<files, conf, err, handler, config, cur, got, made, phase, overlap>>

\* ... stops every process, closes the debit log and gives the lock back.
ShutdownEnds(t) ==
    /\ phase = "serving"
    /\ Goto(t, "closing", AfterShutdown(t))
    /\ life' = [life EXCEPT ![cur[t]] = "closed"]
    /\ UNCHANGED <<files, conf, err, handler, config, cur, got, made, phase, overlap>>

\* Whoever waited for the lock finds everything stopped.
ShutdownAgain(t) ==
    /\ phase = "serving"
    /\ Goto(t, "shutdown", AfterShutdown(t))
    /\ life[cur[t]] = "closed"
    /\ UNCHANGED <<files, conf, err, handler, config, life, cur, got, made, phase, overlap>>

\* newPM := proxy.New(conf): the configuration that conf holds by now.
New(t) ==
    /\ phase = "serving"
    /\ Goto(t, "new", "swap")
    /\ \E m \in Unused :
          /\ \A n \in Unused : m <= n
          /\ made' = [made EXCEPT ![t] = m]
          /\ config' = [config EXCEPT ![m] = conf]
          /\ life' = [life EXCEPT ![m] = "live"]
    /\ UNCHANGED <<files, conf, err, handler, cur, got, phase, overlap>>

\* Mutant: the new manager is not installed.
SwapForgotten(t) ==
    /\ phase = "serving"
    /\ Goto(t, "swap", "idle")
    /\ cur' = [cur EXCEPT ![t] = 0]
    /\ made' = [made EXCEPT ![t] = 0]
    /\ UNCHANGED <<files, conf, err, handler, config, life, got, phase, overlap>>

\* srv.Handler = newPM
SwapHandler(t) ==
    /\ phase = "serving"
    /\ Goto(t, "swap", "idle")
    /\ handler' = made[t]
    /\ cur' = [cur EXCEPT ![t] = 0]
    /\ made' = [made EXCEPT ![t] = 0]
    /\ UNCHANGED <<files, conf, err, config, life, got, phase, overlap>>
-----------------------------------------------------------------------------
(***************************************************************************)
(* The shutdown on a signal.                                               *)
(***************************************************************************)
SignalArrives ==
    /\ phase = "serving"
    /\ Goto(Signal, "wait", "shutdown")
    /\ cur' = [cur EXCEPT ![Signal] = handler]
    /\ overlap' = overlap \cup (IF Running # {} THEN {"signal"} ELSE {})
    /\ UNCHANGED <<files, conf, err, handler, config, life, got, made, phase>>

\* srv.Shutdown returns, after five seconds at the latest, and main ends with
\* every goroutine of the program.
Exit ==
    /\ Goto(Signal, "server", "done")
    /\ phase' = "exited"
    /\ UNCHANGED <<files, conf, err, handler, config, life, cur, got, made, overlap>>
-----------------------------------------------------------------------------
ReloadStep(t) ==
    \/ ReadFile(t) \/ Assign(t) \/ CheckError(t) \/ ShutdownBegins(t) \/ ShutdownEnds(t)
    \/ ShutdownAgain(t) \/ New(t) \/ SwapHandler(t)

SignalStep ==
    ShutdownBegins(Signal) \/ ShutdownEnds(Signal) \/ ShutdownAgain(Signal) \/ Exit

Next ==
    \/ FirstLoad \/ SecondLoad \/ Start \/ Watch
    \/ \E d \in EditDocs : Edit(d)
    \/ Debounce
    \/ \E t \in ReloadSlots : TimerFires(t) \/ ReloadStep(t)
    \/ SignalArrives \/ SignalStep

\* main starts, the watcher is added, its events are delivered, an armed timer fires,
\* managers shut down.
Fairness ==
    /\ WF_vars(FirstLoad) /\ WF_vars(SecondLoad) /\ WF_vars(Start)
    /\ WF_vars(Watch) /\ WF_vars(Debounce)
    /\ WF_vars(\E t \in ReloadSlots : TimerFires(t))
    /\ \A t \in ReloadSlots : WF_vars(ReloadStep(t))
    /\ WF_vars(SignalStep)

Spec == Init /\ [][Next]_vars
FairSpec == Spec /\ Fairness
-----------------------------------------------------------------------------
(***************************************************************************)
(* Properties.                                                             *)
(***************************************************************************)
\* The server never runs a configuration that failed to load: a broken file only
\* leaves the old one in place, unless two reloads ran side by side (the broken
\* load of one clears the conf that the other passes to New).
ServesALoadedConfig ==
    handler # 0 /\ "reloads" \notin overlap =>
        config[handler] # None /\ LoadSucceeds(config[handler])

\* Between reloads only the manager that serves is alive, and none when the program
\* has exited: a manager left behind keeps its models, its ports and its writers.
\* Overlapping reloads, and a signal during a reload, are the two exceptions.
NoManagerLeftBehind ==
    /\ phase = "serving" /\ Running = {} /\ overlap = {} => Live = {handler}
    /\ phase = "exited" /\ overlap = {} => Live = {}

\* When the edits stop, the server ends up with the last document if it loads, and
\* in any case with a manager that is not shut down.  The exceptions are an edit that
\* came after the start read the file and before the watcher was added, and overlapping
\* reloads, which may leave an older document in place.
ServesTheLastDocument ==
    <>[](\/ phase # "serving" \/ pc[Signal] # "wait" \/ overlap # {}
         \/ /\ life[handler] = "live"
            /\ LoadSucceeds(file) /\ ~unwatched => config[handler] = file)
=============================================================================
