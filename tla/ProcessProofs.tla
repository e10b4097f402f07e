--------------------------- MODULE ProcessProofs ---------------------------
(***************************************************************************)
(* Proofs about Process, for any number of goroutines and of starts.       *)
(*                                                                         *)
(* The argument is one of ownership.  A start that has won the swap to     *)
(* "starting" owns the process until cmd.Start; from then on the           *)
(* waitForCmd goroutine of the new command owns it until it sets the state *)
(* to stopped.  There is never more than one owner, and none at all when   *)
(* the state is stopped, which is the only state from which an owner can   *)
(* be created.  The other goroutines change the state freely, but only the *)
(* owner can set it to stopped.                                            *)
(***************************************************************************)
EXTENDS Process, TLAPS

\* At most one start or one waitForCmd owns the process.
UniqueOwner ==
    /\ \A r, q \in Requests : PreLaunch(r) /\ PreLaunch(q) => r = q
    /\ \A g, h \in Gens : Unmarked(g) /\ Unmarked(h) => g = h
    /\ \A r \in Requests, g \in Gens : ~(PreLaunch(r) /\ Unmarked(g))

StoppedHasNoOwner ==
    state = "stopped" =>
        /\ \A r \in Requests : ~PreLaunch(r)
        /\ \A g \in Gens : ~Unmarked(g)

\* A running command has its waitForCmd goroutine.
RunningIsWatched == \A g \in Gens : cmd[g] = "running" => Unmarked(g)

\* A start that is about to launch has opened a generation.
LaunchHasGen == \A r \in Requests : PreLaunch(r) => gen[r] \in Gens

IInv ==
    /\ TypeOK
    /\ UniqueOwner
    /\ StoppedHasNoOwner
    /\ RunningIsWatched
    /\ LaunchHasGen
    /\ StateHasOwner

\* Initially nothing runs and nobody owns the process.
LEMMA InitIInv == Init => IInv
<1> SUFFICES ASSUME Init PROVE IInv
  OBVIOUS
<1> USE ProcessAssumption DEF Init
<1>1. TypeOK
  <2>0. panicked \in BOOLEAN
    BY Zenon
  <2>1. gens \in 0 .. MaxStarts /\ state \in States
    BY DEF States
  <2>2. pc \in [Threads -> RequestPCs \cup StopperPCs]
    BY DEF RequestPCs
  <2>3. cmd \in [Gens -> {"none", "running", "exited"}]
    OBVIOUS
  <2>4. watcher \in [Gens -> {"none", "wait", "close", "done"}]
    OBVIOUS
  <2>5. QED
    BY <2>0, <2>1, <2>2, <2>3, <2>4 DEF TypeOK
<1>2. \A r \in Requests : ~PreLaunch(r)
  BY DEF PreLaunch, Threads
<1>3. \A g \in Gens : ~Unmarked(g) /\ cmd[g] # "running"
  BY DEF Unmarked
<1>4. QED
  BY <1>1, <1>2, <1>3 DEF IInv, UniqueOwner, StoppedHasNoOwner, RunningIsWatched,
     LaunchHasGen, StateHasOwner

\* Every step of every goroutine keeps the types.
LEMMA StepType == TypeOK /\ [Next]_vars => TypeOK'
<1> SUFFICES ASSUME TypeOK, [Next]_vars PROVE TypeOK'
  OBVIOUS
<1> USE ProcessAssumption DEF TypeOK, Threads, States, RequestPCs, StopperPCs, NoGen
<1>1. ASSUME NEW r \in Requests, RequestArrives(r) \/ RequestStep(r) PROVE TypeOK'
  <2>1. CASE RequestArrives(r) BY <2>1 DEF RequestArrives, Goto, cmdVars
  <2>2. CASE Admit(r) BY <2>2 DEF Admit, Goto, cmdVars
  <2>3. CASE Decide(r) BY <2>3 DEF Decide, Goto, cmdVars
  <2>4. CASE Proxy(r) BY <2>4 DEF Proxy, Goto, cmdVars
  <2>5. CASE Exit(r) BY <2>5 DEF Exit, Goto, cmdVars
  <2>6. CASE StartSwap(r) BY <2>6 DEF StartSwap, swapState, Goto, Gens
  <2>7. CASE StartMismatch(r) BY <2>7 DEF StartMismatch, Goto, cmdVars
  <2>8. CASE WaitStarting(r) BY <2>8 DEF WaitStarting, Goto, cmdVars
  <2>9. CASE Waited(r) BY <2>9 DEF Waited, Goto, cmdVars
  <2>10. CASE Publish(r) BY <2>10 DEF Publish, Goto
  <2>11. CASE ExecOK(r) BY <2>11 DEF ExecOK, Goto
  <2>12. CASE ExecFail(r) BY <2>12 DEF ExecFail, StartReturns, Goto, cmdVars
  <2>13. CASE Settle(r) BY <2>13 DEF Settle, Goto, cmdVars
  <2>14. CASE Health(r) BY <2>14 DEF Health, StartReturns, Goto, cmdVars
  <2>15. CASE ProbeOK(r) BY <2>15 DEF ProbeOK, Goto, cmdVars
  <2>16. CASE ProbeFails(r) BY <2>16 DEF ProbeFails, Goto, cmdVars
  <2>17. CASE ProbeTimeout(r) BY <2>17 DEF ProbeTimeout, CancelUpstream, Goto
  <2>18. CASE StartStopped(r)
    BY <2>18 DEF StartStopped, ChannelClosed, StartReturns, Goto, cmdVars
  <2>19. CASE MarkReady(r) BY <2>19 DEF MarkReady, StartReturns, cmdVars
  <2>20. QED
    BY <1>1, <2>1, <2>2, <2>3, <2>4, <2>5, <2>6, <2>7, <2>8, <2>9, <2>10, <2>11,
       <2>12, <2>13, <2>14, <2>15, <2>16, <2>17, <2>18, <2>19 DEF RequestStep
<1>2. ASSUME NEW g \in Gens, CmdExits(g) \/ WatcherStep(g) PROVE TypeOK'
  <2>1. CASE CmdExits(g) \/ WatcherMarksStopped(g) \/ WatcherCloses(g)
    BY <2>1 DEF CmdExits, WatcherMarksStopped, WatcherCloses
  <2>2. CASE WatcherPanics(g)
    <3>1. panicked' \in BOOLEAN
      BY <2>2, Zenon DEF WatcherPanics
    <3>2. QED
      BY <2>2, <3>1 DEF WatcherPanics, cmdVars
  <2>3. QED
    BY <1>2, <2>1, <2>2 DEF WatcherStep
<1>3. ASSUME NEW t \in Threads, StoppingStep(t) PROVE TypeOK'
  BY <1>3 DEF StoppingStep, Drained, StopImmediately, StopCommand, StopWait,
     ChannelClosed, CancelUpstream, swapState, Goto, cmdVars
<1>4. ASSUME NEW g \in Gens, TTLStep(g) PROVE TypeOK'
  BY <1>4 DEF TTLStep, TTLEnds, TTLExpires, TTLStop, Goto, cmdVars
<1>5. ASSUME NEW s \in Stoppers, Stop(s) \/ CallStopImmediately(s) \/ Shutdown(s)
      PROVE  TypeOK'
  BY <1>5 DEF Stop, CallStopImmediately, Shutdown, Goto, cmdVars
<1>6. ASSUME NEW s \in Stoppers, ShutdownStep(s) PROVE TypeOK'
  BY <1>6 DEF ShutdownStep, ShutdownCommand, ShutdownWait, ShutdownForce,
     ChannelClosed, CancelUpstream, Goto, cmdVars
<1>7. CASE UNCHANGED vars
  BY <1>7 DEF vars
<1>8. QED
  BY <1>1, <1>2, <1>3, <1>4, <1>5, <1>6, <1>7 DEF Next

\* Type correctness of the process model.
THEOREM TypeCorrect == Spec => []TypeOK
<1>1. Init => TypeOK
  BY InitIInv DEF IInv
<1>2. QED
  BY <1>1, StepType, PTL DEF Spec

\* A step that neither creates nor removes an owner, and moves the state only
\* between starting, ready and stopping, or to shutdown.
OwnersKept ==
    /\ \A r \in Requests : PreLaunch(r)' <=> PreLaunch(r)
    /\ \A r \in Requests : PreLaunch(r) => gen'[r] = gen[r]
    /\ UNCHANGED <<watcher, cmd>>
    /\ \/ state' = state
       \/ state \in {"starting", "ready"} /\ state' \in {"ready", "stopping"}
       \/ state' = "shutdown"

\* Steps that keep the owners keep the invariant.
LEMMA KeepOwners == ASSUME IInv, TypeOK', OwnersKept PROVE IInv'
BY DEF IInv, OwnersKept, UniqueOwner, StoppedHasNoOwner, RunningIsWatched,
   LaunchHasGen, StateHasOwner, Unmarked

\* Request steps other than StartSwap, ExecOK and ExecFail keep the owners.
LEMMA RequestKeepsOwners ==
    ASSUME TypeOK, NEW r \in Requests, RequestArrives(r) \/ RequestStep(r),
           ~StartSwap(r), ~ExecOK(r), ~ExecFail(r)
    PROVE  OwnersKept
<1> USE ProcessAssumption DEF TypeOK, Threads, OwnersKept, PreLaunch
<1>1. CASE RequestArrives(r) BY <1>1 DEF RequestArrives, Goto, cmdVars
<1>2. CASE Admit(r) BY <1>2 DEF Admit, Goto, cmdVars
<1>3. CASE Decide(r) BY <1>3 DEF Decide, Goto, cmdVars
<1>4. CASE Proxy(r) BY <1>4 DEF Proxy, Goto, cmdVars
<1>5. CASE Exit(r) BY <1>5 DEF Exit, Goto, cmdVars
<1>6. CASE StartMismatch(r) BY <1>6 DEF StartMismatch, Goto, cmdVars
<1>7. CASE WaitStarting(r) BY <1>7 DEF WaitStarting, Goto, cmdVars
<1>8. CASE Waited(r) BY <1>8 DEF Waited, Goto, cmdVars
<1>9. CASE Publish(r) BY <1>9 DEF Publish, Goto
<1>10. CASE Settle(r) BY <1>10 DEF Settle, Goto, cmdVars
<1>11. CASE Health(r) BY <1>11 DEF Health, StartReturns, Goto, cmdVars
<1>12. CASE ProbeOK(r) BY <1>12 DEF ProbeOK, Goto, cmdVars
<1>13. CASE ProbeFails(r) BY <1>13 DEF ProbeFails, Goto, cmdVars
<1>14. CASE ProbeTimeout(r) BY <1>14 DEF ProbeTimeout, CancelUpstream, Goto
<1>15. CASE StartStopped(r)
  BY <1>15 DEF StartStopped, ChannelClosed, StartReturns, Goto, cmdVars
<1>16. CASE MarkReady(r)
  <2>1. \A q \in Requests : pc'[q] = IF q = r THEN IF state = "starting" THEN "proxy" ELSE "exit"
                                     ELSE pc[q]
    <3>1. gen[r] \notin Requests
      OBVIOUS
    <3>2. QED
      BY <1>16, <3>1 DEF MarkReady
  <2>2. UNCHANGED <<watcher, cmd>> /\ pc[r] = "markReady"
    BY <1>16 DEF MarkReady, cmdVars
  <2>3. state' = state \/ (state \in {"starting", "ready"} /\ state' \in {"ready", "stopping"})
    BY <1>16 DEF MarkReady
  <2>4. \A q \in Requests : q # r => gen'[q] = gen[q]
    BY <1>16 DEF MarkReady, StartReturns
  <2>5. QED
    BY <2>1, <2>2, <2>3, <2>4
<1>17. QED
  BY <1>1, <1>2, <1>3, <1>4, <1>5, <1>6, <1>7, <1>8, <1>9, <1>10, <1>11, <1>12,
     <1>13, <1>14, <1>15, <1>16 DEF RequestStep

\* Stopping, TTL and shutdown steps keep the owners.
LEMMA StopperKeepsOwners ==
    ASSUME TypeOK, NEW t \in Stoppers \cup Gens,
           \/ Stop(t) \/ CallStopImmediately(t) \/ Shutdown(t)
           \/ StoppingStep(t) \/ ShutdownStep(t) \/ TTLStep(t)
    PROVE  OwnersKept
<1> USE ProcessAssumption DEF TypeOK, Threads, OwnersKept, PreLaunch
<1>1. CASE Stop(t) \/ CallStopImmediately(t) \/ Shutdown(t)
  BY <1>1 DEF Stop, CallStopImmediately, Shutdown, Goto, cmdVars
<1>2. CASE StoppingStep(t)
  BY <1>2 DEF StoppingStep, Drained, StopImmediately, StopCommand, StopWait,
     ChannelClosed, CancelUpstream, swapState, Goto, cmdVars
<1>3. CASE ShutdownStep(t)
  BY <1>3 DEF ShutdownStep, ShutdownCommand, ShutdownWait, ShutdownForce,
     ChannelClosed, CancelUpstream, Goto, cmdVars
<1>4. CASE TTLStep(t)
  BY <1>4 DEF TTLStep, TTLEnds, TTLExpires, TTLStop, Goto, cmdVars
<1>5. QED
  BY <1>1, <1>2, <1>3, <1>4

\* Winning the swap to starting creates the owner, where there was none.
LEMMA StartSwapInv ==
    ASSUME IInv, TypeOK', NEW r \in Requests, StartSwap(r) PROVE IInv'
<1>1. state = "stopped" /\ UNCHANGED <<watcher, cmd>>
  BY DEF StartSwap, swapState
<1>2. \A q \in Requests : PreLaunch(q)' <=> q = r
  BY <1>1, ProcessAssumption
     DEF StartSwap, Goto, PreLaunch, IInv, TypeOK, StoppedHasNoOwner, Threads
<1>3. gen'[r] \in Gens
  BY ProcessAssumption DEF StartSwap, IInv, TypeOK, Gens
<1>4. QED
  BY <1>1, <1>2, <1>3 DEF IInv, UniqueOwner, StoppedHasNoOwner, RunningIsWatched,
     LaunchHasGen, StateHasOwner, Unmarked, StartSwap, swapState

\* cmd.Start hands the process over from the start to its waitForCmd.
LEMMA ExecOKInv ==
    ASSUME IInv, TypeOK', NEW r \in Requests, ExecOK(r) PROVE IInv'
<1>1. PreLaunch(r) /\ gen[r] \in Gens /\ state # "stopped" /\ state' = state
  BY DEF ExecOK, Goto, PreLaunch, IInv, LaunchHasGen, StoppedHasNoOwner
<1>2. \A q \in Requests : ~PreLaunch(q)'
  BY ProcessAssumption DEF ExecOK, Goto, PreLaunch, IInv, UniqueOwner, TypeOK, Threads
<1>3. \A g \in Gens : Unmarked(g)' <=> g = gen[r]
  BY <1>1 DEF ExecOK, Unmarked, IInv, UniqueOwner, TypeOK
<1>4. \A g \in Gens : cmd'[g] = "running" => g = gen[r]
  BY <1>1 DEF ExecOK, Unmarked, IInv, UniqueOwner, RunningIsWatched, TypeOK
<1>5. QED
  BY <1>1, <1>2, <1>3, <1>4 DEF IInv, UniqueOwner, StoppedHasNoOwner,
     RunningIsWatched, LaunchHasGen, StateHasOwner

\* A failed cmd.Start removes the owner and sets the state to stopped.
LEMMA ExecFailInv ==
    ASSUME IInv, TypeOK', NEW r \in Requests, ExecFail(r) PROVE IInv'
<1>1. PreLaunch(r) /\ state' = "stopped" /\ UNCHANGED <<watcher, cmd>>
  BY DEF ExecFail, Goto, PreLaunch, cmdVars
<1>2. \A q \in Requests : ~PreLaunch(q)'
  BY ProcessAssumption DEF ExecFail, Goto, PreLaunch, IInv, UniqueOwner, TypeOK, Threads
<1>3. \A g \in Gens : ~Unmarked(g) /\ ~Unmarked(g)'
  BY <1>1 DEF IInv, UniqueOwner, Unmarked
<1>4. QED
  BY <1>1, <1>2, <1>3 DEF IInv, UniqueOwner, StoppedHasNoOwner, RunningIsWatched,
     LaunchHasGen, StateHasOwner

\* The command ends, its waitForCmd sets the state to stopped and lets go.
LEMMA WatcherInv ==
    ASSUME IInv, TypeOK', NEW g \in Gens, CmdExits(g) \/ WatcherStep(g) PROVE IInv'
<1>1. CASE CmdExits(g)
  BY <1>1 DEF CmdExits, IInv, UniqueOwner, StoppedHasNoOwner, RunningIsWatched,
     LaunchHasGen, StateHasOwner, Unmarked, PreLaunch, TypeOK
<1>2. CASE WatcherMarksStopped(g)
  <2>1. Unmarked(g) /\ cmd[g] = "exited" /\ state' = "stopped" /\ UNCHANGED <<pc, gen, cmd>>
    BY <1>2 DEF WatcherMarksStopped, Unmarked
  <2>2. \A h \in Gens : ~Unmarked(h)'
    BY <1>2, <2>1 DEF WatcherMarksStopped, Unmarked, IInv, UniqueOwner, TypeOK
  <2>3. \A r \in Requests : ~PreLaunch(r)'
    BY <2>1 DEF PreLaunch, IInv, UniqueOwner
  <2>4. \A h \in Gens : cmd'[h] # "running"
    BY <2>1 DEF IInv, UniqueOwner, RunningIsWatched
  <2>5. QED
    BY <2>1, <2>2, <2>3, <2>4 DEF IInv, UniqueOwner, StoppedHasNoOwner,
       RunningIsWatched, LaunchHasGen, StateHasOwner
<1>3. CASE WatcherCloses(g) \/ WatcherPanics(g)
  <2>1. \A h \in Gens : Unmarked(h)' <=> Unmarked(h)
    BY <1>3 DEF WatcherCloses, WatcherPanics, Unmarked, IInv, TypeOK, cmdVars
  <2>2. UNCHANGED <<state, pc, gen, cmd>>
    BY <1>3 DEF WatcherCloses, WatcherPanics, cmdVars
  <2>3. QED
    BY <2>1, <2>2 DEF IInv, UniqueOwner, StoppedHasNoOwner, RunningIsWatched,
       LaunchHasGen, StateHasOwner, PreLaunch
<1>4. QED
  BY <1>1, <1>2, <1>3 DEF WatcherStep

\* Every step keeps the ownership invariant.
LEMMA StepIInv == IInv /\ [Next]_vars => IInv'
<1> SUFFICES ASSUME IInv, [Next]_vars PROVE IInv'
  OBVIOUS
<1>0. TypeOK /\ TypeOK'
  BY StepType DEF IInv
<1>1. ASSUME NEW r \in Requests, RequestArrives(r) \/ RequestStep(r) PROVE IInv'
  BY <1>0, <1>1, RequestKeepsOwners, KeepOwners, StartSwapInv, ExecOKInv, ExecFailInv
<1>2. ASSUME NEW g \in Gens, CmdExits(g) \/ WatcherStep(g) PROVE IInv'
  BY <1>0, <1>2, WatcherInv
<1>3. ASSUME NEW t \in Stoppers \cup Gens,
             \/ Stop(t) \/ CallStopImmediately(t) \/ Shutdown(t)
             \/ StoppingStep(t) \/ ShutdownStep(t) \/ TTLStep(t)
      PROVE  IInv'
  BY <1>0, <1>3, StopperKeepsOwners, KeepOwners
<1>4. CASE UNCHANGED vars
  BY <1>4 DEF vars, IInv, TypeOK, UniqueOwner, StoppedHasNoOwner, RunningIsWatched,
     LaunchHasGen, StateHasOwner, PreLaunch, Unmarked
<1>5. QED
  BY <1>1, <1>2, <1>3, <1>4 DEF Next

\* Ownership holds throughout: two commands of one process never run together,
\* stopped means that no command runs, and no state is stranded, for every
\* interleaving of any number of requests, stops, TTL expiries and shutdowns.
THEOREM UpstreamSafety ==
    Spec => [](AtMostOneUpstream /\ StoppedMeansExited /\ StateHasOwner)
<1>1. IInv => AtMostOneUpstream /\ StoppedMeansExited /\ StateHasOwner
  BY DEF IInv, UniqueOwner, StoppedHasNoOwner, RunningIsWatched,
     AtMostOneUpstream, StoppedMeansExited
<1>2. QED
  BY <1>1, InitIInv, StepIInv, PTL DEF Spec

\* stopped means that the command has exited, for any number of goroutines and starts:
\* whoever waited for a model to stop may reuse its port and its memory.
THEOREM StoppedMeansExitedAlways == Spec => []StoppedMeansExited
BY UpstreamSafety, PTL

\* Shutdown is final but for its owners: whatever leaves the state that Shutdown
\* forced is a start that was under way, or the waitForCmd of a command.
THEOREM ShutdownIsFinal == Spec => ShutdownSticks
<1> DEFINE Owned == (\E r \in Requests : PreLaunch(r)) \/ (\E g \in Gens : Unmarked(g))
<1>1. ASSUME TypeOK, [Next]_vars PROVE state = "shutdown" /\ state' # "shutdown" => Owned
  <2>1. ASSUME NEW r \in Requests, RequestArrives(r) \/ RequestStep(r)
        PROVE  state = "shutdown" /\ state' # "shutdown" => Owned
    <3>1. CASE StartSwap(r)
      BY <3>1 DEF StartSwap, swapState
    <3>2. CASE ExecOK(r)
      BY <3>2 DEF ExecOK
    <3>3. CASE ExecFail(r)
      BY <3>3 DEF ExecFail, Goto, PreLaunch
    <3>4. CASE ~StartSwap(r) /\ ~ExecOK(r) /\ ~ExecFail(r)
      BY <1>1, <2>1, <3>4, RequestKeepsOwners DEF OwnersKept
    <3>5. QED
      BY <3>1, <3>2, <3>3, <3>4
  <2>2. ASSUME NEW g \in Gens, CmdExits(g) \/ WatcherStep(g)
        PROVE  state = "shutdown" /\ state' # "shutdown" => Owned
    BY <2>2 DEF CmdExits, WatcherStep, WatcherMarksStopped, WatcherCloses, WatcherPanics,
       Unmarked, cmdVars
  <2>3. ASSUME NEW t \in Stoppers \cup Gens,
               \/ Stop(t) \/ CallStopImmediately(t) \/ Shutdown(t)
               \/ StoppingStep(t) \/ ShutdownStep(t) \/ TTLStep(t)
        PROVE  state = "shutdown" /\ state' # "shutdown" => Owned
    BY <1>1, <2>3, StopperKeepsOwners DEF OwnersKept
  <2>4. CASE UNCHANGED vars
    BY <2>4 DEF vars
  <2>5. QED
    BY <1>1, <2>1, <2>2, <2>3, <2>4 DEF Next
<1>2. QED
  BY <1>1, TypeCorrect, PTL DEF Spec, ShutdownSticks
=============================================================================
