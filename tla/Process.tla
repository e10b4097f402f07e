------------------------------ MODULE Process ------------------------------
(***************************************************************************)
(* One upstream process of proxy/process.go, at the granularity of its     *)
(* goroutines: request handlers (ProxyRequest, which calls start on        *)
(* demand), callers of Stop, StopImmediately and Shutdown, the TTL         *)
(* goroutine of each start, and the waitForCmd goroutine of each command.  *)
(*                                                                         *)
(* Every successful swap to "starting" opens a new generation: the         *)
(* exec.Cmd, its context and the cmdWaitChan made for it are named by one  *)
(* number.  Two WaitGroups are represented by the set of threads that have *)
(* called Add and not yet Done.  Steps that touch no shared state between  *)
(* two shared accesses are merged with one of them.                        *)
(***************************************************************************)
EXTENDS Naturals, FiniteSets

CONSTANTS
    Requests,            \* request-handling goroutines, each reused for many requests
    Stoppers,            \* goroutines that call Stop, StopImmediately or Shutdown
    MaxStarts,           \* bound: number of commands ever started
    ConcurrencyLimit,    \* config.ConcurrencyLimit, capacity of the semaphore
    CheckHealth,         \* FALSE when checkEndpoint is "none"
    HasTTL               \* config.UnloadAfter > 0

Gens == 1 .. MaxStarts
NoGen == 0               \* a nil cancelUpstream, and the channel made by NewProcess
Threads == Requests \cup Stoppers \cup Gens   \* thread g is the TTL goroutine of start g

ASSUME ProcessAssumption ==
    /\ MaxStarts \in Nat \ {0}
    /\ ConcurrencyLimit \in Nat \ {0}
    /\ CheckHealth \in BOOLEAN
    /\ HasTTL \in BOOLEAN
    /\ Requests \cap Stoppers = {}
    /\ (Requests \cup Stoppers) \cap (Gens \cup {NoGen}) = {}

VARIABLES
    state,               \* p.state
    waitStarting,        \* p.waitStarting: requests inside start()
    inFlight,            \* p.inFlightRequests, its counter, and the semaphore
    gens,                \* generations opened so far
    cancelUpstream,      \* p.cancelUpstream, as the generation it cancels
    cmdWaitChan,         \* p.cmdWaitChan, as the generation it was made for
    canceled,            \* generations whose context was cancelled
    closed,              \* channels that were closed
    cmd,                 \* the operating-system process of each generation
    watcher,             \* waitForCmd goroutine of each generation
    pc,                  \* where each thread is
    gen,                 \* generation a request opened in its current start()
    chan,                \* channel a thread in stopCommand waits on
    panicked             \* close of a closed channel ended the program

vars == <<state, waitStarting, inFlight, gens, cancelUpstream, cmdWaitChan,
          canceled, closed, cmd, watcher, pc, gen, chan, panicked>>

States == {"stopped", "starting", "ready", "stopping", "shutdown"}

RequestPCs == {"idle", "admit", "decide", "start", "waitStarting", "waited",
               "publish", "exec", "settle", "health", "probe", "markReady",
               "startStop", "proxy", "exit"}
StopperPCs == {"idle", "tick", "stop", "drain", "now", "stopCommand", "stopWait",
               "shutdownCommand", "shutdownWait", "shutdownForce"}

\* Every variable holds a value the fields and goroutines of process.go can hold; in
\* particular a nil cancelUpstream is never called.
TypeOK ==
    /\ state \in States
    /\ waitStarting \subseteq Requests
    /\ inFlight \subseteq Requests
    /\ gens \in 0 .. MaxStarts
    /\ cancelUpstream \in Gens \cup {NoGen}
    /\ cmdWaitChan \in Gens \cup {NoGen}
    /\ canceled \subseteq Gens
    /\ closed \subseteq Gens \cup {NoGen}
    /\ cmd \in [Gens -> {"none", "running", "exited"}]
    /\ watcher \in [Gens -> {"none", "wait", "close", "done"}]
    /\ pc \in [Threads -> RequestPCs \cup StopperPCs]
    /\ gen \in [Requests -> Gens \cup {NoGen}]
    /\ chan \in [Threads -> Gens \cup {NoGen}]
    /\ panicked \in BOOLEAN

Init ==
    /\ state = "stopped"
    /\ waitStarting = {}
    /\ inFlight = {}
    /\ gens = 0
    /\ cancelUpstream = NoGen
    /\ cmdWaitChan = NoGen
    /\ canceled = {}
    /\ closed = {}
    /\ cmd = [g \in Gens |-> "none"]
    /\ watcher = [g \in Gens |-> "none"]
    /\ pc = [t \in Threads |-> "idle"]
    /\ gen = [r \in Requests |-> NoGen]
    /\ chan = [t \in Threads |-> NoGen]
    /\ panicked = FALSE

\* A thread moves on; after a panic nothing runs.
Goto(t, from, to) ==
    /\ ~panicked
    /\ pc[t] = from
    /\ pc' = [pc EXCEPT ![t] = to]

\* isValidTransition: the transitions swapState lets through.
isValidTransition(from, to) ==
    <<from, to>> \in {<<"stopped", "starting">>,
                      <<"starting", "ready">>, <<"starting", "stopping">>,
                      <<"starting", "stopped">>, <<"ready", "stopping">>,
                      <<"stopping", "stopped">>, <<"stopping", "shutdown">>}

\* swapState succeeds: a compare and swap under stateMutex.
swapState(expected, new) ==
    /\ state = expected
    /\ isValidTransition(state, new)
    /\ state' = new

cmdVars == <<gens, cancelUpstream, cmdWaitChan, canceled, closed, cmd, watcher>>
-----------------------------------------------------------------------------
(***************************************************************************)
(* ProxyRequest up to the call of start.                                   *)
(***************************************************************************)
\* Requests that may still open a generation.
MayStart == {r \in Requests : pc[r] \in {"admit", "decide", "start"}}

\* The state check at the top (503 while stopping or shut down changes nothing).
\* MaxStarts bounds the arrivals, never a request that was let in.
RequestArrives(r) ==
    /\ gens + Cardinality(MayStart) < MaxStarts
    /\ state \notin {"shutdown", "stopping"}
    /\ Goto(r, "idle", "admit")
    /\ UNCHANGED <<state, waitStarting, inFlight, gen, chan, panicked, cmdVars>>

\* The concurrency semaphore (429 when full), then the in-flight count.
Admit(r) ==
    /\ IF Cardinality(inFlight) < ConcurrencyLimit
       THEN Goto(r, "admit", "decide") /\ inFlight' = inFlight \cup {r}
       ELSE Goto(r, "admit", "idle") /\ UNCHANGED inFlight
    /\ UNCHANGED <<state, waitStarting, gen, chan, panicked, cmdVars>>

Decide(r) ==
    /\ Goto(r, "decide", IF state = "ready" THEN "proxy" ELSE "start")
    /\ UNCHANGED <<state, waitStarting, inFlight, gen, chan, panicked, cmdVars>>

\* reverseProxy.ServeHTTP: the upstream answers, or is gone and the request fails.
Proxy(r) ==
    /\ Goto(r, "proxy", "exit")
    /\ UNCHANGED <<state, waitStarting, inFlight, gen, chan, panicked, cmdVars>>

\* The deferred calls: in-flight count and semaphore are given back.
Exit(r) ==
    /\ Goto(r, "exit", "idle")
    /\ inFlight' = inFlight \ {r}
    /\ UNCHANGED <<state, waitStarting, gen, chan, panicked, cmdVars>>
-----------------------------------------------------------------------------
(***************************************************************************)
(* start().  Every return after the swap runs waitStarting.Done.           *)
(***************************************************************************)
StartReturns(r) ==
    /\ waitStarting' = waitStarting \ {r}
    /\ gen' = [gen EXCEPT ![r] = NoGen]

\* Mutant: a start may take over a process that is still stopping.
StartSwapWhileStopping(r) ==
    /\ gens < MaxStarts
    /\ state \in {"stopped", "stopping"}
    /\ state' = "starting"
    /\ waitStarting' = waitStarting \cup {r}
    /\ gens' = gens + 1
    /\ gen' = [gen EXCEPT ![r] = gens + 1]
    /\ Goto(r, "start", "publish")
    /\ UNCHANGED <<inFlight, cancelUpstream, cmdWaitChan, canceled, closed, cmd,
                   watcher, chan, panicked>>

\* Mutant: a start forces its state, as long as no command can be running.
StartSwapAfterShutdown(r) ==
    /\ gens < MaxStarts
    /\ state \in {"stopped", "shutdown"}
    /\ state' = "starting"
    /\ waitStarting' = waitStarting \cup {r}
    /\ gens' = gens + 1
    /\ gen' = [gen EXCEPT ![r] = gens + 1]
    /\ Goto(r, "start", "publish")
    /\ UNCHANGED <<inFlight, cancelUpstream, cmdWaitChan, canceled, closed, cmd,
                   watcher, chan, panicked>>

StartSwap(r) ==
    /\ gens < MaxStarts
    /\ swapState("stopped", "starting")
    /\ waitStarting' = waitStarting \cup {r}
    /\ gens' = gens + 1
    /\ gen' = [gen EXCEPT ![r] = gens + 1]
    /\ Goto(r, "start", "publish")
    /\ UNCHANGED <<inFlight, cancelUpstream, cmdWaitChan, canceled, closed, cmd,
                   watcher, chan, panicked>>

\* The swap finds another state: wait for a start in progress, else an error.
StartMismatch(r) ==
    /\ state # "stopped"
    /\ Goto(r, "start", IF state = "starting" THEN "waitStarting" ELSE "exit")
    /\ UNCHANGED <<state, waitStarting, inFlight, gen, chan, panicked, cmdVars>>

WaitStarting(r) ==
    /\ waitStarting = {}
    /\ Goto(r, "waitStarting", "waited")
    /\ UNCHANGED <<state, waitStarting, inFlight, gen, chan, panicked, cmdVars>>

Waited(r) ==
    /\ Goto(r, "waited", IF state = "ready" THEN "proxy" ELSE "exit")
    /\ UNCHANGED <<state, waitStarting, inFlight, gen, chan, panicked, cmdVars>>

\* p.cmd, p.cancelUpstream and p.cmdWaitChan are replaced under cmdMutex.
Publish(r) ==
    /\ Goto(r, "publish", "exec")
    /\ cancelUpstream' = gen[r]
    /\ cmdWaitChan' = gen[r]
    /\ UNCHANGED <<state, waitStarting, inFlight, gens, canceled, closed, cmd,
                   watcher, gen, chan, panicked>>

\* cmd.Start succeeds (it refuses a context that is already cancelled), and
\* waitForCmd is spawned.
ExecOK(r) ==
    /\ gen[r] \notin canceled
    /\ Goto(r, "exec", "settle")
    /\ cmd' = [cmd EXCEPT ![gen[r]] = "running"]
    /\ watcher' = [watcher EXCEPT ![gen[r]] = "wait"]
    /\ UNCHANGED <<state, waitStarting, inFlight, gens, cancelUpstream,
                   cmdWaitChan, canceled, closed, gen, chan, panicked>>

\* cmd.Start fails: swapState to stopped, or forceState when that fails.
ExecFail(r) ==
    /\ Goto(r, "exec", "exit")
    /\ StartReturns(r)
    /\ state' = "stopped"
    /\ UNCHANGED <<inFlight, chan, panicked, cmdVars>>

\* The 250ms pause; a "none" endpoint skips the health loop.
Settle(r) ==
    /\ Goto(r, "settle", IF CheckHealth THEN "health" ELSE "markReady")
    /\ UNCHANGED <<state, waitStarting, inFlight, gen, chan, panicked, cmdVars>>

\* Top of the health loop: leave it when the state is no longer starting.
Health(r) ==
    /\ IF state = "starting"
       THEN Goto(r, "health", "probe") /\ UNCHANGED <<waitStarting, gen>>
       ELSE Goto(r, "health", "exit") /\ StartReturns(r)
    /\ UNCHANGED <<state, inFlight, chan, panicked, cmdVars>>

\* checkHealthEndpoint: whatever command runs now answers on the port.
ProbeOK(r) ==
    /\ \E g \in Gens : cmd[g] = "running"
    /\ Goto(r, "probe", "markReady")
    /\ UNCHANGED <<state, waitStarting, inFlight, gen, chan, panicked, cmdVars>>

ProbeFails(r) ==
    /\ Goto(r, "probe", "health")
    /\ UNCHANGED <<state, waitStarting, inFlight, gen, chan, panicked, cmdVars>>

\* The body of stopCommand up to the receive: cancel what cancelUpstream holds
\* and remember the channel to wait on.  Only Shutdown can find a nil
\* cancelUpstream: the other callers come after a Publish.
CancelUpstream(t) ==
    /\ canceled' = canceled \cup ({cancelUpstream} \ {NoGen})
    /\ chan' = [chan EXCEPT ![t] = cmdWaitChan]
    /\ UNCHANGED <<gens, cancelUpstream, cmdWaitChan, closed, cmd, watcher>>

\* The receive from the channel, after which stopCommand returns.
ChannelClosed(t) ==
    /\ chan[t] \in closed
    /\ chan' = [chan EXCEPT ![t] = NoGen]

\* Mutant: the timeout declares the process stopped before the command ended.
ProbeTimeoutForces(r) ==
    /\ Goto(r, "probe", "startStop")
    /\ CancelUpstream(r)
    /\ state' = "stopped"
    /\ UNCHANGED <<waitStarting, inFlight, gen, panicked>>

\* Health check timed out: stopCommand, then an error.
ProbeTimeout(r) ==
    /\ Goto(r, "probe", "startStop")
    /\ CancelUpstream(r)
    /\ UNCHANGED <<state, waitStarting, inFlight, gen, panicked>>

StartStopped(r) ==
    /\ Goto(r, "startStop", "exit")
    /\ ChannelClosed(r)
    /\ StartReturns(r)
    /\ UNCHANGED <<state, inFlight, panicked, cmdVars>>

\* The TTL goroutine is spawned, then starting becomes ready; a failed swap is
\* an error for this request only.
MarkReady(r) ==
    /\ ~panicked
    /\ pc[r] = "markReady"
    /\ pc' = [t \in Threads |->
                IF t = r THEN IF state = "starting" THEN "proxy" ELSE "exit"
                ELSE IF HasTTL /\ t = gen[r] THEN "tick" ELSE pc[t]]
    /\ StartReturns(r)
    /\ state' = IF state = "starting" THEN "ready" ELSE state
    /\ UNCHANGED <<inFlight, chan, panicked, cmdVars>>
-----------------------------------------------------------------------------
(***************************************************************************)
(* waitForCmd and the command itself.                                      *)
(***************************************************************************)
\* The operating-system process ends: on its own, or after cancellation
\* (SIGTERM or cmdStop, then a kill after WaitDelay).
CmdExits(g) ==
    /\ ~panicked
    /\ cmd[g] = "running"
    /\ cmd' = [cmd EXCEPT ![g] = "exited"]
    /\ UNCHANGED <<state, waitStarting, inFlight, gens, cancelUpstream,
                   cmdWaitChan, canceled, closed, watcher, pc, gen, chan, panicked>>

\* Mutant: an exit that nobody asked for leaves the state as it was.
WatcherOnlySwaps(g) ==
    /\ ~panicked
    /\ watcher[g] = "wait"
    /\ cmd[g] = "exited"
    /\ state' = IF state = "stopping" THEN "stopped" ELSE state
    /\ watcher' = [watcher EXCEPT ![g] = "close"]
    /\ UNCHANGED <<waitStarting, inFlight, gens, cancelUpstream, cmdWaitChan,
                   canceled, closed, cmd, pc, gen, chan, panicked>>

\* cmd.Wait returned: stopping is swapped to stopped, any other state is forced.
WatcherMarksStopped(g) ==
    /\ ~panicked
    /\ watcher[g] = "wait"
    /\ cmd[g] = "exited"
    /\ state' = "stopped"
    /\ watcher' = [watcher EXCEPT ![g] = "close"]
    /\ UNCHANGED <<waitStarting, inFlight, gens, cancelUpstream, cmdWaitChan,
                   canceled, closed, cmd, pc, gen, chan, panicked>>

\* Mutant: an early return skips the close.
WatcherNoClose(g) ==
    /\ ~panicked
    /\ watcher[g] = "close"
    /\ watcher' = [watcher EXCEPT ![g] = "done"]
    /\ UNCHANGED <<state, waitStarting, inFlight, gens, cancelUpstream, cmdWaitChan,
                   canceled, closed, cmd, pc, gen, chan, panicked>>

\* close(p.cmdWaitChan): the field is read here, not the channel of generation g.
WatcherCloses(g) ==
    /\ ~panicked
    /\ watcher[g] = "close"
    /\ watcher' = [watcher EXCEPT ![g] = "done"]
    /\ cmdWaitChan \notin closed
    /\ closed' = closed \cup {cmdWaitChan}
    /\ UNCHANGED <<state, waitStarting, inFlight, gens, cancelUpstream,
                   cmdWaitChan, canceled, cmd, pc, gen, chan, panicked>>

\* Closing a closed channel panics in a goroutine without recover.
WatcherPanics(g) ==
    /\ ~panicked
    /\ watcher[g] = "close"
    /\ cmdWaitChan \in closed
    /\ panicked' = TRUE
    /\ UNCHANGED <<state, waitStarting, inFlight, pc, gen, chan, cmdVars>>
-----------------------------------------------------------------------------
(***************************************************************************)
(* Stop, StopImmediately, Shutdown and the TTL goroutine.                  *)
(***************************************************************************)
Stoppable == isValidTransition(state, "stopping")

\* Stop, like StopImmediately and Shutdown, returns at once unless Stoppable;
\* then it waits for the in-flight requests.
Stop(s) ==
    /\ Stoppable
    /\ Goto(s, "idle", "drain")
    /\ UNCHANGED <<state, waitStarting, inFlight, gen, chan, panicked, cmdVars>>

Drained(t) ==
    /\ inFlight = {}
    /\ Goto(t, "drain", "now")
    /\ UNCHANGED <<state, waitStarting, inFlight, gen, chan, panicked, cmdVars>>

\* StopImmediately: only ready is swapped to stopping, anything else returns.
StopImmediately(t) ==
    /\ IF state = "ready"
       THEN swapState("ready", "stopping") /\ Goto(t, "now", "stopCommand")
       ELSE Goto(t, "now", "idle") /\ UNCHANGED state
    /\ UNCHANGED <<waitStarting, inFlight, gen, chan, panicked, cmdVars>>

\* StopImmediately called directly, by the unload handlers.
CallStopImmediately(s) ==
    /\ Stoppable
    /\ Goto(s, "idle", "now")
    /\ UNCHANGED <<state, waitStarting, inFlight, gen, chan, panicked, cmdVars>>

StopCommand(t) ==
    /\ Goto(t, "stopCommand", "stopWait")
    /\ CancelUpstream(t)
    /\ UNCHANGED <<state, waitStarting, inFlight, gen, panicked>>

StopWait(t) ==
    /\ Goto(t, "stopWait", "idle")
    /\ ChannelClosed(t)
    /\ UNCHANGED <<state, waitStarting, inFlight, gen, panicked, cmdVars>>

Shutdown(s) ==
    /\ Stoppable
    /\ Goto(s, "idle", "shutdownCommand")
    /\ UNCHANGED <<state, waitStarting, inFlight, gen, chan, panicked, cmdVars>>

\* A nil cancelUpstream makes stopCommand return at once.
ShutdownCommand(s) ==
    /\ Goto(s, "shutdownCommand",
            IF cancelUpstream = NoGen THEN "shutdownForce" ELSE "shutdownWait")
    /\ CancelUpstream(s)
    /\ UNCHANGED <<state, waitStarting, inFlight, gen, panicked>>

ShutdownWait(s) ==
    /\ Goto(s, "shutdownWait", "shutdownForce")
    /\ ChannelClosed(s)
    /\ UNCHANGED <<state, waitStarting, inFlight, gen, panicked, cmdVars>>

ShutdownForce(s) ==
    /\ Goto(s, "shutdownForce", "idle")
    /\ state' = "shutdown"
    /\ UNCHANGED <<waitStarting, inFlight, gen, chan, panicked, cmdVars>>

\* TTL goroutine: it ends when the process is not ready, skips a tick while
\* requests are in flight, and calls Stop once the idle time is over.
TTLEnds(g) ==
    /\ state # "ready"
    /\ Goto(g, "tick", "idle")
    /\ UNCHANGED <<state, waitStarting, inFlight, gen, chan, panicked, cmdVars>>

TTLExpires(g) ==
    /\ state = "ready"
    /\ inFlight = {}
    /\ Goto(g, "tick", "stop")
    /\ UNCHANGED <<state, waitStarting, inFlight, gen, chan, panicked, cmdVars>>

TTLStop(g) ==
    /\ Goto(g, "stop", IF Stoppable THEN "drain" ELSE "idle")
    /\ UNCHANGED <<state, waitStarting, inFlight, gen, chan, panicked, cmdVars>>
-----------------------------------------------------------------------------
RequestStep(r) ==
    \/ Admit(r) \/ Decide(r) \/ Proxy(r) \/ Exit(r)
    \/ StartSwap(r) \/ StartMismatch(r) \/ WaitStarting(r) \/ Waited(r)
    \/ Publish(r) \/ ExecOK(r) \/ ExecFail(r) \/ Settle(r) \/ Health(r)
    \/ ProbeOK(r) \/ ProbeFails(r) \/ ProbeTimeout(r) \/ StartStopped(r)
    \/ MarkReady(r)

WatcherStep(g) == WatcherMarksStopped(g) \/ WatcherCloses(g) \/ WatcherPanics(g)

StoppingStep(t) ==
    Drained(t) \/ StopImmediately(t) \/ StopCommand(t) \/ StopWait(t)

ShutdownStep(s) == ShutdownCommand(s) \/ ShutdownWait(s) \/ ShutdownForce(s)

TTLStep(g) == TTLEnds(g) \/ TTLExpires(g) \/ TTLStop(g)

Next ==
    \/ \E r \in Requests : RequestArrives(r) \/ RequestStep(r)
    \/ \E g \in Gens : CmdExits(g) \/ WatcherStep(g) \/ StoppingStep(g) \/ TTLStep(g)
    \/ \E s \in Stoppers :
          \/ Stop(s) \/ CallStopImmediately(s) \/ Shutdown(s)
          \/ StoppingStep(s) \/ ShutdownStep(s)

Spec == Init /\ [][Next]_vars

\* Goroutines that can run do run; a cancelled command is killed in the end; an
\* unhealthy start times out in the end; the upstream answers in the end.
Fairness ==
    /\ \A r \in Requests :
          /\ WF_vars(RequestStep(r))
          /\ SF_vars(ProbeTimeout(r))
    /\ \A g \in Gens :
          /\ WF_vars(g \in canceled /\ CmdExits(g))
          /\ WF_vars(WatcherStep(g))
          /\ WF_vars(StoppingStep(g))
          /\ WF_vars(TTLStep(g))
    /\ \A s \in Stoppers :
          /\ WF_vars(StoppingStep(s))
          /\ WF_vars(ShutdownStep(s))

FairSpec == Spec /\ Fairness
-----------------------------------------------------------------------------
(***************************************************************************)
(* Properties.                                                             *)
(***************************************************************************)
\* A generation whose command may run and whose waitForCmd has not marked it.
Unmarked(g) == watcher[g] = "wait"

\* A start that has taken the starting state and not yet launched its command.
PreLaunch(r) == pc[r] \in {"publish", "exec"}

\* However starts, stops, TTL expiry, crashes and shutdowns interleave, two
\* upstream commands of one model never run at the same time (start, waitForCmd).
AtMostOneUpstream ==
    \A g, h \in Gens : cmd[g] = "running" /\ cmd[h] = "running" => g = h

\* The stopped state, on which the swap logic relies, means that no command of
\* this process is running (waitForCmd sets it only after cmd.Wait).
StoppedMeansExited ==
    state = "stopped" => \A g \in Gens : cmd[g] # "running"

\* A state other than stopped and shutdown is never stranded: a start is about
\* to launch, or a waitForCmd is pending that will set it to stopped when the
\* command ends.
StateHasOwner ==
    state \in {"starting", "ready", "stopping"} =>
        \/ \E r \in Requests : PreLaunch(r)
        \/ \E g \in Gens : Unmarked(g)

\* Shutdown is final, although waitForCmd and a failed launch force the state: it is
\* left only for a command whose waitForCmd is pending, or a start that was under way
\* when Shutdown forced it.
ShutdownSticks ==
    [][state = "shutdown" /\ state' # "shutdown" =>
         (\E r \in Requests : PreLaunch(r)) \/ (\E g \in Gens : Unmarked(g))]_vars

\* Nobody will close the channel of generation g: its context was cancelled before
\* cmd.Start, or its waitForCmd closed the channel of a later start instead.
NobodyCloses(g) ==
    \/ g \in canceled /\ cmd[g] = "none"
    \/ watcher[g] = "done" /\ g \notin closed /\ \E h \in closed : h > g

\* stopCommand returns to the callers of Stop, StopImmediately and Shutdown, however
\* starts and exits interleave with it, except when nobody closes the channel it
\* waits on.
StopCommandReturns ==
    \A s \in Stoppers :
        pc[s] \in {"stopWait", "shutdownWait"}
            ~> pc[s] \notin {"stopWait", "shutdownWait"} \/ panicked \/ NobodyCloses(chan[s])

\* A command runs while stopCommand cancelled an earlier one: a start whose own command
\* had ended marked ready a later start that had not published its context yet.
Overlooked ==
    /\ \E g \in Gens : cmd[g] = "running" /\ g \notin canceled /\ \E h \in canceled : h < g
    /\ \A t \in Threads : pc[t] # "stopCommand"

\* No transient state lasts: a start comes to an end, and StopImmediately stops the
\* process it moved to stopping, except for an overlooked command.
TransientStatesEnd ==
    /\ (state = "starting" /\ ~panicked) ~> (state # "starting" \/ panicked)
    /\ (state = "stopping" /\ ~panicked) ~> (state # "stopping" \/ panicked \/ Overlooked)

\* process.go:53 "closed when command exits": the channel of a command is closed
\* only once that command exited.
WaitChanMeansExited == \A g \in Gens : g \in closed => cmd[g] = "exited"
=============================================================================
