---------------------------- MODULE ProcessGroup ----------------------------
(***************************************************************************)
(* Swapping models: ProxyManager.swapProcessGroup and the process groups   *)
(* of proxy/processgroup.go, over processes reduced to their life cycle    *)
(* (module Process shows that "stopped" means no command is running).      *)
(*                                                                         *)
(* A request evicts the other groups when its group is exclusive, goes     *)
(* through the group's lock when the group swaps, and is then proxied by   *)
(* its process, which it starts on demand.  Beside the requests run the    *)
(* unload handlers and the TTL goroutine of each model.                    *)
(***************************************************************************)
EXTENDS Naturals, FiniteSets

CONSTANTS
    Models, Groups,
    GroupOf,             \* group of each model
    Swap,                \* groups with swap: true
    Exclusive,           \* groups with exclusive: true
    Persistent,          \* groups with persistent: true
    Requests,            \* requests, each handled once
    Unloaders,           \* unload calls, each made once
    WithTTL,             \* models with a ttl
    ConcurrencyLimit,    \* concurrencyLimit of each model
    None

Threads == Requests \cup Unloaders \cup Models    \* thread m is the TTL goroutine of m
Members(g) == {m \in Models : GroupOf[m] = g}

ASSUME GroupAssumption ==
    /\ GroupOf \in [Models -> Groups]
    /\ Swap \subseteq Groups /\ Exclusive \subseteq Groups /\ Persistent \subseteq Groups
    /\ WithTTL \subseteq Models
    /\ None \notin Models \cup Threads
    /\ Requests \cap Unloaders = {} /\ Requests \cap Models = {} /\ Unloaders \cap Models = {}

ASSUME LimitAssumption == ConcurrencyLimit \in [Models -> Nat \ {0}]

VARIABLES
    state,               \* state of each model's process
    inFlight,            \* requests inside Process.ProxyRequest, by model
    lock,                \* holder of each group's mutex
    lastUsed,            \* lastUsedProcess of each group
    pc,                  \* where each thread is
    model,               \* model a request asks for
    evict,               \* groups a request has yet to stop
    stops,               \* progress of the Stop calls each thread waits for
    raced,               \* history: groups where a swap window was hit
    beside               \* history: groups that ran beside an exclusive request that had stopped them

vars == <<state, inFlight, lock, lastUsed, pc, model, evict, stops, raced, beside>>

StopPhases == {"none", "guard", "drain", "now", "exit"}
PCs == {"idle", "evict", "evicting", "group", "locked", "swapping", "check",
        "enter", "decide", "start", "starting", "waitStarting", "proxy", "exit",
        "release", "unloading", "unloadingGroup", "done"}

\* Every variable holds a value the groups and their processes can hold.
TypeOK ==
    /\ state \in [Models -> {"stopped", "starting", "ready", "stopping"}]
    /\ inFlight \in [Models -> SUBSET Requests]
    /\ lock \in [Groups -> Threads \cup {None}]
    /\ lastUsed \in [Groups -> Models \cup {None}]
    /\ pc \in [Threads -> PCs]
    /\ model \in [Requests -> Models \cup {None}]
    /\ evict \in [Requests -> SUBSET Groups]
    /\ stops \in [Threads -> [Models -> StopPhases]]
    /\ raced \in SUBSET Groups /\ beside \in SUBSET Groups

NoStops == [m \in Models |-> "none"]

Init ==
    /\ state = [m \in Models |-> "stopped"]
    /\ inFlight = [m \in Models |-> {}]
    /\ lock = [g \in Groups |-> None]
    /\ lastUsed = [g \in Groups |-> None]
    /\ pc = [t \in Threads |-> "idle"]
    /\ model = [r \in Requests |-> None]
    /\ evict = [r \in Requests |-> {}]
    /\ stops = [t \in Threads |-> NoStops]
    /\ raced = {} /\ beside = {}

Up(m) == state[m] # "stopped"
Group(r) == GroupOf[model[r]]
Goto(t, from, to) == pc[t] = from /\ pc' = [pc EXCEPT ![t] = to]
Lock(g, t) == lock[g] = None /\ lock' = [lock EXCEPT ![g] = t]
Unlock(g) == lock' = [lock EXCEPT ![g] = None]
StopsReturned(t) == stops[t] = NoStops
CallStop(t, ms, phase) ==
    stops' = [stops EXCEPT ![t] = [m \in Models |-> IF m \in ms THEN phase ELSE "none"]]
-----------------------------------------------------------------------------
(***************************************************************************)
(* Process.Stop, from its caller's side: phase "guard" is the early        *)
(* return, "drain" the wait for in-flight requests, "now" the swap of      *)
(* StopImmediately, "exit" the wait of stopCommand.                        *)
(***************************************************************************)
StopPhase(t, m, from, to) ==
    /\ stops[t][m] = from
    /\ stops' = [stops EXCEPT ![t][m] = to]

StopGuard(t, m) ==
    /\ StopPhase(t, m, "guard", IF state[m] \in {"starting", "ready"} THEN "drain" ELSE "none")
    /\ UNCHANGED <<state, inFlight, lock, lastUsed, pc, model, evict, raced, beside>>

StopDrained(t, m) ==
    /\ inFlight[m] = {}
    /\ StopPhase(t, m, "drain", "now")
    /\ UNCHANGED <<state, inFlight, lock, lastUsed, pc, model, evict, raced, beside>>

\* Mutant: the wait for the command is entered although nothing was stopped.
StopNowWaits(t, m) ==
    /\ StopPhase(t, m, "now", "exit")
    /\ state' = [state EXCEPT ![m] = IF @ = "ready" THEN "stopping" ELSE @]
    /\ UNCHANGED <<inFlight, lock, lastUsed, pc, model, evict, raced, beside>>

StopNow(t, m) ==
    /\ StopPhase(t, m, "now", IF state[m] = "ready" THEN "exit" ELSE "none")
    /\ state' = [state EXCEPT ![m] = IF @ = "ready" THEN "stopping" ELSE @]
    /\ UNCHANGED <<inFlight, lock, lastUsed, pc, model, evict, raced, beside>>

\* The command of a stopping process exits: stopCommand returns to its callers.
ProcessExits(m) ==
    /\ state[m] = "stopping"
    /\ state' = [state EXCEPT ![m] = "stopped"]
    /\ stops' = [t \in Threads |->
                   [stops[t] EXCEPT ![m] = IF @ = "exit" THEN "none" ELSE @]]
    /\ UNCHANGED <<inFlight, lock, lastUsed, pc, model, evict, raced, beside>>

\* A command ends on its own while its process is ready.
ProcessCrashes(m) ==
    /\ state[m] = "ready"
    /\ state' = [state EXCEPT ![m] = "stopped"]
    /\ UNCHANGED <<inFlight, lock, lastUsed, pc, model, evict, stops, raced, beside>>
-----------------------------------------------------------------------------
(***************************************************************************)
(* swapProcessGroup: an exclusive group stops every other group that is    *)
(* not persistent, one after the other, each under that group's lock.      *)
(***************************************************************************)
Arrive(r, m) ==
    /\ Goto(r, "idle", "evict")
    /\ model' = [model EXCEPT ![r] = m]
    /\ evict' = [evict EXCEPT ![r] = IF GroupOf[m] \in Exclusive
                                     THEN Groups \ ({GroupOf[m]} \cup Persistent)
                                     ELSE {}]
    /\ UNCHANGED <<state, inFlight, lock, lastUsed, stops, raced, beside>>

\* Mutant: the processes are told to stop, and nobody waits for them.
EvictedAtOnce(r, g) ==
    /\ lock[g] = r
    /\ Goto(r, "evicting", "evict")
    /\ Unlock(g)
    /\ evict' = [evict EXCEPT ![r] = @ \ {g}]
    /\ UNCHANGED <<state, inFlight, lastUsed, model, stops, raced, beside>>

\* StopProcesses(StopWaitForInflightRequest): all members stop in parallel.
EvictGroup(r, g) ==
    /\ g \in evict[r]
    /\ Goto(r, "evict", "evicting")
    /\ Lock(g, r)
    /\ CallStop(r, Members(g), "guard")
    /\ UNCHANGED <<state, inFlight, lastUsed, model, evict, raced, beside>>

\* wg.Wait returned; Stop also returns for a member that is still stopping.
Evicted(r, g) ==
    /\ lock[g] = r
    /\ StopsReturned(r)
    /\ Goto(r, "evicting", "evict")
    /\ Unlock(g)
    /\ evict' = [evict EXCEPT ![r] = @ \ {g}]
    /\ beside' = IF \E m \in Members(g) : Up(m) THEN beside \cup {g} ELSE beside
    /\ UNCHANGED <<state, inFlight, lastUsed, model, stops, raced>>

AllEvicted(r) ==
    /\ evict[r] = {}
    /\ Goto(r, "evict", IF Group(r) \in Swap THEN "group" ELSE "check")
    /\ UNCHANGED <<state, inFlight, lock, lastUsed, model, evict, stops, raced, beside>>
-----------------------------------------------------------------------------
(***************************************************************************)
(* ProcessGroup.ProxyRequest.                                              *)
(***************************************************************************)
LockGroup(r) ==
    /\ Goto(r, "group", "locked")
    /\ Lock(Group(r), r)
    /\ UNCHANGED <<state, inFlight, lastUsed, model, evict, stops, raced, beside>>

\* The model was used last: the lock is given up and the request goes on.
SameModel(r) ==
    /\ Goto(r, "locked", "check")
    /\ lastUsed[Group(r)] = model[r]
    /\ Unlock(Group(r))
    /\ UNCHANGED <<state, inFlight, lastUsed, model, evict, stops, raced, beside>>

\* Mutant: the model used last is not stopped.
OtherModelKept(r) ==
    /\ Goto(r, "locked", "swapping")
    /\ lastUsed[Group(r)] # model[r]
    /\ UNCHANGED <<state, inFlight, lock, lastUsed, model, evict, stops, raced, beside>>

\* Another model was used last: it is stopped, with the lock held.
OtherModel(r) ==
    /\ Goto(r, "locked", "swapping")
    /\ lastUsed[Group(r)] # model[r]
    /\ CallStop(r, {lastUsed[Group(r)]} \ {None}, "guard")
    /\ UNCHANGED <<state, inFlight, lock, lastUsed, model, evict, raced, beside>>

\* Stop returned; it also returns when the old model is still stopping.
Swapped(r) ==
    /\ StopsReturned(r)
    /\ Goto(r, "swapping", "check")
    /\ raced' = IF \E m \in Models : m = lastUsed[Group(r)] /\ state[m] = "stopping"
                THEN raced \cup {Group(r)} ELSE raced
    /\ UNCHANGED <<state, inFlight, lock, lastUsed, model, evict, stops, beside>>
-----------------------------------------------------------------------------
(***************************************************************************)
(* Process.ProxyRequest and start, on the life cycle.                      *)
(***************************************************************************)
\* Where a request goes when Process.ProxyRequest returns.
Return(r) == IF lock[Group(r)] = r THEN "release" ELSE "done"

Check(r) ==
    /\ Goto(r, "check", IF state[model[r]] = "stopping" THEN Return(r) ELSE "enter")
    /\ UNCHANGED <<state, inFlight, lock, lastUsed, model, evict, stops, raced, beside>>

\* concurrencyLimitSemaphore is taken without waiting: every request inside holds it.
HasSlot(m) == Cardinality(inFlight[m]) < ConcurrencyLimit[m]

Enter(r) ==
    /\ Goto(r, "enter", "decide")
    /\ HasSlot(model[r])
    /\ inFlight' = [inFlight EXCEPT ![model[r]] = @ \cup {r}]
    /\ UNCHANGED <<state, lock, lastUsed, model, evict, stops, raced, beside>>

\* All slots are taken: 429.
TooManyRequests(r) ==
    /\ Goto(r, "enter", Return(r))
    /\ ~HasSlot(model[r])
    /\ UNCHANGED <<state, inFlight, lock, lastUsed, model, evict, stops, raced, beside>>

Decide(r) ==
    /\ Goto(r, "decide", IF state[model[r]] = "ready" THEN "proxy" ELSE "start")
    /\ UNCHANGED <<state, inFlight, lock, lastUsed, model, evict, stops, raced, beside>>

\* Another model of the group is, or is about to be, the one in use.
Displaced(m) ==
    LET g == GroupOf[m] IN
    \/ lastUsed[g] # m
    \/ \E r \in Requests : lock[g] = r /\ Group(r) = g /\ model[r] # m

\* An exclusive request of another group has stopped g, and is still being handled.
StoppedBy(q, g) ==
    /\ pc[q] \notin {"idle", "done"}
    /\ Group(q) # g /\ Group(q) \in Exclusive /\ g \notin evict[q] \cup Persistent

\* start() wins the swap to starting.  A request that holds the lock is the
\* swap itself; one that gave it up may come too late.
StartSwap(r) ==
    /\ Goto(r, "start", "starting")
    /\ state[model[r]] = "stopped"
    /\ state' = [state EXCEPT ![model[r]] = "starting"]
    /\ raced' = IF lock[Group(r)] # r /\ Displaced(model[r])
                THEN raced \cup {Group(r)} ELSE raced
    /\ beside' = IF \E q \in Requests : StoppedBy(q, Group(r))
                 THEN beside \cup {Group(r)} ELSE beside
    /\ UNCHANGED <<inFlight, lock, lastUsed, model, evict, stops>>

StartMismatch(r) ==
    /\ Goto(r, "start", IF state[model[r]] = "starting" THEN "waitStarting" ELSE "exit")
    /\ state[model[r]] # "stopped"
    /\ UNCHANGED <<state, inFlight, lock, lastUsed, model, evict, stops, raced, beside>>

StartReady(r) ==
    /\ Goto(r, "starting", "proxy")
    /\ state' = [state EXCEPT ![model[r]] = "ready"]
    /\ UNCHANGED <<inFlight, lock, lastUsed, model, evict, stops, raced, beside>>

StartFails(r) ==
    /\ Goto(r, "starting", "exit")
    /\ state' = [state EXCEPT ![model[r]] = "stopped"]
    /\ UNCHANGED <<inFlight, lock, lastUsed, model, evict, stops, raced, beside>>

WaitStarting(r) ==
    /\ Goto(r, "waitStarting", IF state[model[r]] = "ready" THEN "proxy" ELSE "exit")
    /\ state[model[r]] # "starting"
    /\ UNCHANGED <<state, inFlight, lock, lastUsed, model, evict, stops, raced, beside>>

Proxy(r) ==
    /\ Goto(r, "proxy", "exit")
    /\ UNCHANGED <<state, inFlight, lock, lastUsed, model, evict, stops, raced, beside>>

Exit(r) ==
    /\ Goto(r, "exit", Return(r))
    /\ inFlight' = [inFlight EXCEPT ![model[r]] = @ \ {r}]
    /\ UNCHANGED <<state, lock, lastUsed, model, evict, stops, raced, beside>>

\* The swapping request is fully handled: lastUsedProcess is set, whatever the
\* outcome was, and the lock released.
Release(r) ==
    /\ Goto(r, "release", "done")
    /\ lastUsed' = [lastUsed EXCEPT ![Group(r)] = model[r]]
    /\ Unlock(Group(r))
    /\ UNCHANGED <<state, inFlight, model, evict, stops, raced, beside>>
-----------------------------------------------------------------------------
(***************************************************************************)
(* Unloading: one model (StopProcess), a whole group (StopProcesses), or   *)
(* the TTL goroutine of a model.                                           *)
(***************************************************************************)
\* StopProcess forgets the model under the lock and stops it after unlocking.
UnloadModel(u, m) ==
    /\ lock[GroupOf[m]] = None
    /\ Goto(u, "idle", "unloading")
    /\ lastUsed' = [lastUsed EXCEPT ![GroupOf[m]] = IF @ = m THEN None ELSE @]
    /\ raced' = IF lastUsed[GroupOf[m]] = m /\ Up(m) THEN raced \cup {GroupOf[m]} ELSE raced
    /\ CallStop(u, IF state[m] \in {"starting", "ready"} THEN {m} ELSE {}, "now")
    /\ UNCHANGED <<state, inFlight, lock, model, evict, beside>>

\* StopProcesses(StopImmediately) keeps the lock and lastUsedProcess.
UnloadGroup(u, g) ==
    /\ Goto(u, "idle", "unloadingGroup")
    /\ Lock(g, u)
    /\ CallStop(u, {m \in Members(g) : state[m] \in {"starting", "ready"}}, "now")
    /\ UNCHANGED <<state, inFlight, lastUsed, model, evict, raced, beside>>

Unloaded(u) ==
    /\ StopsReturned(u)
    /\ Goto(u, "unloading", "done")
    /\ UNCHANGED <<state, inFlight, lock, lastUsed, model, evict, stops, raced, beside>>

GroupUnloaded(u, g) ==
    /\ lock[g] = u
    /\ StopsReturned(u)
    /\ Goto(u, "unloadingGroup", "done")
    /\ Unlock(g)
    /\ UNCHANGED <<state, inFlight, lastUsed, model, evict, stops, raced, beside>>

\* The TTL goroutine of m calls Stop, without the group knowing.
TTLExpires(m) ==
    /\ m \in WithTTL
    /\ state[m] = "ready"
    /\ inFlight[m] = {}
    /\ StopsReturned(m)
    /\ CallStop(m, {m}, "guard")
    /\ UNCHANGED <<state, inFlight, lock, lastUsed, pc, model, evict, raced, beside>>
-----------------------------------------------------------------------------
Locking(r) == LockGroup(r) \/ \E g \in Groups : EvictGroup(r, g)

RequestStep(r) ==
    \/ AllEvicted(r) \/ SameModel(r) \/ OtherModel(r) \/ Swapped(r)
    \/ Check(r) \/ Enter(r) \/ TooManyRequests(r) \/ Decide(r)
    \/ StartSwap(r) \/ StartMismatch(r) \/ StartReady(r) \/ StartFails(r)
    \/ WaitStarting(r) \/ Proxy(r) \/ Exit(r) \/ Release(r)
    \/ \E g \in Groups : Evicted(r, g)

StopStep(t) == \E m \in Models : StopGuard(t, m) \/ StopDrained(t, m) \/ StopNow(t, m)

UnloadStep(u) == Unloaded(u) \/ \E g \in Groups : GroupUnloaded(u, g)

Next ==
    \/ \E r \in Requests :
          (\E m \in Models : Arrive(r, m)) \/ Locking(r) \/ RequestStep(r)
    \/ \E u \in Unloaders :
          \/ \E m \in Models : UnloadModel(u, m)
          \/ \E g \in Groups : UnloadGroup(u, g)
          \/ UnloadStep(u)
    \/ \E t \in Threads : StopStep(t)
    \/ \E m \in Models : ProcessExits(m) \/ ProcessCrashes(m) \/ TTLExpires(m)

Spec == Init /\ [][Next]_vars

\* sync.Mutex is starvation free, so a waiter for a group's lock gets it in the
\* end; starts, proxied requests and stopping commands end.
Fairness ==
    /\ \A r \in Requests : WF_vars(RequestStep(r)) /\ SF_vars(Locking(r))
    /\ \A u \in Unloaders : WF_vars(UnloadStep(u))
    /\ \A t \in Threads : WF_vars(StopStep(t))
    /\ \A m \in Models : WF_vars(ProcessExits(m))

FairSpec == Spec /\ Fairness
-----------------------------------------------------------------------------
(***************************************************************************)
(* Properties.                                                             *)
(***************************************************************************)
\* Apart from three windows (a request that gave up the lock restarts a model
\* that was displaced meanwhile; Stop returns while the old model is stopping;
\* StopProcess forgets a model before it stopped it) a swap group never has two
\* of its models up.
OneModelUnlessRaced ==
    \A g \in Swap \ raced : \A m, n \in Members(g) : Up(m) /\ Up(n) => m = n

\* An exclusive group runs alone: two groups that evict each other are up together
\* only when one was started while a request that had evicted it was still being
\* handled, or when Stop returned for a process that was still stopping.
ExclusiveUnlessRaced ==
    \A g, h \in Exclusive \ (Persistent \cup beside) :
        (\E m \in Members(g), n \in Members(h) : Up(m) /\ Up(n)) => g = h

\* No circular wait of locks, drains and starts: every request is answered, and
\* every unload call returns.
CallsReturn == \A t \in Requests \cup Unloaders : pc[t] # "idle" ~> pc[t] = "done"
=============================================================================
