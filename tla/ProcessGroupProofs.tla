------------------------- MODULE ProcessGroupProofs -------------------------
(***************************************************************************)
(* Proofs about ProcessGroup, for any models, groups and settings of them, *)
(* and any number of requests and unload calls.                            *)
(*                                                                         *)
(* Swapping: in a swap group where no window was hit, a model that is up   *)
(* is the one used last or the one of the request that holds the group's   *)
(* lock; once that request has swapped, the model used last is down.       *)
(*                                                                         *)
(* Exclusive groups: a group that a request in progress has stopped stays  *)
(* down until that request ends, unless it was noted in beside.            *)
(***************************************************************************)
EXTENDS ProcessGroup, TLAPS

\* Positions inside Process.ProxyRequest, and those that have entered it.
Entered == {"decide", "start", "starting", "waitStarting", "proxy", "exit"}
Proxying == Entered \cup {"check", "enter"}
Swapping == Proxying \cup {"swapping", "release"}

\* The request r holds the lock of its own group g.
Holds(r, g) == lock[g] = r /\ Group(r) = g

\* A request that is on its way asks for a model; it evicts other groups only, and
\* has evicted all of them when it goes on.
RequestsKnown ==
    \A r \in Requests :
        /\ pc[r] # "idle" => model[r] \in Models /\ Group(r) \notin evict[r]
        /\ pc[r] \notin {"idle", "evict", "evicting"} => evict[r] = {}

\* Who holds which lock: an evicting request that of another group, a swapping one its own.
LocksKnown ==
    /\ \A r \in Requests, g \in Groups : lock[g] = r =>
          /\ \A h \in Groups : lock[h] = r => h = g
          /\ \/ pc[r] = "evicting" /\ Group(r) # g
             \/ pc[r] \in Swapping \cup {"locked"} /\ Group(r) = g
    /\ \A r \in Requests : pc[r] \in {"locked", "swapping", "release"} => lock[Group(r)] = r

\* The start of a process belongs to one request, which counts itself in flight.
StartsOwned ==
    /\ \A r \in Requests : pc[r] \in Entered => r \in inFlight[model[r]]
    /\ \A r \in Requests : pc[r] = "starting" => state[model[r]] = "starting"
    /\ \A r, q \in Requests :
          pc[r] = "starting" /\ pc[q] = "starting" /\ model[r] = model[q] => r = q
    /\ \A m \in Models : state[m] = "starting" =>
          \E r \in Requests : pc[r] = "starting" /\ model[r] = m

\* The invariant of a swap group: see the head of the module.
UpIsUsed(g) ==
    \A m \in Members(g) : Up(m) =>
        \/ lastUsed[g] = m
        \/ \E r \in Requests : Holds(r, g) /\ model[r] = m /\ pc[r] \in Swapping \ {"swapping"}

\* What the request that swaps knows of the model used last, which it stops.
OldModel(g) ==
    \A r \in Requests : Holds(r, g) /\ pc[r] \in Swapping =>
        /\ lastUsed[g] # model[r]
        /\ \A m \in Models : m = lastUsed[g] =>
              IF pc[r] = "swapping"
              THEN /\ stops[r][m] = "none" => state[m] \in {"stopped", "stopping"}
                   /\ stops[r][m] = "now" => state[m] # "starting"
                   /\ stops[r][m] = "exit" => state[m] = "stopping"
              ELSE ~Up(m)

SwapInv == \A g \in Swap \ raced : UpIsUsed(g) /\ OldModel(g)

\* A group stopped by a request in progress stays down.
StoppedStaysDown ==
    \A q \in Requests, g \in Groups \ beside :
        StoppedBy(q, g) => \A m \in Members(g) : ~Up(m)

LastUsedIsMember == \A g \in Groups : lastUsed[g] \in Members(g) \cup {None}

IInv ==
    /\ TypeOK /\ RequestsKnown /\ LocksKnown /\ StartsOwned /\ LastUsedIsMember
    /\ SwapInv /\ StoppedStaysDown /\ ExclusiveUnlessRaced

(***************************************************************************)
(* Types.                                                                  *)
(***************************************************************************)
LEMMA ThreadFacts ==
    /\ Requests \subseteq Threads /\ Unloaders \subseteq Threads /\ Models \subseteq Threads
    /\ None \notin Threads /\ None \notin Models
    /\ \A m \in Models : GroupOf[m] \in Groups
    /\ \A g \in Groups : \A m : m \in Members(g) <=> m \in Models /\ GroupOf[m] = g
BY GroupAssumption DEF Threads, Members

LEMMA InitType == Init => TypeOK /\ RequestsKnown
BY ThreadFacts DEF Init, TypeOK, RequestsKnown, NoStops, StopPhases, PCs

LEMMA StepType == TypeOK /\ RequestsKnown /\ [Next]_vars => TypeOK'
<1> SUFFICES ASSUME TypeOK, RequestsKnown, [Next]_vars PROVE TypeOK'
  OBVIOUS
<1> USE ThreadFacts DEF TypeOK, RequestsKnown, Group, Goto, PCs, StopPhases
<1>1. ASSUME NEW r \in Requests, NEW m \in Models, Arrive(r, m) PROVE TypeOK'
  BY <1>1 DEF Arrive
<1>2. ASSUME NEW r \in Requests, NEW g \in Groups, EvictGroup(r, g) PROVE TypeOK'
  BY <1>2 DEF EvictGroup, Lock, CallStop
<1>3. ASSUME NEW r \in Requests, NEW g \in Groups, Evicted(r, g) PROVE TypeOK'
  BY <1>3 DEF Evicted, Unlock
<1>4. ASSUME NEW r \in Requests, AllEvicted(r) PROVE TypeOK'
  BY <1>4 DEF AllEvicted
<1>5. ASSUME NEW r \in Requests, LockGroup(r) PROVE TypeOK'
  BY <1>5 DEF LockGroup, Lock
<1>6. ASSUME NEW r \in Requests, SameModel(r) PROVE TypeOK'
  BY <1>6 DEF SameModel, Unlock
<1>7. ASSUME NEW r \in Requests, OtherModel(r) PROVE TypeOK'
  BY <1>7 DEF OtherModel, CallStop
<1>8. ASSUME NEW r \in Requests, Swapped(r) PROVE TypeOK'
  BY <1>8 DEF Swapped
<1>9. ASSUME NEW r \in Requests, Check(r) PROVE TypeOK'
  BY <1>9 DEF Check, Return
<1>10. ASSUME NEW r \in Requests, Enter(r) \/ TooManyRequests(r) PROVE TypeOK'
  <2>1. CASE Enter(r)
    BY <2>1 DEF Enter
  <2>2. CASE TooManyRequests(r)
    BY <2>2 DEF TooManyRequests, Return
  <2> QED
    BY <1>10, <2>1, <2>2
<1>11. ASSUME NEW r \in Requests, Decide(r) PROVE TypeOK'
  BY <1>11 DEF Decide
<1>12. ASSUME NEW r \in Requests, StartSwap(r) PROVE TypeOK'
  BY <1>12 DEF StartSwap
<1>13. ASSUME NEW r \in Requests, StartMismatch(r) PROVE TypeOK'
  BY <1>13 DEF StartMismatch
<1>14. ASSUME NEW r \in Requests, StartReady(r) PROVE TypeOK'
  BY <1>14 DEF StartReady
<1>15. ASSUME NEW r \in Requests, StartFails(r) PROVE TypeOK'
  BY <1>15 DEF StartFails
<1>16. ASSUME NEW r \in Requests, WaitStarting(r) PROVE TypeOK'
  BY <1>16 DEF WaitStarting
<1>17. ASSUME NEW r \in Requests, Proxy(r) PROVE TypeOK'
  BY <1>17 DEF Proxy
<1>18. ASSUME NEW r \in Requests, Exit(r) PROVE TypeOK'
  BY <1>18 DEF Exit, Return
<1>19. ASSUME NEW r \in Requests, Release(r) PROVE TypeOK'
  BY <1>19 DEF Release, Unlock
<1>20. ASSUME NEW u \in Unloaders, NEW m \in Models, UnloadModel(u, m) PROVE TypeOK'
  BY <1>20 DEF UnloadModel, CallStop
<1>21. ASSUME NEW u \in Unloaders, NEW g \in Groups, UnloadGroup(u, g) PROVE TypeOK'
  BY <1>21 DEF UnloadGroup, Lock, CallStop
<1>22. ASSUME NEW u \in Unloaders, Unloaded(u) PROVE TypeOK'
  BY <1>22 DEF Unloaded
<1>23. ASSUME NEW u \in Unloaders, NEW g \in Groups, GroupUnloaded(u, g) PROVE TypeOK'
  BY <1>23 DEF GroupUnloaded, Unlock
<1>24. ASSUME NEW t \in Threads, NEW m \in Models, StopGuard(t, m) PROVE TypeOK'
  BY <1>24 DEF StopGuard, StopPhase
<1>25. ASSUME NEW t \in Threads, NEW m \in Models, StopDrained(t, m) PROVE TypeOK'
  BY <1>25 DEF StopDrained, StopPhase
<1>26. ASSUME NEW t \in Threads, NEW m \in Models, StopNow(t, m) PROVE TypeOK'
  BY <1>26 DEF StopNow, StopPhase
<1>27. ASSUME NEW m \in Models, ProcessExits(m) PROVE TypeOK'
  BY <1>27 DEF ProcessExits
<1>28. ASSUME NEW m \in Models, ProcessCrashes(m) PROVE TypeOK'
  BY <1>28 DEF ProcessCrashes
<1>29. ASSUME NEW m \in Models, TTLExpires(m) PROVE TypeOK'
  BY <1>29 DEF TTLExpires, CallStop
<1>30. CASE UNCHANGED vars
  BY <1>30 DEF vars
<1>31. QED
  BY <1>1, <1>2, <1>3, <1>4, <1>5, <1>6, <1>7, <1>8, <1>9, <1>10, <1>11, <1>12, <1>13, <1>14,
     <1>15, <1>16, <1>17, <1>18, <1>19, <1>20, <1>21, <1>22, <1>23, <1>24, <1>25, <1>26, <1>27,
     <1>28, <1>29, <1>30
     DEF Next, Locking, RequestStep, StopStep, UnloadStep

(***************************************************************************)
(* Requests, locks and starts.                                             *)
(***************************************************************************)
LEMMA StepKnown ==
    TypeOK /\ RequestsKnown /\ LocksKnown /\ LastUsedIsMember /\ [Next]_vars
        => RequestsKnown' /\ LastUsedIsMember'
<1> SUFFICES ASSUME TypeOK, RequestsKnown, LocksKnown, LastUsedIsMember, [Next]_vars
             PROVE  RequestsKnown' /\ LastUsedIsMember'
  OBVIOUS
<1> USE ThreadFacts, GroupAssumption DEF TypeOK, RequestsKnown, LastUsedIsMember, Group, Goto
<1>1. ASSUME NEW r \in Requests, NEW m \in Models, Arrive(r, m) PROVE RequestsKnown' /\ LastUsedIsMember'
  BY <1>1 DEF Arrive
<1>2. ASSUME NEW r \in Requests, NEW g \in Groups, EvictGroup(r, g) PROVE RequestsKnown' /\ LastUsedIsMember'
  BY <1>2 DEF EvictGroup, Lock, CallStop
<1>3. ASSUME NEW r \in Requests, NEW g \in Groups, Evicted(r, g) PROVE RequestsKnown' /\ LastUsedIsMember'
  BY <1>3 DEF Evicted, Unlock
<1>4. ASSUME NEW r \in Requests, AllEvicted(r) PROVE RequestsKnown' /\ LastUsedIsMember'
  BY <1>4 DEF AllEvicted
<1>5. ASSUME NEW r \in Requests, LockGroup(r) PROVE RequestsKnown' /\ LastUsedIsMember'
  BY <1>5 DEF LockGroup, Lock
<1>6. ASSUME NEW r \in Requests, SameModel(r) PROVE RequestsKnown' /\ LastUsedIsMember'
  BY <1>6 DEF SameModel, Unlock
<1>7. ASSUME NEW r \in Requests, OtherModel(r) PROVE RequestsKnown' /\ LastUsedIsMember'
  BY <1>7 DEF OtherModel, CallStop
<1>8. ASSUME NEW r \in Requests, Swapped(r) PROVE RequestsKnown' /\ LastUsedIsMember'
  BY <1>8 DEF Swapped
<1>9. ASSUME NEW r \in Requests, Check(r) PROVE RequestsKnown' /\ LastUsedIsMember'
  BY <1>9 DEF Check, Return
<1>10. ASSUME NEW r \in Requests, Enter(r) \/ TooManyRequests(r) PROVE RequestsKnown' /\ LastUsedIsMember'
  <2>1. CASE Enter(r)
    BY <2>1 DEF Enter
  <2>2. CASE TooManyRequests(r)
    BY <2>2 DEF TooManyRequests, Return
  <2> QED
    BY <1>10, <2>1, <2>2
<1>11. ASSUME NEW r \in Requests, Decide(r) PROVE RequestsKnown' /\ LastUsedIsMember'
  BY <1>11 DEF Decide
<1>12. ASSUME NEW r \in Requests, StartSwap(r) PROVE RequestsKnown' /\ LastUsedIsMember'
  BY <1>12 DEF StartSwap
<1>13. ASSUME NEW r \in Requests, StartMismatch(r) PROVE RequestsKnown' /\ LastUsedIsMember'
  BY <1>13 DEF StartMismatch
<1>14. ASSUME NEW r \in Requests, StartReady(r) PROVE RequestsKnown' /\ LastUsedIsMember'
  BY <1>14 DEF StartReady
<1>15. ASSUME NEW r \in Requests, StartFails(r) PROVE RequestsKnown' /\ LastUsedIsMember'
  BY <1>15 DEF StartFails
<1>16. ASSUME NEW r \in Requests, WaitStarting(r) PROVE RequestsKnown' /\ LastUsedIsMember'
  BY <1>16 DEF WaitStarting
<1>17. ASSUME NEW r \in Requests, Proxy(r) PROVE RequestsKnown' /\ LastUsedIsMember'
  BY <1>17 DEF Proxy
<1>18. ASSUME NEW r \in Requests, Exit(r) PROVE RequestsKnown' /\ LastUsedIsMember'
  BY <1>18 DEF Exit, Return
<1>19. ASSUME NEW r \in Requests, Release(r) PROVE RequestsKnown' /\ LastUsedIsMember'
  BY <1>19 DEF Release, Unlock
<1>20. ASSUME NEW u \in Unloaders, NEW m \in Models, UnloadModel(u, m) PROVE RequestsKnown' /\ LastUsedIsMember'
  BY <1>20 DEF UnloadModel, CallStop
<1>21. ASSUME NEW u \in Unloaders, NEW g \in Groups, UnloadGroup(u, g) PROVE RequestsKnown' /\ LastUsedIsMember'
  BY <1>21 DEF UnloadGroup, Lock, CallStop
<1>22. ASSUME NEW u \in Unloaders, Unloaded(u) PROVE RequestsKnown' /\ LastUsedIsMember'
  BY <1>22 DEF Unloaded
<1>23. ASSUME NEW u \in Unloaders, NEW g \in Groups, GroupUnloaded(u, g) PROVE RequestsKnown' /\ LastUsedIsMember'
  BY <1>23 DEF GroupUnloaded, Unlock
<1>24. ASSUME NEW t \in Threads, NEW m \in Models, StopGuard(t, m) PROVE RequestsKnown' /\ LastUsedIsMember'
  BY <1>24 DEF StopGuard, StopPhase
<1>25. ASSUME NEW t \in Threads, NEW m \in Models, StopDrained(t, m) PROVE RequestsKnown' /\ LastUsedIsMember'
  BY <1>25 DEF StopDrained, StopPhase
<1>26. ASSUME NEW t \in Threads, NEW m \in Models, StopNow(t, m) PROVE RequestsKnown' /\ LastUsedIsMember'
  BY <1>26 DEF StopNow, StopPhase
<1>27. ASSUME NEW m \in Models, ProcessExits(m) PROVE RequestsKnown' /\ LastUsedIsMember'
  BY <1>27 DEF ProcessExits
<1>28. ASSUME NEW m \in Models, ProcessCrashes(m) PROVE RequestsKnown' /\ LastUsedIsMember'
  BY <1>28 DEF ProcessCrashes
<1>29. ASSUME NEW m \in Models, TTLExpires(m) PROVE RequestsKnown' /\ LastUsedIsMember'
  BY <1>29 DEF TTLExpires, CallStop
<1>30. CASE UNCHANGED vars
  BY <1>30 DEF vars
<1>31. QED
  BY <1>1, <1>2, <1>3, <1>4, <1>5, <1>6, <1>7, <1>8, <1>9, <1>10, <1>11, <1>12, <1>13, <1>14,
     <1>15, <1>16, <1>17, <1>18, <1>19, <1>20, <1>21, <1>22, <1>23, <1>24, <1>25, <1>26, <1>27,
     <1>28, <1>29, <1>30
     DEF Next, Locking, RequestStep, StopStep, UnloadStep

LEMMA StepLocks == TypeOK /\ RequestsKnown /\ LocksKnown /\ [Next]_vars => LocksKnown'
<1> SUFFICES ASSUME TypeOK, RequestsKnown, LocksKnown, [Next]_vars PROVE LocksKnown'
  OBVIOUS
<1> USE ThreadFacts, GroupAssumption
    DEF TypeOK, RequestsKnown, LocksKnown, Group, Goto, Entered, Proxying, Swapping
<1>1. ASSUME NEW r \in Requests, NEW m \in Models, Arrive(r, m) PROVE LocksKnown'
  BY <1>1 DEF Arrive
<1>2. ASSUME NEW r \in Requests, NEW g \in Groups, EvictGroup(r, g) PROVE LocksKnown'
  BY <1>2 DEF EvictGroup, Lock, CallStop
<1>3. ASSUME NEW r \in Requests, NEW g \in Groups, Evicted(r, g) PROVE LocksKnown'
  BY <1>3 DEF Evicted, Unlock
<1>4. ASSUME NEW r \in Requests, AllEvicted(r) PROVE LocksKnown'
  BY <1>4 DEF AllEvicted
<1>5. ASSUME NEW r \in Requests, LockGroup(r) PROVE LocksKnown'
  BY <1>5 DEF LockGroup, Lock
<1>6. ASSUME NEW r \in Requests, SameModel(r) PROVE LocksKnown'
  BY <1>6 DEF SameModel, Unlock
<1>7. ASSUME NEW r \in Requests, OtherModel(r) PROVE LocksKnown'
  BY <1>7 DEF OtherModel, CallStop
<1>8. ASSUME NEW r \in Requests, Swapped(r) PROVE LocksKnown'
  BY <1>8 DEF Swapped
<1>9. ASSUME NEW r \in Requests, Check(r) PROVE LocksKnown'
  BY <1>9 DEF Check, Return
<1>10. ASSUME NEW r \in Requests, Enter(r) \/ TooManyRequests(r) PROVE LocksKnown'
  <2>1. CASE Enter(r)
    BY <2>1 DEF Enter
  <2>2. CASE TooManyRequests(r)
    BY <2>2 DEF TooManyRequests, Return
  <2> QED
    BY <1>10, <2>1, <2>2
<1>11. ASSUME NEW r \in Requests, Decide(r) PROVE LocksKnown'
  BY <1>11 DEF Decide
<1>12. ASSUME NEW r \in Requests, StartSwap(r) PROVE LocksKnown'
  BY <1>12 DEF StartSwap
<1>13. ASSUME NEW r \in Requests, StartMismatch(r) PROVE LocksKnown'
  BY <1>13 DEF StartMismatch
<1>14. ASSUME NEW r \in Requests, StartReady(r) PROVE LocksKnown'
  BY <1>14 DEF StartReady
<1>15. ASSUME NEW r \in Requests, StartFails(r) PROVE LocksKnown'
  BY <1>15 DEF StartFails
<1>16. ASSUME NEW r \in Requests, WaitStarting(r) PROVE LocksKnown'
  BY <1>16 DEF WaitStarting
<1>17. ASSUME NEW r \in Requests, Proxy(r) PROVE LocksKnown'
  BY <1>17 DEF Proxy
<1>18. ASSUME NEW r \in Requests, Exit(r) PROVE LocksKnown'
  BY <1>18 DEF Exit, Return
<1>19. ASSUME NEW r \in Requests, Release(r) PROVE LocksKnown'
  BY <1>19 DEF Release, Unlock
<1>20. ASSUME NEW u \in Unloaders, NEW m \in Models, UnloadModel(u, m) PROVE LocksKnown'
  BY <1>20 DEF UnloadModel, CallStop
<1>21. ASSUME NEW u \in Unloaders, NEW g \in Groups, UnloadGroup(u, g) PROVE LocksKnown'
  BY <1>21 DEF UnloadGroup, Lock, CallStop
<1>22. ASSUME NEW u \in Unloaders, Unloaded(u) PROVE LocksKnown'
  BY <1>22 DEF Unloaded
<1>23. ASSUME NEW u \in Unloaders, NEW g \in Groups, GroupUnloaded(u, g) PROVE LocksKnown'
  BY <1>23 DEF GroupUnloaded, Unlock
<1>24. ASSUME NEW t \in Threads, NEW m \in Models, StopGuard(t, m) PROVE LocksKnown'
  BY <1>24 DEF StopGuard, StopPhase
<1>25. ASSUME NEW t \in Threads, NEW m \in Models, StopDrained(t, m) PROVE LocksKnown'
  BY <1>25 DEF StopDrained, StopPhase
<1>26. ASSUME NEW t \in Threads, NEW m \in Models, StopNow(t, m) PROVE LocksKnown'
  BY <1>26 DEF StopNow, StopPhase
<1>27. ASSUME NEW m \in Models, ProcessExits(m) PROVE LocksKnown'
  BY <1>27 DEF ProcessExits
<1>28. ASSUME NEW m \in Models, ProcessCrashes(m) PROVE LocksKnown'
  BY <1>28 DEF ProcessCrashes
<1>29. ASSUME NEW m \in Models, TTLExpires(m) PROVE LocksKnown'
  BY <1>29 DEF TTLExpires, CallStop
<1>30. CASE UNCHANGED vars
  BY <1>30 DEF vars
<1>31. QED
  BY <1>1, <1>2, <1>3, <1>4, <1>5, <1>6, <1>7, <1>8, <1>9, <1>10, <1>11, <1>12, <1>13, <1>14,
     <1>15, <1>16, <1>17, <1>18, <1>19, <1>20, <1>21, <1>22, <1>23, <1>24, <1>25, <1>26, <1>27,
     <1>28, <1>29, <1>30
     DEF Next, Locking, RequestStep, StopStep, UnloadStep

LEMMA StepStarts == TypeOK /\ RequestsKnown /\ StartsOwned /\ [Next]_vars => StartsOwned'
<1> SUFFICES ASSUME TypeOK, RequestsKnown, StartsOwned, [Next]_vars PROVE StartsOwned'
  OBVIOUS
<1> USE ThreadFacts, GroupAssumption DEF TypeOK, RequestsKnown, StartsOwned, Goto, Entered
<1>1. ASSUME NEW r \in Requests, NEW m \in Models, Arrive(r, m) PROVE StartsOwned'
  <2>1. pc[r] = "idle" /\ pc'[r] = "evict" /\ state' = state /\ inFlight' = inFlight
    BY <1>1 DEF Arrive
  <2>2. \A q \in Requests : q # r => pc'[q] = pc[q] /\ model'[q] = model[q]
    BY <1>1 DEF Arrive
  <2>3. ASSUME NEW n \in Models, state'[n] = "starting"
        PROVE  \E q \in Requests : pc'[q] = "starting" /\ model'[q] = n
    <3>1. PICK q \in Requests : pc[q] = "starting" /\ model[q] = n
      BY <2>1, <2>3
    <3>2. QED
      BY <2>1, <2>2, <3>1
  <2>4. \A q \in Requests : pc'[q] \in Entered => pc[q] = pc'[q] /\ model'[q] = model[q]
    BY <2>1, <2>2
  <2>5. \A q \in Requests : pc'[q] \in Entered => q \in inFlight'[model'[q]]
    BY <2>1, <2>4
  <2>6. \A q \in Requests : pc'[q] = "starting" => state'[model'[q]] = "starting"
    BY <2>1, <2>4
  <2>7. \A p, q \in Requests :
           pc'[p] = "starting" /\ pc'[q] = "starting" /\ model'[p] = model'[q] => p = q
    BY <2>4
  <2>8. QED
    BY <2>3, <2>5, <2>6, <2>7
<1>2. ASSUME NEW r \in Requests, NEW g \in Groups, EvictGroup(r, g) PROVE StartsOwned'
  BY <1>2 DEF EvictGroup, Lock, CallStop
<1>3. ASSUME NEW r \in Requests, NEW g \in Groups, Evicted(r, g) PROVE StartsOwned'
  BY <1>3 DEF Evicted, Unlock
<1>4. ASSUME NEW r \in Requests, AllEvicted(r) PROVE StartsOwned'
  BY <1>4 DEF AllEvicted
<1>5. ASSUME NEW r \in Requests, LockGroup(r) PROVE StartsOwned'
  BY <1>5 DEF LockGroup, Lock
<1>6. ASSUME NEW r \in Requests, SameModel(r) PROVE StartsOwned'
  BY <1>6 DEF SameModel, Unlock
<1>7. ASSUME NEW r \in Requests, OtherModel(r) PROVE StartsOwned'
  BY <1>7 DEF OtherModel, CallStop
<1>8. ASSUME NEW r \in Requests, Swapped(r) PROVE StartsOwned'
  BY <1>8 DEF Swapped
<1>9. ASSUME NEW r \in Requests, Check(r) PROVE StartsOwned'
  BY <1>9 DEF Check, Return
<1>10. ASSUME NEW r \in Requests, Enter(r) \/ TooManyRequests(r) PROVE StartsOwned'
  <2>1. CASE Enter(r)
    BY <2>1 DEF Enter
  <2>2. CASE TooManyRequests(r)
    BY <2>2 DEF TooManyRequests, Return
  <2> QED
    BY <1>10, <2>1, <2>2
<1>11. ASSUME NEW r \in Requests, Decide(r) PROVE StartsOwned'
  BY <1>11 DEF Decide
<1>12. ASSUME NEW r \in Requests, StartSwap(r) PROVE StartsOwned'
  BY <1>12 DEF StartSwap
<1>13. ASSUME NEW r \in Requests, StartMismatch(r) PROVE StartsOwned'
  BY <1>13 DEF StartMismatch
<1>14. ASSUME NEW r \in Requests, StartReady(r) PROVE StartsOwned'
  BY <1>14 DEF StartReady
<1>15. ASSUME NEW r \in Requests, StartFails(r) PROVE StartsOwned'
  BY <1>15 DEF StartFails
<1>16. ASSUME NEW r \in Requests, WaitStarting(r) PROVE StartsOwned'
  BY <1>16 DEF WaitStarting
<1>17. ASSUME NEW r \in Requests, Proxy(r) PROVE StartsOwned'
  BY <1>17 DEF Proxy
<1>18. ASSUME NEW r \in Requests, Exit(r) PROVE StartsOwned'
  BY <1>18 DEF Exit, Return
<1>19. ASSUME NEW r \in Requests, Release(r) PROVE StartsOwned'
  BY <1>19 DEF Release, Unlock
<1>20. ASSUME NEW u \in Unloaders, NEW m \in Models, UnloadModel(u, m) PROVE StartsOwned'
  BY <1>20 DEF UnloadModel, CallStop
<1>21. ASSUME NEW u \in Unloaders, NEW g \in Groups, UnloadGroup(u, g) PROVE StartsOwned'
  BY <1>21 DEF UnloadGroup, Lock, CallStop
<1>22. ASSUME NEW u \in Unloaders, Unloaded(u) PROVE StartsOwned'
  BY <1>22 DEF Unloaded
<1>23. ASSUME NEW u \in Unloaders, NEW g \in Groups, GroupUnloaded(u, g) PROVE StartsOwned'
  BY <1>23 DEF GroupUnloaded, Unlock
<1>24. ASSUME NEW t \in Threads, NEW m \in Models, StopGuard(t, m) PROVE StartsOwned'
  BY <1>24 DEF StopGuard, StopPhase
<1>25. ASSUME NEW t \in Threads, NEW m \in Models, StopDrained(t, m) PROVE StartsOwned'
  BY <1>25 DEF StopDrained, StopPhase
<1>26. ASSUME NEW t \in Threads, NEW m \in Models, StopNow(t, m) PROVE StartsOwned'
  BY <1>26 DEF StopNow, StopPhase
<1>27. ASSUME NEW m \in Models, ProcessExits(m) PROVE StartsOwned'
  BY <1>27 DEF ProcessExits
<1>28. ASSUME NEW m \in Models, ProcessCrashes(m) PROVE StartsOwned'
  BY <1>28 DEF ProcessCrashes
<1>29. ASSUME NEW m \in Models, TTLExpires(m) PROVE StartsOwned'
  BY <1>29 DEF TTLExpires, CallStop
<1>30. CASE UNCHANGED vars
  BY <1>30 DEF vars
<1>31. QED
  BY <1>1, <1>2, <1>3, <1>4, <1>5, <1>6, <1>7, <1>8, <1>9, <1>10, <1>11, <1>12, <1>13, <1>14,
     <1>15, <1>16, <1>17, <1>18, <1>19, <1>20, <1>21, <1>22, <1>23, <1>24, <1>25, <1>26, <1>27,
     <1>28, <1>29, <1>30
     DEF Next, Locking, RequestStep, StopStep, UnloadStep

(***************************************************************************)
(* Swap groups.                                                            *)
(***************************************************************************)
\* Nothing that the invariant of a swap group speaks of has changed.
LEMMA SwapFrame ==
    ASSUME NEW h, UpIsUsed(h), OldModel(h),
           state' = state, lastUsed'[h] = lastUsed[h], model' = model,
           \A q \in Requests :
              Holds(q, h)' /\ pc'[q] \in Swapping <=> Holds(q, h) /\ pc[q] \in Swapping,
           \A q \in Requests : Holds(q, h) /\ pc[q] \in Swapping =>
              (pc'[q] = "swapping" <=> pc[q] = "swapping") /\ stops'[q] = stops[q]
    PROVE  UpIsUsed(h)' /\ OldModel(h)'
BY DEF UpIsUsed, OldModel, Up

LEMMA StepSwap ==
    ASSUME TypeOK, RequestsKnown, LocksKnown, StartsOwned, LastUsedIsMember, SwapInv, [Next]_vars
    PROVE  SwapInv'
<1> SUFFICES ASSUME NEW h \in Swap \ raced' PROVE UpIsUsed(h)' /\ OldModel(h)'
  BY DEF SwapInv
<1> USE ThreadFacts, GroupAssumption
    DEF TypeOK, RequestsKnown, LocksKnown, StartsOwned, LastUsedIsMember, SwapInv, UpIsUsed,
        OldModel, Holds, Up, Group, Goto, Entered, Proxying, Swapping
<1>1. ASSUME NEW r \in Requests, NEW m \in Models, Arrive(r, m) PROVE UpIsUsed(h)' /\ OldModel(h)'
  BY <1>1 DEF Arrive
<1>2. ASSUME NEW r \in Requests, NEW g \in Groups, EvictGroup(r, g) PROVE UpIsUsed(h)' /\ OldModel(h)'
  <2>1. \A q \in Requests :
           Holds(q, h)' /\ pc'[q] \in Swapping <=> Holds(q, h) /\ pc[q] \in Swapping
    BY <1>2 DEF EvictGroup, Lock, CallStop
  <2>2. \A q \in Requests : Holds(q, h) /\ pc[q] \in Swapping =>
           (pc'[q] = "swapping" <=> pc[q] = "swapping") /\ stops'[q] = stops[q]
    BY <1>2 DEF EvictGroup, Lock, CallStop
  <2>3. h \in Swap \ raced /\ state' = state /\ lastUsed' = lastUsed /\ model' = model
    BY <1>2 DEF EvictGroup
  <2>4. QED
    BY <2>1, <2>2, <2>3, SwapFrame
<1>3. ASSUME NEW r \in Requests, NEW g \in Groups, Evicted(r, g) PROVE UpIsUsed(h)' /\ OldModel(h)'
  <2>1. \A q \in Requests :
           Holds(q, h)' /\ pc'[q] \in Swapping <=> Holds(q, h) /\ pc[q] \in Swapping
    BY <1>3 DEF Evicted, Unlock
  <2>2. \A q \in Requests : Holds(q, h) /\ pc[q] \in Swapping =>
           (pc'[q] = "swapping" <=> pc[q] = "swapping") /\ stops'[q] = stops[q]
    BY <1>3 DEF Evicted, Unlock
  <2>3. h \in Swap \ raced /\ state' = state /\ lastUsed' = lastUsed /\ model' = model
    BY <1>3 DEF Evicted
  <2>4. QED
    BY <2>1, <2>2, <2>3, SwapFrame
<1>4. ASSUME NEW r \in Requests, AllEvicted(r) PROVE UpIsUsed(h)' /\ OldModel(h)'
  BY <1>4 DEF AllEvicted
<1>5. ASSUME NEW r \in Requests, LockGroup(r) PROVE UpIsUsed(h)' /\ OldModel(h)'
  <2>1. \A q \in Requests :
           Holds(q, h)' /\ pc'[q] \in Swapping <=> Holds(q, h) /\ pc[q] \in Swapping
    BY <1>5 DEF LockGroup, Lock
  <2>2. \A q \in Requests : Holds(q, h) /\ pc[q] \in Swapping =>
           (pc'[q] = "swapping" <=> pc[q] = "swapping") /\ stops'[q] = stops[q]
    BY <1>5 DEF LockGroup, Lock
  <2>3. h \in Swap \ raced /\ state' = state /\ lastUsed' = lastUsed /\ model' = model
    BY <1>5 DEF LockGroup
  <2>4. QED
    BY <2>1, <2>2, <2>3, SwapFrame
<1>6. ASSUME NEW r \in Requests, SameModel(r) PROVE UpIsUsed(h)' /\ OldModel(h)'
  <2>1. \A q \in Requests :
           Holds(q, h)' /\ pc'[q] \in Swapping <=> Holds(q, h) /\ pc[q] \in Swapping
    BY <1>6 DEF SameModel, Unlock
  <2>2. \A q \in Requests : Holds(q, h) /\ pc[q] \in Swapping =>
           (pc'[q] = "swapping" <=> pc[q] = "swapping") /\ stops'[q] = stops[q]
    BY <1>6 DEF SameModel, Unlock
  <2>3. h \in Swap \ raced /\ state' = state /\ lastUsed' = lastUsed /\ model' = model
    BY <1>6 DEF SameModel
  <2>4. QED
    BY <2>1, <2>2, <2>3, SwapFrame
<1>7. ASSUME NEW r \in Requests, OtherModel(r) PROVE UpIsUsed(h)' /\ OldModel(h)'
  BY <1>7 DEF OtherModel, CallStop
<1>8. ASSUME NEW r \in Requests, Swapped(r) PROVE UpIsUsed(h)' /\ OldModel(h)'
  <2>1. /\ pc[r] = "swapping" /\ stops[r] = NoStops /\ pc' = [pc EXCEPT ![r] = "check"]
        /\ state' = state /\ lock' = lock /\ lastUsed' = lastUsed /\ model' = model /\ stops' = stops
        /\ h \in Swap \ raced
    BY <1>8 DEF Swapped, StopsReturned
  <2>2. UpIsUsed(h)'
    BY <2>1
  <2>3. ASSUME Holds(r, h), NEW m \in Models, m = lastUsed[h] PROVE ~Up(m)
    <3>1. state[m] \in {"stopped", "stopping"}
      <4>1. stops[r][m] = "none"
        BY ONLY m \in Models, <2>1 DEF NoStops
      <4>2. OldModel(h)
        BY <2>1
      <4>3. QED
        BY <2>1, <2>3, <4>1, <4>2
    <3>2. state[m] # "stopping"
      BY <1>8, <2>3 DEF Swapped
    <3>3. QED
      BY <3>1, <3>2
  <2>4. OldModel(h)'
    <3>1. CASE Group(r) = h
      <4>1. \A q \in Requests : Holds(q, h)' => q = r
        BY <2>1, <3>1
      <4>2. Holds(r, h)' => Holds(r, h)
        BY <2>1
      <4>3. Holds(r, h) => lastUsed[h] # model[r]
        BY <2>1
      <4>4. \A m \in Models : Up(m)' <=> Up(m)
        BY <2>1
      <4>5. Holds(r, h)' =>
               /\ lastUsed'[h] # model'[r]
               /\ \A m \in Models : m = lastUsed'[h] => ~Up(m)'
        BY <2>1, <2>3, <4>2, <4>3, <4>4
      <4>6. pc'[r] = "check"
        BY <2>1
      <4>7. QED
        BY ONLY <4>1, <4>5, <4>6 DEF OldModel
    <3>2. CASE Group(r) # h
      <4>1. ~Holds(r, h) /\ ~Holds(r, h)'
        BY <2>1, <3>2
      <4>2. \A q \in Requests \ {r} : pc'[q] = pc[q] /\ (Holds(q, h)' <=> Holds(q, h))
        BY <2>1
      <4>3. UpIsUsed(h) /\ OldModel(h)
        BY <2>1
      <4> HIDE DEF Holds, UpIsUsed, OldModel, Up, Swapping
      <4>4. \A q \in Requests :
               /\ Holds(q, h)' /\ pc'[q] \in Swapping <=> Holds(q, h) /\ pc[q] \in Swapping
               /\ Holds(q, h) /\ pc[q] \in Swapping =>
                     (pc'[q] = "swapping" <=> pc[q] = "swapping") /\ stops'[q] = stops[q]
        BY ONLY <2>1, <4>1, <4>2
      <4>5. QED
        BY ONLY <2>1, <4>3, <4>4, SwapFrame
    <3>3. QED
      BY <3>1, <3>2
  <2>5. QED
    BY <2>2, <2>4
<1>9. ASSUME NEW r \in Requests, Check(r) PROVE UpIsUsed(h)' /\ OldModel(h)'
  BY <1>9 DEF Check, Return
<1>10. ASSUME NEW r \in Requests, Enter(r) \/ TooManyRequests(r) PROVE UpIsUsed(h)' /\ OldModel(h)'
  <2>1. CASE Enter(r)
    BY <2>1 DEF Enter
  <2>2. CASE TooManyRequests(r)
    BY <2>2 DEF TooManyRequests, Return
  <2> QED
    BY <1>10, <2>1, <2>2
<1>11. ASSUME NEW r \in Requests, Decide(r) PROVE UpIsUsed(h)' /\ OldModel(h)'
  BY <1>11 DEF Decide
<1>12. ASSUME NEW r \in Requests, StartSwap(r) PROVE UpIsUsed(h)' /\ OldModel(h)'
  <2> DEFINE n == model[r]
  <2>1. /\ pc[r] = "start" /\ pc' = [pc EXCEPT ![r] = "starting"] /\ n \in Models
        /\ state[n] = "stopped" /\ state' = [state EXCEPT ![n] = "starting"]
        /\ lock' = lock /\ lastUsed' = lastUsed /\ model' = model /\ stops' = stops
        /\ h \in Swap \ raced
    BY <1>12 DEF StartSwap
  <2>2. ASSUME GroupOf[n] # h PROVE UpIsUsed(h)' /\ OldModel(h)'
    BY <2>1, <2>2
  <2>3. ASSUME GroupOf[n] = h PROVE UpIsUsed(h)' /\ OldModel(h)'
    <3>1. lock[h] = r \/ (lastUsed[h] = n /\ \A q \in Requests : Holds(q, h) => model[q] = n)
      BY <1>12, <2>1, <2>3 DEF StartSwap, Displaced
    <3>2. CASE lock[h] = r
      BY <2>1, <2>3, <3>2
    <3>3. CASE lastUsed[h] = n /\ \A q \in Requests : Holds(q, h) => model[q] = n
      BY <2>1, <2>3, <3>3
    <3>4. QED
      BY <3>1, <3>2, <3>3
  <2>4. QED
    BY <2>2, <2>3
<1>13. ASSUME NEW r \in Requests, StartMismatch(r) PROVE UpIsUsed(h)' /\ OldModel(h)'
  BY <1>13 DEF StartMismatch
<1>14. ASSUME NEW r \in Requests, StartReady(r) PROVE UpIsUsed(h)' /\ OldModel(h)'
  BY <1>14 DEF StartReady
<1>15. ASSUME NEW r \in Requests, StartFails(r) PROVE UpIsUsed(h)' /\ OldModel(h)'
  BY <1>15 DEF StartFails
<1>16. ASSUME NEW r \in Requests, WaitStarting(r) PROVE UpIsUsed(h)' /\ OldModel(h)'
  BY <1>16 DEF WaitStarting
<1>17. ASSUME NEW r \in Requests, Proxy(r) PROVE UpIsUsed(h)' /\ OldModel(h)'
  BY <1>17 DEF Proxy
<1>18. ASSUME NEW r \in Requests, Exit(r) PROVE UpIsUsed(h)' /\ OldModel(h)'
  BY <1>18 DEF Exit, Return
<1>19. ASSUME NEW r \in Requests, Release(r) PROVE UpIsUsed(h)' /\ OldModel(h)'
  <2>1. /\ pc[r] = "release" /\ pc' = [pc EXCEPT ![r] = "done"] /\ state' = state
        /\ model' = model /\ stops' = stops /\ h \in Swap \ raced
        /\ lock' = [lock EXCEPT ![Group(r)] = None]
        /\ lastUsed' = [lastUsed EXCEPT ![Group(r)] = model[r]]
    BY <1>19 DEF Release, Unlock
  <2>2. CASE Group(r) # h
    BY <2>1, <2>2
  <2>3. CASE Group(r) = h
    <3>1. \A q \in Requests : ~Holds(q, h)'
      BY <2>1, <2>3
    <3>2. lock[h] = r
      BY <2>1, <2>3
    <3>3. ASSUME NEW m \in Members(h), Up(m) PROVE m = model[r]
      <4>1. UpIsUsed(h) /\ OldModel(h) /\ Holds(r, h)
        BY <2>1, <2>3, <3>2
      <4>2. lastUsed[h] # m
        BY <2>1, <3>3, <4>1
      <4>3. PICK q \in Requests : Holds(q, h) /\ model[q] = m
        BY <3>3, <4>1, <4>2
      <4>4. QED
        BY <3>2, <4>3
    <3>4. QED
      BY <2>1, <2>3, <3>1, <3>3
  <2>4. QED
    BY <2>2, <2>3
<1>20. ASSUME NEW u \in Unloaders, NEW m \in Models, UnloadModel(u, m) PROVE UpIsUsed(h)' /\ OldModel(h)'
  <2>1. /\ lock[GroupOf[m]] = None /\ lock' = lock /\ state' = state /\ model' = model
        /\ \A q \in Requests : pc'[q] = pc[q] /\ stops'[q] = stops[q]
        /\ h \in Swap \ raced /\ (h = GroupOf[m] /\ lastUsed[h] = m => ~Up(m))
        /\ lastUsed' = [lastUsed EXCEPT ![GroupOf[m]] = IF @ = m THEN None ELSE @]
    BY <1>20 DEF UnloadModel, CallStop
  <2>2. CASE h # GroupOf[m]
    BY <2>1, <2>2
  <2>3. CASE h = GroupOf[m]
    <3>1. \A q \in Requests : ~Holds(q, h) /\ ~Holds(q, h)'
      BY <2>1, <2>3
    <3>2. OldModel(h)'
      BY <3>1
    <3>3. \A k \in Members(h) : Up(k) => lastUsed[h] = k
      BY <2>1, <3>1
    <3>4. UpIsUsed(h)'
      BY <2>1, <2>3, <3>3
    <3>5. QED
      BY <3>2, <3>4
  <2>4. QED
    BY <2>2, <2>3
<1>21. ASSUME NEW u \in Unloaders, NEW g \in Groups, UnloadGroup(u, g) PROVE UpIsUsed(h)' /\ OldModel(h)'
  <2>1. \A q \in Requests :
           Holds(q, h)' /\ pc'[q] \in Swapping <=> Holds(q, h) /\ pc[q] \in Swapping
    BY <1>21 DEF UnloadGroup, Lock, CallStop
  <2>2. \A q \in Requests : Holds(q, h) /\ pc[q] \in Swapping =>
           (pc'[q] = "swapping" <=> pc[q] = "swapping") /\ stops'[q] = stops[q]
    BY <1>21 DEF UnloadGroup, Lock, CallStop
  <2>3. h \in Swap \ raced /\ state' = state /\ lastUsed' = lastUsed /\ model' = model
    BY <1>21 DEF UnloadGroup
  <2>4. QED
    BY <2>1, <2>2, <2>3, SwapFrame
<1>22. ASSUME NEW u \in Unloaders, Unloaded(u) PROVE UpIsUsed(h)' /\ OldModel(h)'
  BY <1>22 DEF Unloaded
<1>23. ASSUME NEW u \in Unloaders, NEW g \in Groups, GroupUnloaded(u, g) PROVE UpIsUsed(h)' /\ OldModel(h)'
  BY <1>23 DEF GroupUnloaded, Unlock
<1>24. ASSUME NEW t \in Threads, NEW m \in Models, StopGuard(t, m) PROVE UpIsUsed(h)' /\ OldModel(h)'
  BY <1>24 DEF StopGuard, StopPhase
<1>25. ASSUME NEW t \in Threads, NEW m \in Models, StopDrained(t, m) PROVE UpIsUsed(h)' /\ OldModel(h)'
  BY <1>25 DEF StopDrained, StopPhase
<1>26. ASSUME NEW t \in Threads, NEW m \in Models, StopNow(t, m) PROVE UpIsUsed(h)' /\ OldModel(h)'
  BY <1>26 DEF StopNow, StopPhase
<1>27. ASSUME NEW m \in Models, ProcessExits(m) PROVE UpIsUsed(h)' /\ OldModel(h)'
  BY <1>27 DEF ProcessExits
<1>28. ASSUME NEW m \in Models, ProcessCrashes(m) PROVE UpIsUsed(h)' /\ OldModel(h)'
  BY <1>28 DEF ProcessCrashes
<1>29. ASSUME NEW m \in Models, TTLExpires(m) PROVE UpIsUsed(h)' /\ OldModel(h)'
  BY <1>29 DEF TTLExpires, CallStop
<1>30. CASE UNCHANGED vars
  BY <1>30 DEF vars
<1> HIDE DEF TypeOK, RequestsKnown, LocksKnown, StartsOwned, LastUsedIsMember, SwapInv, UpIsUsed,
             OldModel, Goto
<1>31. QED
  BY <1>1, <1>2, <1>3, <1>4, <1>5, <1>6, <1>7, <1>8, <1>9, <1>10, <1>11, <1>12, <1>13, <1>14,
     <1>15, <1>16, <1>17, <1>18, <1>19, <1>20, <1>21, <1>22, <1>23, <1>24, <1>25, <1>26, <1>27,
     <1>28, <1>29, <1>30
     DEF Next, Locking, RequestStep, StopStep, UnloadStep

(***************************************************************************)
(* Exclusive groups.                                                       *)
(***************************************************************************)
LEMMA StepExclusive ==
    ASSUME TypeOK, RequestsKnown, StartsOwned, StoppedStaysDown, ExclusiveUnlessRaced, [Next]_vars
    PROVE  StoppedStaysDown' /\ ExclusiveUnlessRaced'
<1> USE ThreadFacts, GroupAssumption
    DEF TypeOK, RequestsKnown, StartsOwned, StoppedStaysDown, ExclusiveUnlessRaced, StoppedBy, Up, Group, Goto, Entered
<1>1. ASSUME NEW r \in Requests, NEW m \in Models, Arrive(r, m) PROVE StoppedStaysDown' /\ ExclusiveUnlessRaced'
  BY <1>1 DEF Arrive
<1>2. ASSUME NEW r \in Requests, NEW g \in Groups, EvictGroup(r, g) PROVE StoppedStaysDown' /\ ExclusiveUnlessRaced'
  BY <1>2 DEF EvictGroup, Lock, CallStop
<1>3. ASSUME NEW r \in Requests, NEW g \in Groups, Evicted(r, g) PROVE StoppedStaysDown' /\ ExclusiveUnlessRaced'
  BY <1>3 DEF Evicted, Unlock
<1>4. ASSUME NEW r \in Requests, AllEvicted(r) PROVE StoppedStaysDown' /\ ExclusiveUnlessRaced'
  BY <1>4 DEF AllEvicted
<1>5. ASSUME NEW r \in Requests, LockGroup(r) PROVE StoppedStaysDown' /\ ExclusiveUnlessRaced'
  BY <1>5 DEF LockGroup, Lock
<1>6. ASSUME NEW r \in Requests, SameModel(r) PROVE StoppedStaysDown' /\ ExclusiveUnlessRaced'
  BY <1>6 DEF SameModel, Unlock
<1>7. ASSUME NEW r \in Requests, OtherModel(r) PROVE StoppedStaysDown' /\ ExclusiveUnlessRaced'
  BY <1>7 DEF OtherModel, CallStop
<1>8. ASSUME NEW r \in Requests, Swapped(r) PROVE StoppedStaysDown' /\ ExclusiveUnlessRaced'
  BY <1>8 DEF Swapped
<1>9. ASSUME NEW r \in Requests, Check(r) PROVE StoppedStaysDown' /\ ExclusiveUnlessRaced'
  BY <1>9 DEF Check, Return
<1>10. ASSUME NEW r \in Requests, Enter(r) \/ TooManyRequests(r) PROVE StoppedStaysDown' /\ ExclusiveUnlessRaced'
  <2>1. CASE Enter(r)
    BY <2>1 DEF Enter
  <2>2. CASE TooManyRequests(r)
    BY <2>2 DEF TooManyRequests, Return
  <2> QED
    BY <1>10, <2>1, <2>2
<1>11. ASSUME NEW r \in Requests, Decide(r) PROVE StoppedStaysDown' /\ ExclusiveUnlessRaced'
  BY <1>11 DEF Decide
<1>12. ASSUME NEW r \in Requests, StartSwap(r) PROVE StoppedStaysDown' /\ ExclusiveUnlessRaced'
  <2> DEFINE n == model[r]
  <2>1. /\ pc[r] = "start" /\ pc' = [pc EXCEPT ![r] = "starting"] /\ n \in Models
        /\ state' = [state EXCEPT ![n] = "starting"] /\ evict' = evict /\ model' = model
        /\ beside \subseteq beside'
        /\ GroupOf[n] \notin beside' => \A q \in Requests : ~StoppedBy(q, GroupOf[n])
    BY <1>12 DEF StartSwap
  <2>2. \A q \in Requests, g \in Groups : StoppedBy(q, g)' <=> StoppedBy(q, g)
    BY <2>1
  <2>3. \A g \in Groups : g # GroupOf[n] => \A m \in Members(g) : Up(m)' <=> Up(m)
    BY <2>1
  <2>4. StoppedStaysDown'
    BY <2>1, <2>2, <2>3
  <2>5. \A g \in Groups : GroupOf[n] \in Exclusive /\ g # GroupOf[n] /\ g \notin Persistent
                             => StoppedBy(r, g)
    BY <2>1
  <2>6. \A g \in Exclusive \ (Persistent \cup beside') :
           GroupOf[n] \in Exclusive /\ g # GroupOf[n] => \A m \in Members(g) : ~Up(m)'
    BY <2>1, <2>3, <2>5
  <2>7. \A g, h \in Exclusive \ (Persistent \cup beside') :
           (\E m \in Members(g), k \in Members(h) : Up(m)' /\ Up(k)') => g = h
    <3> SUFFICES ASSUME NEW g \in Exclusive \ (Persistent \cup beside'),
                        NEW h \in Exclusive \ (Persistent \cup beside'),
                        NEW m \in Members(g), NEW k \in Members(h), Up(m)', Up(k)', g # h
                 PROVE  FALSE
      OBVIOUS
    <3>1. g # GroupOf[n] /\ h # GroupOf[n]
      BY <2>6
    <3>2. Up(m) /\ Up(k)
      BY <2>3, <3>1
    <3>3. QED
      BY <2>1, <3>2
  <2>8. QED
    BY <2>4, <2>7
<1>13. ASSUME NEW r \in Requests, StartMismatch(r) PROVE StoppedStaysDown' /\ ExclusiveUnlessRaced'
  BY <1>13 DEF StartMismatch
<1>14. ASSUME NEW r \in Requests, StartReady(r) PROVE StoppedStaysDown' /\ ExclusiveUnlessRaced'
  BY <1>14 DEF StartReady
<1>15. ASSUME NEW r \in Requests, StartFails(r) PROVE StoppedStaysDown' /\ ExclusiveUnlessRaced'
  BY <1>15 DEF StartFails
<1>16. ASSUME NEW r \in Requests, WaitStarting(r) PROVE StoppedStaysDown' /\ ExclusiveUnlessRaced'
  BY <1>16 DEF WaitStarting
<1>17. ASSUME NEW r \in Requests, Proxy(r) PROVE StoppedStaysDown' /\ ExclusiveUnlessRaced'
  BY <1>17 DEF Proxy
<1>18. ASSUME NEW r \in Requests, Exit(r) PROVE StoppedStaysDown' /\ ExclusiveUnlessRaced'
  BY <1>18 DEF Exit, Return
<1>19. ASSUME NEW r \in Requests, Release(r) PROVE StoppedStaysDown' /\ ExclusiveUnlessRaced'
  BY <1>19 DEF Release, Unlock
<1>20. ASSUME NEW u \in Unloaders, NEW m \in Models, UnloadModel(u, m) PROVE StoppedStaysDown' /\ ExclusiveUnlessRaced'
  BY <1>20 DEF UnloadModel, CallStop
<1>21. ASSUME NEW u \in Unloaders, NEW g \in Groups, UnloadGroup(u, g) PROVE StoppedStaysDown' /\ ExclusiveUnlessRaced'
  BY <1>21 DEF UnloadGroup, Lock, CallStop
<1>22. ASSUME NEW u \in Unloaders, Unloaded(u) PROVE StoppedStaysDown' /\ ExclusiveUnlessRaced'
  BY <1>22 DEF Unloaded
<1>23. ASSUME NEW u \in Unloaders, NEW g \in Groups, GroupUnloaded(u, g) PROVE StoppedStaysDown' /\ ExclusiveUnlessRaced'
  BY <1>23 DEF GroupUnloaded, Unlock
<1>24. ASSUME NEW t \in Threads, NEW m \in Models, StopGuard(t, m) PROVE StoppedStaysDown' /\ ExclusiveUnlessRaced'
  BY <1>24 DEF StopGuard, StopPhase
<1>25. ASSUME NEW t \in Threads, NEW m \in Models, StopDrained(t, m) PROVE StoppedStaysDown' /\ ExclusiveUnlessRaced'
  BY <1>25 DEF StopDrained, StopPhase
<1>26. ASSUME NEW t \in Threads, NEW m \in Models, StopNow(t, m) PROVE StoppedStaysDown' /\ ExclusiveUnlessRaced'
  BY <1>26 DEF StopNow, StopPhase
<1>27. ASSUME NEW m \in Models, ProcessExits(m) PROVE StoppedStaysDown' /\ ExclusiveUnlessRaced'
  BY <1>27 DEF ProcessExits
<1>28. ASSUME NEW m \in Models, ProcessCrashes(m) PROVE StoppedStaysDown' /\ ExclusiveUnlessRaced'
  BY <1>28 DEF ProcessCrashes
<1>29. ASSUME NEW m \in Models, TTLExpires(m) PROVE StoppedStaysDown' /\ ExclusiveUnlessRaced'
  BY <1>29 DEF TTLExpires, CallStop
<1>30. CASE UNCHANGED vars
  BY <1>30 DEF vars
<1>31. QED
  BY <1>1, <1>2, <1>3, <1>4, <1>5, <1>6, <1>7, <1>8, <1>9, <1>10, <1>11, <1>12, <1>13, <1>14,
     <1>15, <1>16, <1>17, <1>18, <1>19, <1>20, <1>21, <1>22, <1>23, <1>24, <1>25, <1>26, <1>27,
     <1>28, <1>29, <1>30
     DEF Next, Locking, RequestStep, StopStep, UnloadStep

(***************************************************************************)
(* The theorems.                                                           *)
(***************************************************************************)
LEMMA InitIInv == Init => IInv
<1> SUFFICES ASSUME Init PROVE IInv
  OBVIOUS
<1> USE ThreadFacts, GroupAssumption
<1>1. TypeOK /\ RequestsKnown
  BY InitType
<1>2. LocksKnown /\ StartsOwned /\ LastUsedIsMember
  BY DEF Init, LocksKnown, StartsOwned, LastUsedIsMember, Entered
<1>3. \A m \in Models : ~Up(m)
  BY DEF Init, Up
<1>4. SwapInv /\ StoppedStaysDown /\ ExclusiveUnlessRaced
  BY <1>3 DEF Init, SwapInv, UpIsUsed, OldModel, Holds, StoppedStaysDown, ExclusiveUnlessRaced
<1>5. QED
  BY <1>1, <1>2, <1>4 DEF IInv

LEMMA StepIInv == IInv /\ [Next]_vars => IInv'
BY StepType, StepKnown, StepLocks, StepStarts, StepSwap, StepExclusive DEF IInv

\* The states, locks and threads of the groups keep their types.
THEOREM TypeCorrect == Spec => []TypeOK
<1>1. IInv => TypeOK
  BY DEF IInv
<1>2. QED
  BY <1>1, InitIInv, StepIInv, PTL DEF Spec

\* ProcessGroup.ProxyRequest swaps: for any models, groups, requests and unloads, a
\* swap group never has two models up, outside the three windows raced notes.
THEOREM SwapGroupRunsOne == Spec => []OneModelUnlessRaced
<1>1. IInv => OneModelUnlessRaced
  <2> SUFFICES ASSUME IInv, NEW g \in Swap \ raced, NEW m \in Members(g), NEW n \in Members(g),
                      Up(m), Up(n)
               PROVE  m = n
    BY DEF OneModelUnlessRaced
  <2>1. UpIsUsed(g) /\ OldModel(g) /\ m \in Models /\ n \in Models /\ g \in Groups
    BY GroupAssumption DEF IInv, SwapInv, Members
  <2>2. \A r, q \in Requests : Holds(r, g) /\ Holds(q, g) => r = q
    BY DEF Holds
  <2>3. ASSUME NEW k \in Models, lastUsed[g] = k, Up(k), NEW r \in Requests, Holds(r, g),
               pc[r] \in Swapping \ {"swapping"}
        PROVE  FALSE
    BY <2>1, <2>3 DEF OldModel
  <2>4. QED
    BY <2>1, <2>2, <2>3 DEF UpIsUsed
<1>2. QED
  BY <1>1, InitIInv, StepIInv, PTL DEF Spec

\* swapProcessGroup evicts: two exclusive groups that evict each other are never up
\* together, unless one was started beside, or outlived, a request that stopped it.
THEOREM ExclusiveGroupsRunAlone == Spec => []ExclusiveUnlessRaced
<1>1. IInv => ExclusiveUnlessRaced
  BY DEF IInv
<1>2. QED
  BY <1>1, InitIInv, StepIInv, PTL DEF Spec
=============================================================================
