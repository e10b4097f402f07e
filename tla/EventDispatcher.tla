--------------------------- MODULE EventDispatcher ---------------------------
(***************************************************************************)
(* The event dispatcher (event/event.go) for one event type, with the      *)
(* publishers and subscribers it has in the proxy.  Process.swapState      *)
(* emits under the stateMutex of its model; the handlers of some event     *)
(* types (sendModels of apiSendEvents) read the state of all models, one   *)
(* stateMutex after the other, and those of the others take no lock.       *)
(*                                                                         *)
(* Every critical section of the group's lock is one step, so the lock is  *)
(* no variable; cond.Wait is a state that Broadcast ends.  maxLen is left  *)
(* out: each use is preceded by its computation under the same lock.       *)
(***************************************************************************)
EXTENDS Integers, Sequences

CONSTANTS
    NumModels,           \* models, in the order getModelStatus reads them
    Consumers,           \* subscribers, each slot reused after it ended
    Readers,             \* the subscribers whose handler reads the models' states
    MaxQueue             \* dispatcher.maxQueue

Models == 1 .. NumModels

ASSUME DispatcherAssumption ==
    /\ NumModels \in Nat \ {0}
    /\ MaxQueue \in Nat \ {0}
    /\ Readers \subseteq Consumers

VARIABLES
    registered,          \* the group is in the registry
    subs,                \* group.subs
    queue, pending,      \* consumer.queue, and the batch Listen works on
    stop,                \* consumer.stop
    listen,              \* where each Listen goroutine is
    reading,             \* model the running handler reads next
    emit                 \* swapState of each model: the mutex is held unless idle

vars == <<registered, subs, queue, pending, stop, listen, reading, emit>>

\* What a handler reads first; a handler that reads nothing is done at once.
First(c) == IF c \in Readers THEN 1 ELSE NumModels + 1

Init ==
    /\ registered = FALSE
    /\ subs = {}
    /\ queue = [c \in Consumers |-> <<>>]
    /\ pending = [c \in Consumers |-> <<>>]
    /\ stop = [c \in Consumers |-> FALSE]
    /\ listen = [c \in Consumers |-> "none"]
    /\ reading = [c \in Consumers |-> First(c)]
    /\ emit = [m \in Models |-> "idle"]

Wake(x) == IF x = "waiting" THEN "run" ELSE x
-----------------------------------------------------------------------------
(***************************************************************************)
(* SubscribeTo and the function it returns.                                *)
(***************************************************************************)
\* The first subscription stores the group in a new registry; Add appends the
\* consumer under the group's lock and spawns Listen.
SubscribeTo(c) ==
    /\ listen[c] = "none"
    /\ registered' = TRUE
    /\ subs' = subs \cup {c}
    /\ stop' = [stop EXCEPT ![c] = FALSE]
    /\ listen' = [listen EXCEPT ![c] = "run"]
    /\ UNCHANGED <<queue, pending, reading, emit>>

\* Mutant: the queue of a removed consumer is cleared.
DelDiscards(c) ==
    /\ c \in subs
    /\ stop' = [stop EXCEPT ![c] = TRUE]
    /\ subs' = subs \ {c}
    /\ queue' = [queue EXCEPT ![c] = <<>>]
    /\ UNCHANGED <<registered, pending, listen, reading, emit>>

\* Del wakes nobody.
Del(c) ==
    /\ c \in subs
    /\ stop' = [stop EXCEPT ![c] = TRUE]
    /\ subs' = subs \ {c}
    /\ UNCHANGED <<registered, queue, pending, listen, reading, emit>>
-----------------------------------------------------------------------------
(***************************************************************************)
(* Publish, called by swapState with the model's stateMutex held.          *)
(***************************************************************************)
Full == \E c \in subs : Len(queue[c]) >= MaxQueue

\* The event goes to every queue, and everybody in cond.Wait is woken.
Enqueue(m) ==
    /\ queue' = [c \in Consumers |-> IF c \in subs THEN Append(queue[c], m) ELSE queue[c]]
    /\ emit' = [n \in Models |-> IF n = m THEN "idle" ELSE Wake(emit[n])]
    /\ listen' = [c \in Consumers |-> Wake(listen[c])]

\* Backpressure: wait while a queue is full.
Broadcast(m) ==
    /\ IF Full
       THEN emit' = [emit EXCEPT ![m] = "waiting"] /\ UNCHANGED <<queue, listen>>
       ELSE Enqueue(m)
    /\ UNCHANGED <<registered, subs, pending, stop, reading>>

\* swapState takes the mutex and publishes; without a group nothing happens.
Publish(m) ==
    /\ emit[m] = "idle"
    /\ registered
    /\ Broadcast(m)

\* A woken publisher looks at the queues again.
Rebroadcast(m) ==
    /\ emit[m] = "run"
    /\ Broadcast(m)
-----------------------------------------------------------------------------
(***************************************************************************)
(* Listen and the handler.                                                 *)
(***************************************************************************)
\* The queue becomes the batch to work on.
Take(c) ==
    /\ listen[c] = "run"
    /\ queue[c] # <<>>
    /\ pending' = [pending EXCEPT ![c] = queue[c]]
    /\ queue' = [queue EXCEPT ![c] = <<>>]
    /\ listen' = [listen EXCEPT ![c] = "handling"]
    /\ UNCHANGED <<registered, subs, stop, reading, emit>>

Wait(c) ==
    /\ listen[c] = "run"
    /\ queue[c] = <<>>
    /\ ~stop[c]
    /\ listen' = [listen EXCEPT ![c] = "waiting"]
    /\ UNCHANGED <<registered, subs, queue, pending, stop, reading, emit>>

Return(c) ==
    /\ listen[c] = "run"
    /\ queue[c] = <<>>
    /\ stop[c]
    /\ listen' = [listen EXCEPT ![c] = "none"]
    /\ UNCHANGED <<registered, subs, queue, pending, stop, reading, emit>>

\* CurrentState of the next model: RLock waits for a swapState that holds the mutex.
ReadState(c) ==
    /\ listen[c] = "handling"
    /\ reading[c] \in Models
    /\ emit[reading[c]] = "idle"
    /\ reading' = [reading EXCEPT ![c] = @ + 1]
    /\ UNCHANGED <<registered, subs, queue, pending, stop, listen, emit>>

\* The handler returns (its send never blocks) and another event is left.
NextEvent(c) ==
    /\ listen[c] = "handling"
    /\ reading[c] \notin Models
    /\ Len(pending[c]) > 1
    /\ pending' = [pending EXCEPT ![c] = Tail(@)]
    /\ reading' = [reading EXCEPT ![c] = First(c)]
    /\ UNCHANGED <<registered, subs, queue, stop, listen, emit>>

\* Mutant: publishers waiting for room are not notified.
BatchDoneSilently(c) ==
    /\ listen[c] = "handling"
    /\ reading[c] \notin Models
    /\ Len(pending[c]) = 1
    /\ pending' = [pending EXCEPT ![c] = <<>>]
    /\ reading' = [reading EXCEPT ![c] = First(c)]
    /\ listen' = [listen EXCEPT ![c] = "run"]
    /\ UNCHANGED <<registered, subs, queue, stop, emit>>

\* The batch is done: c.Broadcast wakes publishers, and idle consumers too.
BatchDone(c) ==
    /\ listen[c] = "handling"
    /\ reading[c] \notin Models
    /\ Len(pending[c]) = 1
    /\ pending' = [pending EXCEPT ![c] = <<>>]
    /\ listen' = [d \in Consumers |-> IF d = c THEN "run" ELSE Wake(listen[d])]
    /\ emit' = [m \in Models |-> Wake(emit[m])]
    /\ reading' = [reading EXCEPT ![c] = First(c)]
    /\ UNCHANGED <<registered, subs, queue, stop>>
-----------------------------------------------------------------------------
ListenStep(c) ==
    Take(c) \/ Wait(c) \/ Return(c) \/ ReadState(c) \/ NextEvent(c) \/ BatchDone(c)

Next ==
    \/ \E m \in Models : Publish(m) \/ Rebroadcast(m)
    \/ \E c \in Consumers : SubscribeTo(c) \/ Del(c) \/ ListenStep(c)

Spec == Init /\ [][Next]_vars

\* Goroutines that can run do run; nobody has to publish, subscribe or leave.
Fairness ==
    /\ \A m \in Models : WF_vars(Rebroadcast(m))
    /\ \A c \in Consumers : WF_vars(ListenStep(c))

FairSpec == Spec /\ Fairness
-----------------------------------------------------------------------------
(***************************************************************************)
(* Properties.                                                             *)
(***************************************************************************)
\* Types; in particular backpressure keeps every queue within maxQueue.
TypeOK ==
    /\ registered \in BOOLEAN
    /\ subs \subseteq Consumers
    /\ queue \in [Consumers -> Seq(Models)]
    /\ \A c \in Consumers : Len(queue[c]) <= MaxQueue
    /\ pending \in [Consumers -> Seq(Models)]
    /\ stop \in [Consumers -> BOOLEAN]
    /\ listen \in [Consumers -> {"none", "run", "waiting", "handling"}]
    /\ reading \in [Consumers -> 1 .. NumModels + 1]
    /\ emit \in [Models -> {"idle", "waiting", "run"}]

\* A consumer that will call Broadcast on the group's condition without being woken.
WillNotify(c) == listen[c] = "handling" \/ (listen[c] = "run" /\ queue[c] # <<>>)

\* No wakeup is lost in Listen and Broadcast, although Listen notifies outside the
\* lock and Del notifies nobody: a consumer never sleeps on a queue with events, and
\* whenever a publisher sleeps some consumer has yet to notify it.
NoLostWakeup ==
    /\ \A c \in Consumers : listen[c] = "waiting" => queue[c] = <<>>
    /\ \A m \in Models : emit[m] = "waiting" => \E c \in Consumers : WillNotify(c)

Bus == INSTANCE EventBus WITH
    Events <- Models,
    unseen <- [c \in Consumers |-> pending[c] \o queue[c]]

\* Subscribers see every event of their time on the list once and in order, whatever
\* queue swaps, backpressure and removals do: Dispatcher implements EventBus.
ImplementsBus == Bus!Spec

\* A handler waits for the stateMutex of a model whose swapState waits for room.
Entangled == \E c \in Consumers : /\ listen[c] = "handling"
                                  /\ reading[c] \in Models
                                  /\ emit[reading[c]] = "waiting"

\* Emit, which swapState calls with stateMutex held, returns: a publisher stays in it
\* only in a circular wait with a handler that needs a publisher's mutex, or while the
\* others keep publishing and take the room before it.
PublishReturns ==
    \A m \in Models :
        <>[](emit[m] # "idle") =>
            \/ <>[]Entangled
            \/ []<><<\E n \in Models \ {m} : Enqueue(n)>>_vars

\* Del does not wake its consumer, but as long as events keep being published the
\* goroutine of an idle consumer ends.
IdleConsumerEnds ==
    []<><<\E m \in Models : Enqueue(m)>>_vars =>
        \A c \in Consumers : stop[c] /\ listen[c] = "waiting" ~> listen[c] = "none"

\* Neither publishers nor removed consumers stay in the dispatcher for ever.
BusProgresses == PublishReturns /\ IdleConsumerEnds
=============================================================================
