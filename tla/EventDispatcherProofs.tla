----------------------- MODULE EventDispatcherProofs -----------------------
(***************************************************************************)
(* The dispatcher loses no wakeup and no event, for any number of          *)
(* consumers and models and any queue limit; and, by the bus it            *)
(* implements, no chunk of the log goes past a client that follows it.     *)
(***************************************************************************)
EXTENDS EventDispatcher, LogStream, SequenceTheorems, TLAPS

\* A batch is being worked on exactly while Listen is outside its critical section.
BatchIsHandled ==
    \A c \in Consumers : listen[c] = "handling" <=> pending[c] # <<>>

\* A consumer on the list has a goroutine; one that ended left nothing behind.
ListedIsAlive ==
    /\ \A c \in subs : listen[c] # "none" /\ ~stop[c]
    /\ \A c \in Consumers : listen[c] = "none" => queue[c] = <<>>

IInv == TypeOK /\ NoLostWakeup /\ BatchIsHandled /\ ListedIsAlive

USE DispatcherAssumption

(***************************************************************************)
(* What the steps do to the events a consumer has yet to see.              *)
(***************************************************************************)
\* Enqueue appends at the end of what is unseen.
LEMMA EnqueuedLast ==
    ASSUME NEW S, NEW s \in Seq(S), NEW t \in Seq(S), NEW e \in S
    PROVE  s \o Append(t, e) = Append(s \o t, e)
BY AppendIsConcat, ConcatAssociative, ConcatProperties

\* A handler that returns takes the first event of a batch away.
LEMMA HandledFirst ==
    ASSUME NEW S, NEW s \in Seq(S), NEW t \in Seq(S), s # <<>>
    PROVE  s \o t # <<>> /\ Tail(s) \o t = Tail(s \o t)
<1>1. Len(s) \in Nat /\ Len(s) > 0
  BY EmptySeq, LenProperties
<1>2. s \o t \in Seq(S) /\ Len(s \o t) = Len(s) + Len(t) /\ Len(t) \in Nat
  BY ConcatProperties, LenProperties
<1>3. s \o t # <<>>
  BY <1>1, <1>2, EmptySeq
<1>4. Tail(s) \in Seq(S) /\ Len(Tail(s)) = Len(s) - 1
      /\ \A i \in 1 .. Len(Tail(s)) : Tail(s)[i] = s[i + 1]
  BY HeadTailProperties
<1>5. Tail(s \o t) \in Seq(S) /\ Len(Tail(s \o t)) = Len(s \o t) - 1
      /\ \A i \in 1 .. Len(Tail(s \o t)) : Tail(s \o t)[i] = (s \o t)[i + 1]
  BY <1>2, <1>3, HeadTailProperties
<1>6. Tail(s) \o t \in Seq(S) /\ Len(Tail(s) \o t) = Len(Tail(s)) + Len(t)
  BY <1>4, ConcatProperties
<1>7. ASSUME NEW i \in 1 .. Len(Tail(s) \o t)
      PROVE  (Tail(s) \o t)[i] = Tail(s \o t)[i]
  <2>1. (Tail(s) \o t)[i] = IF i <= Len(Tail(s)) THEN Tail(s)[i] ELSE t[i - Len(Tail(s))]
    BY <1>4, ConcatProperties
  <2>2. (s \o t)[i + 1] = IF i + 1 <= Len(s) THEN s[i + 1] ELSE t[i + 1 - Len(s)]
    BY <1>1, <1>2, <1>4, <1>6, ConcatProperties
  <2> QED
    BY <1>1, <1>2, <1>4, <1>5, <1>6, <2>1, <2>2
<1> QED
  BY <1>1, <1>2, <1>3, <1>4, <1>5, <1>6, <1>7, SeqEqual

\* A batch of more than one event is not done when its first was handled.
LEMMA MoreIsLeft ==
    ASSUME NEW S, NEW s \in Seq(S), Len(s) > 1
    PROVE  Tail(s) \in Seq(S) /\ Tail(s) # <<>>
<1>1. Len(s) \in Nat
  BY LenProperties
<1>2. Tail(s) \in Seq(S) /\ Len(Tail(s)) = Len(s) - 1
  BY <1>1, EmptySeq, HeadTailProperties
<1>3. Len(Tail(s)) > 0
  BY <1>1, <1>2
<1>4. \A k \in Nat : k > 0 => k # 0
  OBVIOUS
<1>5. Len(Tail(s)) # 0
  BY <1>1, <1>2, <1>3, <1>4, LenProperties, Zenon
<1> QED
  BY <1>2, <1>5, EmptySeq, Zenon

(***************************************************************************)
(* The invariant holds initially.                                          *)
(***************************************************************************)
LEMMA InitIInv == Init => IInv
<1> SUFFICES ASSUME Init PROVE IInv
  OBVIOUS
<1>1. <<>> \in Seq(Models) /\ Len(<<>>) = 0
  BY EmptySeq
<1>2. \A c \in Consumers : First(c) \in 1 .. NumModels + 1
  BY DEF First
<1>3. TypeOK
  <2>1. \A c \in Consumers : Len(queue[c]) <= MaxQueue
    BY <1>1 DEF Init
  <2>2. queue \in [Consumers -> Seq(Models)] /\ pending \in [Consumers -> Seq(Models)]
    BY <1>1 DEF Init
  <2>3. reading \in [Consumers -> 1 .. NumModels + 1]
    BY <1>2 DEF Init
  <2>4. /\ stop \in [Consumers -> BOOLEAN]
        /\ listen \in [Consumers -> {"none", "run", "waiting", "handling"}]
        /\ emit \in [Models -> {"idle", "waiting", "run"}]
    BY DEF Init
  <2> QED
    BY <2>1, <2>2, <2>3, <2>4 DEF Init, TypeOK
<1> QED
  BY <1>3 DEF Init, IInv, NoLostWakeup, BatchIsHandled, ListedIsAlive

(***************************************************************************)
(* Broadcast, as called by Publish and by Rebroadcast.                     *)
(***************************************************************************)
LEMMA BroadcastStep ==
    ASSUME IInv, NEW m \in Models, Broadcast(m)
    PROVE  IInv'
<1> USE DEF Broadcast, IInv
<1>1. CASE Full
  <2>1. TypeOK'
    BY <1>1 DEF TypeOK
  <2>2. PICK c \in subs : Len(queue[c]) >= MaxQueue
    BY <1>1 DEF Full
  <2>3. c \in Consumers /\ queue[c] # <<>>
    BY <2>2 DEF TypeOK
  <2>4. WillNotify(c)
    BY <2>2, <2>3 DEF WillNotify, ListedIsAlive, NoLostWakeup, TypeOK
  <2>5. NoLostWakeup'
    BY <1>1, <2>3, <2>4 DEF NoLostWakeup, WillNotify, TypeOK
  <2>6. BatchIsHandled' /\ ListedIsAlive'
    BY <1>1 DEF BatchIsHandled, ListedIsAlive
  <2> QED
    BY <2>1, <2>5, <2>6
<1>2. CASE ~Full
  <2> USE <1>2 DEF Enqueue, Wake
  <2>1. ASSUME NEW c \in Consumers
        PROVE  queue'[c] \in Seq(Models) /\ Len(queue'[c]) <= MaxQueue
    <3>1. CASE c \in subs
      <4>1. Len(queue[c]) < MaxQueue
        BY <3>1, LenProperties DEF Full, TypeOK
      <4>2. queue'[c] = Append(queue[c], m)
        BY <3>1
      <4> QED
        BY <4>1, <4>2, AppendProperties, LenProperties DEF TypeOK
    <3>2. CASE c \notin subs
      BY <3>2 DEF TypeOK
    <3> QED
      BY <3>1, <3>2
  <2>2. TypeOK'
    BY <2>1 DEF TypeOK
  <2>3. NoLostWakeup'
    BY DEF NoLostWakeup, TypeOK
  <2>4. BatchIsHandled'
    BY DEF BatchIsHandled, TypeOK
  <2>5. ListedIsAlive'
    BY DEF ListedIsAlive, TypeOK
  <2> QED
    BY <2>2, <2>3, <2>4, <2>5
<1> QED
  BY <1>1, <1>2

(***************************************************************************)
(* Every step keeps the invariant.                                         *)
(***************************************************************************)
LEMMA NextIInv == IInv /\ [Next]_vars => IInv'
<1> SUFFICES ASSUME IInv, [Next]_vars PROVE IInv'
  OBVIOUS
<1> USE DEF IInv
<1>1. ASSUME NEW m \in Models, Publish(m) \/ Rebroadcast(m) PROVE IInv'
  BY <1>1, BroadcastStep DEF Publish, Rebroadcast
<1>2. ASSUME NEW c \in Consumers, SubscribeTo(c) PROVE IInv'
  <2>1. TypeOK'
    BY <1>2 DEF SubscribeTo, TypeOK
  <2>2. NoLostWakeup'
    BY <1>2 DEF SubscribeTo, TypeOK, NoLostWakeup, WillNotify
  <2>3. BatchIsHandled' /\ ListedIsAlive'
    BY <1>2 DEF SubscribeTo, TypeOK, BatchIsHandled, ListedIsAlive
  <2> QED
    BY <2>1, <2>2, <2>3
<1>3. ASSUME NEW c \in Consumers, Del(c) PROVE IInv'
  <2>1. TypeOK'
    BY <1>3 DEF Del, TypeOK
  <2>2. NoLostWakeup'
    BY <1>3 DEF Del, NoLostWakeup, WillNotify
  <2>3. BatchIsHandled' /\ ListedIsAlive'
    BY <1>3 DEF Del, TypeOK, BatchIsHandled, ListedIsAlive
  <2> QED
    BY <2>1, <2>2, <2>3
<1>4. ASSUME NEW c \in Consumers, Take(c) PROVE IInv'
  <2>1. TypeOK'
    BY <1>4 DEF Take, TypeOK
  <2>2. NoLostWakeup'
    BY <1>4 DEF Take, TypeOK, NoLostWakeup, WillNotify
  <2>3. BatchIsHandled' /\ ListedIsAlive'
    BY <1>4 DEF Take, TypeOK, BatchIsHandled, ListedIsAlive
  <2> QED
    BY <2>1, <2>2, <2>3
<1>5. ASSUME NEW c \in Consumers, Wait(c) \/ Return(c) PROVE IInv'
  <2>1. TypeOK'
    BY <1>5 DEF Wait, Return, TypeOK
  <2>2. NoLostWakeup'
    BY <1>5 DEF Wait, Return, TypeOK, NoLostWakeup, WillNotify
  <2>3. BatchIsHandled' /\ ListedIsAlive'
    BY <1>5 DEF Wait, Return, TypeOK, BatchIsHandled, ListedIsAlive
  <2> QED
    BY <2>1, <2>2, <2>3
<1>6. ASSUME NEW c \in Consumers, ReadState(c) PROVE IInv'
  BY <1>6 DEF ReadState, TypeOK, NoLostWakeup, WillNotify, BatchIsHandled, ListedIsAlive, Models
<1>7. ASSUME NEW c \in Consumers, NextEvent(c) PROVE IInv'
  <2>1. Tail(pending[c]) \in Seq(Models) /\ Tail(pending[c]) # <<>>
    <3>1. pending[c] \in Seq(Models) /\ Len(pending[c]) > 1
      BY <1>7 DEF NextEvent, TypeOK
    <3> QED
      BY <3>1, MoreIsLeft
  <2>2. TypeOK'
    BY <1>7, <2>1 DEF NextEvent, TypeOK, First
  <2>3. NoLostWakeup'
    BY <1>7 DEF NextEvent, NoLostWakeup, WillNotify
  <2>4. BatchIsHandled' /\ ListedIsAlive'
    BY <1>7, <2>1 DEF NextEvent, TypeOK, BatchIsHandled, ListedIsAlive
  <2> QED
    BY <2>2, <2>3, <2>4
<1>8. ASSUME NEW c \in Consumers, BatchDone(c) PROVE IInv'
  <2> USE DEF Wake
  <2>1. TypeOK'
    BY <1>8 DEF BatchDone, TypeOK, First
  <2>2. NoLostWakeup'
    BY <1>8 DEF BatchDone, TypeOK, NoLostWakeup
  <2>3. BatchIsHandled' /\ ListedIsAlive'
    BY <1>8 DEF BatchDone, TypeOK, BatchIsHandled, ListedIsAlive
  <2> QED
    BY <2>1, <2>2, <2>3
<1>9. CASE UNCHANGED vars
  BY <1>9 DEF vars, TypeOK, NoLostWakeup, WillNotify, BatchIsHandled, ListedIsAlive
<1> QED
  BY <1>1, <1>2, <1>3, <1>4, <1>5, <1>6, <1>7, <1>8, <1>9 DEF Next, ListenStep

\* The inductive invariant holds in every state of the dispatcher.
THEOREM Invariance == Spec => []IInv
BY InitIInv, NextIInv, PTL DEF Spec

\* No wakeup is lost in Listen and Broadcast, and every queue stays within maxQueue.
THEOREM WakeupSafety == Spec => [](TypeOK /\ NoLostWakeup)
BY Invariance, PTL DEF IInv

(***************************************************************************)
(* The dispatcher implements EventBus: unseen events are the rest of the   *)
(* batch followed by the queue.                                            *)
(***************************************************************************)
LEMMA InitBus == Init => Bus!Init
<1> SUFFICES ASSUME Init PROVE Bus!Init
  OBVIOUS
<1>1. <<>> \o <<>> = <<>>
  BY EmptySeq, ConcatEmptySeq
<1> QED
  BY <1>1 DEF Init, Bus!Init

\* An event that gets room is published to all consumers on the list at once.
LEMMA BroadcastBus ==
    ASSUME IInv, NEW m \in Models, Broadcast(m)
    PROVE  [Bus!Next]_(Bus!vars)
<1>1. CASE Full
  BY <1>1 DEF Broadcast, Bus!vars
<1>2. CASE ~Full
  <2>1. ASSUME NEW c \in Consumers
        PROVE  pending'[c] \o queue'[c]
                 = IF c \in subs THEN Append(pending[c] \o queue[c], m) ELSE pending[c] \o queue[c]
    <3>1. queue[c] \in Seq(Models) /\ pending[c] \in Seq(Models) /\ m \in Models
      BY DEF IInv, TypeOK
    <3>2. pending[c] \o Append(queue[c], m) = Append(pending[c] \o queue[c], m)
      <4> DEFINE s == pending[c]
                 t == queue[c]
      <4>1. s \in Seq(Models) /\ t \in Seq(Models) /\ m \in Models
        BY <3>1
      <4> HIDE DEF s, t
      <4>2. s \o Append(t, m) = Append(s \o t, m)
        BY <4>1, EnqueuedLast
      <4> QED
        BY <4>2 DEF s, t
    <3>3. /\ pending' = pending
          /\ queue'[c] = IF c \in subs THEN Append(queue[c], m) ELSE queue[c]
      BY <1>2 DEF Broadcast, Enqueue
    <3> QED
      BY <3>2, <3>3
  <2>2. Bus!Publish(m)
    BY <1>2, <2>1 DEF Broadcast, Enqueue, Bus!Publish
  <2> QED
    BY <2>2 DEF Bus!Next
<1> QED
  BY <1>1, <1>2

\* A consumer whose handler returns has seen its first unseen event (NextEvent, BatchDone).
LEMMA ReturnBus ==
    ASSUME IInv, NEW c \in Consumers, pending[c] # <<>>,
           pending' = [pending EXCEPT ![c] = Tail(@)],
           UNCHANGED <<subs, queue>>
    PROVE  Bus!Deliver(c)
<1>1. /\ pending[c] \o queue[c] # <<>>
      /\ Tail(pending[c]) \o queue[c] = Tail(pending[c] \o queue[c])
  <2>1. pending[c] \in Seq(Models) /\ queue[c] \in Seq(Models)
    BY DEF IInv, TypeOK
  <2> QED
    BY <2>1, HandledFirst
<1>2. /\ pending'[c] = Tail(pending[c]) /\ queue' = queue
      /\ \A d \in Consumers : d # c => pending'[d] = pending[d]
  BY DEF IInv, TypeOK
<1>3. \A d \in Consumers :
         pending'[d] \o queue'[d] = IF d = c THEN Tail(pending[c] \o queue[c])
                                  ELSE pending[d] \o queue[d]
  BY ONLY <1>1, <1>2
<1> DEFINE left == [d \in Consumers |-> pending[d] \o queue[d]]
<1>4. [d \in Consumers |-> pending'[d] \o queue'[d]] = [left EXCEPT ![c] = Tail(@)]
  BY ONLY <1>3, c \in Consumers
<1> QED
  BY <1>1, <1>4 DEF Bus!Deliver

\* Every step of the dispatcher is a step of the bus or changes nothing it can see.
LEMMA NextBus == IInv /\ [Next]_vars => [Bus!Next]_(Bus!vars)
<1> SUFFICES ASSUME IInv, [Next]_vars PROVE [Bus!Next]_(Bus!vars)
  OBVIOUS
<1>1. ASSUME NEW m \in Models, Publish(m) \/ Rebroadcast(m) PROVE [Bus!Next]_(Bus!vars)
  BY <1>1, BroadcastBus DEF Publish, Rebroadcast
<1>2. ASSUME NEW c \in Consumers, SubscribeTo(c) PROVE Bus!Next
  <2>1. pending[c] = <<>> /\ queue[c] = <<>> /\ c \notin subs
    BY <1>2 DEF SubscribeTo, IInv, BatchIsHandled, ListedIsAlive
  <2>2. pending[c] \o queue[c] = <<>>
    BY <2>1, EmptySeq, ConcatEmptySeq
  <2>3. Bus!Subscribe(c)
    BY <1>2, <2>1, <2>2 DEF SubscribeTo, Bus!Subscribe
  <2> QED
    BY <2>3 DEF Bus!Next
<1>3. ASSUME NEW c \in Consumers, Del(c) PROVE Bus!Next
  BY <1>3 DEF Del, Bus!Next, Bus!Unsubscribe
<1>4. ASSUME NEW c \in Consumers, Take(c) PROVE UNCHANGED Bus!vars
  <2>1. pending[c] = <<>> /\ queue[c] \in Seq(Models)
    BY <1>4 DEF Take, IInv, BatchIsHandled, TypeOK
  <2>2. pending[c] \o queue[c] = queue[c] \o <<>>
    BY <2>1, ConcatEmptySeq
  <2>3. \A d \in Consumers : pending'[d] \o queue'[d] = pending[d] \o queue[d]
    BY <1>4, <2>1, <2>2 DEF Take, IInv, TypeOK
  <2> QED
    BY <1>4, <2>3 DEF Take, Bus!vars
<1>5. ASSUME NEW c \in Consumers, Wait(c) \/ Return(c) \/ ReadState(c) PROVE UNCHANGED Bus!vars
  BY <1>5 DEF Wait, Return, ReadState, Bus!vars
<1>6. ASSUME NEW c \in Consumers, NextEvent(c) PROVE Bus!Next
  <2>1. pending[c] # <<>>
    BY <1>6 DEF NextEvent, IInv, BatchIsHandled
  <2>2. Bus!Deliver(c)
    BY <1>6, <2>1, ReturnBus DEF NextEvent
  <2> QED
    BY <2>2 DEF Bus!Next
<1>7. ASSUME NEW c \in Consumers, BatchDone(c) PROVE Bus!Next
  <2>1. pending[c] # <<>> /\ pending[c] \in Seq(Models) /\ Len(pending[c]) = 1
    BY <1>7 DEF BatchDone, IInv, BatchIsHandled, TypeOK
  <2>2. Tail(pending[c]) = <<>>
    <3>1. Tail(pending[c]) \in Seq(Models) /\ Len(Tail(pending[c])) = Len(pending[c]) - 1
      BY <2>1, HeadTailProperties
    <3>2. Len(Tail(pending[c])) = 0
      BY <2>1, <3>1
    <3> QED
      BY <3>1, <3>2, EmptySeq
  <2>3. Bus!Deliver(c)
    BY <1>7, <2>1, <2>2, ReturnBus DEF BatchDone
  <2> QED
    BY <2>3 DEF Bus!Next
<1>8. CASE UNCHANGED vars
  BY <1>8 DEF vars, Bus!vars
<1> QED
  BY <1>1, <1>2, <1>3, <1>4, <1>5, <1>6, <1>7, <1>8 DEF Next, ListenStep

\* Whatever queue swaps, backpressure and removals do, subscribers see every event of
\* their time on the list once and in order: the dispatcher of event.go implements EventBus.
THEOREM Refinement == Spec => ImplementsBus
<1>1. Spec => Bus!Init /\ [][Bus!Next]_(Bus!vars)
  BY InitBus, NextBus, Invariance, PTL DEF Spec
<1> QED
  BY <1>1 DEF ImplementsBus, Bus!Spec
-----------------------------------------------------------------------------
(***************************************************************************)
(* The log monitor and its streams.                                        *)
(*                                                                         *)
(* HistoryIsTheTail follows from RingInv: the i-th newest byte is at a     *)
(* place that depends on the head alone, and Write keeps it so in each of  *)
(* its three cases.  NothingGoesPast follows from StreamInv: a handler     *)
(* that follows the log is on the dispatcher's list, and each step only    *)
(* moves a chunk from one of the places where it is accounted for to the   *)
(* next.                                                                   *)
(***************************************************************************)
HIDE DispatcherAssumption

\* Where the i-th newest byte of a buffer is, by its head.
LatestAt(head, i) == IF i <= head THEN head - i ELSE head - i + Cap

\* The buffer holds the newest bytes of s: all of them until it is full.
RingHolds(cb, s) ==
    /\ cb.size = IF Len(s) > Cap THEN Cap ELSE Len(s)
    /\ cb.size < Cap => cb.head = cb.size
    /\ \A i \in 1 .. cb.size : cb.data[LatestAt(cb.head, i)] = s[Len(s) + 1 - i]

(***************************************************************************)
(* The circular buffer, for any capacity.                                  *)
(***************************************************************************)
LEMMA SmallMod ==
    ASSUME NEW x \in 0 .. Cap + Cap - 1
    PROVE  x % Cap = IF x < Cap THEN x ELSE x - Cap
<1>1. Cap \in Nat \ {0}
  BY LogAssumption
<1>2. CASE x < Cap
  BY <1>1, <1>2
<1>3. CASE x >= Cap
  <2>1. x - Cap \in 0 .. Cap - 1 /\ x = Cap * 1 + (x - Cap)
    BY <1>1, <1>3
  <2> QED
    BY <1>1, <1>3, <2>1
<1> QED
  BY <1>1, <1>2, <1>3

LEMMA NextHead ==
    ASSUME NEW h \in 0 .. Cap - 1, NEW n \in Nat, h + n <= Cap
    PROVE  (h + n) % Cap = IF h + n < Cap THEN h + n ELSE 0
<1> DEFINE x == h + n
<1>1. Cap \in Nat \ {0}
  BY LogAssumption
<1>2. x \in 0 .. Cap + Cap - 1 /\ x <= Cap
  BY <1>1
<1> HIDE DEF x
<1>3. x % Cap = IF x < Cap THEN x ELSE x - Cap
  BY <1>2, SmallMod, Zenon
<1>4. x % Cap = IF x < Cap THEN x ELSE 0
  BY <1>1, <1>2, <1>3
<1> QED
  BY <1>4 DEF x

\* copy(data[at:], p) changes the positions from at on.
LEMMA CopyAt ==
    ASSUME NEW data \in [0 .. Cap - 1 -> Chars \cup {None}], NEW at \in Nat, NEW p \in Seq(Chars),
           at + Len(p) <= Cap
    PROVE  /\ Copy(data, at, p) \in [0 .. Cap - 1 -> Chars \cup {None}]
           /\ \A j \in 0 .. Cap - 1 :
                 Copy(data, at, p)[j] = IF j \in at .. at + Len(p) - 1 THEN p[j - at + 1] ELSE data[j]
<1>1. Len(p) \in Nat /\ \A k \in 1 .. Len(p) : p[k] \in Chars
  BY LenProperties, ElementOfSeq
<1>2. \A j \in 0 .. Cap - 1 : j \in at .. at + Len(p) - 1 => j - at + 1 \in 1 .. Len(p)
  BY <1>1
<1> QED
  BY <1>1, <1>2 DEF Copy

\* What the buffer holds of s \o p, in the terms of s and p.
LEMMA NewestOfConcat ==
    ASSUME NEW s \in Seq(Chars), NEW p \in Seq(Chars), NEW i \in 1 .. Len(s) + Len(p)
    PROVE  (s \o p)[Len(s \o p) + 1 - i] =
              IF i <= Len(p) THEN p[Len(p) + 1 - i] ELSE s[Len(s) + 1 - (i - Len(p))]
<1>1. /\ Len(s) \in Nat /\ Len(p) \in Nat
      /\ Len(s \o p) = Len(s) + Len(p)
      /\ \A k \in 1 .. Len(s) + Len(p) :
            (s \o p)[k] = IF k <= Len(s) THEN s[k] ELSE p[k - Len(s)]
  BY LenProperties, ConcatProperties
<1>2. Len(s) + Len(p) + 1 - i \in 1 .. Len(s) + Len(p)
  BY <1>1
<1>3. CASE i <= Len(p)
  <2>1. ~(Len(s) + Len(p) + 1 - i <= Len(s))
        /\ Len(s) + Len(p) + 1 - i - Len(s) = Len(p) + 1 - i
    BY <1>1, <1>3
  <2> QED
    BY <1>1, <1>2, <1>3, <2>1
<1>4. CASE ~(i <= Len(p))
  <2>1. Len(s) + Len(p) + 1 - i <= Len(s)
        /\ Len(s) + Len(p) + 1 - i = Len(s) + 1 - (i - Len(p))
    BY <1>1, <1>4
  <2> QED
    BY <1>1, <1>2, <1>4, <2>1
<1> QED
  BY <1>3, <1>4


(***************************************************************************)
(* The three ways of Write, by numbers: a buffer with head h and size z,   *)
(* data d, takes n more bytes p, and has head h2, size z2 and data d2 then.*)
(***************************************************************************)
\* The newest bytes of d are those of s, which has len; those of p, which has n, then
\* those of s.
NewestAre(d, h, z, s, len) == \A i \in 1 .. z : d[LatestAt(h, i)] = s[len + 1 - i]
NewestAreBoth(d, h, z, p, n, s, len) ==
    \A i \in 1 .. z : d[LatestAt(h, i)] = IF i <= n THEN p[n + 1 - i] ELSE s[len + 1 - (i - n)]

\* p fills the whole buffer, fits before the end, or wraps around it.
FilledWith(d2, p, n) == \A j \in 0 .. Cap - 1 : d2[j] = p[n - Cap + (j + 1)]
Fits(h, z, n, h2, z2) ==
    /\ n < Cap /\ h + n <= Cap /\ (z < Cap => h = z)
    /\ h2 = IF h + n < Cap THEN h + n ELSE 0
    /\ z2 = IF z + n > Cap THEN Cap ELSE z + n
PutWithin(d2, d, h, p, n) ==
    \A j \in 0 .. Cap - 1 : d2[j] = IF j \in h .. h + n - 1 THEN p[j - h + 1] ELSE d[j]
Wraps(h, z, n, h2, z2) ==
    /\ n < Cap /\ h + n > Cap /\ (z < Cap => h = z)
    /\ h2 = n - (Cap - h)
    /\ z2 = IF z + n > Cap THEN Cap ELSE z + n
PutAround(d2, d, h, p, n) ==
    \A j \in 0 .. Cap - 1 :
        d2[j] = IF j \in 0 .. n - (Cap - h) - 1 THEN p[Cap - h + (j + 1)]
                ELSE IF j \in h .. Cap - 1 THEN p[j - h + 1] ELSE d[j]

LEMMA WriteAll ==
    ASSUME NEW n \in Nat, n >= Cap, NEW d2, NEW p, NEW s, NEW len, FilledWith(d2, p, n)
    PROVE  NewestAreBoth(d2, 0, Cap, p, n, s, len)
<1> SUFFICES ASSUME NEW i \in 1 .. Cap
             PROVE  i <= n /\ d2[LatestAt(0, i)] = p[n + 1 - i]
  BY DEF NewestAreBoth
<1>1. Cap \in Nat \ {0}
  BY LogAssumption
<1>2. LatestAt(0, i) = Cap - i /\ i <= n /\ Cap - i \in 0 .. Cap - 1
      /\ n - Cap + ((Cap - i) + 1) = n + 1 - i
  BY <1>1 DEF LatestAt
<1>3. d2[Cap - i] = p[n - Cap + ((Cap - i) + 1)]
  BY <1>2 DEF FilledWith
<1> QED
  BY <1>2, <1>3

LEMMA WriteWithin ==
    ASSUME NEW h \in 0 .. Cap - 1, NEW z \in 0 .. Cap, NEW n \in Nat, NEW len \in Nat,
           NEW h2, NEW z2, NEW d, NEW d2, NEW p, NEW s,
           Fits(h, z, n, h2, z2), NewestAre(d, h, z, s, len), PutWithin(d2, d, h, p, n)
    PROVE  /\ h2 \in 0 .. Cap - 1 /\ z2 \in 0 .. Cap
           /\ z2 < Cap => h2 = z2
           /\ NewestAreBoth(d2, h2, z2, p, n, s, len)
<1> USE DEF Fits
<1>0. Cap \in Nat \ {0}
  BY LogAssumption
<1>1. h2 \in 0 .. Cap - 1 /\ z2 \in 0 .. Cap /\ (z2 < Cap => h2 = z2)
  BY <1>0
<1>2. ASSUME NEW i \in 1 .. z2, i <= n
      PROVE  d2[LatestAt(h2, i)] = p[n + 1 - i]
  <2>1. LatestAt(h2, i) = h + n - i /\ h + n - i \in 0 .. Cap - 1
        /\ h + n - i \in h .. h + n - 1 /\ h + n - i - h + 1 = n + 1 - i
    BY <1>0, <1>1, <1>2 DEF LatestAt
  <2>2. d2[h + n - i] = p[h + n - i - h + 1]
    BY <2>1 DEF PutWithin
  <2> QED
    BY <2>1, <2>2
<1>3. ASSUME NEW i \in 1 .. z2, ~(i <= n)
      PROVE  d2[LatestAt(h2, i)] = s[len + 1 - (i - n)]
  <2> DEFINE at == LatestAt(h, i - n)
  <2>1. i - n \in 1 .. z
    BY <1>0, <1>1, <1>3
  <2>2. LatestAt(h2, i) = at
    BY <1>0, <1>1, <1>3 DEF LatestAt
  <2>3. at \in 0 .. Cap - 1 /\ ~(at \in h .. h + n - 1)
    BY <1>0, <1>1, <1>3 DEF LatestAt
  <2>4. d[at] = s[len + 1 - (i - n)]
    BY <2>1 DEF NewestAre
  <2> HIDE DEF at
  <2>5. d2[at] = d[at]
    BY <2>3 DEF PutWithin
  <2> QED
    BY <2>2, <2>4, <2>5
<1> QED
  BY <1>1, <1>2, <1>3 DEF NewestAreBoth

LEMMA WriteAround ==
    ASSUME NEW h \in 0 .. Cap - 1, NEW z \in 0 .. Cap, NEW n \in Nat, NEW len \in Nat,
           NEW h2, NEW z2, NEW d, NEW d2, NEW p, NEW s,
           Wraps(h, z, n, h2, z2), NewestAre(d, h, z, s, len), PutAround(d2, d, h, p, n)
    PROVE  /\ h2 \in 0 .. Cap - 1 /\ z2 \in 0 .. Cap
           /\ z2 < Cap => h2 = z2
           /\ NewestAreBoth(d2, h2, z2, p, n, s, len)
<1> USE DEF Wraps
<1>0. Cap \in Nat \ {0}
  BY LogAssumption
<1>1. h2 \in 0 .. Cap - 1 /\ z2 = Cap /\ h2 < h
  BY <1>0
<1>2. ASSUME NEW i \in 1 .. z2, i <= h2
      PROVE  i <= n /\ d2[LatestAt(h2, i)] = p[n + 1 - i]
  <2>1. LatestAt(h2, i) = h2 - i /\ h2 - i \in 0 .. Cap - 1 /\ i <= n
        /\ h2 - i \in 0 .. n - (Cap - h) - 1 /\ Cap - h + ((h2 - i) + 1) = n + 1 - i
    BY <1>0, <1>1, <1>2 DEF LatestAt
  <2>2. d2[h2 - i] = p[Cap - h + ((h2 - i) + 1)]
    BY <2>1 DEF PutAround
  <2> QED
    BY <2>1, <2>2
<1>3. ASSUME NEW i \in 1 .. z2, ~(i <= h2), i <= n
      PROVE  d2[LatestAt(h2, i)] = p[n + 1 - i]
  <2>1. LatestAt(h2, i) = h + n - i /\ h + n - i \in 0 .. Cap - 1
        /\ ~(h + n - i \in 0 .. n - (Cap - h) - 1)
        /\ h + n - i \in h .. Cap - 1 /\ h + n - i - h + 1 = n + 1 - i
    BY <1>0, <1>1, <1>3 DEF LatestAt
  <2>2. d2[h + n - i] = p[h + n - i - h + 1]
    BY <2>1 DEF PutAround
  <2> QED
    BY <2>1, <2>2
<1>4. ASSUME NEW i \in 1 .. z2, ~(i <= n)
      PROVE  d2[LatestAt(h2, i)] = s[len + 1 - (i - n)]
  <2> DEFINE at == LatestAt(h, i - n)
  <2>1. i - n \in 1 .. z /\ i - n <= h
    BY <1>0, <1>1, <1>4
  <2>2. LatestAt(h2, i) = at
    BY <1>0, <1>1, <1>4, <2>1 DEF LatestAt
  <2>3. at \in 0 .. Cap - 1 /\ ~(at \in 0 .. n - (Cap - h) - 1) /\ ~(at \in h .. Cap - 1)
    BY <1>0, <1>1, <1>4, <2>1 DEF LatestAt
  <2>4. d[at] = s[len + 1 - (i - n)]
    BY <2>1 DEF NewestAre
  <2> HIDE DEF at
  <2>5. d2[at] = d[at]
    BY <2>3 DEF PutAround
  <2> QED
    BY <2>2, <2>4, <2>5
<1>5. z2 \in 0 .. Cap /\ ~(z2 < Cap)
  BY <1>0, <1>1
<1> QED
  BY <1>1, <1>2, <1>3, <1>4, <1>5 DEF NewestAreBoth

(***************************************************************************)
(* Write appends to what the buffer holds, whatever the length of the      *)
(* chunk and wherever it wraps around.                                     *)
(***************************************************************************)
\* A buffer holds s \o p when its newest bytes are those of p, then those of s.
LEMMA HoldsBoth ==
    ASSUME NEW s \in Seq(Chars), NEW p \in Seq(Chars), NEW data, NEW head, NEW size,
           size = IF Len(s) + Len(p) > Cap THEN Cap ELSE Len(s) + Len(p),
           size < Cap => head = size,
           NewestAreBoth(data, head, size, p, Len(p), s, Len(s))
    PROVE  RingHolds([data |-> data, head |-> head, size |-> size], s \o p)
<1> DEFINE new == [data |-> data, head |-> head, size |-> size]
<1>1. Cap \in Nat /\ Len(s) \in Nat /\ Len(p) \in Nat /\ Len(s \o p) = Len(s) + Len(p)
  BY LogAssumption, LenProperties, ConcatProperties
<1>2. \A i \in 1 .. size : i \in 1 .. Len(s) + Len(p)
  BY <1>1
<1>3. \A i \in 1 .. size : data[LatestAt(head, i)] = (s \o p)[Len(s \o p) + 1 - i]
  BY <1>2, NewestOfConcat DEF NewestAreBoth
<1>4. new.data = data /\ new.head = head /\ new.size = size
  OBVIOUS
<1> HIDE DEF new
<1>5. RingHolds(new, s \o p)
  BY <1>1, <1>3, <1>4 DEF RingHolds
<1> QED
  BY <1>5 DEF new

\* The bytes of p from a to b, by their places.
IsSlice(t, p, a, b) ==
    /\ t \in Seq(Chars) /\ Len(t) = b - a
    /\ \A k \in 1 .. b - a : t[k] = p[a + k]

LEMMA Slice ==
    ASSUME NEW p \in Seq(Chars), NEW a \in Nat, NEW b \in Nat, a <= b, b <= Len(p),
           NEW t, t = SubSeq(p, a + 1, b)
    PROVE  IsSlice(t, p, a, b)
<1>1. Len(p) \in Nat /\ \A k \in 1 .. Len(p) : p[k] \in Chars
  BY LenProperties, ElementOfSeq
<1>2. a + 1 \in Int /\ b \in Int /\ \A k \in a + 1 .. b : p[k] \in Chars
  BY <1>1
<1>3. /\ SubSeq(p, a + 1, b) \in Seq(Chars)
      /\ Len(SubSeq(p, a + 1, b)) = IF a + 1 <= b THEN b - (a + 1) + 1 ELSE 0
      /\ \A k \in 1 .. b - (a + 1) + 1 : SubSeq(p, a + 1, b)[k] = p[a + 1 + k - 1]
  BY <1>2, SubSeqProperties
<1>4. /\ (IF a + 1 <= b THEN b - (a + 1) + 1 ELSE 0) = b - a
      /\ \A k \in 1 .. b - a : k \in 1 .. b - (a + 1) + 1 /\ a + 1 + k - 1 = a + k
  OBVIOUS
<1> QED
  BY <1>3, <1>4 DEF IsSlice

\* The fields of a buffer, in the terms of the lemmas above.
LEMMA RingFields ==
    ASSUME NEW cb \in Rings, NEW s \in Seq(Chars), NEW p \in Seq(Chars), RingHolds(cb, s)
    PROVE  /\ Cap \in Nat \ {0} /\ Len(p) \in Nat /\ Len(s) \in Nat
           /\ cb.head \in 0 .. Cap - 1 /\ cb.size \in 0 .. Cap
           /\ cb.data \in [0 .. Cap - 1 -> Chars \cup {None}]
           /\ cb.size < Cap => cb.head = cb.size
           /\ cb.size = IF Len(s) > Cap THEN Cap ELSE Len(s)
           /\ NewestAre(cb.data, cb.head, cb.size, s, Len(s))
BY LogAssumption, LenProperties DEF Rings, RingHolds, NewestAre

LEMMA WriteRingAll ==
    ASSUME NEW cb \in Rings, NEW s \in Seq(Chars), NEW p \in Seq(Chars), RingHolds(cb, s),
           Len(p) >= Cap
    PROVE  WriteRing(cb, p) \in Rings /\ RingHolds(WriteRing(cb, p), s \o p)
<1> DEFINE last == SubSeq(p, Len(p) - Cap + 1, Len(p))
           data == Copy(cb.data, 0, last)
<1>1. /\ Cap \in Nat \ {0} /\ Len(p) \in Nat /\ Len(s) \in Nat
      /\ cb.data \in [0 .. Cap - 1 -> Chars \cup {None}]
  BY RingFields
<1>2. WriteRing(cb, p) = [data |-> data, head |-> 0, size |-> Cap]
  BY DEF WriteRing
<1>3. Len(p) - Cap \in Nat /\ Len(p) - Cap <= Len(p) /\ Len(p) - (Len(p) - Cap) = Cap
  BY <1>1
<1>4. /\ last \in Seq(Chars) /\ Len(last) = Cap
      /\ \A k \in 1 .. Cap : last[k] = p[Len(p) - Cap + k]
  <2>1. last = SubSeq(p, (Len(p) - Cap) + 1, Len(p)) /\ Len(p) <= Len(p)
    BY <1>1
  <2> HIDE DEF last
  <2>2. IsSlice(last, p, Len(p) - Cap, Len(p))
    BY <1>1, <1>3, <2>1, Slice
  <2> QED
    BY <1>3, <2>2 DEF IsSlice
<1> HIDE DEF last
<1>5. 0 \in Nat /\ 0 + Len(last) <= Cap
  BY <1>1, <1>4
<1>6. /\ data \in [0 .. Cap - 1 -> Chars \cup {None}]
      /\ \A j \in 0 .. Cap - 1 :
            data[j] = IF j \in 0 .. 0 + Len(last) - 1 THEN last[j - 0 + 1] ELSE cb.data[j]
  <2>1. cb.data \in [0 .. Cap - 1 -> Chars \cup {None}] /\ last \in Seq(Chars)
    BY <1>1, <1>4
  <2> QED
    BY ONLY <2>1, <1>5, CopyAt
<1> HIDE DEF data
<1>7. \A j \in 0 .. Cap - 1 : /\ j \in 0 .. 0 + Len(last) - 1 /\ j - 0 + 1 = j + 1
                              /\ j + 1 \in 1 .. Cap
  BY <1>1, <1>4
<1>8. FilledWith(data, p, Len(p))
  BY <1>4, <1>6, <1>7 DEF FilledWith
<1>9. NewestAreBoth(data, 0, Cap, p, Len(p), s, Len(s))
  BY <1>1, <1>8, WriteAll
<1>10. Cap = IF Len(s) + Len(p) > Cap THEN Cap ELSE Len(s) + Len(p)
  BY <1>1
<1>11. ~(Cap < Cap) /\ 0 \in 0 .. Cap - 1 /\ Cap \in 0 .. Cap
  BY <1>1
<1>12. RingHolds([data |-> data, head |-> 0, size |-> Cap], s \o p)
  BY <1>9, <1>10, <1>11, HoldsBoth
<1>13. [data |-> data, head |-> 0, size |-> Cap] \in Rings
  BY <1>6, <1>11 DEF Rings
<1> QED
  BY <1>2, <1>12, <1>13

LEMMA WriteRingWithin ==
    ASSUME NEW cb \in Rings, NEW s \in Seq(Chars), NEW p \in Seq(Chars), RingHolds(cb, s),
           Len(p) < Cap, Cap - cb.head >= Len(p)
    PROVE  WriteRing(cb, p) \in Rings /\ RingHolds(WriteRing(cb, p), s \o p)
<1> DEFINE data == Copy(cb.data, cb.head, p)
           head == (cb.head + Len(p)) % Cap
           size == IF cb.size + Len(p) > Cap THEN Cap ELSE cb.size + Len(p)
<1>1. /\ Cap \in Nat \ {0} /\ Len(p) \in Nat /\ Len(s) \in Nat
      /\ cb.head \in 0 .. Cap - 1 /\ cb.size \in 0 .. Cap
      /\ cb.data \in [0 .. Cap - 1 -> Chars \cup {None}]
      /\ cb.size < Cap => cb.head = cb.size
      /\ cb.size = IF Len(s) > Cap THEN Cap ELSE Len(s)
      /\ NewestAre(cb.data, cb.head, cb.size, s, Len(s))
  BY RingFields
<1>2. ~(Len(p) >= Cap)
  BY <1>1
<1>3. WriteRing(cb, p) = [data |-> data, head |-> head, size |-> size]
  BY <1>2 DEF WriteRing
<1>4. cb.head + Len(p) \in 0 .. Cap + Cap - 1 /\ cb.head \in Nat /\ cb.head + Len(p) <= Cap
  BY <1>1
<1>5. head = IF cb.head + Len(p) < Cap THEN cb.head + Len(p) ELSE 0
  BY <1>1, <1>4, NextHead
<1>6. /\ data \in [0 .. Cap - 1 -> Chars \cup {None}]
      /\ PutWithin(data, cb.data, cb.head, p, Len(p))
  BY <1>1, <1>4, CopyAt DEF PutWithin
<1> HIDE DEF data, head
<1>8. size = IF Len(s) + Len(p) > Cap THEN Cap ELSE Len(s) + Len(p)
  BY <1>1
<1> HIDE DEF size
<1>9. /\ head \in 0 .. Cap - 1 /\ size \in 0 .. Cap
      /\ size < Cap => head = size
      /\ NewestAreBoth(data, head, size, p, Len(p), s, Len(s))
  <2>1. size = IF cb.size + Len(p) > Cap THEN Cap ELSE cb.size + Len(p)
    BY DEF size
  <2>2. /\ cb.head \in 0 .. Cap - 1 /\ cb.size \in 0 .. Cap
        /\ Len(p) \in Nat /\ Len(s) \in Nat
    BY <1>1
  <2>3. Fits(cb.head, cb.size, Len(p), head, size)
    BY <1>1, <1>4, <1>5, <2>1 DEF Fits
  <2>4. NewestAre(cb.data, cb.head, cb.size, s, Len(s)) /\ PutWithin(data, cb.data, cb.head, p, Len(p))
    BY <1>1, <1>6
  <2> QED
    BY ONLY <2>2, <2>3, <2>4, WriteWithin
<1>10. RingHolds([data |-> data, head |-> head, size |-> size], s \o p)
  BY <1>8, <1>9, HoldsBoth
<1>11. [data |-> data, head |-> head, size |-> size] \in Rings
  BY <1>6, <1>9 DEF Rings
<1> QED
  BY <1>3, <1>10, <1>11

LEMMA WriteRingAround ==
    ASSUME NEW cb \in Rings, NEW s \in Seq(Chars), NEW p \in Seq(Chars), RingHolds(cb, s),
           Len(p) < Cap, ~(Cap - cb.head >= Len(p))
    PROVE  WriteRing(cb, p) \in Rings /\ RingHolds(WriteRing(cb, p), s \o p)
<1> DEFINE first == Cap - cb.head
           front == SubSeq(p, 1, first)
           rest == SubSeq(p, first + 1, Len(p))
           written == Copy(cb.data, cb.head, front)
           data == Copy(written, 0, rest)
           head == Len(p) - first
           size == IF cb.size + Len(p) > Cap THEN Cap ELSE cb.size + Len(p)
<1>1. /\ Cap \in Nat \ {0} /\ Len(p) \in Nat /\ Len(s) \in Nat
      /\ cb.head \in 0 .. Cap - 1 /\ cb.size \in 0 .. Cap
      /\ cb.data \in [0 .. Cap - 1 -> Chars \cup {None}]
      /\ cb.size < Cap => cb.head = cb.size
      /\ cb.size = IF Len(s) > Cap THEN Cap ELSE Len(s)
      /\ NewestAre(cb.data, cb.head, cb.size, s, Len(s))
  BY RingFields
<1>2. ~(Len(p) >= Cap)
  BY <1>1
<1>3. WriteRing(cb, p) = [data |-> data, head |-> head, size |-> size]
  BY <1>2 DEF WriteRing
<1>4. /\ first \in Nat /\ first <= Len(p) /\ first = Cap - cb.head
      /\ cb.head \in Nat /\ cb.head + first = Cap
  BY <1>1
<1> HIDE DEF first
<1>5. front \in Seq(Chars) /\ Len(front) = first /\ \A k \in 1 .. first : front[k] = p[k]
  <2>1. front = SubSeq(p, 0 + 1, first) /\ 0 \in Nat /\ 0 <= first
    BY <1>4
  <2> HIDE DEF front
  <2>2. IsSlice(front, p, 0, first)
    BY <1>4, <2>1, Slice
  <2> QED
    BY <1>4, <2>2 DEF IsSlice
<1>6. /\ rest \in Seq(Chars) /\ Len(rest) = Len(p) - first
      /\ \A k \in 1 .. Len(p) - first : rest[k] = p[first + k]
  <2>1. rest = SubSeq(p, first + 1, Len(p)) /\ Len(p) <= Len(p)
    BY <1>1
  <2> HIDE DEF rest
  <2>2. IsSlice(rest, p, first, Len(p))
    BY <1>1, <1>4, <2>1, Slice
  <2> QED
    BY <2>2 DEF IsSlice
<1> HIDE DEF front, rest
<1>7. /\ written \in [0 .. Cap - 1 -> Chars \cup {None}]
      /\ \A j \in 0 .. Cap - 1 :
            written[j] = IF j \in cb.head .. Cap - 1 THEN p[j - cb.head + 1] ELSE cb.data[j]
  <2>1. cb.head + Len(front) <= Cap
    BY <1>1, <1>4, <1>5
  <2>2. /\ written \in [0 .. Cap - 1 -> Chars \cup {None}]
        /\ \A j \in 0 .. Cap - 1 :
              written[j] = IF j \in cb.head .. cb.head + Len(front) - 1
                           THEN front[j - cb.head + 1] ELSE cb.data[j]
    BY <1>1, <1>4, <1>5, <2>1, CopyAt
  <2> HIDE DEF written
  <2>3. cb.head + Len(front) - 1 = Cap - 1
        /\ \A j \in cb.head .. Cap - 1 : j - cb.head + 1 \in 1 .. first
    <3>1. Len(front) = first
      BY <1>5
    <3>2. cb.head + first - 1 = Cap - 1
      BY ONLY <1>4
    <3>3. \A j \in cb.head .. Cap - 1 : j - cb.head + 1 \in 1 .. first
      BY ONLY <1>4
    <3> QED
      BY ONLY <3>1, <3>2, <3>3
  <2>4. \A j \in cb.head .. Cap - 1 : front[j - cb.head + 1] = p[j - cb.head + 1]
    BY ONLY <1>5, <2>3
  <2>5. \A j \in 0 .. Cap - 1 :
           written[j] = IF j \in cb.head .. Cap - 1 THEN front[j - cb.head + 1] ELSE cb.data[j]
    BY ONLY <2>2, <2>3
  <2> QED
    BY ONLY <2>2, <2>4, <2>5
<1> HIDE DEF written
<1>8. /\ data \in [0 .. Cap - 1 -> Chars \cup {None}]
      /\ PutAround(data, cb.data, cb.head, p, Len(p))
  <2>1. 0 \in Nat /\ 0 + Len(rest) <= Cap
    BY <1>1, <1>4, <1>6
  <2>2. /\ data \in [0 .. Cap - 1 -> Chars \cup {None}]
        /\ \A j \in 0 .. Cap - 1 :
              data[j] = IF j \in 0 .. 0 + Len(rest) - 1 THEN rest[j - 0 + 1] ELSE written[j]
    BY <1>6, <1>7, <2>1, CopyAt
  <2> HIDE DEF data
  <2>3. 0 + Len(rest) - 1 = Len(p) - (Cap - cb.head) - 1
        /\ \A j \in 0 .. Len(p) - (Cap - cb.head) - 1 :
              j - 0 + 1 = j + 1 /\ j + 1 \in 1 .. Len(p) - first
    <3>1. Len(rest) = Len(p) - first
      BY <1>6
    <3>2. Len(p) \in Nat
      BY <1>1
    <3>3. 0 + (Len(p) - first) - 1 = Len(p) - (Cap - cb.head) - 1
      BY ONLY <1>4, <3>2
    <3>4. \A j \in 0 .. Len(p) - (Cap - cb.head) - 1 :
             j - 0 + 1 = j + 1 /\ j + 1 \in 1 .. Len(p) - first
      BY ONLY <1>4, <3>2
    <3> QED
      BY ONLY <3>1, <3>3, <3>4
  <2>4. \A j \in 0 .. Len(p) - (Cap - cb.head) - 1 : rest[j - 0 + 1] = p[Cap - cb.head + (j + 1)]
    BY <1>4, <1>6, <2>3
  <2>5. \A j \in 0 .. Cap - 1 :
           data[j] = IF j \in 0 .. Len(p) - (Cap - cb.head) - 1
                     THEN p[Cap - cb.head + (j + 1)] ELSE written[j]
    BY ONLY <2>2, <2>3, <2>4
  <2> QED
    BY ONLY <1>7, <2>2, <2>5 DEF PutAround
<1>9. size = IF Len(s) + Len(p) > Cap THEN Cap ELSE Len(s) + Len(p)
  BY <1>1
<1> HIDE DEF data
<1>10. /\ head \in 0 .. Cap - 1 /\ size \in 0 .. Cap
       /\ size < Cap => head = size
       /\ NewestAreBoth(data, head, size, p, Len(p), s, Len(s))
  <2>1. head = Len(p) - (Cap - cb.head) /\ cb.head + Len(p) > Cap
        /\ size = IF cb.size + Len(p) > Cap THEN Cap ELSE cb.size + Len(p)
    BY <1>1, <1>4
  <2> HIDE DEF head, size
  <2>2. /\ cb.head \in 0 .. Cap - 1 /\ cb.size \in 0 .. Cap
        /\ Len(p) \in Nat /\ Len(s) \in Nat
    BY <1>1
  <2>3. Wraps(cb.head, cb.size, Len(p), head, size)
    BY <1>1, <2>1 DEF Wraps
  <2>4. NewestAre(cb.data, cb.head, cb.size, s, Len(s)) /\ PutAround(data, cb.data, cb.head, p, Len(p))
    BY <1>1, <1>8
  <2> QED
    BY ONLY <2>2, <2>3, <2>4, WriteAround
<1> HIDE DEF head, size
<1>11. RingHolds([data |-> data, head |-> head, size |-> size], s \o p)
  BY <1>9, <1>10, HoldsBoth
<1>12. [data |-> data, head |-> head, size |-> size] \in Rings
  BY <1>8, <1>10 DEF Rings
<1> QED
  BY <1>3, <1>11, <1>12

LEMMA WriteRingHolds ==
    ASSUME NEW cb \in Rings, NEW s \in Seq(Chars), NEW p \in Seq(Chars), RingHolds(cb, s)
    PROVE  WriteRing(cb, p) \in Rings /\ RingHolds(WriteRing(cb, p), s \o p)
<1>1. Cap \in Nat /\ Len(p) \in Nat
  BY LogAssumption, LenProperties
<1>2. Len(p) >= Cap \/ Len(p) < Cap
  BY <1>1
<1> QED
  BY <1>2, WriteRingAll, WriteRingWithin, WriteRingAround, Zenon

\* The place of the i-th oldest byte, as GetHistory computes it.
LEMMA OldestAt ==
    ASSUME NEW h \in 0 .. Cap - 1, NEW z \in 0 .. Cap, NEW i \in 1 .. z, NEW start,
           start = (h - z + Cap) % Cap
    PROVE  /\ (IF start + i - 1 < Cap THEN start + i - 1 ELSE start + i - 1 - Cap)
                = LatestAt(h, z + 1 - i)
           /\ LatestAt(h, z + 1 - i) \in 0 .. Cap - 1
<1> DEFINE x == h - z + Cap
<1>1. Cap \in Nat \ {0}
  BY LogAssumption
<1>2. x \in 0 .. Cap + Cap - 1 /\ x = h - z + Cap
  BY <1>1
<1>3. start = x % Cap
  OBVIOUS
<1> HIDE DEF x
<1>4. x % Cap = IF x < Cap THEN x ELSE x - Cap
  BY <1>2, SmallMod, Zenon
<1>5. start = IF h < z THEN h - z + Cap ELSE h - z
  BY <1>1, <1>2, <1>3, <1>4
<1> QED
  BY ONLY <1>1, <1>5, h \in 0 .. Cap - 1, z \in 0 .. Cap, i \in 1 .. z DEF LatestAt

\* GetHistory returns what the buffer holds, oldest first.
LEMMA GetHistoryHolds ==
    ASSUME NEW cb \in Rings, NEW s \in Seq(Chars), RingHolds(cb, s)
    PROVE  GetHistory(cb) = SubSeq(s, IF Len(s) > Cap THEN Len(s) - Cap + 1 ELSE 1, Len(s))
<1> DEFINE z == cb.size
           start == (cb.head - cb.size + Cap) % Cap
           at(i) == IF start + i - 1 < Cap THEN start + i - 1 ELSE start + i - 1 - Cap
           old == Len(s) - z
           last == SubSeq(s, old + 1, Len(s))
<1>1. /\ Cap \in Nat \ {0} /\ Len(s) \in Nat /\ \A k \in 1 .. Len(s) : s[k] \in Chars
      /\ cb.head \in 0 .. Cap - 1 /\ z \in 0 .. Cap
      /\ z = IF Len(s) > Cap THEN Cap ELSE Len(s)
      /\ \A i \in 1 .. z : cb.data[LatestAt(cb.head, i)] = s[Len(s) + 1 - i]
  BY LogAssumption, LenProperties, ElementOfSeq DEF RingHolds, Rings
<1>2. \A i \in 1 .. z : at(i) = LatestAt(cb.head, z + 1 - i)
  BY <1>1, OldestAt
<1>3. GetHistory(cb) = [i \in 1 .. z |-> cb.data[at(i)]]
  BY DEF GetHistory
<1> HIDE DEF z, at, start
<1>4. old \in Nat /\ old <= Len(s) /\ Len(s) - old = z
      /\ old + 1 = IF Len(s) > Cap THEN Len(s) - Cap + 1 ELSE 1
  BY <1>1
<1>5. ASSUME NEW i \in 1 .. z PROVE cb.data[at(i)] = s[old + i] /\ s[old + i] \in Chars
  <2>1. z + 1 - i \in 1 .. z /\ Len(s) + 1 - (z + 1 - i) = old + i /\ old + i \in 1 .. Len(s)
    BY <1>1
  <2>2. cb.data[LatestAt(cb.head, z + 1 - i)] = s[Len(s) + 1 - (z + 1 - i)]
    BY <1>1, <2>1
  <2> QED
    BY <1>1, <1>2, <2>1, <2>2
<1> HIDE DEF old
<1>6. Len(s) <= Len(s)
  BY <1>1
<1>7. /\ last \in Seq(Chars) /\ Len(last) = Len(s) - old
      /\ \A k \in 1 .. Len(s) - old : last[k] = s[old + k]
  <2>1. last = SubSeq(s, old + 1, Len(s))
    OBVIOUS
  <2> HIDE DEF last
  <2>2. IsSlice(last, s, old, Len(s))
    BY <1>1, <1>4, <1>6, <2>1, Slice
  <2> QED
    BY <2>2 DEF IsSlice
<1> HIDE DEF last
<1>8. last \in Seq(Chars) /\ Len(last) = z /\ \A i \in 1 .. z : last[i] = cb.data[at(i)]
  BY <1>4, <1>5, <1>7
<1>9. last = [i \in 1 .. z |-> cb.data[at(i)]]
  <2>1. last = [i \in 1 .. Len(last) |-> last[i]]
    BY <1>8, LenProperties
  <2> QED
    BY <1>8, <2>1
<1>10. last = SubSeq(s, IF Len(s) > Cap THEN Len(s) - Cap + 1 ELSE 1, Len(s))
  BY <1>4 DEF last
<1> QED
  BY <1>3, <1>9, <1>10

LEMMA EmptyRing == newCircularBuffer \in Rings /\ RingHolds(newCircularBuffer, << >>)
<1>1. Cap \in Nat \ {0}
  BY LogAssumption
<1>2. newCircularBuffer \in Rings
  BY <1>1 DEF newCircularBuffer, Rings
<1>3. Len(<< >>) = 0 /\ 1 .. 0 = {}
  BY EmptySeq
<1> QED
  BY <1>1, <1>2, <1>3 DEF newCircularBuffer, RingHolds

LEMMA BytesAreChars ==
    ASSUME NEW ch \in Chunks
    PROVE  Bytes(ch) \in Seq(Chars)
<1>1. ch.id \in Ids /\ ch.len \in Nat
  BY LogAssumption DEF Chunks
<1> QED
  BY <1>1 DEF Bytes, Chars

(***************************************************************************)
(* The inductive invariant.                                                *)
(***************************************************************************)
\* Without a buffer nothing was buffered since the last Clear.
RingInv == IF buffer = None THEN bytes = << >> ELSE RingHolds(buffer, bytes)

\* What a client has to see, as NothingGoesPast says.
Covered(c) == Kept \subseteq Unpublished \cup InTransit(c) \cup accounted[c]

\* A handler listens from its subscription on, so it cannot miss what is broadcast while
\* it follows; a log client is owed nothing once it has its history, or skipped it.
StreamInv ==
    \A c \in Clients :
        /\ pc[c] = "flush" => c \in LogClients
        /\ pc[c] \in {"follow", "sending"} \/ (pc[c] = "history" /\ c \in EventClients) => c \in listeners
        /\ pc[c] \in {"flush", "follow", "sending"} \/ (pc[c] = "subscribe" /\ c \in LogClients) => Covered(c)

LogInv == LogTypeOK /\ RingInv /\ StreamInv

LEMMA HistoryFollows == LogTypeOK /\ RingInv => HistoryIsTheTail
BY GetHistoryHolds DEF LogTypeOK, RingInv, HistoryIsTheTail

\* The history holds numbers of chunks.
LEMMA RememberedIds == LogTypeOK /\ RingInv => Remembered \subseteq Ids
<1> SUFFICES ASSUME LogTypeOK, RingInv, buffer # None
             PROVE  \A b \in Range(GetHistory(buffer)) : b[1] \in Ids
  BY DEF Remembered
<1> DEFINE a == IF Len(bytes) > Cap THEN Len(bytes) - Cap + 1 ELSE 1
<1>1. Cap \in Nat \ {0} /\ bytes \in Seq(Chars) /\ Len(bytes) \in Nat
  BY LogAssumption, LenProperties DEF LogTypeOK
<1>2. GetHistory(buffer) = SubSeq(bytes, a, Len(bytes))
  BY HistoryFollows DEF HistoryIsTheTail
<1>3. a \in Int /\ a >= 1
  BY <1>1
<1> HIDE DEF a
<1>4. \A k \in a .. Len(bytes) : bytes[k] \in Chars
  BY <1>1, <1>3, ElementOfSeq
<1>5. SubSeq(bytes, a, Len(bytes)) \in Seq(Chars)
  BY <1>1, <1>3, <1>4, SubSeqProperties
<1>6. \A b \in Range(SubSeq(bytes, a, Len(bytes))) : b \in Chars
  BY <1>5, ElementOfSeq, LenProperties DEF Range
<1> QED
  BY <1>2, <1>6 DEF Chars

(***************************************************************************)
(* Sequences of events and messages.                                       *)
(***************************************************************************)
LEMMA RangeOfAppend ==
    ASSUME NEW S, NEW q \in Seq(S), NEW e \in S
    PROVE  Append(q, e) \in Seq(S) /\ Range(Append(q, e)) = Range(q) \cup {e}
<1>1. /\ Append(q, e) \in Seq(S) /\ Len(Append(q, e)) = Len(q) + 1 /\ Len(q) \in Nat
      /\ \A k \in 1 .. Len(q) : Append(q, e)[k] = q[k]
      /\ Append(q, e)[Len(q) + 1] = e
  BY AppendProperties, LenProperties
<1>2. DOMAIN q = 1 .. Len(q) /\ DOMAIN Append(q, e) = 1 .. Len(q) + 1
  BY <1>1, LenProperties
<1>3. \A k \in 1 .. Len(q) + 1 : k \in 1 .. Len(q) \/ k = Len(q) + 1
  BY <1>1
<1>4. \A k \in 1 .. Len(q) : k \in 1 .. Len(q) + 1
  BY <1>1
<1>5. Len(q) + 1 \in 1 .. Len(q) + 1
  BY <1>1
<1> DEFINE r == Append(q, e)
           n == Len(q)
           m == Len(q) + 1
<1>6. /\ r \in Seq(S) /\ DOMAIN q = 1 .. n /\ DOMAIN r = 1 .. m
      /\ \A k \in 1 .. n : r[k] = q[k] /\ k \in 1 .. m
      /\ r[m] = e /\ m \in 1 .. m
      /\ \A k \in 1 .. m : k \in 1 .. n \/ k = m
  BY <1>1, <1>2, <1>3, <1>4, <1>5
<1> HIDE DEF r, n, m
<1>7. r \in Seq(S) /\ Range(r) = Range(q) \cup {e}
  BY <1>6 DEF Range
<1> QED
  BY <1>7 DEF r

LEMMA UnionOfAdd ==
    ASSUME NEW A, NEW m
    PROVE  UNION (A \cup {m}) = (UNION A) \cup m
OBVIOUS

LEMMA RangeOfTail ==
    ASSUME NEW S, NEW q \in Seq(S), q # << >>
    PROVE  /\ Tail(q) \in Seq(S) /\ Head(q) \in S /\ Len(Tail(q)) = Len(q) - 1
           /\ Range(q) \subseteq {Head(q)} \cup Range(Tail(q))
<1>1. /\ Tail(q) \in Seq(S) /\ Head(q) \in S /\ Head(q) = q[1]
      /\ Len(Tail(q)) = Len(q) - 1 /\ Len(q) \in Nat
      /\ \A k \in 1 .. Len(q) - 1 : Tail(q)[k] = q[k + 1]
  BY HeadTailProperties, LenProperties, EmptySeq, ElementOfSeq
<1>2. DOMAIN q = 1 .. Len(q) /\ DOMAIN Tail(q) = 1 .. Len(q) - 1
  BY <1>1, LenProperties
<1>3. ASSUME NEW k \in 1 .. Len(q) PROVE q[k] = Head(q) \/ q[k] \in Range(Tail(q))
  <2>1. k = 1 \/ (k - 1 \in 1 .. Len(q) - 1 /\ k - 1 + 1 = k)
    BY <1>1
  <2>2. ASSUME k - 1 \in 1 .. Len(q) - 1, k - 1 + 1 = k PROVE q[k] \in Range(Tail(q))
    <3>1. Tail(q)[k - 1] = q[k] /\ k - 1 \in DOMAIN Tail(q)
      BY <1>1, <1>2, <2>2
    <3> QED
      BY <3>1, Zenon DEF Range
  <2> QED
    BY <1>1, <2>1, <2>2
<1> QED
  BY <1>1, <1>2, <1>3 DEF Range

(***************************************************************************)
(* Types.                                                                  *)
(***************************************************************************)
LEMMA LogInitInv == LogInit => LogInv
<1> SUFFICES ASSUME LogInit PROVE LogInv
  OBVIOUS
<1>1. << >> \in Seq(Chars) /\ << >> \in Seq(Ids) /\ << >> \in Seq(SUBSET Ids) /\ Len(<< >>) = 0
  BY EmptySeq
<1>2. /\ chunks \in 0 .. MaxChunks
      /\ chunk \in [Writers -> Chunks \cup {None}]
      /\ wpc \in [Writers -> {"idle", "buffer", "publish"}]
      /\ \A w \in Writers : wpc[w] # "idle" => chunk[w] \in Chunks
      /\ pc \in [Clients -> {"idle", "history", "flush", "subscribe", "follow", "sending", "done"}]
  BY LogAssumption DEF LogInit
<1>3. /\ listeners \subseteq Clients /\ unseen \in [Clients -> Seq(Ids)]
      /\ channel \in [Clients -> Seq(SUBSET Ids)]
      /\ accounted \in [Clients -> SUBSET Ids]
  BY <1>1 DEF LogInit, Dispatcher!Init
<1>4. \A c \in Clients : Len(channel[c]) <= ChanSize
  BY <1>1, LogAssumption DEF LogInit
<1>5. LogTypeOK
  BY <1>1, <1>2, <1>3, <1>4 DEF LogInit, LogTypeOK
<1> QED
  BY <1>5 DEF LogInv, LogInit, RingInv, StreamInv

\* Each part of the type is kept by every step.
LEMMA WriterTypes ==
    ASSUME LogTypeOK, NEW w \in Writers,
           (\E len \in Lengths : Write(w, len)) \/ WriterStep(w)
    PROVE  /\ chunks' \in 0 .. MaxChunks
           /\ wpc' \in [Writers -> {"idle", "buffer", "publish"}]
           /\ chunk' \in [Writers -> Chunks \cup {None}]
           /\ \A v \in Writers : wpc'[v] # "idle" => chunk'[v] \in Chunks
           /\ unseen' \in [Clients -> Seq(Ids)]
           /\ accounted' \in [Clients -> SUBSET Ids]
           /\ UNCHANGED <<listeners, pc, channel, gone, shutdown>>
<1>1. MaxChunks \in Nat
  BY LogAssumption
<1>2. ASSUME NEW len \in Lengths, Write(w, len)
      PROVE  /\ chunks' \in 0 .. MaxChunks
             /\ wpc' \in [Writers -> {"idle", "buffer", "publish"}]
             /\ chunk' \in [Writers -> Chunks \cup {None}]
             /\ \A v \in Writers : wpc'[v] # "idle" => chunk'[v] \in Chunks
  <2>1. chunks' \in 0 .. MaxChunks /\ chunks + 1 \in Ids
    BY <1>1, <1>2 DEF Write, LogTypeOK, Ids
  <2>2. [id |-> chunks + 1, len |-> len] \in Chunks
    BY <2>1 DEF Chunks
  <2> QED
    BY <1>2, <2>1, <2>2 DEF Write, LogTypeOK
<1>3. CASE BufferChunk(w)
  BY <1>3 DEF BufferChunk, LogTypeOK
<1>4. CASE BroadcastChunk(w)
  <2>1. chunk[w] \in Chunks
    BY <1>4 DEF BroadcastChunk, LogTypeOK
  <2>2. chunk[w].id \in Ids
    BY <2>1 DEF Chunks
  <2>3. \A c \in Clients : Append(unseen[c], chunk[w].id) \in Seq(Ids)
    BY <2>2, RangeOfAppend DEF LogTypeOK
  <2>4. unseen' \in [Clients -> Seq(Ids)]
    BY <1>4, <2>3 DEF BroadcastChunk, Dispatcher!Publish, LogTypeOK
  <2>5. accounted' \in [Clients -> SUBSET Ids]
    BY <1>4, <2>2 DEF BroadcastChunk, LogTypeOK
  <2>6. /\ chunks' \in 0 .. MaxChunks
        /\ wpc' \in [Writers -> {"idle", "buffer", "publish"}]
        /\ chunk' \in [Writers -> Chunks \cup {None}]
        /\ \A v \in Writers : wpc'[v] # "idle" => chunk'[v] \in Chunks
        /\ UNCHANGED <<listeners, pc, channel, gone, shutdown>>
    BY <1>4 DEF BroadcastChunk, Dispatcher!Publish, LogTypeOK
  <2> QED
    BY <2>4, <2>5, <2>6
<1>5. ASSUME NEW len \in Lengths, Write(w, len)
      PROVE  /\ unseen' \in [Clients -> Seq(Ids)]
             /\ accounted' \in [Clients -> SUBSET Ids]
             /\ UNCHANGED <<listeners, pc, channel, gone, shutdown>>
  BY <1>5 DEF Write, LogTypeOK
<1> QED
  BY <1>2, <1>3, <1>4, <1>5 DEF WriterStep

\* The buffer is one that circularBuffer can hold, and holds the newest bytes.
LEMMA RingStep ==
    ASSUME LogTypeOK, RingInv, [LogNext]_logVars
    PROVE  buffer' \in Rings \cup {None} /\ bytes' \in Seq(Chars) /\ RingInv'
<1>1. ASSUME NEW w \in Writers, BufferChunk(w)
      PROVE  buffer' \in Rings /\ bytes' \in Seq(Chars) /\ RingHolds(buffer', bytes')
  <2> DEFINE cb == IF buffer = None THEN newCircularBuffer ELSE buffer
             p == Bytes(chunk[w])
  <2>1. chunk[w] \in Chunks
    BY <1>1 DEF BufferChunk, LogTypeOK
  <2>2. p \in Seq(Chars)
    BY <2>1, BytesAreChars
  <2>3. cb \in Rings /\ RingHolds(cb, bytes)
    BY EmptyRing DEF LogTypeOK, RingInv
  <2>4. buffer' = WriteRing(cb, p) /\ bytes' = bytes \o p
    BY <1>1 DEF BufferChunk
  <2>5. bytes \in Seq(Chars)
    BY DEF LogTypeOK
  <2> HIDE DEF cb, p
  <2>6. WriteRing(cb, p) \in Rings /\ RingHolds(WriteRing(cb, p), bytes \o p)
    BY <2>2, <2>3, <2>5, WriteRingHolds
  <2>7. bytes \o p \in Seq(Chars)
    BY <2>2, <2>5, ConcatProperties
  <2> QED
    BY <2>4, <2>6, <2>7
<1>2. CASE Clear
  <2>1. << >> \in Seq(Chars)
    BY EmptySeq
  <2> QED
    BY <1>2, <2>1 DEF Clear, RingInv
<1>3. CASE UNCHANGED <<buffer, bytes>>
  BY <1>3 DEF RingInv, LogTypeOK
<1>4. \/ \E w \in Writers : BufferChunk(w)
      \/ Clear
      \/ UNCHANGED <<buffer, bytes>>
  BY DEF LogNext, logVars, WriterStep, HandlerStep, Write, BroadcastChunk, Open, Subscribe,
         ReadHistory, Deliver, Send, Sent, End, Disconnect, Shutdown, monitorVars
<1>5. None \notin Rings
  BY LogAssumption
<1> QED
  BY <1>1, <1>2, <1>3, <1>4, <1>5 DEF RingInv

\* A message that is offered is in the channel or accounted for.
LEMMA OfferTypes ==
    ASSUME LogTypeOK, NEW c \in Clients, NEW message \in SUBSET Ids, Offer(c, message)
    PROVE  /\ channel' \in [Clients -> Seq(SUBSET Ids)]
           /\ \A d \in Clients : Len(channel'[d]) <= ChanSize
           /\ accounted' \in [Clients -> SUBSET Ids]
           /\ \A d \in Clients \ {c} : channel'[d] = channel[d] /\ accounted'[d] = accounted[d]
           /\ (UNION Range(channel[c])) \cup accounted[c] \cup message
                 \subseteq (UNION Range(channel'[c])) \cup accounted'[c]
<1>1. channel[c] \in Seq(SUBSET Ids) /\ accounted[c] \in SUBSET Ids /\ ChanSize \in Nat
      /\ Len(channel[c]) \in Nat
  BY LogAssumption, LenProperties DEF LogTypeOK
<1>2. CASE /\ Len(channel[c]) < ChanSize
           /\ channel' = [channel EXCEPT ![c] = Append(@, message)]
           /\ UNCHANGED accounted
  <2>1. /\ Append(channel[c], message) \in Seq(SUBSET Ids)
        /\ Range(Append(channel[c], message)) = Range(channel[c]) \cup {message}
        /\ Len(Append(channel[c], message)) = Len(channel[c]) + 1
    BY <1>1, RangeOfAppend, AppendProperties
  <2>2. /\ channel'[c] = Append(channel[c], message)
        /\ \A d \in Clients \ {c} : channel'[d] = channel[d]
        /\ channel' \in [Clients -> Seq(SUBSET Ids)]
    BY <1>2, <2>1 DEF LogTypeOK
  <2>3. \A d \in Clients : Len(channel'[d]) <= ChanSize
    BY <1>1, <1>2, <2>1, <2>2 DEF LogTypeOK
  <2>4. UNION Range(channel'[c]) = (UNION Range(channel[c])) \cup message
    <3>1. Range(channel'[c]) = Range(channel[c]) \cup {message}
      BY <2>1, <2>2
    <3> QED
      BY <3>1, UnionOfAdd
  <2>5. accounted' = accounted /\ accounted' \in [Clients -> SUBSET Ids]
    BY <1>2 DEF LogTypeOK
  <2>6. /\ \A d \in Clients \ {c} : channel'[d] = channel[d] /\ accounted'[d] = accounted[d]
        /\ (UNION Range(channel[c])) \cup accounted[c] \cup message
              \subseteq (UNION Range(channel'[c])) \cup accounted'[c]
    BY <2>2, <2>4, <2>5
  <2> QED
    BY <2>2, <2>3, <2>5, <2>6
<1>3. CASE /\ accounted' = [accounted EXCEPT ![c] = @ \cup message]
           /\ UNCHANGED channel
  BY <1>1, <1>3 DEF LogTypeOK
<1> QED
  BY <1>2, <1>3 DEF Offer

LEMMA HandlerTypes ==
    ASSUME LogTypeOK, RingInv, NEW c \in Clients,
           Open(c) \/ HandlerStep(c) \/ Deliver(c) \/ Sent(c) \/ Disconnect(c)
    PROVE  /\ UNCHANGED <<chunks, wpc, chunk, shutdown>>
           /\ listeners' \subseteq Clients /\ unseen' \in [Clients -> Seq(Ids)]
           /\ pc' \in [Clients -> {"idle", "history", "flush", "subscribe", "follow", "sending", "done"}]
           /\ channel' \in [Clients -> Seq(SUBSET Ids)]
           /\ \A d \in Clients : Len(channel'[d]) <= ChanSize
           /\ gone' \subseteq Clients
           /\ accounted' \in [Clients -> SUBSET Ids]
<1>1. Kept \subseteq Ids /\ Remembered \subseteq Ids
  <2>1. 1 .. chunks \subseteq Ids
    BY LogAssumption DEF LogTypeOK, Ids
  <2> QED
    BY <2>1, RememberedIds DEF Kept
<1>2. CASE Open(c)
  BY <1>1, <1>2 DEF Open, LogTypeOK, monitorVars
<1>3. CASE Subscribe(c)
  BY <1>3 DEF Subscribe, Dispatcher!Subscribe, LogTypeOK, monitorVars
<1>4. CASE ReadHistory(c)
  <2>1. /\ UNCHANGED <<chunks, wpc, chunk, shutdown, listeners, unseen, gone>>
        /\ pc' \in [Clients -> {"idle", "history", "flush", "subscribe", "follow", "sending", "done"}]
    BY <1>4 DEF ReadHistory, LogTypeOK, monitorVars
  <2>2. CASE /\ accounted' = [accounted EXCEPT ![c] = @ \cup Kept]
             /\ UNCHANGED channel
    BY <1>1, <2>1, <2>2 DEF LogTypeOK
  <2>3. CASE /\ c \in EventClients /\ Len(channel[c]) < ChanSize
             /\ channel' = [channel EXCEPT ![c] = Append(@, Remembered)]
             /\ accounted' = [accounted EXCEPT ![c] = @ \cup (Kept \ Remembered)]
    <3>1. /\ Append(channel[c], Remembered) \in Seq(SUBSET Ids)
          /\ Len(Append(channel[c], Remembered)) = Len(channel[c]) + 1
          /\ Len(channel[c]) \in Nat /\ ChanSize \in Nat
      BY <1>1, AppendProperties, LenProperties, LogAssumption DEF LogTypeOK
    <3>2. /\ channel' \in [Clients -> Seq(SUBSET Ids)]
          /\ \A d \in Clients : channel'[d] = IF d = c THEN Append(channel[c], Remembered) ELSE channel[d]
      BY <2>3, <3>1 DEF LogTypeOK
    <3>3. \A d \in Clients : Len(channel'[d]) <= ChanSize
      BY <2>3, <3>1, <3>2 DEF LogTypeOK
    <3>4. accounted' \in [Clients -> SUBSET Ids]
      BY <1>1, <2>3 DEF LogTypeOK
    <3> QED
      BY <2>1, <3>2, <3>3, <3>4 DEF LogTypeOK
  <2> QED
    BY <1>4, <2>2, <2>3 DEF ReadHistory
<1>5. CASE Deliver(c)
  <2>1. unseen[c] # << >> /\ unseen[c] \in Seq(Ids)
    BY <1>5 DEF Deliver, Dispatcher!Deliver, LogTypeOK
  <2>2. Tail(unseen[c]) \in Seq(Ids) /\ Head(unseen[c]) \in Ids
    BY <2>1, RangeOfTail
  <2>3. /\ UNCHANGED <<chunks, wpc, chunk, shutdown, listeners, pc, gone>>
        /\ unseen' \in [Clients -> Seq(Ids)]
    BY <1>5, <2>2 DEF Deliver, Dispatcher!Deliver, LogTypeOK, monitorVars
  <2>4. CASE UNCHANGED <<channel, accounted>>
    BY <2>3, <2>4 DEF LogTypeOK
  <2>5. CASE Offer(c, {Head(unseen[c])})
    <3>1. {Head(unseen[c])} \in SUBSET Ids
      BY <2>2
    <3>2. /\ channel' \in [Clients -> Seq(SUBSET Ids)]
          /\ \A d \in Clients : Len(channel'[d]) <= ChanSize
          /\ accounted' \in [Clients -> SUBSET Ids]
      BY <2>5, <3>1, OfferTypes
    <3> QED
      BY <2>3, <3>2 DEF LogTypeOK
  <2> QED
    BY <1>5, <2>4, <2>5 DEF Deliver
<1>6. CASE Send(c)
  <2>1. channel[c] # << >> /\ channel[c] \in Seq(SUBSET Ids) /\ Len(channel[c]) \in Nat
    BY <1>6, LenProperties DEF Send, LogTypeOK
  <2>2. /\ Tail(channel[c]) \in Seq(SUBSET Ids) /\ Head(channel[c]) \in SUBSET Ids
        /\ Len(Tail(channel[c])) = Len(channel[c]) - 1
    BY <2>1, RangeOfTail
  <2>3. /\ channel' \in [Clients -> Seq(SUBSET Ids)]
        /\ \A d \in Clients : channel'[d] = IF d = c THEN Tail(channel[c]) ELSE channel[d]
        /\ accounted' \in [Clients -> SUBSET Ids]
    BY <1>6, <2>2 DEF Send, LogTypeOK
  <2>4. \A d \in Clients : Len(channel'[d]) <= ChanSize
    BY <2>1, <2>2, <2>3, LogAssumption DEF LogTypeOK
  <2>5. /\ UNCHANGED <<chunks, wpc, chunk, shutdown, listeners, unseen, gone>>
        /\ pc' \in [Clients -> {"idle", "history", "flush", "subscribe", "follow", "sending", "done"}]
    BY <1>6 DEF Send, LogTypeOK, monitorVars
  <2> QED
    BY <2>3, <2>4, <2>5 DEF LogTypeOK
<1>7. CASE Sent(c)
  BY <1>7 DEF Sent, LogTypeOK, monitorVars
<1>8. CASE End(c)
  <2>1. << >> \in Seq(SUBSET Ids) /\ Len(<< >>) = 0 /\ ChanSize \in Nat
    BY EmptySeq, LogAssumption
  <2>2. channel' \in [Clients -> Seq(SUBSET Ids)] /\ \A d \in Clients : Len(channel'[d]) <= ChanSize
    BY <1>8, <2>1 DEF End, LogTypeOK
  <2> QED
    BY <1>8, <2>2 DEF End, Dispatcher!Unsubscribe, LogTypeOK, monitorVars
<1>9. CASE Disconnect(c)
  BY <1>9 DEF Disconnect, LogTypeOK, monitorVars
<1> QED
  BY <1>2, <1>3, <1>4, <1>5, <1>6, <1>7, <1>8, <1>9 DEF HandlerStep

LEMMA TypeStep == LogTypeOK /\ RingInv /\ [LogNext]_logVars => LogTypeOK'
<1> SUFFICES ASSUME LogTypeOK, RingInv, [LogNext]_logVars PROVE LogTypeOK'
  OBVIOUS
<1>1. buffer' \in Rings \cup {None} /\ bytes' \in Seq(Chars)
  BY RingStep
<1>2. ASSUME NEW w \in Writers, (\E len \in Lengths : Write(w, len)) \/ WriterStep(w)
      PROVE  LogTypeOK'
  <2>1. /\ chunks' \in 0 .. MaxChunks
        /\ wpc' \in [Writers -> {"idle", "buffer", "publish"}]
        /\ chunk' \in [Writers -> Chunks \cup {None}]
        /\ \A v \in Writers : wpc'[v] # "idle" => chunk'[v] \in Chunks
        /\ unseen' \in [Clients -> Seq(Ids)]
        /\ accounted' \in [Clients -> SUBSET Ids]
        /\ UNCHANGED <<listeners, pc, channel, gone, shutdown>>
    BY <1>2, WriterTypes
  <2> QED
    BY <1>1, <2>1 DEF LogTypeOK
<1>3. ASSUME NEW c \in Clients, Open(c) \/ HandlerStep(c) \/ Deliver(c) \/ Sent(c) \/ Disconnect(c)
      PROVE  LogTypeOK'
  <2>1. /\ UNCHANGED <<chunks, wpc, chunk, shutdown>>
        /\ listeners' \subseteq Clients /\ unseen' \in [Clients -> Seq(Ids)]
        /\ pc' \in [Clients -> {"idle", "history", "flush", "subscribe", "follow", "sending", "done"}]
        /\ channel' \in [Clients -> Seq(SUBSET Ids)]
        /\ \A d \in Clients : Len(channel'[d]) <= ChanSize
        /\ gone' \subseteq Clients
        /\ accounted' \in [Clients -> SUBSET Ids]
    BY <1>3, HandlerTypes
  <2> QED
    BY <1>1, <2>1 DEF LogTypeOK
<1>4. CASE Clear
  BY <1>1, <1>4 DEF Clear, LogTypeOK
<1>5. CASE Shutdown
  BY <1>1, <1>5 DEF Shutdown, LogTypeOK, monitorVars
<1>6. CASE UNCHANGED logVars
  BY <1>6 DEF logVars, LogTypeOK
<1> QED
  BY <1>2, <1>3, <1>4, <1>5, <1>6 DEF LogNext

(***************************************************************************)
(* Nothing goes past.                                                      *)
(***************************************************************************)
\* What a client has to see is no more, and what it was sent or is accounted for no less.
LEMMA StillCovered ==
    ASSUME NEW c \in Clients, Covered(c),
           Kept' \subseteq Kept \cup (Unpublished' \ Unpublished),
           Unpublished \subseteq Unpublished' \cup accounted'[c] \cup InTransit(c)',
           accounted[c] \subseteq accounted'[c], InTransit(c) \subseteq InTransit(c)' \cup accounted'[c]
    PROVE  Covered(c)'
BY DEF Covered

LEMMA StreamSame ==
    ASSUME StreamInv, Kept' \subseteq Kept \cup (Unpublished' \ Unpublished), Unpublished \subseteq Unpublished',
           UNCHANGED <<listeners, unseen, pc, channel, accounted>>
    PROVE  StreamInv'
<1>1. \A c \in Clients : InTransit(c)' = InTransit(c)
  BY DEF InTransit
<1>2. \A c \in Clients : Covered(c) => Covered(c)'
  BY <1>1, StillCovered
<1> QED
  BY <1>2 DEF StreamInv

LEMMA WriteKept ==
    ASSUME LogTypeOK, NEW w \in Writers, NEW len \in Lengths, Write(w, len)
    PROVE  Kept' \subseteq Kept /\ Unpublished' = Unpublished
<1>1. /\ wpc[w] = "idle" /\ chunks' = chunks + 1 /\ chunks \in Nat
      /\ \A v \in Writers : wpc'[v] = IF v = w THEN "buffer" ELSE wpc[v]
      /\ \A v \in Writers : v # w => chunk'[v] = chunk[v]
      /\ chunk'[w].id = chunks + 1
  BY DEF Write, LogTypeOK
<1>2. {chunk'[v].id : v \in {u \in Writers : wpc'[u] = "publish"}}
        = {chunk[v].id : v \in {u \in Writers : wpc[u] = "publish"}}
  BY <1>1
<1>3. {chunk'[v].id : v \in {u \in Writers : wpc'[u] = "buffer"}}
        = {chunk[v].id : v \in {u \in Writers : wpc[u] = "buffer"}} \cup {chunks + 1}
  BY <1>1
<1>4. (1 .. chunks') \ {chunks + 1} \subseteq 1 .. chunks
  BY <1>1
<1> QED
  BY <1>2, <1>3, <1>4 DEF Kept, Unpublished

LEMMA BufferKept ==
    ASSUME LogTypeOK, NEW w \in Writers, BufferChunk(w)
    PROVE  /\ Kept' \subseteq Kept \cup {chunk[w].id}
           /\ Unpublished' = Unpublished \cup {chunk[w].id}
<1>1. /\ wpc[w] = "buffer" /\ chunks' = chunks /\ chunk' = chunk
      /\ \A v \in Writers : wpc'[v] = IF v = w THEN "publish" ELSE wpc[v]
  BY DEF BufferChunk, LogTypeOK
<1>2. {chunk'[v].id : v \in {u \in Writers : wpc'[u] = "publish"}}
        = {chunk[v].id : v \in {u \in Writers : wpc[u] = "publish"}} \cup {chunk[w].id}
  BY <1>1
<1>3. {chunk[v].id : v \in {u \in Writers : wpc[u] = "buffer"}}
        \subseteq {chunk'[v].id : v \in {u \in Writers : wpc'[u] = "buffer"}} \cup {chunk[w].id}
  BY <1>1
<1> QED
  BY <1>1, <1>2, <1>3 DEF Kept, Unpublished

LEMMA BroadcastKept ==
    ASSUME LogTypeOK, NEW w \in Writers, BroadcastChunk(w)
    PROVE  /\ Kept' \subseteq Kept
           /\ Unpublished \subseteq Unpublished' \cup {chunk[w].id}
<1>1. /\ wpc[w] = "publish" /\ chunks' = chunks
      /\ \A v \in Writers : wpc'[v] = IF v = w THEN "idle" ELSE wpc[v]
      /\ \A v \in Writers : v # w => chunk'[v] = chunk[v]
  BY DEF BroadcastChunk, LogTypeOK
<1>2. {chunk[v].id : v \in {u \in Writers : wpc[u] = "publish"}}
        \subseteq {chunk'[v].id : v \in {u \in Writers : wpc'[u] = "publish"}} \cup {chunk[w].id}
  BY <1>1
<1>3. {chunk'[v].id : v \in {u \in Writers : wpc'[u] = "buffer"}}
        = {chunk[v].id : v \in {u \in Writers : wpc[u] = "buffer"}}
  BY <1>1
<1> QED
  BY <1>1, <1>2, <1>3 DEF Kept, Unpublished

\* A chunk that is broadcast is on its way to every listener; a log client that does
\* not listen yet is in the window between its history and its subscription.
LEMMA BroadcastStream ==
    ASSUME LogTypeOK, StreamInv, NEW w \in Writers, BroadcastChunk(w)
    PROVE  StreamInv'
<1> DEFINE e == chunk[w].id
<1>1. Kept' \subseteq Kept /\ Unpublished \subseteq Unpublished' \cup {e}
  BY BroadcastKept
<1>2. e \in Ids
  <2>1. chunk[w] \in Chunks
    BY DEF BroadcastChunk, LogTypeOK
  <2> QED
    BY <2>1 DEF Chunks
<1>3. UNCHANGED <<listeners, pc, channel>>
  BY DEF BroadcastChunk, Dispatcher!Publish
<1>4. ASSUME NEW c \in Clients, Covered(c),
             c \in listeners \/ (c \in LogClients /\ pc[c] \in {"flush", "subscribe"})
      PROVE  Covered(c)'
  <2>1. /\ unseen'[c] = IF c \in listeners THEN Append(unseen[c], e) ELSE unseen[c]
        /\ accounted'[c] = accounted[c] \cup IF c \in LogClients /\ pc[c] \in {"flush", "subscribe"}
                                             THEN {e} ELSE {}
    BY DEF BroadcastChunk, Dispatcher!Publish
  <2>2. Range(Append(unseen[c], e)) = Range(unseen[c]) \cup {e}
    BY <1>2, RangeOfAppend DEF LogTypeOK
  <2> HIDE DEF e
  <2>3. InTransit(c) \subseteq InTransit(c)' /\ (c \in listeners => e \in InTransit(c)')
    BY <1>3, <2>1, <2>2 DEF InTransit
  <2>4. accounted[c] \subseteq accounted'[c] /\ (c \notin listeners => e \in accounted'[c])
    BY <1>4, <2>1
  <2> QED
    BY <1>1, <1>4, <2>3, <2>4, StillCovered
<1> QED
  BY <1>3, <1>4 DEF StreamInv

\* A client's own steps leave what it has to see and the other clients alone.
LEMMA OthersCovered ==
    ASSUME StreamInv, NEW c \in Clients,
           UNCHANGED monitorVars,
           \A d \in Clients \ {c} :
              /\ pc'[d] = pc[d] /\ unseen'[d] = unseen[d] /\ channel'[d] = channel[d]
              /\ accounted'[d] = accounted[d]
              /\ d \in listeners => d \in listeners',
           /\ pc'[c] = "flush" => c \in LogClients
           /\ pc'[c] \in {"follow", "sending"} \/ (pc'[c] = "history" /\ c \in EventClients) => c \in listeners'
           /\ pc'[c] \in {"flush", "follow", "sending"} \/ (pc'[c] = "subscribe" /\ c \in LogClients)
                 => Covered(c)'
    PROVE  StreamInv'
<1>1. Kept' = Kept /\ Unpublished' = Unpublished
  BY DEF monitorVars, Kept, Unpublished
<1>2. ASSUME NEW d \in Clients \ {c} PROVE Covered(d) => Covered(d)'
  <2>1. InTransit(d)' = InTransit(d) /\ accounted'[d] = accounted[d]
    BY DEF InTransit
  <2> QED
    BY <1>1, <2>1 DEF Covered
<1> QED
  BY <1>2 DEF StreamInv

LEMMA OpenStream ==
    ASSUME LogTypeOK, StreamInv, NEW c \in Clients, Open(c)
    PROVE  StreamInv'
<1>1. LogClients \cap EventClients = {}
  BY LogAssumption
<1>2. UNCHANGED <<monitorVars, listeners, unseen, channel>> /\ Kept' = Kept
  BY DEF Open, monitorVars, Kept
<1>3. \A d \in Clients \ {c} : pc'[d] = pc[d] /\ accounted'[d] = accounted[d]
  BY DEF Open, LogTypeOK
<1>4. \/ pc'[c] = "subscribe" /\ c \in EventClients
      \/ pc'[c] = "history" /\ c \notin EventClients
      \/ pc'[c] = "subscribe" /\ c \in LogClients /\ accounted'[c] = Kept
  BY DEF Open, LogTypeOK, SubscribesFirst
<1>5. pc'[c] = "subscribe" /\ c \in LogClients => Covered(c)'
  BY <1>1, <1>2, <1>4 DEF Covered
<1> QED
  BY <1>2, <1>3, <1>4, <1>5, OthersCovered

LEMMA SubscribeStream ==
    ASSUME LogTypeOK, StreamInv, NEW c \in Clients, Subscribe(c)
    PROVE  StreamInv'
<1>1. UNCHANGED <<monitorVars, unseen, channel, accounted>> /\ listeners' = listeners \cup {c}
  BY DEF Subscribe, Dispatcher!Subscribe
<1>2. \A d \in Clients \ {c} : pc'[d] = pc[d]
  BY DEF Subscribe, LogTypeOK
<1>3. \/ pc'[c] = "history" /\ c \in EventClients
      \/ pc'[c] = "follow" /\ c \in LogClients /\ pc[c] = "subscribe"
  BY DEF Subscribe, LogTypeOK, SubscribesFirst, Clients
<1>4. Covered(c) => Covered(c)'
  BY <1>1 DEF Covered, Kept, Unpublished, InTransit, monitorVars
<1>5. pc'[c] = "follow" => Covered(c)'
  BY <1>3, <1>4 DEF StreamInv
<1> QED
  BY <1>1, <1>2, <1>3, <1>5, OthersCovered

\* The history read, and what it had lost, is all there was.
LEMMA ReadHistoryStream ==
    ASSUME LogTypeOK, RingInv, StreamInv, NEW c \in Clients, ReadHistory(c)
    PROVE  StreamInv'
<1>1. UNCHANGED <<monitorVars, listeners, unseen>> /\ Kept' = Kept
  BY DEF ReadHistory, monitorVars, Kept
<1>2. \A d \in Clients \ {c} : pc'[d] = pc[d] /\ accounted'[d] = accounted[d] /\ channel'[d] = channel[d]
  BY DEF ReadHistory, LogTypeOK
<1>3. \/ pc'[c] = "flush" /\ c \in LogClients
      \/ pc'[c] = "follow" /\ c \in EventClients /\ pc[c] = "history"
      \/ pc'[c] = "subscribe" /\ c \in LogClients
  BY DEF ReadHistory, LogTypeOK, SubscribesFirst, Clients
<1>4. Kept \subseteq InTransit(c)' \cup accounted'[c]
  <2>1. CASE accounted' = [accounted EXCEPT ![c] = @ \cup Kept]
    BY <2>1 DEF LogTypeOK
  <2>2. CASE /\ channel' = [channel EXCEPT ![c] = Append(@, Remembered)]
             /\ accounted' = [accounted EXCEPT ![c] = @ \cup (Kept \ Remembered)]
    <3>1. Remembered \in SUBSET Ids /\ channel[c] \in Seq(SUBSET Ids)
      BY RememberedIds DEF LogTypeOK
    <3>2. Range(Append(channel[c], Remembered)) = Range(channel[c]) \cup {Remembered}
      BY <3>1, RangeOfAppend
    <3>3. channel'[c] = Append(channel[c], Remembered)
          /\ accounted'[c] = accounted[c] \cup (Kept \ Remembered)
      BY <2>2 DEF LogTypeOK
    <3>4. Range(channel'[c]) = Range(channel[c]) \cup {Remembered}
      BY <3>2, <3>3
    <3>5. UNION Range(channel'[c]) = (UNION Range(channel[c])) \cup Remembered
      BY <3>4, UnionOfAdd
    <3> QED
      BY <3>3, <3>5 DEF InTransit
  <2> QED
    BY <2>1, <2>2 DEF ReadHistory
<1>5. Covered(c)'
  BY <1>1, <1>4 DEF Covered
<1>6. pc'[c] = "follow" => c \in listeners'
  BY <1>1, <1>3, LogAssumption DEF StreamInv
<1> QED
  BY <1>1, <1>2, <1>3, <1>5, <1>6, OthersCovered

\* An event leaves the dispatcher for the channel, or was dropped.
LEMMA DeliverStream ==
    ASSUME LogTypeOK, StreamInv, NEW c \in Clients, Deliver(c)
    PROVE  StreamInv'
<1> DEFINE e == Head(unseen[c])
<1>1. UNCHANGED <<monitorVars, listeners, pc>> /\ unseen[c] # << >> /\ unseen[c] \in Seq(Ids)
  BY DEF Deliver, Dispatcher!Deliver, LogTypeOK
<1>2. unseen'[c] = Tail(unseen[c]) /\ \A d \in Clients \ {c} : unseen'[d] = unseen[d]
  BY DEF Deliver, Dispatcher!Deliver, LogTypeOK
<1>3. Range(unseen[c]) \subseteq {e} \cup Range(unseen'[c]) /\ {e} \in SUBSET Ids
  BY <1>1, <1>2, RangeOfTail
<1>4. CASE pc[c] = "done" /\ UNCHANGED <<channel, accounted>>
  BY <1>1, <1>2, <1>4, OthersCovered
<1>5. CASE Offer(c, {e})
  <2>1. /\ \A d \in Clients \ {c} : channel'[d] = channel[d] /\ accounted'[d] = accounted[d]
        /\ (UNION Range(channel[c])) \cup accounted[c] \cup {e}
              \subseteq (UNION Range(channel'[c])) \cup accounted'[c]
    BY <1>3, <1>5, OfferTypes
  <2>2. Covered(c) => Covered(c)'
    <3>1. Kept' = Kept /\ Unpublished' = Unpublished
      BY <1>1 DEF Kept, Unpublished, monitorVars
    <3> HIDE DEF e
    <3> QED
      BY <1>3, <2>1, <3>1 DEF Covered, InTransit
  <2> QED
    BY <1>1, <1>2, <2>1, <2>2, OthersCovered DEF StreamInv
<1> QED
  BY <1>4, <1>5 DEF Deliver

LEMMA SendStream ==
    ASSUME LogTypeOK, StreamInv, NEW c \in Clients, Send(c)
    PROVE  StreamInv'
<1>1. /\ UNCHANGED <<monitorVars, listeners, unseen>>
      /\ channel[c] # << >> /\ channel[c] \in Seq(SUBSET Ids)
      /\ pc[c] = "follow" /\ pc'[c] = "sending"
      /\ channel'[c] = Tail(channel[c]) /\ accounted'[c] = accounted[c] \cup Head(channel[c])
      /\ \A d \in Clients \ {c} : pc'[d] = pc[d] /\ channel'[d] = channel[d] /\ accounted'[d] = accounted[d]
  BY DEF Send, LogTypeOK
<1>2. Range(channel[c]) \subseteq {Head(channel[c])} \cup Range(Tail(channel[c]))
  BY <1>1, RangeOfTail
<1>3. Covered(c) => Covered(c)'
  <2>1. Kept' = Kept /\ Unpublished' = Unpublished
    BY <1>1 DEF Kept, Unpublished, monitorVars
  <2>2. UNION Range(channel[c]) \subseteq Head(channel[c]) \cup UNION Range(channel'[c])
    BY <1>1, <1>2
  <2> QED
    BY <1>1, <2>1, <2>2 DEF Covered, InTransit
<1> QED
  BY <1>1, <1>3, OthersCovered DEF StreamInv

LEMMA SentStream ==
    ASSUME LogTypeOK, StreamInv, NEW c \in Clients, Sent(c)
    PROVE  StreamInv'
<1>1. /\ UNCHANGED <<monitorVars, listeners, unseen, channel, accounted>>
      /\ \/ pc[c] = "flush" /\ pc'[c] = "subscribe"
         \/ pc[c] = "sending" /\ pc'[c] = "follow"
      /\ \A d \in Clients \ {c} : pc'[d] = pc[d]
  BY DEF Sent, LogTypeOK
<1>2. Covered(c) => Covered(c)'
  BY <1>1 DEF Covered, InTransit, Kept, Unpublished, monitorVars
<1> QED
  BY <1>1, <1>2, OthersCovered DEF StreamInv

LEMMA EndStream ==
    ASSUME LogTypeOK, StreamInv, NEW c \in Clients, End(c)
    PROVE  StreamInv'
<1>1. /\ UNCHANGED <<monitorVars, unseen>> /\ pc'[c] = "done" /\ listeners' = listeners \ {c}
      /\ \A d \in Clients \ {c} : pc'[d] = pc[d] /\ channel'[d] = channel[d] /\ accounted'[d] = accounted[d]
  BY DEF End, Dispatcher!Unsubscribe, LogTypeOK
<1> QED
  BY <1>1, OthersCovered

LEMMA StreamStep == LogTypeOK /\ RingInv /\ StreamInv /\ [LogNext]_logVars => StreamInv'
<1> SUFFICES ASSUME LogTypeOK, RingInv, StreamInv, [LogNext]_logVars PROVE StreamInv'
  OBVIOUS
<1>1. ASSUME NEW w \in Writers, NEW len \in Lengths, Write(w, len) PROVE StreamInv'
  <2>1. Kept' \subseteq Kept /\ Unpublished' = Unpublished
    BY <1>1, WriteKept
  <2> QED
    BY <1>1, <2>1, StreamSame DEF Write
<1>2. ASSUME NEW w \in Writers, BufferChunk(w) PROVE StreamInv'
  <2>1. Kept' \subseteq Kept \cup {chunk[w].id} /\ Unpublished' = Unpublished \cup {chunk[w].id}
    BY <1>2, BufferKept
  <2>2. ASSUME NEW c \in Clients, Covered(c) PROVE Covered(c)'
    <3>1. InTransit(c)' = InTransit(c) /\ accounted' = accounted
      BY <1>2 DEF BufferChunk, InTransit
    <3> QED
      BY <2>1, <2>2, <3>1 DEF Covered
  <2> QED
    BY <1>2, <2>2 DEF BufferChunk, StreamInv
<1>3. ASSUME NEW w \in Writers, BroadcastChunk(w) PROVE StreamInv'
  BY <1>3, BroadcastStream
<1>4. ASSUME NEW c \in Clients, Open(c) \/ HandlerStep(c) \/ Deliver(c) \/ Sent(c) PROVE StreamInv'
  BY <1>4, OpenStream, SubscribeStream, ReadHistoryStream, SendStream, EndStream, DeliverStream,
     SentStream DEF HandlerStep
<1>5. CASE UNCHANGED <<chunks, wpc, chunk, listeners, unseen, pc, channel, accounted>>
  <2>1. Kept' = Kept /\ Unpublished' = Unpublished
    BY <1>5 DEF Kept, Unpublished
  <2> QED
    BY <1>5, <2>1, StreamSame
<1>6. ASSUME NEW c \in Clients, Disconnect(c) PROVE StreamInv'
  BY <1>5, <1>6 DEF Disconnect, monitorVars
<1>7. CASE Clear \/ Shutdown \/ UNCHANGED logVars
  BY <1>5, <1>7 DEF Clear, Shutdown, logVars, monitorVars
<1> QED
  BY <1>1, <1>2, <1>3, <1>4, <1>6, <1>7 DEF LogNext, WriterStep

(***************************************************************************)
(* Theorems.                                                               *)
(***************************************************************************)
LEMMA LogInvariance == LogSpec => []LogInv
<1>1. LogInv /\ [LogNext]_logVars => LogInv'
  BY RingStep, TypeStep, StreamStep DEF LogInv
<1> QED
  BY LogInitInv, <1>1, PTL DEF LogSpec

\* Whatever is logged, buffered, broadcast and streamed in whatever order, the variables
\* keep their types: among them, no channel holds more than its capacity.
THEOREM LogTypeCorrect == LogSpec => []LogTypeOK
<1>1. LogInv => LogTypeOK
  BY DEF LogInv
<1> QED
  BY LogInvariance, <1>1, PTL

\* The history a client reads is the newest bytes written, for every capacity, all
\* lengths of chunks and every place where one wraps around (circularBuffer.Write and
\* GetHistory), whenever Clear runs.
THEOREM HistoryAlwaysTheTail == LogSpec => []HistoryIsTheTail
<1>1. LogInv => HistoryIsTheTail
  BY HistoryFollows DEF LogInv
<1> QED
  BY LogInvariance, <1>1, PTL

\* For any number of writers and clients, no chunk goes past a client that follows the
\* log, but through a full channel, the history's capacity, or the one window of
\* streamLogsHandler between the history and the subscription.
THEOREM NothingEverGoesPast == LogSpec => []NothingGoesPast
<1>1. LogInv => NothingGoesPast
  BY DEF LogInv, StreamInv, NothingGoesPast, Covered
<1> QED
  BY LogInvariance, <1>1, PTL
=============================================================================
