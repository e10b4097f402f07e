-------------------------- MODULE PeerRoutingProofs --------------------------
(***************************************************************************)
(* The reservation counter and the admission semaphore agree with the      *)
(* requests they stand for, and affinity is a bounded tiebreak, for any    *)
(* number of peers and requests.                                           *)
(***************************************************************************)
EXTENDS PeerRouting, FiniteSetTheorems, TLAPS

\* While admission is on, the holders of a peer's slots are the requests it serves.
HoldersServe ==
    \A p \in Peers : MaxInflight > 0 =>
        slots[p] = {r \in Assigned(p) : pc[r] = "serving"}

SlotsWithinCap == \A p \in Peers : Cardinality(slots[p]) <= MaxInflight

Dispatched == {"acquire", "queued", "serving", "leave"}

IInv == TypeOK /\ CountsAreExact /\ HoldersServe /\ SlotsWithinCap

USE PeerRoutingAssumption DEF admission, picking, drift

(***************************************************************************)
(* Sets of requests are finite, so their cardinalities are naturals, and   *)
(* taking a member out lowers the cardinality by one.                      *)
(***************************************************************************)
LEMMA Finite ==
    ASSUME NEW S \in SUBSET Requests
    PROVE  IsFiniteSet(S) /\ Cardinality(S) \in Nat
BY FS_Subset, FS_CardinalityType

\* Taking a member out of a set of requests lowers its cardinality by one (Serve, Leave).
LEMMA Removed ==
    ASSUME NEW S \in SUBSET Requests, NEW x
    PROVE  /\ Cardinality(S) \in Nat /\ Cardinality(S \ {x}) \in Nat
           /\ Cardinality(S \ {x}) <= Cardinality(S)
           /\ x \in S => Cardinality(S \ {x}) = Cardinality(S) - 1
<1>1. IsFiniteSet(S) /\ Cardinality(S) \in Nat
  BY Finite
<1>2. Cardinality(S \ {x}) = IF x \in S THEN Cardinality(S) - 1 ELSE Cardinality(S)
  BY <1>1, FS_RemoveElement
<1>3. Cardinality(S \ {x}) \in Nat
  <2>1. S \ {x} \in SUBSET Requests
    OBVIOUS
  <2> QED
    BY <2>1, Finite
<1> QED
  BY <1>1, <1>2, <1>3

\* There is a first peer in peerOrder (Init).
LEMMA Numbered == 1 \in Peers
BY DEF Peers

(***************************************************************************)
(* Init has no request, no reservation and no slot taken.                  *)
(***************************************************************************)
LEMMA InitIInv == Init => IInv
<1> SUFFICES ASSUME Init PROVE IInv
  OBVIOUS
<1>1. TypeOK
  BY Numbered DEF Init, TypeOK, PCs, NoBias, Unreachable
<1>2. \A p \in Peers : Assigned(p) = {}
  BY DEF Init, Assigned
<1>3. CountsAreExact
  BY <1>2, FS_EmptySet DEF Init, CountsAreExact
<1>4. HoldersServe
  BY <1>2 DEF Init, HoldersServe
<1>5. SlotsWithinCap
  BY FS_EmptySet DEF Init, SlotsWithinCap
<1> QED
  BY <1>1, <1>3, <1>4, <1>5 DEF IInv

(***************************************************************************)
(* A request that is dispatched to a peer (Reserve, Pin) is counted there  *)
(* and nowhere else.                                                       *)
(***************************************************************************)
LEMMA Dispatch ==
    ASSUME IInv, NEW r \in Requests, NEW p \in Peers,
           pc[r] \notin Dispatched,
           pc' = [pc EXCEPT ![r] = "acquire"],
           peer' = [peer EXCEPT ![r] = p],
           inFlight' = [inFlight EXCEPT ![p] = @ + 1],
           slots' = slots
    PROVE  CountsAreExact' /\ HoldersServe' /\ SlotsWithinCap'
<1> USE DEF IInv, TypeOK, Dispatched
<1>1. Assigned(p)' = Assigned(p) \cup {r} /\ r \notin Assigned(p)
  BY DEF Assigned
<1>2. \A q \in Peers \ {p} : Assigned(q)' = Assigned(q)
  BY DEF Assigned
<1>3. Assigned(p) \in SUBSET Requests
  BY DEF Assigned
<1>4. Cardinality(Assigned(p)') = Cardinality(Assigned(p)) + 1
  <2>1. IsFiniteSet(Assigned(p))
    BY <1>3, Finite
  <2> QED
    BY ONLY <1>1, <2>1, FS_AddElement
<1>5. CountsAreExact'
  BY <1>2, <1>4 DEF CountsAreExact
<1>6. \A q \in Peers : {s \in Assigned(q)' : pc'[s] = "serving"}
                        = {s \in Assigned(q) : pc[s] = "serving"}
  BY DEF Assigned
<1>7. HoldersServe'
  BY <1>6 DEF HoldersServe
<1> QED
  BY <1>5, <1>7 DEF SlotsWithinCap

(***************************************************************************)
(* A request that is not dispatched yet is not counted, whatever peer it   *)
(* considers (ReadBias and the steps of a pick).                           *)
(***************************************************************************)
LEMMA Undispatched ==
    ASSUME IInv, NEW r \in Requests, NEW p \in Peers,
           pc[r] \notin Dispatched, pc'[r] \notin Dispatched,
           \A s \in Requests \ {r} : pc'[s] = pc[s],
           peer' = [peer EXCEPT ![r] = p], inFlight' = inFlight, slots' = slots
    PROVE  CountsAreExact' /\ HoldersServe' /\ SlotsWithinCap'
<1> USE DEF IInv, TypeOK, Dispatched
<1>1. \A q \in Peers : Assigned(q)' = Assigned(q)
  BY DEF Assigned
<1>2. \A q \in Peers : {s \in Assigned(q)' : pc'[s] = "serving"}
                        = {s \in Assigned(q) : pc[s] = "serving"}
  BY DEF Assigned
<1> QED
  BY <1>1, <1>2 DEF CountsAreExact, HoldersServe, SlotsWithinCap

(***************************************************************************)
(* A request that moves between the stages of a dispatch keeps its peer    *)
(* and its count (AcquireNow, PeerFull, TakeSlot, QueueTimeout, Serve).    *)
(***************************************************************************)
LEMMA StaysCounted ==
    ASSUME IInv, NEW r \in Requests,
           NEW to \in {"acquire", "queued", "serving", "leave"},
           pc[r] \in {"acquire", "queued", "serving", "leave"},
           pc' = [pc EXCEPT ![r] = to], peer' = peer, inFlight' = inFlight
    PROVE  /\ CountsAreExact'
           /\ \A p \in Peers : Assigned(p)' = Assigned(p)
<1> USE DEF IInv, TypeOK
<1>1. \A p \in Peers : Assigned(p)' = Assigned(p)
  BY DEF Assigned
<1> QED
  BY <1>1 DEF CountsAreExact

(***************************************************************************)
(* A request that takes a free slot of its peer becomes one of the served  *)
(* (AcquireNow, TakeSlot).                                                 *)
(***************************************************************************)
LEMMA TakesSlot ==
    ASSUME IInv, NEW r \in Requests, MaxInflight > 0,
           pc[r] \in {"acquire", "queued"}, HasSlot(peer[r]),
           pc' = [pc EXCEPT ![r] = "serving"], peer' = peer, inFlight' = inFlight,
           slots' = [slots EXCEPT ![peer[r]] = @ \cup {r}]
    PROVE  CountsAreExact' /\ HoldersServe' /\ SlotsWithinCap'
<1> USE DEF IInv, TypeOK
<1>1. CountsAreExact' /\ \A p \in Peers : Assigned(p)' = Assigned(p)
  BY StaysCounted
<1>2. r \in Assigned(peer[r]) /\ \A q \in Peers \ {peer[r]} : r \notin Assigned(q)
  BY DEF Assigned
<1>3. \A p \in Peers : Assigned(p) \in SUBSET Requests
  BY DEF Assigned
<1>4. HoldersServe'
  BY <1>1, <1>2, <1>3 DEF HoldersServe
<1>5. r \notin slots[peer[r]]
  BY <1>2 DEF HoldersServe
<1>6. Cardinality(slots[peer[r]] \cup {r}) = Cardinality(slots[peer[r]]) + 1
  <2>1. slots[peer[r]] \in SUBSET Requests
    BY <1>2 DEF Assigned
  <2>2. IsFiniteSet(slots[peer[r]])
    BY <2>1, Finite
  <2> QED BY ONLY <1>5, <2>2, FS_AddElement
<1>7. Cardinality(slots[peer[r]]) \in Nat
  BY Finite
<1>8. SlotsWithinCap'
  BY <1>6, <1>7 DEF SlotsWithinCap, HasSlot
<1> QED
  BY <1>1, <1>4, <1>8

(***************************************************************************)
(* A request that neither gains nor holds a slot leaves the semaphores     *)
(* alone (PeerFull, QueueTimeout, AcquireNow without admission).           *)
(***************************************************************************)
LEMMA SlotsUntouched ==
    ASSUME IInv, NEW r \in Requests,
           NEW to \in {"queued", "serving", "leave"},
           to = "serving" => MaxInflight = 0,
           pc[r] \in {"acquire", "queued"},
           pc' = [pc EXCEPT ![r] = to], peer' = peer, inFlight' = inFlight,
           slots' = slots
    PROVE  CountsAreExact' /\ HoldersServe' /\ SlotsWithinCap'
<1> USE DEF IInv, TypeOK
<1>1. CountsAreExact' /\ \A p \in Peers : Assigned(p)' = Assigned(p)
  BY StaysCounted
<1>2. \A p \in Peers : Assigned(p) \in SUBSET Requests
  BY DEF Assigned
<1>3. HoldersServe'
  BY <1>1, <1>2 DEF HoldersServe
<1> QED
  BY <1>1, <1>3 DEF SlotsWithinCap

(***************************************************************************)
(* Serve gives the slot back before the count.                             *)
(***************************************************************************)
LEMMA ServeIInv ==
    ASSUME IInv, NEW r \in Requests, Serve(r)
    PROVE  CountsAreExact' /\ HoldersServe' /\ SlotsWithinCap'
<1> USE DEF IInv, TypeOK, Serve
<1>1. CountsAreExact' /\ \A p \in Peers : Assigned(p)' = Assigned(p)
  BY StaysCounted
<1>2. \A p \in Peers : Assigned(p) \in SUBSET Requests
  BY DEF Assigned
<1>3. \A q \in Peers \ {peer[r]} : r \notin Assigned(q)
  BY DEF Assigned
<1>4. HoldersServe'
  BY <1>1, <1>2, <1>3 DEF HoldersServe
<1>5. slots[peer[r]] \in SUBSET Requests
  OBVIOUS
<1>6. /\ Cardinality(slots[peer[r]]) \in Nat /\ Cardinality(slots[peer[r]] \ {r}) \in Nat
      /\ Cardinality(slots[peer[r]] \ {r}) <= Cardinality(slots[peer[r]])
  BY <1>5, Removed
<1>7. SlotsWithinCap'
  BY <1>6 DEF SlotsWithinCap
<1> QED
  BY <1>1, <1>4, <1>7

(***************************************************************************)
(* Leave takes the request out of the count of its peer.                   *)
(***************************************************************************)
LEMMA LeaveIInv ==
    ASSUME IInv, NEW r \in Requests, Leave(r)
    PROVE  CountsAreExact' /\ HoldersServe' /\ SlotsWithinCap' /\ inFlight' \in [Peers -> Nat]
<1>0. /\ IInv /\ TypeOK /\ pc[r] = "leave" /\ pc' = [pc EXCEPT ![r] = "idle"]
      /\ inFlight' = [inFlight EXCEPT ![peer[r]] = @ - 1]
      /\ peer' = peer /\ slots' = slots
  BY DEF IInv, Leave
<1> USE <1>0 DEF IInv, TypeOK
<1>1. Assigned(peer[r])' = Assigned(peer[r]) \ {r} /\ r \in Assigned(peer[r])
  BY DEF Assigned
<1>2. \A q \in Peers \ {peer[r]} : Assigned(q)' = Assigned(q)
  BY DEF Assigned
<1>3. Assigned(peer[r]) \in SUBSET Requests
  BY DEF Assigned
<1>4. Cardinality(Assigned(peer[r])') = Cardinality(Assigned(peer[r])) - 1
  BY <1>1, <1>3, Removed
<1>5. Cardinality(Assigned(peer[r])') \in Nat
  BY <1>1, <1>3, Finite
<1>6. CountsAreExact'
  BY <1>2, <1>4 DEF CountsAreExact
<1>7. inFlight' \in [Peers -> Nat]
  BY <1>4, <1>5 DEF CountsAreExact
<1>8. \A p \in Peers : {s \in Assigned(p)' : pc'[s] = "serving"}
                        = {s \in Assigned(p) : pc[s] = "serving"}
  BY DEF Assigned
<1>9. HoldersServe'
  BY <1>8 DEF HoldersServe
<1> QED
  BY <1>6, <1>7, <1>9 DEF SlotsWithinCap

(***************************************************************************)
(* The steps of a pick before it reserves.                                 *)
(***************************************************************************)
Selection(r) ==
    Lock(r) \/ ReadCount(r) \/ ReadAffine(r) \/ ReadOther(r) \/ Discount(r)

\* A pick reads the counters of its candidates and counts nothing (Lock .. Discount).
LEMMA SelectionFrame ==
    ASSUME TypeOK, NEW r \in Requests, Selection(r)
    PROVE  /\ pc[r] \in {"pick"} \cup (Selecting \ {"reserve"}) /\ pc'[r] \in Selecting
           /\ pc[r] \notin Dispatched /\ pc'[r] \notin Dispatched
           /\ pc' \in [Requests -> PCs]
           /\ \A s \in Requests \ {r} : pc'[s] = pc[s]
           /\ UNCHANGED <<cache, inFlight, slots, key, bias, joined, left>>
<1> USE DEF TypeOK, Selecting, Dispatched, PCs
<1>1. CASE Lock(r)
  BY <1>1 DEF Lock
<1>2. CASE ReadCount(r)
  BY <1>2 DEF ReadCount, AfterScan
<1>3. CASE ReadAffine(r)
  BY <1>3 DEF ReadAffine
<1>4. CASE ReadOther(r)
  BY <1>4 DEF ReadOther
<1>5. CASE Discount(r)
  BY <1>5 DEF Discount
<1> QED
  BY <1>1, <1>2, <1>3, <1>4, <1>5 DEF Selection

\* The peer a pick holds is one of the candidates (ReadCount, Discount).
LEMMA SelectionPeer ==
    ASSUME TypeOK, NEW r \in Requests, Selection(r)
    PROVE  \E p \in Peers : peer' = [peer EXCEPT ![r] = p]
<1> USE DEF TypeOK
<1>1. CASE ReadCount(r)
  <2>1. peer' = [peer EXCEPT ![r] = IF next[r] = 1 \/ Rank(r, next[r]) < least[r]
                                    THEN next[r] ELSE peer[r]]
    BY <1>1 DEF ReadCount
  <2> QED
    BY <2>1
<1>2. CASE Discount(r)
  <2>1. PICK a \in Peers :
           peer' = [peer EXCEPT ![r] = IF Rank(r, a) - Bonus <= least[r] THEN a ELSE peer[r]]
    BY <1>2 DEF Discount
  <2> QED
    BY <2>1
<1>3. CASE Lock(r) \/ ReadAffine(r) \/ ReadOther(r)
  <2>1. peer' = [peer EXCEPT ![r] = peer[r]] /\ peer[r] \in Peers
    BY <1>3 DEF Lock, ReadAffine, ReadOther
  <2> QED
    BY <2>1
<1> QED
  BY <1>1, <1>2, <1>3 DEF Selection

\* The rank of a candidate is a natural number.
LEMMA RankIsNat ==
    ASSUME TypeOK, NEW r \in Requests, NEW p \in Peers
    PROVE  Rank(r, p) \in Nat
<1>1. inFlight[p] \in Nat /\ bias[r][p] \in Nat
  <2>1. bias[r] \in [Peers -> {0, 1, 3, Unreachable}]
    BY DEF TypeOK
  <2>2. bias[r][p] \in {0, 1, 3, Unreachable}
    BY <2>1
  <2> QED
    BY <2>2 DEF TypeOK, Unreachable
<1> QED
  BY <1>1 DEF Rank

\* A pick keeps the types (Lock .. Discount).
LEMMA SelectionTypes ==
    ASSUME TypeOK, NEW r \in Requests, Selection(r)
    PROVE  TypeOK'
<1>1. /\ pc' \in [Requests -> PCs]
      /\ UNCHANGED <<cache, inFlight, slots, key, bias, joined, left>>
  BY SelectionFrame
<1>2. peer' \in [Requests -> Peers]
  <2>1. PICK p \in Peers : peer' = [peer EXCEPT ![r] = p]
    BY SelectionPeer
  <2> QED
    BY <2>1 DEF TypeOK
<1>3. next \in [Requests -> Peers] /\ least \in [Requests -> Nat]
  BY DEF TypeOK
<1>4. /\ \E n \in Peers : next' = [next EXCEPT ![r] = n]
      /\ \E k \in Nat : least' = [least EXCEPT ![r] = k]
  <2>1. next[r] \in Peers /\ least[r] \in Nat
    BY <1>3
  <2>2. next[r] # NumPeers => next[r] + 1 \in Peers /\ next[r] < NumPeers
    BY <2>1 DEF Peers
  <2>3. CASE ReadCount(r)
    <3> DEFINE n == IF next[r] < NumPeers THEN next[r] + 1 ELSE 1
               k == IF next[r] = 1 \/ Rank(r, next[r]) < least[r] THEN Rank(r, next[r]) ELSE least[r]
    <3>1. next' = [next EXCEPT ![r] = n] /\ least' = [least EXCEPT ![r] = k]
      BY <2>3 DEF ReadCount
    <3>2. n \in Peers
      <4>1. next[r] < NumPeers => next[r] # NumPeers
        BY <2>1 DEF Peers
      <4> QED
        BY <2>2, <4>1, Numbered
    <3>3. k \in Nat
      BY <2>1, RankIsNat
    <3> HIDE DEF n, k
    <3> QED
      BY <3>1, <3>2, <3>3
  <2>4. CASE ReadOther(r)
    <3> DEFINE n == IF pc'[r] = "room" THEN next[r] + 1 ELSE 1
    <3>1. next' = [next EXCEPT ![r] = n] /\ least' = [least EXCEPT ![r] = least[r]]
      BY <1>3, <2>4 DEF ReadOther
    <3>2. pc'[r] = "room" => next[r] # NumPeers
      BY <2>4 DEF ReadOther, TypeOK
    <3>3. n \in Peers
      BY <2>2, <3>2, Numbered
    <3> HIDE DEF n
    <3> QED
      BY <2>1, <3>1, <3>3
  <2>5. CASE Lock(r) \/ ReadAffine(r) \/ Discount(r)
    <3>1. next' = [next EXCEPT ![r] = next[r]] /\ least' = [least EXCEPT ![r] = least[r]]
      BY <1>3, <2>5 DEF Lock, ReadAffine, Discount
    <3> QED
      BY <2>1, <3>1
  <2> QED
    BY <2>3, <2>4, <2>5 DEF Selection
<1>5. next' \in [Requests -> Peers] /\ least' \in [Requests -> Nat]
  BY <1>3, <1>4
<1> QED
  BY <1>1, <1>2, <1>5 DEF TypeOK

\* Reading the biases keeps the types: the cache holds biases (ReadBias).
LEMMA ReadBiasTypes ==
    ASSUME TypeOK, NEW r \in Requests, ReadBias(r)
    PROVE  TypeOK'
<1>1. cache \in [Peers -> {0, 1, 3, Unreachable}]
  BY DEF TypeOK
<1>2. bias' \in [Requests -> [Peers -> {0, 1, 3, Unreachable}]]
  BY <1>1 DEF TypeOK, ReadBias
<1>3. pc' \in [Requests -> PCs] /\ key' \in [Requests -> Keys \cup {NoKey}]
  BY DEF TypeOK, PCs, ReadBias, affinityKeyFromRequest
<1>4. UNCHANGED <<cache, slots, inFlight, peer, next, least, joined, left>>
  BY DEF ReadBias
<1> QED
  BY <1>2, <1>3, <1>4 DEF TypeOK

\* A dispatched request moves on, or leaves, and keeps the types.
LEMMA StageTypes ==
    ASSUME TypeOK, NEW r \in Requests, NEW to \in PCs,
           pc' = [pc EXCEPT ![r] = to],
           slots' \in [Peers -> SUBSET Requests], inFlight' \in [Peers -> Nat],
           left' \in [Peers -> Nat], joined' = joined,
           UNCHANGED <<cache, peer, picking>>
    PROVE  TypeOK'
<1>1. pc' \in [Requests -> PCs]
  BY DEF TypeOK
<1> QED
  BY <1>1 DEF TypeOK

(***************************************************************************)
(* Every step keeps the inductive invariant: one case per action.          *)
(***************************************************************************)
LEMMA StepIInv == IInv /\ [Next]_vars => IInv'
<1> SUFFICES ASSUME IInv, [Next]_vars PROVE IInv'
  OBVIOUS
<1>1. CASE UNCHANGED vars
  BY <1>1 DEF IInv, TypeOK, CountsAreExact, HoldersServe, SlotsWithinCap, Assigned, vars
<1>2. ASSUME NEW p \in Peers, Poll(p) PROVE IInv'
  <2>1. cache' \in [Peers -> Biases]
    BY <1>2 DEF Poll, IInv, TypeOK
  <2>2. UNCHANGED <<inFlight, slots, pc, peer, picking, drift>>
    BY <1>2 DEF Poll
  <2> QED
    BY <2>1, <2>2 DEF IInv, TypeOK, CountsAreExact, HoldersServe, SlotsWithinCap, Assigned
<1>3. ASSUME NEW r \in Requests, ReadBias(r) PROVE IInv'
  <2>1. TypeOK'
    BY <1>3, ReadBiasTypes DEF IInv
  <2>2. /\ pc[r] \notin Dispatched /\ pc'[r] \notin Dispatched
        /\ \A s \in Requests \ {r} : pc'[s] = pc[s]
        /\ peer' = [peer EXCEPT ![r] = peer[r]] /\ peer[r] \in Peers
        /\ inFlight' = inFlight /\ slots' = slots
    BY <1>3 DEF IInv, TypeOK, ReadBias, Dispatched
  <2> QED
    BY <2>1, <2>2, Undispatched DEF IInv
<1>4. ASSUME NEW r \in Requests, Selection(r) PROVE IInv'
  <2>1. TypeOK'
    BY <1>4, SelectionTypes DEF IInv
  <2>2. PICK p \in Peers : peer' = [peer EXCEPT ![r] = p]
    BY <1>4, SelectionPeer DEF IInv
  <2>3. /\ pc[r] \notin Dispatched /\ pc'[r] \notin Dispatched
        /\ \A s \in Requests \ {r} : pc'[s] = pc[s]
        /\ inFlight' = inFlight /\ slots' = slots
    BY <1>4, SelectionFrame DEF IInv
  <2> QED
    BY <2>1, <2>2, <2>3, Undispatched DEF IInv
<1>12. ASSUME NEW r \in Requests, Reserve(r) PROVE IInv'
  <2>1. TypeOK'
    BY <1>12, Numbered DEF IInv, TypeOK, PCs, Selecting, Reserve, NoBias, Unreachable
  <2>2. /\ pc[r] \notin Dispatched /\ peer[r] \in Peers
        /\ pc' = [pc EXCEPT ![r] = "acquire"]
        /\ peer' = [peer EXCEPT ![r] = peer[r]]
        /\ inFlight' = [inFlight EXCEPT ![peer[r]] = @ + 1]
        /\ slots' = slots
    BY <1>12 DEF IInv, TypeOK, Reserve, Dispatched
  <2> QED
    BY <2>1, <2>2, Dispatch DEF IInv
<1>5. ASSUME NEW r \in Requests, Pin(r) PROVE IInv'
  <2>1. TypeOK'
    <3>1. PICK p \in Peers :
             /\ inFlight' = [inFlight EXCEPT ![p] = @ + 1]
             /\ peer' = [peer EXCEPT ![r] = p]
             /\ joined' = IF selectMuFree THEN joined ELSE [joined EXCEPT ![p] = @ + 1]
      BY <1>5 DEF Pin
    <3>2. /\ inFlight' \in [Peers -> Nat] /\ peer' \in [Requests -> Peers]
          /\ joined' \in [Peers -> Nat]
      BY <3>1 DEF IInv, TypeOK
    <3>3. pc' \in [Requests -> PCs] /\ UNCHANGED <<cache, slots, picking, left>>
      BY <1>5 DEF IInv, TypeOK, PCs, Pin
    <3> QED
      BY <3>2, <3>3 DEF IInv, TypeOK
  <2>2. PICK p \in Peers :
           /\ inFlight' = [inFlight EXCEPT ![p] = @ + 1]
           /\ peer' = [peer EXCEPT ![r] = p]
    BY <1>5 DEF Pin
  <2>3. pc[r] \notin Dispatched /\ pc' = [pc EXCEPT ![r] = "acquire"] /\ slots' = slots
    BY <1>5 DEF Pin, Dispatched
  <2> QED
    BY <2>1, <2>2, <2>3, Dispatch DEF IInv
<1>6. ASSUME NEW r \in Requests, AcquireNow(r) PROVE IInv'
  <2>1. TypeOK'
    <3>1. slots' \in [Peers -> SUBSET Requests] /\ inFlight' \in [Peers -> Nat]
          /\ left' \in [Peers -> Nat]
      BY <1>6 DEF IInv, TypeOK, AcquireNow
    <3>2. pc' = [pc EXCEPT ![r] = "serving"] /\ joined' = joined
          /\ UNCHANGED <<cache, peer, picking>>
      BY <1>6 DEF AcquireNow
    <3> QED
      BY <3>1, <3>2, StageTypes DEF IInv, PCs
  <2>2. CASE MaxInflight = 0
    BY <1>6, <2>1, <2>2, SlotsUntouched DEF AcquireNow, IInv
  <2>3. CASE MaxInflight > 0
    <3>1. /\ pc[r] = "acquire" /\ HasSlot(peer[r])
          /\ pc' = [pc EXCEPT ![r] = "serving"] /\ peer' = peer /\ inFlight' = inFlight
          /\ slots' = [slots EXCEPT ![peer[r]] = @ \cup {r}]
      BY <1>6, <2>3 DEF AcquireNow
    <3> QED
      BY <2>1, <2>3, <3>1, TakesSlot DEF IInv
  <2> QED
    BY <2>2, <2>3
<1>7. ASSUME NEW r \in Requests, PeerFull(r) PROVE IInv'
  <2>1. TypeOK'
    <3>1. slots' \in [Peers -> SUBSET Requests] /\ inFlight' \in [Peers -> Nat]
          /\ left' \in [Peers -> Nat]
      BY <1>7 DEF IInv, TypeOK, PeerFull
    <3>2. pc' = [pc EXCEPT ![r] = IF QueueWait THEN "queued" ELSE "leave"] /\ joined' = joined
          /\ UNCHANGED <<cache, peer, picking>>
      BY <1>7 DEF PeerFull
    <3> QED
      BY <3>1, <3>2, StageTypes DEF IInv, PCs
  <2> QED
    <3>1. /\ pc[r] = "acquire" /\ pc' = [pc EXCEPT ![r] = IF QueueWait THEN "queued" ELSE "leave"]
          /\ peer' = peer /\ inFlight' = inFlight /\ slots' = slots
      BY <1>7 DEF PeerFull
    <3> QED
      BY <2>1, <3>1, SlotsUntouched DEF IInv
<1>8. ASSUME NEW r \in Requests, TakeSlot(r) PROVE IInv'
  <2>1. TypeOK'
    <3>1. slots' \in [Peers -> SUBSET Requests] /\ inFlight' \in [Peers -> Nat]
          /\ left' \in [Peers -> Nat]
      BY <1>8 DEF IInv, TypeOK, TakeSlot
    <3>2. pc' = [pc EXCEPT ![r] = "serving"] /\ joined' = joined
          /\ UNCHANGED <<cache, peer, picking>>
      BY <1>8 DEF TakeSlot
    <3> QED
      BY <3>1, <3>2, StageTypes DEF IInv, PCs
  <2>2. Cardinality(slots[peer[r]]) \in Nat
    BY Finite DEF IInv, TypeOK
  <2>3. MaxInflight > 0
    BY <1>8, <2>2 DEF TakeSlot, HasSlot
  <2> QED
    BY <1>8, <2>1, <2>3, TakesSlot DEF TakeSlot, IInv
<1>9. ASSUME NEW r \in Requests, QueueTimeout(r) PROVE IInv'
  <2>1. TypeOK'
    <3>1. slots' \in [Peers -> SUBSET Requests] /\ inFlight' \in [Peers -> Nat]
          /\ left' \in [Peers -> Nat]
      BY <1>9 DEF IInv, TypeOK, QueueTimeout
    <3>2. pc' = [pc EXCEPT ![r] = "leave"] /\ joined' = joined
          /\ UNCHANGED <<cache, peer, picking>>
      BY <1>9 DEF QueueTimeout
    <3> QED
      BY <3>1, <3>2, StageTypes DEF IInv, PCs
  <2> QED
    <3>1. /\ pc[r] = "queued" /\ pc' = [pc EXCEPT ![r] = "leave"]
          /\ peer' = peer /\ inFlight' = inFlight /\ slots' = slots
      BY <1>9 DEF QueueTimeout
    <3> QED
      BY <2>1, <3>1, SlotsUntouched DEF IInv
<1>10. ASSUME NEW r \in Requests, Serve(r) PROVE IInv'
  <2>1. TypeOK'
    <3>1. slots' \in [Peers -> SUBSET Requests] /\ inFlight' \in [Peers -> Nat]
          /\ left' \in [Peers -> Nat]
      BY <1>10 DEF IInv, TypeOK, Serve
    <3>2. pc' = [pc EXCEPT ![r] = "leave"] /\ joined' = joined
          /\ UNCHANGED <<cache, peer, picking>>
      BY <1>10 DEF Serve
    <3> QED
      BY <3>1, <3>2, StageTypes DEF IInv, PCs
  <2> QED
    BY <1>10, <2>1, ServeIInv DEF IInv
<1>11. ASSUME NEW r \in Requests, Leave(r) PROVE IInv'
  <2>1. CountsAreExact' /\ HoldersServe' /\ SlotsWithinCap' /\ inFlight' \in [Peers -> Nat]
    BY <1>11, LeaveIInv
  <2>2. TypeOK'
    <3>1. slots' \in [Peers -> SUBSET Requests] /\ left' \in [Peers -> Nat]
      BY <1>11 DEF IInv, TypeOK, Leave
    <3>2. pc' = [pc EXCEPT ![r] = "idle"] /\ joined' = joined
          /\ UNCHANGED <<cache, peer, picking>>
      BY <1>11 DEF Leave
    <3> QED
      BY <2>1, <3>1, <3>2, StageTypes DEF IInv, PCs
  <2> QED
    BY <2>1, <2>2 DEF IInv
<1> QED
  BY <1>1, <1>2, <1>3, <1>4, <1>5, <1>6, <1>7, <1>8, <1>9, <1>10, <1>11, <1>12
  DEF Next, RequestStep, Selection

(***************************************************************************)
(* The counter admissionSaturated and the rank read is exact, a count      *)
(* below the cap means a free slot, no peer serves more requests than      *)
(* maxInflightPerPeer, and the variables keep their types.                 *)
(***************************************************************************)
THEOREM AdmissionSafety == Spec => [](TypeOK /\ CountsAreExact /\ RoomIsReal /\ CapHolds)
<1>1. IInv => TypeOK /\ CountsAreExact /\ RoomIsReal /\ CapHolds
  <2> SUFFICES ASSUME IInv PROVE RoomIsReal /\ CapHolds
    BY DEF IInv
  <2>1. ASSUME NEW p \in Peers
        PROVE  /\ Assigned(p) \in SUBSET Requests
               /\ Cardinality(Assigned(p)) \in Nat
               /\ Cardinality(slots[p]) \in Nat
    BY Finite DEF IInv, TypeOK, Assigned
  <2>2. ASSUME NEW p \in Peers, MaxInflight > 0
        PROVE  Cardinality(slots[p]) <= Cardinality(Assigned(p))
    <3>1. slots[p] \subseteq Assigned(p)
      BY <2>2 DEF IInv, HoldersServe
    <3> QED
      BY <2>1, <3>1, Finite, FS_Subset
  <2>3. RoomIsReal
    <3> SUFFICES ASSUME NEW p \in Peers, MaxInflight > 0, inFlight[p] < MaxInflight
                 PROVE  HasSlot(p)
      BY DEF RoomIsReal
    <3> QED
      BY <2>1, <2>2 DEF IInv, CountsAreExact, HasSlot
  <2>4. CapHolds
    BY <2>3 DEF IInv, HoldersServe, SlotsWithinCap, CapHolds
  <2> QED
    BY <2>3, <2>4
<1> QED
  BY InitIInv, StepIInv, <1>1, PTL DEF Spec

\* No exit of a request leaks or doubles a reservation, for any number of peers and
\* requests: the counter the pick ranks by counts the requests dispatched to the peer.
THEOREM CountsAreExactAlways == Spec => []CountsAreExact
BY AdmissionSafety, PTL

-----------------------------------------------------------------------------
(***************************************************************************)
(* Affinity is a bounded tiebreak.  The invariant says, step by step of a  *)
(* pick, what the counters loaded so far still tell of the present ones:   *)
(* they are off by the pins and departures since, never by another pick.   *)
(***************************************************************************)
\* Picks exclude each other.
OnePick ==
    \A r, s \in Requests : pc[r] \in Selecting /\ pc[s] \in Selecting => r = s

\* What the counters say of admissionSaturated's answer "no", given what moved since.
NotSaturated(p) ==
    \/ MaxInflight = 0
    \/ inFlight[p] < MaxInflight + joined[p]
    \/ \A q \in Peers \ {p} : inFlight[q] + left[q] >= MaxInflight

Scanned(r) == IF pc[r] = "scan" THEN 1 .. next[r] - 1 ELSE Peers

\* The ranking loop: best is a lowest key of the candidates loaded so far.
BestSoFar(r) ==
    /\ \A q \in Scanned(r) : least[r] <= Rank(r, q) + 2 * left[q]
    /\ Scanned(r) # {} /\ pc[r] # "reserve" =>
          Rank(r, peer[r]) <= least[r] + 2 * joined[peer[r]]

\* The switch on the affine peer is entered for one that holds the model.
AffineHolds(r) ==
    pc[r] \in {"full", "room", "discount"} =>
        \E a \in Peers : IsAffine(r, a) /\ bias[r][a] = 0

\* The others found full by admissionSaturated so far.
FullSoFar(r) ==
    pc[r] = "room" =>
        \A q \in 1 .. next[r] - 1 : IsAffine(r, q) \/ inFlight[q] + left[q] >= MaxInflight

AffineFits(r) ==
    pc[r] = "discount" => \A a \in Peers : IsAffine(r, a) => NotSaturated(a)

\* The choice is best, or the affine peer within its discount.
Chosen(r) ==
    pc[r] = "reserve" =>
        \/ Rank(r, peer[r]) <= least[r] + 2 * joined[peer[r]]
        \/ /\ bias[r][peer[r]] = 0
           /\ Rank(r, peer[r]) <= least[r] + Bonus + 2 * joined[peer[r]]
           /\ NotSaturated(peer[r])

PickInv(r) ==
    /\ BestSoFar(r) /\ AffineHolds(r) /\ FullSoFar(r) /\ AffineFits(r) /\ Chosen(r)

\* A loop over the candidates starts with the first.
Rewound == \A r \in Requests : pc[r] \notin {"scan", "room"} => next[r] = 1

PicksInv == OnePick /\ Rewound /\ \A r \in Requests : pc[r] \in Selecting => PickInv(r)

\* What pins and departures may do to the counters while a pick holds selectMu.
Drifted ==
    \A q \in Peers : /\ inFlight'[q] + left'[q] >= inFlight[q] + left[q]
                     /\ inFlight'[q] - joined'[q] <= inFlight[q] - joined[q]

\* The variables of the pick itself.
Same(r) ==
    /\ pc'[r] = pc[r] /\ peer'[r] = peer[r] /\ key'[r] = key[r]
    /\ bias'[r] = bias[r] /\ next'[r] = next[r] /\ least'[r] = least[r]

\* What a pick has found survives the pins and departures of others.
LEMMA DriftKeepsPick ==
    ASSUME TypeOK, TypeOK', NEW r \in Requests, PickInv(r), Drifted, Same(r)
    PROVE  PickInv(r)'
<1>1. \A q \in Peers : /\ Rank(r, q)' + 2 * left'[q] >= Rank(r, q) + 2 * left[q]
                       /\ Rank(r, q)' - 2 * joined'[q] <= Rank(r, q) - 2 * joined[q]
  <2> SUFFICES ASSUME NEW q \in Peers
               PROVE  /\ Rank(r, q)' + 2 * left'[q] >= Rank(r, q) + 2 * left[q]
                      /\ Rank(r, q)' - 2 * joined'[q] <= Rank(r, q) - 2 * joined[q]
    OBVIOUS
  <2>1. /\ bias[r][q] \in Int /\ bias'[r][q] = bias[r][q]
        /\ inFlight[q] \in Int /\ inFlight'[q] \in Int /\ left[q] \in Int /\ left'[q] \in Int
        /\ joined[q] \in Int /\ joined'[q] \in Int
    <3>1. bias[r] \in [Peers -> {0, 1, 3, Unreachable}]
      BY DEF TypeOK
    <3>2. bias[r][q] \in {0, 1, 3, Unreachable} /\ bias'[r] = bias[r]
      BY <3>1 DEF Same
    <3> QED
      BY <3>2 DEF TypeOK, Unreachable
  <2> QED
    BY <2>1 DEF Drifted, Rank
<1>2. \A q \in Peers : /\ Rank(r, q) \in Int /\ Rank(r, q)' \in Int
                       /\ left[q] \in Int /\ left'[q] \in Int
                       /\ joined[q] \in Int /\ joined'[q] \in Int
                       /\ inFlight[q] \in Int /\ inFlight'[q] \in Int
  <2>1. \A q \in Peers : Rank(r, q) \in Int
    BY RankIsNat
  <2>2. \A q \in Peers : bias'[r][q] \in Int /\ inFlight'[q] \in Int
    <3>1. bias'[r] \in [Peers -> {0, 1, 3, Unreachable}] /\ inFlight' \in [Peers -> Nat]
      BY DEF TypeOK
    <3>2. \A q \in Peers : bias'[r][q] \in {0, 1, 3, Unreachable}
      BY <3>1
    <3> QED
      BY <3>1, <3>2 DEF Unreachable
  <2>3. \A q \in Peers : Rank(r, q)' \in Int
    BY <2>2 DEF Rank
  <2> QED
    BY <2>1, <2>3 DEF TypeOK
<1>3. \A q \in Peers : IsAffine(r, q)' <=> IsAffine(r, q)
  BY DEF Same, IsAffine
<1>4. /\ peer[r] \in Peers /\ next[r] \in Nat /\ least[r] \in Nat
      /\ Scanned(r) \subseteq Peers /\ Scanned(r)' = Scanned(r)
      /\ 1 .. next[r] - 1 \subseteq Peers
  <2>1. peer[r] \in Peers /\ next[r] \in Peers /\ least[r] \in Nat
    BY DEF TypeOK
  <2>2. 1 .. next[r] - 1 \subseteq Peers
    BY <2>1 DEF Peers
  <2>3. Scanned(r)' = Scanned(r)
    BY DEF Scanned, Same
  <2> QED
    BY <2>1, <2>2, <2>3 DEF Scanned, Peers
<1>5. \A p \in Peers : NotSaturated(p) => NotSaturated(p)'
  BY <1>2 DEF NotSaturated, Drifted
<1>6. BestSoFar(r)'
  BY <1>1, <1>2, <1>4 DEF PickInv, BestSoFar, Same
<1>7. AffineHolds(r)'
  BY <1>3 DEF PickInv, AffineHolds, Same
<1>8. FullSoFar(r)'
  BY <1>2, <1>3, <1>4 DEF PickInv, FullSoFar, Same, Drifted
<1>9. AffineFits(r)'
  BY <1>3, <1>5 DEF PickInv, AffineFits, Same
<1>10. Chosen(r)'
  BY <1>1, <1>2, <1>4, <1>5 DEF PickInv, Chosen, Same
<1> QED
  BY <1>6, <1>7, <1>8, <1>9, <1>10 DEF PickInv

\* The affine peer is one: ties go to the lower peer.
LEMMA AffineIsOne ==
    ASSUME TypeOK, NEW r \in Requests, NEW a \in Peers, NEW b \in Peers,
           IsAffine(r, a), IsAffine(r, b)
    PROVE  a = b
<1>1. key[r] \in Keys
  BY DEF TypeOK, IsAffine
<1>2. Score[key[r]][a] \in Nat /\ Score[key[r]][b] \in Nat
  BY <1>1
<1> QED
  BY <1>2 DEF IsAffine, Peers

\* While one request picks, a step of another is not a step of a pick and moves the
\* counters as a pin or a departure does.
LEMMA OthersDrift ==
    ASSUME TypeOK, OnePick, NEW r \in Requests, pc[r] \in Selecting,
           NEW s \in Requests \ {r}, RequestStep(s)
    PROVE  Drifted /\ Same(r) /\ pc'[s] \notin Selecting
<1> USE DEF TypeOK, Selecting
<1>1. pc[s] \notin Selecting /\ ~selectMuFree
  BY DEF OnePick, selectMuFree
<1>2. CASE ReadBias(s) \/ AcquireNow(s) \/ PeerFull(s) \/ TakeSlot(s) \/ QueueTimeout(s) \/ Serve(s)
  <2>1. inFlight' = inFlight /\ left' = left /\ joined' = joined
    BY <1>2 DEF ReadBias, AcquireNow, PeerFull, TakeSlot, QueueTimeout, Serve
  <2>2. Drifted
    BY <2>1 DEF Drifted
  <2>3. Same(r) /\ pc'[s] \notin Selecting
    BY <1>2 DEF Same, ReadBias, AcquireNow, PeerFull, TakeSlot, QueueTimeout, Serve
  <2> QED
    BY <2>2, <2>3
<1>3. CASE Pin(s)
  <2>1. PICK p \in Peers :
           /\ inFlight' = [inFlight EXCEPT ![p] = @ + 1]
           /\ joined' = [joined EXCEPT ![p] = @ + 1]
           /\ peer' = [peer EXCEPT ![s] = p]
    BY <1>1, <1>3 DEF Pin
  <2>2. left' = left
    BY <1>3 DEF Pin
  <2>3. Drifted
    BY <2>1, <2>2 DEF Drifted
  <2>4. Same(r) /\ pc'[s] \notin Selecting
    BY <1>3, <2>1 DEF Same, Pin
  <2> QED
    BY <2>3, <2>4
<1>4. CASE Leave(s)
  <2>1. /\ inFlight' = [inFlight EXCEPT ![peer[s]] = @ - 1]
        /\ left' = [left EXCEPT ![peer[s]] = @ + 1]
        /\ joined' = joined
    BY <1>1, <1>4 DEF Leave
  <2>2. Drifted
    BY <2>1 DEF Drifted
  <2>3. Same(r) /\ pc'[s] \notin Selecting
    BY <1>4 DEF Same, Leave
  <2> QED
    BY <2>2, <2>3
<1> QED
  BY <1>1, <1>2, <1>3, <1>4
  DEF RequestStep, Lock, ReadCount, ReadAffine, ReadOther, Discount, Reserve

(***************************************************************************)
(* The steps of the pick itself, one lemma each.                           *)
(***************************************************************************)
\* Lock starts the loop with nothing scanned.
LEMMA LockPick ==
    ASSUME TypeOK, NEW r \in Requests, Rewound, Lock(r)
    PROVE  PickInv(r)'
<1>1. pc'[r] = "scan" /\ next'[r] = 1
  BY DEF TypeOK, Rewound, Lock
<1>2. Scanned(r)' = {}
  BY <1>1 DEF Scanned
<1>3. BestSoFar(r)'
  BY <1>2 DEF BestSoFar
<1> QED
  BY <1>1, <1>3 DEF PickInv, AffineHolds, FullSoFar, AffineFits, Chosen

\* The loop: the candidate loaded is compared with the best of those before it.
LEMMA ReadCountPick ==
    ASSUME TypeOK, NEW r \in Requests, PickInv(r), ReadCount(r)
    PROVE  PickInv(r)'
<1> DEFINE p == next[r]
           better == p = 1 \/ Rank(r, p) < least[r]
<1>1. /\ pc[r] = "scan"
      /\ least'[r] = IF better THEN Rank(r, p) ELSE least[r]
      /\ peer'[r] = IF better THEN p ELSE peer[r]
      /\ next'[r] = IF p < NumPeers THEN p + 1 ELSE 1
      /\ pc'[r] = IF p < NumPeers THEN "scan" ELSE AfterScan(r)
      /\ UNCHANGED <<inFlight, key, bias, joined, left>>
  BY DEF TypeOK, ReadCount
<1>2. /\ p \in Peers /\ peer[r] \in Peers /\ least[r] \in Nat
      /\ \A q \in Peers : Rank(r, q) \in Nat /\ joined[q] \in Nat /\ left[q] \in Nat
  BY RankIsNat DEF TypeOK
<1>3. \A q \in Peers : (Rank(r, q)' = Rank(r, q)) /\ (IsAffine(r, q)' <=> IsAffine(r, q))
  BY <1>1 DEF Rank, IsAffine
<1>4. AfterScan(r) \in {"full", "discount", "reserve"}
  BY DEF AfterScan
<1>5. Scanned(r)' = Scanned(r) \cup {p} /\ Scanned(r) = 1 .. p - 1
  <2>1. Scanned(r) = 1 .. p - 1
    BY <1>1 DEF Scanned
  <2>2. p \in 1 .. NumPeers /\ NumPeers \in Nat
    BY <1>2 DEF Peers
  <2>3. CASE p < NumPeers
    <3>1. Scanned(r)' = 1 .. (p + 1) - 1
      BY <1>1, <2>3 DEF Scanned
    <3> QED
      BY <2>1, <2>2, <3>1
  <2>4. CASE p = NumPeers
    <3>1. pc'[r] # "scan"
      BY <1>1, <1>4, <2>2, <2>4
    <3>2. Scanned(r)' = 1 .. NumPeers
      BY <3>1 DEF Scanned, Peers
    <3> QED
      BY <2>1, <2>2, <2>4, <3>2
  <2> QED
    BY <2>2, <2>3, <2>4
<1>6. /\ \A q \in 1 .. p - 1 : least[r] <= Rank(r, q) + 2 * left[q]
      /\ p # 1 => Rank(r, peer[r]) <= least[r] + 2 * joined[peer[r]]
  <2>1. p # 1 => Scanned(r) # {}
    <3>1. p \in Nat /\ p >= 1
      BY <1>2 DEF Peers
    <3>2. p # 1 => 1 \in 1 .. p - 1
      BY <3>1
    <3> QED
      BY <1>5, <3>2
  <2> QED
    BY <1>1, <1>5, <2>1 DEF PickInv, BestSoFar
<1>7. \A q \in 1 .. p - 1 : q \in Peers
  BY <1>2 DEF Peers
<1>8. \A q \in Scanned(r)' : least'[r] <= Rank(r, q)' + 2 * left'[q]
  <2>1. \A q \in 1 .. p - 1 : least'[r] <= Rank(r, q) + 2 * left[q]
    <3>1. CASE p = 1
      BY <3>1
    <3>2. CASE p # 1
      BY <1>1, <1>2, <1>6, <1>7, <3>2
    <3> QED
      BY <3>1, <3>2
  <2>2. least'[r] <= Rank(r, p) + 2 * left[p]
    BY <1>1, <1>2
  <2> QED
    BY <1>1, <1>2, <1>3, <1>5, <1>7, <2>1, <2>2
<1>9. peer'[r] \in Peers /\ Rank(r, peer'[r]) <= least'[r] + 2 * joined[peer'[r]]
  BY <1>1, <1>2, <1>6
<1>10. Rank(r, peer[r])' = Rank(r, peer'[r])
  BY <1>1 DEF Rank
<1>11. BestSoFar(r)'
  BY <1>1, <1>8, <1>9, <1>10 DEF BestSoFar
<1>12. AffineHolds(r)' /\ FullSoFar(r)'
  <2>1. pc'[r] \in {"full", "room", "discount"} =>
           \E a \in Peers : IsAffine(r, a) /\ bias[r][a] = 0
    BY <1>1 DEF AfterScan
  <2>2. AffineHolds(r)'
    BY <1>1, <1>3, <2>1 DEF AffineHolds
  <2> QED
    BY <1>1, <1>4, <2>2 DEF FullSoFar
<1>13. AffineFits(r)'
  <2>1. pc'[r] = "discount" => MaxInflight = 0
    BY <1>1 DEF AfterScan
  <2> QED
    BY <2>1 DEF AffineFits, NotSaturated
<1>14. Chosen(r)'
  BY <1>1, <1>9, <1>10 DEF Chosen
<1> QED
  BY <1>11, <1>12, <1>13, <1>14 DEF PickInv

\* A step of the pick that changes neither the counters nor its best candidate.
LEMMA FoundIsKept ==
    ASSUME TypeOK, NEW r \in Requests, PickInv(r),
           pc[r] \in {"full", "room"}, pc'[r] \in {"room", "discount", "reserve"},
           UNCHANGED <<inFlight, joined, left, peer, key, bias, least>>
    PROVE  /\ BestSoFar(r)' /\ AffineHolds(r)' /\ Chosen(r)'
           /\ \A q \in Peers : IsAffine(r, q)' <=> IsAffine(r, q)
<1>1. \A q \in Peers : (Rank(r, q)' = Rank(r, q)) /\ (IsAffine(r, q)' <=> IsAffine(r, q))
  BY DEF Rank, IsAffine
<1>2. peer[r] \in Peers /\ Scanned(r) = Peers /\ Scanned(r)' = Peers /\ Peers # {}
  BY Numbered DEF TypeOK, Scanned
<1>3. Rank(r, peer[r])' = Rank(r, peer[r]) /\ peer'[r] = peer[r]
  BY DEF Rank
<1>4. /\ \A q \in Peers : least[r] <= Rank(r, q) + 2 * left[q]
      /\ Rank(r, peer[r]) <= least[r] + 2 * joined[peer[r]]
  BY <1>2 DEF PickInv, BestSoFar
<1>5. BestSoFar(r)'
  BY <1>1, <1>2, <1>3, <1>4 DEF BestSoFar
<1>6. AffineHolds(r)'
  BY <1>1 DEF PickInv, AffineHolds
<1>7. Chosen(r)'
  BY <1>3, <1>4 DEF Chosen
<1> QED
  BY <1>1, <1>5, <1>6, <1>7

\* admissionSaturated, the affine peer: below the cap, it is not saturated.
LEMMA ReadAffinePick ==
    ASSUME TypeOK, Rewound, NEW r \in Requests, PickInv(r), ReadAffine(r)
    PROVE  PickInv(r)'
<1>1. PICK a \in Peers :
         /\ IsAffine(r, a)
         /\ pc' = [pc EXCEPT ![r] = IF inFlight[a] < MaxInflight THEN "discount" ELSE "room"]
  BY DEF ReadAffine
<1>2. /\ pc[r] = "full"
      /\ UNCHANGED <<inFlight, joined, left, peer, key, bias, least, next>>
  BY DEF ReadAffine
<1>3. pc'[r] = IF inFlight[a] < MaxInflight THEN "discount" ELSE "room"
  BY <1>1 DEF TypeOK
<1>4. /\ BestSoFar(r)' /\ AffineHolds(r)' /\ Chosen(r)'
      /\ \A q \in Peers : IsAffine(r, q)' <=> IsAffine(r, q)
  BY <1>2, <1>3, FoundIsKept
<1>5. AffineFits(r)'
  <2> SUFFICES ASSUME pc'[r] = "discount", NEW b \in Peers, IsAffine(r, b)
               PROVE  NotSaturated(b)'
    BY <1>4 DEF AffineFits
  <2>1. b = a /\ inFlight[a] < MaxInflight
    BY <1>1, <1>3, AffineIsOne
  <2>2. inFlight'[b] < MaxInflight + joined'[b]
    BY <1>2, <2>1 DEF TypeOK
  <2> QED
    BY <2>2 DEF NotSaturated
<1>6. FullSoFar(r)'
  <2>1. next[r] = 1
    BY <1>2 DEF Rewound
  <2> QED
    BY <1>2, <2>1 DEF FullSoFar
<1> QED
  BY <1>4, <1>5, <1>6 DEF PickInv

\* admissionSaturated, another peer: with room, the best is taken; without any, the affine
\* peer is not saturated.
LEMMA ReadOtherPick ==
    ASSUME TypeOK, NEW r \in Requests, PickInv(r), ReadOther(r)
    PROVE  PickInv(r)'
<1> DEFINE n == next[r]
<1>1. /\ pc[r] = "room"
      /\ pc'[r] = IF HasRoom(r, n) THEN "reserve" ELSE IF n = NumPeers THEN "discount" ELSE "room"
      /\ next'[r] = IF pc'[r] = "room" THEN n + 1 ELSE 1
      /\ UNCHANGED <<inFlight, joined, left, peer, key, bias, least>>
  BY DEF TypeOK, ReadOther
<1>2. /\ BestSoFar(r)' /\ AffineHolds(r)' /\ Chosen(r)'
      /\ \A q \in Peers : IsAffine(r, q)' <=> IsAffine(r, q)
  <2>1. pc'[r] \in {"room", "discount", "reserve"}
    BY <1>1
  <2> QED
    BY <1>1, <2>1, FoundIsKept
<1>3. n \in 1 .. NumPeers /\ NumPeers \in Nat
  BY DEF TypeOK, Peers
<1>4. ASSUME ~HasRoom(r, n), NEW q \in 1 .. n
      PROVE  q \in Peers /\ (IsAffine(r, q) \/ inFlight[q] + left[q] >= MaxInflight)
  <2>1. q \in Peers
    BY <1>3 DEF Peers
  <2>2. CASE q = n
    <3>1. IsAffine(r, q) \/ inFlight[q] >= MaxInflight
      BY <1>4, <2>1, <2>2 DEF HasRoom, TypeOK
    <3> QED
      BY <2>1, <3>1 DEF TypeOK
  <2>3. CASE q # n
    <3>1. q \in 1 .. n - 1
      BY <1>3, <2>3
    <3> QED
      BY <1>1, <2>1, <3>1 DEF PickInv, FullSoFar
  <2> QED
    BY <2>2, <2>3
<1>5. FullSoFar(r)'
  <2> SUFFICES ASSUME pc'[r] = "room", NEW q \in 1 .. next'[r] - 1
               PROVE  IsAffine(r, q)' \/ inFlight'[q] + left'[q] >= MaxInflight
    BY DEF FullSoFar
  <2>1. ~HasRoom(r, n) /\ q \in 1 .. n
    BY <1>1, <1>3
  <2> QED
    BY <1>1, <1>2, <1>4, <2>1
<1>6. AffineFits(r)'
  <2> SUFFICES ASSUME pc'[r] = "discount", NEW a \in Peers, IsAffine(r, a)
               PROVE  NotSaturated(a)'
    BY <1>2 DEF AffineFits
  <2>1. ~HasRoom(r, n) /\ n = NumPeers
    BY <1>1
  <2>2. \A q \in Peers \ {a} : inFlight[q] + left[q] >= MaxInflight
    <3> SUFFICES ASSUME NEW q \in Peers \ {a}
                 PROVE  inFlight[q] + left[q] >= MaxInflight
      OBVIOUS
    <3>1. q \in 1 .. n
      BY <2>1 DEF Peers
    <3>2. ~IsAffine(r, q)
      BY AffineIsOne
    <3> QED
      BY <1>4, <2>1, <3>1, <3>2
  <2> QED
    BY <1>1, <2>2 DEF NotSaturated
<1> QED
  BY <1>2, <1>5, <1>6 DEF PickInv

\* The discount: the affine peer is taken within Bonus of the best, or the best is.
LEMMA DiscountPick ==
    ASSUME TypeOK, NEW r \in Requests, PickInv(r), Discount(r)
    PROVE  PickInv(r)'
<1>1. PICK a \in Peers :
         /\ IsAffine(r, a)
         /\ peer' = [peer EXCEPT ![r] = IF Rank(r, a) - Bonus <= least[r] THEN a ELSE @]
  BY DEF Discount
<1>2. /\ pc[r] = "discount" /\ pc'[r] = "reserve"
      /\ UNCHANGED <<inFlight, joined, left, key, bias, least>>
  BY DEF TypeOK, Discount
<1>3. peer'[r] = IF Rank(r, a) - Bonus <= least[r] THEN a ELSE peer[r]
  BY <1>1 DEF TypeOK
<1>4. \A q \in Peers : Rank(r, q)' = Rank(r, q)
  BY <1>2 DEF Rank
<1>5. BestSoFar(r)'
  <2>1. Scanned(r) = Peers /\ Scanned(r)' = Peers
    BY <1>2 DEF Scanned
  <2> QED
    BY <1>2, <1>4, <2>1 DEF PickInv, BestSoFar
<1>6. Chosen(r)'
  <2>1. Rank(r, peer[r]) <= least[r] + 2 * joined[peer[r]]
    BY <1>2, Numbered DEF PickInv, BestSoFar, Scanned
  <2>2. bias[r][a] = 0 /\ NotSaturated(a)
    BY <1>1, <1>2, AffineIsOne DEF PickInv, AffineHolds, AffineFits
  <2>3. Rank(r, a) \in Nat /\ joined[a] \in Nat /\ least[r] \in Nat
    BY RankIsNat DEF TypeOK
  <2>4. CASE Rank(r, a) - Bonus <= least[r]
    <3>1. Rank(r, a) <= least[r] + Bonus + 2 * joined[a]
      BY <2>3, <2>4
    <3>2. NotSaturated(a)'
      BY <1>2, <2>2 DEF NotSaturated
    <3> QED
      BY <1>2, <1>3, <1>4, <2>2, <2>4, <3>1, <3>2 DEF Chosen
  <2>5. CASE ~(Rank(r, a) - Bonus <= least[r])
    <3>1. peer'[r] = peer[r] /\ Rank(r, peer[r])' = Rank(r, peer[r])
      BY <1>2, <1>3, <2>5 DEF Rank
    <3> QED
      BY <1>2, <2>1, <3>1 DEF Chosen
  <2> QED
    BY <2>4, <2>5
<1> QED
  BY <1>2, <1>5, <1>6 DEF PickInv, AffineHolds, FullSoFar, AffineFits

\* A loop over the candidates starts with the first, whatever step is taken.
LEMMA StepRewound ==
    ASSUME TypeOK, Rewound, NEW s \in Requests, RequestStep(s)
    PROVE  Rewound'
<1> USE DEF TypeOK, Rewound
<1>1. CASE ReadCount(s)
  BY <1>1 DEF ReadCount
<1>2. CASE ReadOther(s)
  BY <1>2 DEF ReadOther
<1>3. CASE Reserve(s)
  BY <1>3 DEF Reserve
<1>4. CASE Lock(s) \/ ReadAffine(s) \/ Discount(s)
  BY <1>4 DEF Lock, ReadAffine, Discount
<1>5. CASE ReadBias(s) \/ Pin(s)
  BY <1>5 DEF ReadBias, Pin
<1>6. CASE AcquireNow(s) \/ PeerFull(s) \/ TakeSlot(s) \/ QueueTimeout(s) \/ Serve(s) \/ Leave(s)
  BY <1>6 DEF AcquireNow, PeerFull, TakeSlot, QueueTimeout, Serve, Leave
<1> QED
  BY <1>1, <1>2, <1>3, <1>4, <1>5, <1>6 DEF RequestStep

\* A step of a request leaves the others where they are, and only a pick stays one.
LEMMA StepFrame ==
    ASSUME TypeOK, NEW s \in Requests, RequestStep(s)
    PROVE  /\ \A r \in Requests \ {s} : pc'[r] = pc[r]
           /\ pc'[s] \in Selecting => Selection(s)
<1> USE DEF TypeOK
<1>1. CASE Selection(s)
  BY <1>1, SelectionFrame
<1>2. CASE Reserve(s) \/ ReadBias(s) \/ Pin(s)
  BY <1>2 DEF Reserve, ReadBias, Pin, Selecting
<1>3. CASE AcquireNow(s) \/ PeerFull(s) \/ TakeSlot(s) \/ QueueTimeout(s) \/ Serve(s) \/ Leave(s)
  BY <1>3 DEF AcquireNow, PeerFull, TakeSlot, QueueTimeout, Serve, Leave, Selecting
<1> QED
  BY <1>1, <1>2, <1>3 DEF RequestStep, Selection

\* What a step of a pick makes of what it had found.
LEMMA SelectionPick ==
    ASSUME TypeOK, PicksInv, NEW r \in Requests, Selection(r)
    PROVE  PickInv(r)'
<1>1. CASE Lock(r)
  BY <1>1, LockPick DEF PicksInv
<1>2. CASE ~Lock(r)
  <2>1. pc[r] \in Selecting
    BY <1>2 DEF Selection, ReadCount, ReadAffine, ReadOther, Discount, Selecting
  <2>2. PickInv(r) /\ Rewound
    BY <2>1 DEF PicksInv
  <2> QED
    BY <1>2, <2>2, ReadCountPick, ReadAffinePick, ReadOtherPick, DiscountPick DEF Selection
<1> QED
  BY <1>1, <1>2

\* Every step keeps what the pick in progress has found.
LEMMA StepPicks ==
    ASSUME TypeOK, TypeOK', PicksInv, [Next]_vars
    PROVE  PicksInv'
<1>1. CASE UNCHANGED vars
  <2>1. \A r \in Requests : PickInv(r)' <=> PickInv(r)
    BY <1>1 DEF vars, PickInv, BestSoFar, AffineHolds, FullSoFar, AffineFits, Chosen, Scanned,
       NotSaturated, IsAffine, Rank
  <2> QED
    BY <1>1, <2>1 DEF vars, PicksInv, OnePick, Rewound
<1>2. ASSUME NEW p \in Peers, Poll(p) PROVE PicksInv'
  <2>1. UNCHANGED <<inFlight, slots, pc, peer, key, bias, next, least, joined, left>>
    BY <1>2 DEF Poll
  <2>2. \A r \in Requests : PickInv(r)' <=> PickInv(r)
    BY <2>1 DEF PickInv, BestSoFar, AffineHolds, FullSoFar, AffineFits, Chosen, Scanned,
       NotSaturated, IsAffine, Rank
  <2> QED
    BY <2>1, <2>2 DEF PicksInv, OnePick, Rewound
<1>3. ASSUME NEW s \in Requests, RequestStep(s) PROVE PicksInv'
  <2>1. /\ \A r \in Requests \ {s} : pc'[r] = pc[r]
        /\ pc'[s] \in Selecting => Selection(s)
    BY <1>3, StepFrame
  <2>2. \A r \in Requests \ {s} :
           pc[r] \in Selecting => Drifted /\ Same(r) /\ pc'[s] \notin Selecting
    BY <1>3, OthersDrift DEF PicksInv
  <2>3. OnePick'
    BY <2>1, <2>2 DEF PicksInv, OnePick
  <2>4. Rewound'
    BY <1>3, StepRewound DEF PicksInv
  <2>5. ASSUME NEW r \in Requests, pc'[r] \in Selecting PROVE PickInv(r)'
    <3>1. CASE r = s
      BY <2>1, <2>5, <3>1, SelectionPick
    <3>2. CASE r # s
      <4>1. pc[r] \in Selecting
        BY <2>1, <2>5, <3>2
      <4>2. PickInv(r) /\ Drifted /\ Same(r)
        BY <2>2, <3>2, <4>1 DEF PicksInv
      <4> QED
        BY <4>2, DriftKeepsPick
    <3> QED
      BY <3>1, <3>2
  <2> QED
    BY <2>3, <2>4, <2>5 DEF PicksInv
<1> QED
  BY <1>1, <1>2, <1>3 DEF Next

\* What the invariant says of the choice is the bound of the property.
LEMMA ChosenIsBounded ==
    ASSUME TypeOK, PicksInv
    PROVE  AffinityIsBounded
<1> SUFFICES ASSUME NEW r \in Requests, pc[r] = "reserve", NEW q \in Peers
             PROVE  LET p == peer[r]
                    IN  /\ Rank(r, p) <= Rank(r, q) + Bonus + 2 * Drift(p, q)
                        /\ Rank(r, p) > Rank(r, q) + 2 * Drift(p, q) =>
                              /\ bias[r][p] = 0
                              /\ MaxInflight > 0 /\ inFlight[p] >= MaxInflight
                                                 /\ inFlight[q] < MaxInflight => Drift(p, q) > 0
  BY DEF AffinityIsBounded
<1> DEFINE p == peer[r]
<1>1. /\ p \in Peers /\ Rank(r, p) \in Nat /\ Rank(r, q) \in Nat /\ least[r] \in Nat
      /\ joined[p] \in Nat /\ left[q] \in Nat /\ inFlight[p] \in Nat /\ inFlight[q] \in Nat
  BY RankIsNat DEF TypeOK
<1>2. BestSoFar(r) /\ Chosen(r)
  BY DEF PicksInv, PickInv, Selecting
<1>3. least[r] <= Rank(r, q) + 2 * left[q]
  BY <1>2 DEF BestSoFar, Scanned
<1>4. CASE Rank(r, p) <= least[r] + 2 * joined[p]
  <2>1. Rank(r, p) <= Rank(r, q) + 2 * Drift(p, q)
    BY <1>1, <1>3, <1>4 DEF Drift
  <2>2. Drift(p, q) \in Nat
    BY <1>1 DEF Drift
  <2> QED
    BY <1>1, <2>1, <2>2
<1>5. CASE /\ bias[r][p] = 0
           /\ Rank(r, p) <= least[r] + Bonus + 2 * joined[p]
           /\ NotSaturated(p)
  <2>1. Rank(r, p) <= Rank(r, q) + Bonus + 2 * Drift(p, q)
    BY <1>1, <1>3, <1>5 DEF Drift
  <2>2. ASSUME MaxInflight > 0, inFlight[p] >= MaxInflight, inFlight[q] < MaxInflight
        PROVE  Drift(p, q) > 0
    <3>1. p # q
      BY <1>1, <2>2
    <3>2. joined[p] > 0 \/ left[q] > 0
      BY <1>1, <1>5, <2>2, <3>1 DEF NotSaturated
    <3> QED
      BY <1>1, <3>2 DEF Drift
  <2> QED
    BY <1>5, <2>1, <2>2
<1> QED
  BY <1>2, <1>4, <1>5 DEF Chosen

\* pickPeerForModelWithAffinity: affinity is a bounded tiebreak.  For any peers, scores,
\* bonus and cap, however stale the biases are, and although pins and departures move
\* the counters while a pick loads them one by one: the peer reserved is within Bonus of
\* the best rank up to just those pins and departures, and one preferred over a better
\* one holds the model and, up to them, is not saturated.
THEOREM AffinityIsBoundedAlways == Spec => []AffinityIsBounded
<1>1. Init => PicksInv
  BY DEF Init, PicksInv, OnePick, Rewound, Selecting
<1>2. TypeOK /\ TypeOK' /\ PicksInv /\ [Next]_vars => PicksInv'
  BY StepPicks
<1>3. TypeOK /\ PicksInv => AffinityIsBounded
  BY ChosenIsBounded
<1> QED
  BY <1>1, <1>2, <1>3, AdmissionSafety, PTL DEF Spec
=============================================================================
