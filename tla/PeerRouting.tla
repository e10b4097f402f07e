---------------------------- MODULE PeerRouting ----------------------------
(***************************************************************************)
(* Dispatch of requests for one model to the peers that serve it: the      *)
(* load-aware pick with prompt-cache affinity (proxy/peerproxy.go,         *)
(* peer_affinity.go) and the per-peer admission semaphore                  *)
(* (peer_admission.go).  The rank is computed from loaded-state biases     *)
(* read before selectMu is taken.  Under the lock every in-flight counter  *)
(* is an atomic load of its own, compared again for the affine peer, and   *)
(* the reservation is the last step; pinned requests count themselves, and *)
(* every request leaves, without the lock.                                 *)
(***************************************************************************)
EXTENDS Integers, FiniteSets

CONSTANTS
    NumPeers,            \* peers that list the model, numbered in peerOrder
    Requests,            \* request goroutines, each reused for many requests
    Keys,                \* conversations
    Score,               \* affinityScore: key -> peer -> rendezvous weight
    AffinityEnabled,     \* config peerAffinity.enabled
    Bonus,               \* affinityConfig.bonus
    MaxInflight,         \* maxInflightPerPeer; 0 disables admission
    QueueWait,           \* queueTimeout > 0
    Biases,              \* loaded states the polls may report
    MaxPins              \* bound: pins that reach one peer during one pick

Peers == 1 .. NumPeers
NoKey == "no key"
Unreachable == 6

ASSUME PeerRoutingAssumption ==
    /\ NumPeers \in Nat \ {0}
    /\ IsFiniteSet(Requests)
    /\ NoKey \notin Keys
    /\ Score \in [Keys -> [Peers -> Nat]]
    /\ AffinityEnabled \in BOOLEAN /\ QueueWait \in BOOLEAN
    /\ Bonus \in Nat /\ MaxInflight \in Nat /\ MaxPins \in Nat
    /\ Biases \subseteq {0, 1, 3, Unreachable} /\ Biases # {}

VARIABLES
    cache,               \* the bias peerModelBias would read for each peer
    inFlight,            \* peerProxyMember.inFlight
    slots,               \* peerAdmission.slots: holders of each semaphore
    pc, peer, key,       \* each request: where it is, its peer, its conversation
    bias,                \* the biases a request read
    next,                \* in a pick: the candidate whose counter is loaded next
    least,               \* in a pick: bestKey; peer[r] holds best, then the choice
    joined, left         \* history: pins to and departures from each peer while a
                         \* pick holds selectMu; zero while nobody does

admission == <<cache, slots>>
picking == <<key, bias, next, least>>
drift == <<joined, left>>
vars == <<cache, inFlight, slots, pc, peer, key, bias, next, least, joined, left>>

NoBias == [p \in Peers |-> Unreachable]

Init ==
    /\ cache \in [Peers -> Biases]
    /\ inFlight = [p \in Peers |-> 0]
    /\ slots = [p \in Peers |-> {}]
    /\ pc = [r \in Requests |-> "idle"]
    /\ peer = [r \in Requests |-> 1]
    /\ key = [r \in Requests |-> NoKey]
    /\ bias = [r \in Requests |-> NoBias]
    /\ next = [r \in Requests |-> 1]
    /\ least = [r \in Requests |-> 0]
    /\ joined = [p \in Peers |-> 0]
    /\ left = [p \in Peers |-> 0]

\* A poll of /v1/models, or its expiry, changes what is known of a peer.
Poll(p) ==
    /\ \E b \in Biases : cache' = [cache EXCEPT ![p] = b]
    /\ UNCHANGED <<inFlight, slots, pc, peer, picking, drift>>

\* affinityKeyFromRequest: the session header or the first user message names the
\* conversation; a request too short or without either has none.
affinityKeyFromRequest == Keys \cup {NoKey}

\* A by-name request with several candidates; a single candidate is counted at once,
\* without selectMu, as Pin does.  The biases are read outside the lock and may be stale
\* when used.
ReadBias(r) ==
    /\ pc[r] = "idle"
    /\ NumPeers > 1
    /\ \E k \in affinityKeyFromRequest : key' = [key EXCEPT ![r] = k]
    /\ bias' = [bias EXCEPT ![r] = cache]
    /\ pc' = [pc EXCEPT ![r] = "pick"]
    /\ UNCHANGED <<admission, inFlight, peer, next, least, drift>>
-----------------------------------------------------------------------------
(***************************************************************************)
(* pickPeerForModelWithAffinity under selectMu.                            *)
(***************************************************************************)
Selecting == {"scan", "full", "room", "discount", "reserve"}

selectMuFree == \A r \in Requests : pc[r] \notin Selecting

Rank(r, p) == inFlight[p] * 2 + bias[r][p]

\* affinePeer: highest rendezvous score, the lower peer on a tie.
IsAffine(r, p) ==
    /\ AffinityEnabled
    /\ key[r] # NoKey
    /\ \A q \in Peers : \/ Score[key[r]][p] > Score[key[r]][q]
                        \/ Score[key[r]][p] = Score[key[r]][q] /\ p <= q

\* Mutant: picks rank and reserve without excluding each other.
LockShared(r) ==
    /\ pc[r] = "pick"
    /\ pc' = [pc EXCEPT ![r] = "scan"]
    /\ UNCHANGED <<admission, inFlight, peer, picking, drift>>

Lock(r) ==
    /\ pc[r] = "pick"
    /\ selectMuFree
    /\ pc' = [pc EXCEPT ![r] = "scan"]
    /\ UNCHANGED <<admission, inFlight, peer, picking, drift>>

\* The switch on the affine peer: none, or one without the model, leaves the best peer.
AfterScan(r) ==
    IF \E a \in Peers : IsAffine(r, a) /\ bias[r][a] = 0
    THEN IF MaxInflight > 0 THEN "full" ELSE "discount"
    ELSE "reserve"

\* One candidate of the ranking loop: the lowest key so far, the first in peerOrder on a
\* tie.
ReadCount(r) ==
    /\ pc[r] = "scan"
    /\ LET p == next[r]
           better == p = 1 \/ Rank(r, p) < least[r]
       IN  /\ least' = [least EXCEPT ![r] = IF better THEN Rank(r, p) ELSE @]
           /\ peer' = [peer EXCEPT ![r] = IF better THEN p ELSE @]
           /\ next' = [next EXCEPT ![r] = IF p < NumPeers THEN p + 1 ELSE 1]
           /\ pc' = [pc EXCEPT ![r] = IF p < NumPeers THEN "scan" ELSE AfterScan(r)]
    /\ UNCHANGED <<admission, inFlight, key, bias, drift>>

\* admissionSaturated: the counter of the affine peer ...
ReadAffine(r) ==
    /\ pc[r] = "full"
    /\ \E a \in Peers :
          /\ IsAffine(r, a)
          /\ pc' = [pc EXCEPT ![r] = IF inFlight[a] < MaxInflight THEN "discount" ELSE "room"]
    /\ UNCHANGED <<admission, inFlight, peer, picking, drift>>

HasRoom(r, p) == ~IsAffine(r, p) /\ inFlight[p] < MaxInflight

\* ... and then those of the others: one with room means that the affine peer is not
\* taken; without any, affinity is no worse than the alternative.
ReadOther(r) ==
    /\ pc[r] = "room"
    /\ pc' = [pc EXCEPT ![r] = IF HasRoom(r, next[r]) THEN "reserve"
                               ELSE IF next[r] = NumPeers THEN "discount" ELSE "room"]
    /\ next' = [next EXCEPT ![r] = IF pc'[r] = "room" THEN @ + 1 ELSE 1]
    /\ UNCHANGED <<admission, inFlight, peer, key, bias, least, drift>>

\* The rank of the affine peer, loaded again, against the best key found before.
Discount(r) ==
    /\ pc[r] = "discount"
    /\ \E a \in Peers :
          /\ IsAffine(r, a)
          /\ peer' = [peer EXCEPT ![r] = IF Rank(r, a) - Bonus <= least[r] THEN a ELSE @]
    /\ pc' = [pc EXCEPT ![r] = "reserve"]
    /\ UNCHANGED <<admission, inFlight, picking, drift>>

\* The reservation, and selectMu is released; key and biases are dead afterwards.
Reserve(r) ==
    /\ pc[r] = "reserve"
    /\ inFlight' = [inFlight EXCEPT ![peer[r]] = @ + 1]
    /\ pc' = [pc EXCEPT ![r] = "acquire"]
    /\ key' = [key EXCEPT ![r] = NoKey]
    /\ bias' = [bias EXCEPT ![r] = NoBias]
    /\ next' = [next EXCEPT ![r] = 1]
    /\ least' = [least EXCEPT ![r] = 0]
    /\ joined' = [p \in Peers |-> 0]
    /\ left' = [p \in Peers |-> 0]
    /\ UNCHANGED <<admission, peer>>

\* ProxyRequestToPeer: a pinned request counts itself without selectMu.
Pin(r) ==
    /\ pc[r] = "idle"
    /\ \E p \in Peers :
          /\ selectMuFree \/ joined[p] < MaxPins
          /\ inFlight' = [inFlight EXCEPT ![p] = @ + 1]
          /\ peer' = [peer EXCEPT ![r] = p]
          /\ joined' = IF selectMuFree THEN joined ELSE [joined EXCEPT ![p] = @ + 1]
    /\ pc' = [pc EXCEPT ![r] = "acquire"]
    /\ UNCHANGED <<admission, picking, left>>
-----------------------------------------------------------------------------
(***************************************************************************)
(* admitAndServe and acquire.                                              *)
(***************************************************************************)
\* Mutant: one slot too many.
HasSlotOffByOne(p) == Cardinality(slots[p]) <= MaxInflight

HasSlot(p) == Cardinality(slots[p]) < MaxInflight

\* The fast path, and the pass-through when admission is disabled.
AcquireNow(r) ==
    /\ pc[r] = "acquire"
    /\ MaxInflight = 0 \/ HasSlot(peer[r])
    /\ slots' = IF MaxInflight = 0
                THEN slots
                ELSE [slots EXCEPT ![peer[r]] = @ \cup {r}]
    /\ pc' = [pc EXCEPT ![r] = "serving"]
    /\ UNCHANGED <<cache, inFlight, peer, picking, drift>>

\* The peer is full: rejected at once (429), or queued.
PeerFull(r) ==
    /\ pc[r] = "acquire"
    /\ MaxInflight > 0 /\ ~HasSlot(peer[r])
    /\ pc' = [pc EXCEPT ![r] = IF QueueWait THEN "queued" ELSE "leave"]
    /\ UNCHANGED <<admission, inFlight, peer, picking, drift>>

TakeSlot(r) ==
    /\ pc[r] = "queued"
    /\ HasSlot(peer[r])
    /\ slots' = [slots EXCEPT ![peer[r]] = @ \cup {r}]
    /\ pc' = [pc EXCEPT ![r] = "serving"]
    /\ UNCHANGED <<cache, inFlight, peer, picking, drift>>

\* The timer fires or the client disconnects: 429.
QueueTimeout(r) ==
    /\ pc[r] = "queued"
    /\ pc' = [pc EXCEPT ![r] = "leave"]
    /\ UNCHANGED <<admission, inFlight, peer, picking, drift>>

\* The peer answers, fails or times out; the deferred release runs first ...
Serve(r) ==
    /\ pc[r] = "serving"
    /\ slots' = [slots EXCEPT ![peer[r]] = @ \ {r}]
    /\ pc' = [pc EXCEPT ![r] = "leave"]
    /\ UNCHANGED <<cache, inFlight, peer, picking, drift>>

\* Mutant: a rejected request does not give its reservation back.
LeaveKeepsCount(r) ==
    /\ pc[r] = "leave"
    /\ pc' = [pc EXCEPT ![r] = "idle"]
    /\ UNCHANGED <<admission, inFlight, peer, picking, drift>>

\* ... and then the in-flight count is given back.
Leave(r) ==
    /\ pc[r] = "leave"
    /\ inFlight' = [inFlight EXCEPT ![peer[r]] = @ - 1]
    /\ pc' = [pc EXCEPT ![r] = "idle"]
    /\ left' = IF selectMuFree THEN left ELSE [left EXCEPT ![peer[r]] = @ + 1]
    /\ UNCHANGED <<admission, peer, picking, joined>>

RequestStep(r) ==
    \/ ReadBias(r) \/ Lock(r) \/ ReadCount(r) \/ ReadAffine(r) \/ ReadOther(r)
    \/ Discount(r) \/ Reserve(r) \/ Pin(r)
    \/ AcquireNow(r) \/ PeerFull(r) \/ TakeSlot(r) \/ QueueTimeout(r)
    \/ Serve(r) \/ Leave(r)

Next ==
    \/ \E p \in Peers : Poll(p)
    \/ \E r \in Requests : RequestStep(r)

Spec == Init /\ [][Next]_vars
-----------------------------------------------------------------------------
PCs == {"idle", "pick", "acquire", "queued", "serving", "leave"} \cup Selecting

\* Types; in particular an in-flight counter never goes below zero.
TypeOK ==
    /\ cache \in [Peers -> Biases]
    /\ inFlight \in [Peers -> Nat]
    /\ slots \in [Peers -> SUBSET Requests]
    /\ pc \in [Requests -> PCs]
    /\ peer \in [Requests -> Peers]
    /\ key \in [Requests -> Keys \cup {NoKey}]
    /\ bias \in [Requests -> [Peers -> {0, 1, 3, Unreachable}]]
    /\ next \in [Requests -> Peers]
    /\ least \in [Requests -> Nat]
    /\ joined \in [Peers -> Nat]
    /\ left \in [Peers -> Nat]

Assigned(p) == {r \in Requests : /\ pc[r] \in {"acquire", "queued", "serving", "leave"}
                                 /\ peer[r] = p}

\* No exit of a request leaks or doubles a reservation: the counter the pick ranks by
\* is the number of requests dispatched to the peer, 429s and pinned ones included.
CountsAreExact == \A p \in Peers : inFlight[p] = Cardinality(Assigned(p))

\* admissionSaturated relies on it: a peer whose count is below the cap really has a
\* free slot, because every holder of a slot is still counted in flight.
RoomIsReal ==
    \A p \in Peers : MaxInflight > 0 /\ inFlight[p] < MaxInflight => HasSlot(p)

\* Admission: requests being served by one peer never exceed maxInflightPerPeer, and no
\* exit from the queue or from service keeps a slot that the counters report as free.
CapHolds ==
    /\ RoomIsReal
    /\ \A p \in Peers : MaxInflight > 0 =>
          Cardinality({r \in Assigned(p) : pc[r] = "serving"}) <= MaxInflight

\* What the counters of p and q moved against a pick of p while it held selectMu.
Drift(p, q) == joined[p] + left[q]

\* Affinity is a bounded tiebreak.  Whatever polls did since the biases were read and
\* other picks did before, the peer about to be reserved is within Bonus of the best rank
\* up to the pins and departures of this very pick, which do not take selectMu: a burst
\* of by-name requests cannot pile onto one peer.  And a peer preferred over a better
\* one holds the model and, up to the same, is not saturated.
AffinityIsBounded ==
    \A r \in Requests : pc[r] = "reserve" =>
        LET p == peer[r]
        IN  \A q \in Peers :
               /\ Rank(r, p) <= Rank(r, q) + Bonus + 2 * Drift(p, q)
               /\ Rank(r, p) > Rank(r, q) + 2 * Drift(p, q) =>
                     /\ bias[r][p] = 0
                     /\ MaxInflight > 0 /\ inFlight[p] >= MaxInflight
                                        /\ inFlight[q] < MaxInflight => Drift(p, q) > 0
=============================================================================
