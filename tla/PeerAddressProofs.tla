-------------------------- MODULE PeerAddressProofs --------------------------
(***************************************************************************)
(* What a snapshot says of a peer is recent, for any number of peers,      *)
(* models and requests, any lifetime of a snapshot and any poll timeout.   *)
(***************************************************************************)
EXTENDS PeerAddress, WellFoundedInduction, TLAPS

\* What the snapshot s says of p was so at most t ago: its loaded models were
\* loaded, its listing was complete unless the peer was not well, and it had
\* nothing loaded if s says so.  i, h and q stand for idle, hot and quiet.
RecentAt(i, h, q, p, s, t) ==
    /\ \A m \in s.all : i[p][m] <= t
    /\ s.served = Serves[p] \/ q[p] <= t
    /\ s.all # {} \/ h[p] <= t \/ q[p] <= t

\* A snapshot that has not reached its largest age was taken during a poll that
\* ended when it was that much younger.
StampedAt(i, h, q, p, s) ==
    s # None /\ s.age <= 2 * TTL => RecentAt(i, h, q, p, s, s.age + Timeout)

\* The histories of the peers' present state.
WorldInv ==
    \A p \in Peers : /\ \A m \in loaded[p] : idle[p][m] = 0
                     /\ loaded[p] = {} => hot[p] = 0
                     /\ ~up[p] => quiet[p] = 0

CacheInv == \A p \in Peers : StampedAt(idle, hot, quiet, p, cache[p])

FoundInv ==
    \A r \in Requests : /\ req[r].pc # "poll" => req[r].found = None
                        /\ StampedAt(idle, hot, quiet, req[r].at, req[r].found)

GotInv ==
    \A r \in Requests : req[r].pc = "answered" =>
        /\ req[r].got \in Snapshots /\ req[r].got.age = 0
        /\ RecentAt(idle, hot, quiet, req[r].at, req[r].got, req[r].wait)

IInv == TypeOK /\ WorldInv /\ CacheInv /\ FoundInv /\ GotInv

\* The constants' assumptions, without the product of NumPeers and Timeout.
LEMMA Constants ==
    /\ TTL \in Nat /\ Timeout \in Nat /\ Horizon \in Nat
    /\ Horizon > 2 * TTL + Timeout
    /\ MaxChanges \in Nat /\ MaxFails \in Nat
    /\ Serves \in [Peers -> SUBSET Models] /\ Resident \in [Peers -> SUBSET Models]
    /\ Named \subseteq Peers /\ None \notin Snapshots
    /\ 1 \in Peers /\ Peers \subseteq Nat
<1>1. NumPeers \in Nat \ {0}
  BY PeerAddressAssumption
<1> QED
  BY <1>1, PeerAddressAssumption DEF Peers

\* The peers after p, as a walk visits them (Use).
LEMMA NextPeer == \A p \in Peers : p < NumPeers => p + 1 \in Peers
BY PeerAddressAssumption DEF Peers

(***************************************************************************)
(* Types.                                                                  *)
(***************************************************************************)
\* An idle request, and the records that a step makes of it, are request states.
LEMMA IdleType ==
    /\ Idle \in RequestStates
    /\ \A k \in {"any", "caps", "node"} : \A p \in Peers :
         /\ [Idle EXCEPT !.pc = "look", !.kind = k, !.at = p] \in RequestStates
         /\ [Idle EXCEPT !.pc = "look", !.kind = k] \in RequestStates
         /\ [Idle EXCEPT !.pc = "look", !.at = p] \in RequestStates
         /\ [Idle EXCEPT !.pc = "refused", !.kind = k] \in RequestStates
<1>1. Idle \in RequestStates
  BY Constants DEF Idle, RequestStates
<1> QED
  BY <1>1 DEF RequestStates

\* A snapshot of one unit of time later (Tick).
LEMMA AgedType == \A s \in Snapshots \cup {None} : Aged(s) \in Snapshots \cup {None}
BY Constants DEF Aged, Snapshots

LEMMA EmptyType == EmptySnapshot \in Snapshots
BY Constants DEF EmptySnapshot, Snapshots

\* What a request becomes when it uses a snapshot.
LEMMA UseType ==
    ASSUME TypeOK, NEW r \in Requests, NEW s, Use(r, s)
    PROVE  /\ req' \in [Requests -> RequestStates]
           /\ req'[r].pc \in {"idle", "look", "refused"} /\ req'[r].found = None
           /\ \A u \in Requests \ {r} : req'[u] = req[u]
<1>1. req[r].at \in Peers /\ req[r].kind \in {"any", "caps", "node"}
  BY DEF TypeOK, RequestStates
<1>2. req[r].at < NumPeers => req[r].at + 1 \in Peers
  BY <1>1, NextPeer
<1> QED
  BY <1>1, <1>2, IdleType DEF TypeOK, Use, Idle

LEMMA InitIInv == Init => IInv
<1> SUFFICES ASSUME Init PROVE IInv
  OBVIOUS
<1>1. TypeOK
  <2>1. 0 \in 0 .. Horizon /\ Horizon \in 0 .. Horizon /\ 0 \in 0 .. MaxChanges /\ 0 \in 0 .. MaxFails
    BY Constants
  <2>2. idle \in [Peers -> [Models -> 0 .. Horizon]]
    BY <2>1 DEF Init
  <2>3. req \in [Requests -> RequestStates]
    BY IdleType DEF Init
  <2> QED
    BY <2>1, <2>2, <2>3, Constants DEF Init, TypeOK
<1>2. WorldInv
  BY Constants DEF Init, WorldInv
<1>3. CacheInv /\ FoundInv /\ GotInv
  BY DEF Init, CacheInv, FoundInv, GotInv, StampedAt, Idle
<1> QED
  BY <1>1, <1>2, <1>3 DEF IInv

(***************************************************************************)
(* Every step but Tick leaves the histories as they are or sets them back, *)
(* which can only make a snapshot more recent; Tick adds at most one.      *)
(***************************************************************************)
LEMMA StillRecent ==
    ASSUME NEW i, NEW h, NEW q, NEW i2, NEW h2, NEW q2, NEW p \in Peers, NEW s, NEW t \in Nat,
           s.all \subseteq Models,
           i \in [Peers -> [Models -> 0 .. Horizon]], i2 \in [Peers -> [Models -> 0 .. Horizon]],
           h \in [Peers -> 0 .. Horizon], h2 \in [Peers -> 0 .. Horizon],
           q \in [Peers -> 0 .. Horizon], q2 \in [Peers -> 0 .. Horizon],
           NEW d \in Nat,
           \A m \in Models : i2[p][m] <= i[p][m] + d,
           h2[p] <= h[p] + d, q2[p] <= q[p] + d,
           RecentAt(i, h, q, p, s, t)
    PROVE  RecentAt(i2, h2, q2, p, s, t + d)
<1>1. \A m \in s.all : i2[p][m] <= t + d
  <2> SUFFICES ASSUME NEW m \in s.all PROVE i2[p][m] <= t + d
    OBVIOUS
  <2>1. m \in Models /\ i[p][m] <= t /\ i2[p][m] <= i[p][m] + d
    BY DEF RecentAt
  <2>2. i[p][m] \in 0 .. Horizon /\ i2[p][m] \in 0 .. Horizon
    BY <2>1
  <2> QED
    BY <2>1, <2>2, Constants
<1>2. q[p] \in Nat /\ q2[p] \in Nat /\ h[p] \in Nat /\ h2[p] \in Nat
  BY Constants
<1>3. (q[p] <= t => q2[p] <= t + d) /\ (h[p] <= t => h2[p] <= t + d)
  BY <1>2
<1> QED
  BY <1>1, <1>3 DEF RecentAt

\* The histories of a step that is no Tick.
NotLater ==
    \A p \in Peers : /\ \A m \in Models : idle'[p][m] <= idle[p][m]
                     /\ hot'[p] <= hot[p] /\ quiet'[p] <= quiet[p]

\* Such a step keeps what is known of a snapshot.
LEMMA StillStamped ==
    ASSUME TypeOK, TypeOK', NotLater, NEW p \in Peers, NEW s \in Snapshots \cup {None},
           StampedAt(idle, hot, quiet, p, s)
    PROVE  StampedAt(idle', hot', quiet', p, s)
<1> SUFFICES ASSUME s # None, s.age <= 2 * TTL
             PROVE  RecentAt(idle', hot', quiet', p, s, s.age + Timeout)
  BY DEF StampedAt
<1>1. RecentAt(idle, hot, quiet, p, s, s.age + Timeout)
  BY DEF StampedAt
<1>2. s.all \subseteq Models /\ s.age + Timeout \in Nat
  BY Constants DEF Snapshots
<1>3. /\ \A m \in Models : idle'[p][m] <= idle[p][m] + 0
      /\ hot'[p] <= hot[p] + 0 /\ quiet'[p] <= quiet[p] + 0
  BY Constants DEF NotLater, TypeOK
<1>4. RecentAt(idle', hot', quiet', p, s, s.age + Timeout + 0)
  BY <1>1, <1>2, <1>3, StillRecent DEF TypeOK
<1>5. s.age + Timeout + 0 = s.age + Timeout
  BY <1>2
<1> QED
  BY <1>4, <1>5

\* It keeps what is known of the snapshot a peer answered with.
LEMMA StillAnswered ==
    ASSUME TypeOK, TypeOK', NotLater, NEW p \in Peers, NEW s \in Snapshots, NEW t \in 0 .. Timeout,
           RecentAt(idle, hot, quiet, p, s, t)
    PROVE  RecentAt(idle', hot', quiet', p, s, t)
<1>2. s.all \subseteq Models /\ t \in Nat
  BY Constants DEF Snapshots
<1>3. /\ \A m \in Models : idle'[p][m] <= idle[p][m] + 0
      /\ hot'[p] <= hot[p] + 0 /\ quiet'[p] <= quiet[p] + 0
  BY Constants DEF NotLater, TypeOK
<1>4. RecentAt(idle', hot', quiet', p, s, t + 0)
  BY <1>2, <1>3, StillRecent DEF TypeOK
<1> QED
  BY <1>2, <1>4

\* A step that changes no entry of the cache, or stores a recent snapshot, keeps CacheInv.
LEMMA KeepCache ==
    ASSUME IInv, TypeOK', NotLater,
           \A p \in Peers : cache'[p] = cache[p] \/ StampedAt(idle', hot', quiet', p, cache'[p])
    PROVE  CacheInv'
<1> SUFFICES ASSUME NEW p \in Peers, cache'[p] = cache[p]
             PROVE  StampedAt(idle', hot', quiet', p, cache'[p])
  BY DEF CacheInv
<1>1. cache[p] \in Snapshots \cup {None} /\ StampedAt(idle, hot, quiet, p, cache[p])
  BY DEF IInv, TypeOK, CacheInv
<1> QED
  BY <1>1, StillStamped DEF IInv

\* A step that leaves a request as it is, or ends its poll, keeps FoundInv and GotInv.
LEMMA KeepRequests ==
    ASSUME IInv, TypeOK', NotLater,
           \A r \in Requests : req'[r] = req[r] \/ (req'[r].found = None /\ req'[r].pc # "answered")
    PROVE  FoundInv' /\ GotInv'
<1>1. ASSUME NEW r \in Requests PROVE StampedAt(idle', hot', quiet', req'[r].at, req'[r].found)
  <2>1. CASE req'[r] = req[r]
    <3>1. /\ req[r].at \in Peers /\ req[r].found \in Snapshots \cup {None}
          /\ StampedAt(idle, hot, quiet, req[r].at, req[r].found)
      BY DEF IInv, TypeOK, FoundInv, RequestStates
    <3> QED
      BY <2>1, <3>1, StillStamped DEF IInv
  <2>2. CASE req'[r].found = None
    BY <2>2 DEF StampedAt
  <2> QED
    BY <2>1, <2>2
<1>2. ASSUME NEW r \in Requests, req'[r].pc = "answered"
      PROVE  /\ req'[r].got \in Snapshots /\ req'[r].got.age = 0
             /\ RecentAt(idle', hot', quiet', req'[r].at, req'[r].got, req'[r].wait)
  <2>1. req'[r] = req[r]
    BY <1>2
  <2>2. /\ req[r].at \in Peers /\ req[r].wait \in 0 .. Timeout
        /\ req[r].got \in Snapshots /\ req[r].got.age = 0
        /\ RecentAt(idle, hot, quiet, req[r].at, req[r].got, req[r].wait)
    BY <1>2, <2>1 DEF IInv, TypeOK, GotInv, RequestStates
  <2> QED
    BY <2>1, <2>2, StillAnswered DEF IInv
<1>3. ASSUME NEW r \in Requests, req'[r].pc # "poll" PROVE req'[r].found = None
  BY <1>3 DEF IInv, FoundInv
<1> QED
  BY <1>1, <1>2, <1>3 DEF FoundInv, GotInv

(***************************************************************************)
(* The peers: loading, unloading, going down and coming back.              *)
(***************************************************************************)
LEMMA PeerStepIInv == ASSUME IInv, NEW p \in Peers, PeerStep(p) PROVE IInv'
<1>1. /\ TypeOK' /\ WorldInv' /\ NotLater /\ cache' = cache /\ req' = req
  <2>1. CASE GoDown(p)
    BY <2>1, Constants DEF GoDown, Change, IInv, TypeOK, WorldInv, NotLater
  <2>2. CASE ComeUp(p)
    BY <2>2, Constants DEF ComeUp, IInv, TypeOK, WorldInv, NotLater
  <2>3. ASSUME NEW m \in Models, Load(p, m)
        PROVE  TypeOK' /\ WorldInv' /\ NotLater /\ cache' = cache /\ req' = req
    BY <2>3, Constants DEF Load, Change, IInv, TypeOK, WorldInv, NotLater
  <2>4. ASSUME NEW m \in Models, Unload(p, m)
        PROVE  TypeOK' /\ WorldInv' /\ NotLater /\ cache' = cache /\ req' = req
    BY <2>4, Constants DEF Unload, Change, IInv, TypeOK, WorldInv, NotLater
  <2> QED
    BY <2>1, <2>2, <2>3, <2>4 DEF PeerStep
<1>2. CacheInv'
  BY <1>1, KeepCache
<1>3. \A r \in Requests : req'[r] = req[r] \/ (req'[r].found = None /\ req'[r].pc # "answered")
  BY <1>1
<1>5. TypeOK' /\ NotLater
  BY <1>1
<1>4. FoundInv' /\ GotInv'
  BY <1>3, <1>5, KeepRequests
<1> QED
  BY <1>1, <1>2, <1>4 DEF IInv

(***************************************************************************)
(* The clock.                                                              *)
(***************************************************************************)
\* A snapshot grows older no slower than the histories.
LEMMA AgedStamped ==
    ASSUME NEW i, NEW h, NEW q, NEW i2, NEW h2, NEW q2, NEW p \in Peers,
           NEW s \in Snapshots \cup {None},
           i \in [Peers -> [Models -> 0 .. Horizon]], i2 \in [Peers -> [Models -> 0 .. Horizon]],
           h \in [Peers -> 0 .. Horizon], h2 \in [Peers -> 0 .. Horizon],
           q \in [Peers -> 0 .. Horizon], q2 \in [Peers -> 0 .. Horizon],
           \A m \in Models : i2[p][m] <= i[p][m] + 1,
           h2[p] <= h[p] + 1, q2[p] <= q[p] + 1,
           StampedAt(i, h, q, p, s)
    PROVE  StampedAt(i2, h2, q2, p, Aged(s))
<1> SUFFICES ASSUME Aged(s) # None, Aged(s).age <= 2 * TTL
             PROVE  RecentAt(i2, h2, q2, p, Aged(s), Aged(s).age + Timeout)
  BY DEF StampedAt
<1>1. s # None /\ s \in Snapshots
  BY DEF Aged
<1>2. s.age \in Nat /\ s.all \subseteq Models
  BY <1>1 DEF Snapshots
<1>3. s.age <= 2 * TTL /\ Aged(s) = [s EXCEPT !.age = s.age + 1]
  BY <1>1, <1>2, Constants DEF Aged
<1>4. /\ Aged(s).all = s.all /\ Aged(s).served = s.served /\ Aged(s).age = s.age + 1
  BY <1>1, <1>3 DEF Snapshots
<1>5. RecentAt(i, h, q, p, s, s.age + Timeout)
  BY <1>1, <1>3 DEF StampedAt
<1>6. s.age + Timeout \in Nat /\ 1 \in Nat
  BY <1>2, Constants
<1>7. RecentAt(i2, h2, q2, p, s, s.age + Timeout + 1)
  BY <1>2, <1>5, <1>6, StillRecent
<1>8. s.age + Timeout + 1 = Aged(s).age + Timeout
  BY <1>2, <1>4, Constants
<1> QED
  BY <1>4, <1>7, <1>8 DEF RecentAt

LEMMA TickIInv == ASSUME IInv, Tick PROVE IInv'
<1>1. TypeOK /\ WorldInv /\ CacheInv /\ FoundInv /\ GotInv
  BY DEF IInv
<1>2. \A t \in 0 .. Horizon : Older(t) \in 0 .. Horizon /\ Older(t) <= t + 1
  BY Constants DEF Older
<1>3. \A p \in Peers :
        /\ \A m \in Models : idle[p][m] \in 0 .. Horizon
        /\ hot[p] \in 0 .. Horizon /\ quiet[p] \in 0 .. Horizon
  BY <1>1 DEF TypeOK
<1>4. /\ idle' \in [Peers -> [Models -> 0 .. Horizon]]
      /\ hot' \in [Peers -> 0 .. Horizon] /\ quiet' \in [Peers -> 0 .. Horizon]
  <2>1. 0 \in 0 .. Horizon
    BY Constants
  <2> QED
    BY <1>2, <1>3, <2>1 DEF Tick
<1>5. \A p \in Peers :
        /\ \A m \in Models : idle'[p][m] <= idle[p][m] + 1
        /\ hot'[p] <= hot[p] + 1 /\ quiet'[p] <= quiet[p] + 1
  <2>1. ASSUME NEW p \in Peers, NEW m \in Models PROVE idle'[p][m] <= idle[p][m] + 1
    <3>1. idle'[p][m] = IF m \in loaded[p] THEN 0 ELSE Older(idle[p][m])
      BY DEF Tick
    <3>2. idle[p][m] \in 0 .. Horizon
      BY <1>3
    <3>3. Older(idle[p][m]) <= idle[p][m] + 1 /\ 0 <= idle[p][m] + 1
      BY <1>2, <3>2, Constants
    <3> QED
      BY <3>1, <3>3
  <2>2. ASSUME NEW p \in Peers PROVE hot'[p] <= hot[p] + 1 /\ quiet'[p] <= quiet[p] + 1
    <3>1. /\ hot'[p] = IF loaded[p] = {} THEN 0 ELSE Older(hot[p])
          /\ quiet'[p] = IF up[p] THEN Older(quiet[p]) ELSE 0
      BY DEF Tick
    <3>2. /\ Older(hot[p]) <= hot[p] + 1 /\ 0 <= hot[p] + 1
          /\ Older(quiet[p]) <= quiet[p] + 1 /\ 0 <= quiet[p] + 1
      BY <1>2, <1>3, Constants
    <3> QED
      BY <3>1, <3>2
  <2> QED
    BY <2>1, <2>2
<1>12. /\ idle \in [Peers -> [Models -> 0 .. Horizon]]
       /\ hot \in [Peers -> 0 .. Horizon] /\ quiet \in [Peers -> 0 .. Horizon]
  BY <1>1 DEF TypeOK
<1>6. ASSUME NEW r \in Requests
      PROVE  /\ req'[r] \in RequestStates
             /\ req'[r].at = req[r].at /\ req'[r].pc = req[r].pc /\ req'[r].got = req[r].got
             /\ Polling(r) => req'[r].found = Aged(req[r].found) /\ req'[r].wait = req[r].wait + 1
             /\ ~Polling(r) => req'[r] = req[r]
  <2>1. req[r] \in RequestStates
    BY <1>1 DEF TypeOK
  <2>2. CASE Polling(r)
    <3>1. req'[r] = [req[r] EXCEPT !.wait = req[r].wait + 1, !.found = Aged(req[r].found)]
      BY <2>2 DEF Tick
    <3>2. Aged(req[r].found) \in Snapshots \cup {None}
      BY <2>1, AgedType DEF RequestStates
    <3>3. req[r].wait + 1 \in 0 .. Timeout
      <4>1. req[r].wait \in 0 .. Timeout
        BY <2>1 DEF RequestStates
      <4>2. req[r].wait < Timeout
        BY <2>2 DEF Tick
      <4> QED
        BY <4>1, <4>2, Constants
    <3> QED
      BY <2>1, <2>2, <3>1, <3>2, <3>3 DEF RequestStates
  <2>3. CASE ~Polling(r)
    BY <2>1, <2>3 DEF Tick
  <2> QED
    BY <2>2, <2>3
<1>7. TypeOK'
  <2>1. cache' \in [Peers -> Snapshots \cup {None}]
    BY <1>1, AgedType DEF Tick, TypeOK
  <2>2. req' \in [Requests -> RequestStates]
    BY <1>6 DEF Tick
  <2> QED
    BY <1>1, <1>4, <2>1, <2>2 DEF Tick, TypeOK
<1>8. WorldInv'
  BY <1>1 DEF Tick, WorldInv, TypeOK
<1>9. CacheInv'
  <2> SUFFICES ASSUME NEW p \in Peers PROVE StampedAt(idle', hot', quiet', p, cache'[p])
    BY DEF CacheInv
  <2>1. cache[p] \in Snapshots \cup {None} /\ StampedAt(idle, hot, quiet, p, cache[p])
    BY <1>1 DEF TypeOK, CacheInv
  <2>2. cache'[p] = Aged(cache[p])
    BY DEF Tick
  <2> QED
    <3>1. StampedAt(idle', hot', quiet', p, Aged(cache[p]))
      BY <1>12, <1>4, <1>5, <2>1, AgedStamped
    <3> QED
      BY <2>2, <3>1
<1>10. FoundInv'
  <2>0. ASSUME NEW r \in Requests, req'[r].pc # "poll" PROVE req'[r].found = None
    <3>1. req[r].pc # "poll" /\ req[r].found = None
      BY <1>1, <1>6, <2>0 DEF FoundInv
    <3> QED
      BY <1>1, <1>6, <3>1 DEF Aged
  <2> SUFFICES ASSUME NEW r \in Requests
               PROVE  StampedAt(idle', hot', quiet', req'[r].at, req'[r].found)
    BY <2>0 DEF FoundInv
  <2>1. /\ req[r].at \in Peers /\ req[r].found \in Snapshots \cup {None}
        /\ StampedAt(idle, hot, quiet, req[r].at, req[r].found)
    BY <1>1 DEF TypeOK, FoundInv, RequestStates
  <2>2. CASE Polling(r)
    <3>1. StampedAt(idle', hot', quiet', req[r].at, Aged(req[r].found))
      BY <1>12, <1>4, <1>5, <2>1, AgedStamped
    <3> QED
      BY <1>6, <2>2, <3>1
  <2>3. CASE ~Polling(r)
    BY <1>1, <1>6, <2>3 DEF FoundInv, StampedAt, Polling
  <2> QED
    BY <2>2, <2>3
<1>11. GotInv'
  <2> SUFFICES ASSUME NEW r \in Requests, req'[r].pc = "answered"
               PROVE  /\ req'[r].got \in Snapshots /\ req'[r].got.age = 0
                      /\ RecentAt(idle', hot', quiet', req'[r].at, req'[r].got, req'[r].wait)
    BY DEF GotInv
  <2>1. req[r].pc = "answered" /\ Polling(r)
    BY <1>6 DEF Polling
  <2>2. /\ req[r].at \in Peers /\ req[r].wait \in Nat
        /\ req[r].got \in Snapshots /\ req[r].got.age = 0
        /\ RecentAt(idle, hot, quiet, req[r].at, req[r].got, req[r].wait)
    BY <1>1, <2>1, Constants DEF TypeOK, GotInv, RequestStates
  <2>3. req[r].got.all \subseteq Models /\ 1 \in Nat
    BY <2>2 DEF Snapshots
  <2>4. RecentAt(idle', hot', quiet', req[r].at, req[r].got, req[r].wait + 1)
    BY <1>12, <1>4, <1>5, <2>2, <2>3, StillRecent
  <2> QED
    BY <1>6, <2>1, <2>2, <2>4
<1> QED
  BY <1>7, <1>8, <1>9, <1>10, <1>11 DEF IInv

(***************************************************************************)
(* The requests.                                                           *)
(***************************************************************************)
\* What the peer answered is a snapshot of the poll's duration when it is stored.
LEMMA AnswerStamped ==
    ASSUME IInv, NEW r \in Requests, req[r].pc = "answered"
    PROVE  /\ req[r].got \in Snapshots
           /\ StampedAt(idle, hot, quiet, req[r].at, req[r].got)
<1>1. /\ req[r].at \in Peers /\ req[r].wait \in 0 .. Timeout
      /\ req[r].got \in Snapshots /\ req[r].got.age = 0
      /\ RecentAt(idle, hot, quiet, req[r].at, req[r].got, req[r].wait)
  BY DEF IInv, TypeOK, GotInv, RequestStates
<1>2. req[r].got.all \subseteq Models
  BY <1>1 DEF Snapshots
<1>3. /\ \A m \in Models : idle[req[r].at][m] \in Nat
      /\ hot[req[r].at] \in Nat /\ quiet[req[r].at] \in Nat
  <2>1. /\ \A m \in Models : idle[req[r].at][m] \in 0 .. Horizon
        /\ hot[req[r].at] \in 0 .. Horizon /\ quiet[req[r].at] \in 0 .. Horizon
    BY <1>1 DEF IInv, TypeOK
  <2> QED
    BY <2>1, Constants
<1>4. \A t \in Nat : t <= req[r].wait => t <= 0 + Timeout
  BY <1>1, Constants
<1>5. RecentAt(idle, hot, quiet, req[r].at, req[r].got, 0 + Timeout)
  BY <1>1, <1>2, <1>3, <1>4 DEF RecentAt
<1> QED
  BY <1>1, <1>5 DEF StampedAt

\* A step that uses a snapshot keeps the invariant if the entry it stores, if any,
\* is recent.
LEMMA UseIInv ==
    ASSUME IInv, NEW r \in Requests, NEW s, Use(r, s),
           UNCHANGED worldVars, NotLater,
           quiet' \in [Peers -> 0 .. Horizon], fails' \in 0 .. MaxFails,
           \A p \in Peers : ~up[p] => quiet'[p] = 0,
           cache' \in [Peers -> Snapshots \cup {None}],
           \A p \in Peers : cache'[p] = cache[p] \/ StampedAt(idle', hot', quiet', p, cache'[p])
    PROVE  IInv'
<1>1. TypeOK
  BY DEF IInv
<1>2. /\ req' \in [Requests -> RequestStates]
      /\ req'[r].pc \in {"idle", "look", "refused"} /\ req'[r].found = None
      /\ \A u \in Requests \ {r} : req'[u] = req[u]
  BY <1>1, UseType
<1>3. TypeOK'
  BY <1>1, <1>2 DEF TypeOK, worldVars
<1>4. WorldInv'
  BY DEF IInv, WorldInv, worldVars
<1>5. CacheInv'
  BY <1>3, KeepCache
<1>6. \A u \in Requests : req'[u] = req[u] \/ (req'[u].found = None /\ req'[u].pc # "answered")
  BY <1>2
<1>7. FoundInv' /\ GotInv'
  BY <1>3, <1>6, KeepRequests
<1> QED
  BY <1>3, <1>4, <1>5, <1>7 DEF IInv

\* The histories of a step that neither fails a poll nor moves the clock.
LEMMA SameHistories ==
    ASSUME TypeOK, UNCHANGED <<worldVars, quiet>> PROVE NotLater
<1>1. idle' = idle /\ hot' = hot /\ quiet' = quiet
  BY DEF worldVars
<1> SUFFICES ASSUME NEW p \in Peers
             PROVE  /\ \A m \in Models : idle[p][m] <= idle[p][m]
                    /\ hot[p] <= hot[p] /\ quiet[p] <= quiet[p]
  BY <1>1 DEF NotLater
<1>2. \A m \in Models : idle[p][m] \in Nat
  BY Constants DEF TypeOK
<1>3. hot[p] \in Nat /\ quiet[p] \in Nat
  BY Constants DEF TypeOK
<1> QED
  BY <1>2, <1>3

\* A failed poll sets back the history of one peer.
LEMMA FailedPoll ==
    ASSUME IInv, NEW r \in Requests, PollFails(r)
    PROVE  /\ NotLater /\ UNCHANGED worldVars
           /\ quiet' \in [Peers -> 0 .. Horizon] /\ fails' \in 0 .. MaxFails
           /\ \A p \in Peers : ~up[p] => quiet'[p] = 0
           /\ req[r].at \in Peers /\ quiet'[req[r].at] = 0
<1>1. TypeOK /\ WorldInv
  BY DEF IInv
<1>2. req[r].at \in Peers
  BY <1>1 DEF TypeOK, RequestStates
<1>3. quiet' = [quiet EXCEPT ![req[r].at] = 0] /\ UNCHANGED worldVars
  BY DEF PollFails
<1>4. fails' \in 0 .. MaxFails
  BY <1>1, <1>2, Constants DEF PollFails, TypeOK
<1>5. quiet' \in [Peers -> 0 .. Horizon] /\ quiet'[req[r].at] = 0
  BY <1>1, <1>2, <1>3, Constants DEF TypeOK
<1>6. \A p \in Peers : quiet'[p] = 0 \/ quiet'[p] = quiet[p]
  BY <1>1, <1>2, <1>3 DEF TypeOK
<1>7. \A p \in Peers : ~up[p] => quiet'[p] = 0
  BY <1>1, <1>6 DEF WorldInv
<1>8. NotLater
  <2> SUFFICES ASSUME NEW p \in Peers
               PROVE  /\ \A m \in Models : idle'[p][m] <= idle[p][m]
                      /\ hot'[p] <= hot[p] /\ quiet'[p] <= quiet[p]
    BY DEF NotLater
  <2>1. idle' = idle /\ hot' = hot
    BY <1>3 DEF worldVars
  <2>2. \A m \in Models : idle[p][m] \in Nat
    BY <1>1, Constants DEF TypeOK
  <2>3. hot[p] \in Nat /\ quiet[p] \in Nat
    BY <1>1, Constants DEF TypeOK
  <2> QED
    BY <1>6, <2>1, <2>2, <2>3
<1> QED
  BY <1>2, <1>3, <1>4, <1>5, <1>7, <1>8

\* A request that does not touch the cache, is about to look at a peer or ended.
LEMMA RequestMovesIInv ==
    ASSUME IInv, NEW r \in Requests, NEW q \in RequestStates,
           q.found = None, q.pc \in {"idle", "look", "refused"},
           req' = [req EXCEPT ![r] = q], UNCHANGED <<worldVars, cache, quiet, fails>>
    PROVE  IInv'
<1>1. TypeOK
  BY DEF IInv
<1>2. req' \in [Requests -> RequestStates]
  BY <1>1 DEF TypeOK
<1>3. TypeOK'
  BY <1>1, <1>2 DEF TypeOK, worldVars
<1>4. NotLater
  BY <1>1, SameHistories
<1>5. WorldInv'
  BY DEF IInv, WorldInv, worldVars
<1>6. CacheInv'
  BY <1>3, <1>4, KeepCache
<1>7. \A u \in Requests : req'[u] = req[u] \/ (req'[u].found = None /\ req'[u].pc # "answered")
  BY <1>1 DEF TypeOK
<1>8. FoundInv' /\ GotInv'
  BY <1>3, <1>4, <1>7, KeepRequests
<1> QED
  BY <1>3, <1>5, <1>6, <1>8 DEF IInv

\* A poll begins, with the snapshot of the cache as a reserve.
LEMMA CacheMissIInv == ASSUME IInv, NEW r \in Requests, CacheMiss(r) PROVE IInv'
<1>1. TypeOK /\ req[r] \in RequestStates /\ req[r].at \in Peers /\ req[r].pc = "look"
  BY DEF IInv, TypeOK, RequestStates, CacheMiss
<1>2. req' = [req EXCEPT ![r] = [req[r] EXCEPT !.pc = "poll", !.found = cache[req[r].at]]]
  BY <1>1 DEF CacheMiss, TypeOK
<1>3. cache[req[r].at] \in Snapshots \cup {None}
  BY <1>1 DEF TypeOK
<1>4. [req[r] EXCEPT !.pc = "poll", !.found = cache[req[r].at]] \in RequestStates
  BY <1>1, <1>3 DEF RequestStates
<1>5. req' \in [Requests -> RequestStates]
  BY <1>1, <1>2, <1>4 DEF TypeOK
<1>6. TypeOK' /\ WorldInv' /\ CacheInv'
  BY <1>5 DEF IInv, CacheMiss, TypeOK, WorldInv, CacheInv, worldVars
<1>7. /\ req'[r].pc = "poll" /\ req'[r].found = cache[req[r].at] /\ req'[r].at = req[r].at
      /\ \A u \in Requests \ {r} : req'[u] = req[u]
  BY <1>1, <1>2 DEF TypeOK, RequestStates
<1>8. idle' = idle /\ hot' = hot /\ quiet' = quiet
  BY DEF CacheMiss, worldVars
<1>9. StampedAt(idle, hot, quiet, req[r].at, cache[req[r].at])
  BY <1>1 DEF IInv, CacheInv
<1>10. FoundInv'
  BY <1>7, <1>8, <1>9 DEF IInv, FoundInv
<1>11. GotInv'
  BY <1>7, <1>8 DEF IInv, GotInv
<1> QED
  BY <1>6, <1>10, <1>11 DEF IInv

\* The peer answers with its present state.
LEMMA PeerAnswersIInv == ASSUME IInv, NEW r \in Requests, PeerAnswers(r) PROVE IInv'
<1> DEFINE p == req[r].at
           s == IF up[p] THEN [all |-> loaded[p], served |-> Serves[p], age |-> 0]
                ELSE EmptySnapshot
<1>1. TypeOK /\ WorldInv /\ req[r] \in RequestStates /\ p \in Peers
  BY DEF IInv, TypeOK, RequestStates
<1>2. req' = [req EXCEPT ![r] = [req[r] EXCEPT !.pc = "answered", !.found = None, !.got = s]]
  BY <1>1 DEF PeerAnswers, TypeOK
<1>3. s \in Snapshots /\ s.age = 0
  <2>1. loaded[p] \in SUBSET Models
    BY <1>1 DEF TypeOK
  <2>2. Serves[p] \in SUBSET Models
    BY <1>1, Constants
  <2>3. 0 \in 0 .. 2 * TTL + 1
    BY Constants
  <2> QED
    BY <2>1, <2>2, <2>3 DEF EmptySnapshot, Snapshots
<1>4. req[r].wait \in Nat
  BY <1>1, Constants DEF RequestStates
<1>5. RecentAt(idle, hot, quiet, p, s, req[r].wait)
  <2>1. CASE up[p]
    <3>1. s.all = loaded[p] /\ s.served = Serves[p]
      BY <2>1
    <3>2. /\ \A m \in loaded[p] : idle[p][m] = 0
          /\ loaded[p] = {} => hot[p] = 0
      BY <1>1 DEF WorldInv
    <3> QED
      BY <1>4, <3>1, <3>2 DEF RecentAt
  <2>2. CASE ~up[p]
    <3>1. s.all = {} /\ quiet[p] = 0
      BY <1>1, <2>2 DEF WorldInv, EmptySnapshot
    <3> QED
      BY <1>4, <3>1 DEF RecentAt
  <2> QED
    BY <2>1, <2>2
<1> HIDE DEF s
<1>6. [req[r] EXCEPT !.pc = "answered", !.found = None, !.got = s] \in RequestStates
  BY <1>1, <1>3 DEF RequestStates
<1>7. req' \in [Requests -> RequestStates]
  BY <1>1, <1>2, <1>6 DEF TypeOK
<1>8. TypeOK' /\ WorldInv' /\ CacheInv'
  BY <1>7 DEF IInv, PeerAnswers, TypeOK, WorldInv, CacheInv, worldVars
<1>9. /\ req'[r].pc = "answered" /\ req'[r].found = None /\ req'[r].got = s
      /\ req'[r].at = p /\ req'[r].wait = req[r].wait
      /\ \A u \in Requests \ {r} : req'[u] = req[u]
  BY <1>1, <1>2 DEF TypeOK, RequestStates
<1>10. idle' = idle /\ hot' = hot /\ quiet' = quiet
  BY DEF PeerAnswers, worldVars
<1>11. FoundInv'
  BY <1>9, <1>10 DEF IInv, FoundInv, StampedAt
<1>12. GotInv'
  BY <1>3, <1>5, <1>9, <1>10 DEF IInv, GotInv
<1> QED
  BY <1>8, <1>11, <1>12 DEF IInv

\* The steps of a request.
LEMMA RequestStepIInv == ASSUME IInv, NEW r \in Requests, RequestStep(r) PROVE IInv'
<1>1. TypeOK /\ req[r].at \in Peers
  BY DEF IInv, TypeOK, RequestStates
<1>2. /\ quiet \in [Peers -> 0 .. Horizon] /\ fails \in 0 .. MaxFails
      /\ \A p \in Peers : ~up[p] => quiet[p] = 0
      /\ cache \in [Peers -> Snapshots \cup {None}]
  BY DEF IInv, TypeOK, WorldInv
<1>3. CASE Resolve(r)
  <2>1. ASSUME NEW k \in {"any", "caps"},
               req' = [req EXCEPT ![r] = [Idle EXCEPT !.pc = "look", !.kind = k]]
        PROVE  IInv'
    <3> DEFINE q == [Idle EXCEPT !.pc = "look", !.kind = k]
    <3>1. q \in RequestStates
      BY <1>1, IdleType
    <3>2. q.found = None /\ q.pc = "look"
      BY DEF Idle
    <3>3. UNCHANGED <<worldVars, cache, quiet, fails>>
      BY <1>3 DEF Resolve
    <3> HIDE DEF q
    <3>4. req' = [req EXCEPT ![r] = q]
      BY <2>1 DEF q
    <3> QED
      BY <3>1, <3>2, <3>3, <3>4, RequestMovesIInv
  <2>2. ASSUME NEW p \in Named,
               req' = [req EXCEPT ![r] = [Idle EXCEPT !.pc = "look", !.at = p]]
        PROVE  IInv'
    <3> DEFINE q == [Idle EXCEPT !.pc = "look", !.at = p]
    <3>1. q \in RequestStates
      BY Constants, IdleType
    <3>2. q.found = None /\ q.pc = "look"
      BY DEF Idle
    <3>3. UNCHANGED <<worldVars, cache, quiet, fails>>
      BY <1>3 DEF Resolve
    <3> HIDE DEF q
    <3>4. req' = [req EXCEPT ![r] = q]
      BY <2>2 DEF q
    <3> QED
      BY <3>1, <3>2, <3>3, <3>4, RequestMovesIInv
  <2> QED
    BY <1>3, <2>1, <2>2 DEF Resolve
<1>4. CASE Refuse(r)
  <2>1. Idle \in RequestStates
    BY IdleType
  <2>2. Idle.found = None /\ Idle.pc = "idle"
    BY DEF Idle
  <2>3. req' = [req EXCEPT ![r] = Idle] /\ UNCHANGED <<worldVars, cache, quiet, fails>>
    BY <1>4 DEF Refuse
  <2> QED
    BY <2>1, <2>2, <2>3, RequestMovesIInv
<1>5. CASE CacheHit(r)
  <2>1. /\ Use(r, cache[req[r].at]) /\ cache' = cache /\ quiet' = quiet /\ fails' = fails
        /\ UNCHANGED worldVars /\ UNCHANGED <<worldVars, quiet>>
    BY <1>5 DEF CacheHit
  <2>2. NotLater
    BY <1>1, <2>1, SameHistories
  <2> QED
    BY <1>2, <2>1, <2>2, UseIInv
<1>6. CASE CacheMiss(r)
  BY <1>6, CacheMissIInv
<1>7. CASE PeerAnswers(r)
  BY <1>7, PeerAnswersIInv
<1>8. CASE Store(r)
  <2>1. /\ Use(r, req[r].got) /\ cache' = [cache EXCEPT ![req[r].at] = req[r].got]
        /\ quiet' = quiet /\ fails' = fails
        /\ UNCHANGED worldVars /\ UNCHANGED <<worldVars, quiet>>
    BY <1>8 DEF Store
  <2>2. NotLater
    BY <1>1, <2>1, SameHistories
  <2>3. req[r].got \in Snapshots /\ StampedAt(idle, hot, quiet, req[r].at, req[r].got)
    BY <1>8, AnswerStamped DEF Store
  <2>4. idle' = idle /\ hot' = hot
    BY <2>1 DEF worldVars
  <2>5. \A p \in Peers : cache'[p] = cache[p] \/ StampedAt(idle', hot', quiet', p, cache'[p])
    BY <1>2, <2>1, <2>3, <2>4
  <2>6. cache' \in [Peers -> Snapshots \cup {None}]
    BY <1>2, <2>1, <2>3
  <2> QED
    BY <1>2, <2>1, <2>2, <2>5, <2>6, UseIInv
<1>9. CASE KeepStale(r)
  <2>1. PollFails(r) /\ Use(r, req[r].found) /\ cache' = cache
    BY <1>9 DEF KeepStale
  <2>2. /\ NotLater /\ UNCHANGED worldVars
        /\ quiet' \in [Peers -> 0 .. Horizon] /\ fails' \in 0 .. MaxFails
        /\ \A p \in Peers : ~up[p] => quiet'[p] = 0
    BY <2>1, FailedPoll
  <2> QED
    BY <1>2, <2>1, <2>2, UseIInv
<1>10. CASE StoreEmpty(r)
  <2>1. /\ PollFails(r) /\ Use(r, EmptySnapshot)
        /\ cache' = [cache EXCEPT ![req[r].at] = EmptySnapshot]
    BY <1>10 DEF StoreEmpty
  <2>2. /\ NotLater /\ UNCHANGED worldVars
        /\ quiet' \in [Peers -> 0 .. Horizon] /\ fails' \in 0 .. MaxFails
        /\ \A p \in Peers : ~up[p] => quiet'[p] = 0
        /\ quiet'[req[r].at] = 0
    BY <2>1, FailedPoll
  <2>3. StampedAt(idle', hot', quiet', req[r].at, EmptySnapshot)
    BY <2>2, Constants DEF StampedAt, RecentAt, EmptySnapshot
  <2>4. \A p \in Peers : cache'[p] = cache[p] \/ StampedAt(idle', hot', quiet', p, cache'[p])
    BY <1>2, <2>1, <2>3
  <2>5. cache' \in [Peers -> Snapshots \cup {None}]
    BY <1>2, <2>1, EmptyType
  <2> QED
    BY <2>1, <2>2, <2>4, <2>5, UseIInv
<1> QED
  BY <1>3, <1>4, <1>5, <1>6, <1>7, <1>8, <1>9, <1>10 DEF RequestStep

(***************************************************************************)
(* The invariant and what follows from it.                                 *)
(***************************************************************************)
\* Every step keeps the invariant.
LEMMA NextIInv == ASSUME IInv, [Next]_vars PROVE IInv'
<1>1. CASE Tick
  BY <1>1, TickIInv
<1>2. ASSUME NEW p \in Peers, PeerStep(p) PROVE IInv'
  BY <1>2, PeerStepIInv
<1>3. ASSUME NEW r \in Requests, RequestStep(r) PROVE IInv'
  BY <1>3, RequestStepIInv
<1>4. CASE UNCHANGED vars
  BY <1>4 DEF vars, worldVars, IInv, TypeOK, WorldInv, CacheInv, FoundInv, GotInv
<1> QED
  BY <1>1, <1>2, <1>3, <1>4 DEF Next

\* IInv is an invariant.
LEMMA Inductive == Spec => []IInv
BY InitIInv, NextIInv, PTL DEF Spec

\* A snapshot that a request uses after a successful poll, or takes from the cache,
\* is at most one lifetime and one poll old (peerLoaded).
LEMMA CurrentIsRecent ==
    ASSUME IInv, NEW p \in Peers, NEW s \in Current(p)
    PROVE  /\ s \in Snapshots /\ s.age <= TTL
           /\ RecentAt(idle, hot, quiet, p, s, TTL + Timeout)
<1> SUFFICES ASSUME s \in Snapshots /\ s.age <= TTL /\ StampedAt(idle, hot, quiet, p, s)
             PROVE  RecentAt(idle, hot, quiet, p, s, TTL + Timeout)
  <2>1. CASE s = cache[p] /\ Fresh(s)
    <3>1. s \in Snapshots /\ s.age < TTL
      BY <2>1 DEF Fresh, IInv, TypeOK
    <3>2. s.age <= TTL
      BY <3>1, Constants DEF Snapshots
    <3> QED
      BY <2>1, <3>1, <3>2 DEF IInv, CacheInv
  <2>2. ASSUME NEW r \in Requests, req[r].pc = "answered", req[r].at = p, s = req[r].got
        PROVE  s \in Snapshots /\ s.age <= TTL /\ StampedAt(idle, hot, quiet, p, s)
    <3>1. s.age = 0
      BY <2>2 DEF IInv, GotInv
    <3> QED
      BY <2>2, <3>1, AnswerStamped, Constants
  <2> QED
    BY <2>1, <2>2 DEF Current
<1>1. s.age \in Nat /\ s.all \subseteq Models /\ s # None
  BY Constants DEF Snapshots
<1>2. s.age <= 2 * TTL /\ \A t \in Nat : t <= s.age + Timeout => t <= TTL + Timeout
  BY <1>1, Constants
<1>3. RecentAt(idle, hot, quiet, p, s, s.age + Timeout)
  BY <1>1, <1>2 DEF StampedAt
<1>4. /\ \A m \in Models : idle[p][m] \in Nat
      /\ hot[p] \in Nat /\ quiet[p] \in Nat
  BY Constants DEF IInv, TypeOK
<1> QED
  BY <1>1, <1>2, <1>3, <1>4 DEF RecentAt

\* The first of the models of a snapshot is one of them.
LEMMA FirstIsIn == ASSUME NEW S \in SUBSET Models, S # {} PROVE First(S) \in S
<1>1. S \subseteq Nat
  BY DEF Models
<1>2. PICK m \in S : \A n \in S : <<n, m>> \notin OpToRel(<, Nat)
  <2> DEFINE R == OpToRel(<, Nat)
  <2>1. IsWellFoundedOn(R, Nat)
    BY NatLessThanWellFounded
  <2> HIDE DEF R
  <2>2. \E m \in S : \A n \in S : ~(<<n, m>> \in R)
    BY <1>1, <2>1, WFMin
  <2> QED
    BY <2>2 DEF R
<1>3. ASSUME NEW n \in S PROVE m <= n
  <2>1. m \in Nat /\ n \in Nat
    BY <1>1
  <2>2. n < m => <<n, m>> \in OpToRel(<, Nat)
    BY <2>1 DEF OpToRel
  <2>3. <<n, m>> \notin OpToRel(<, Nat)
    BY <1>2
  <2>4. ~(n < m)
    BY <2>2, <2>3, Zenon
  <2> QED
    BY <2>1, <2>4
<1> QED
  BY <1>3 DEF First

\* The variables of the address resolution keep their types.
THEOREM TypeCorrect == Spec => []TypeOK
<1>1. IInv => TypeOK
  BY DEF IInv
<1> QED
  BY <1>1, Inductive, PTL

\* Unless its poll fails, a request takes a model for loaded at a peer only if it was
\* loaded there within one lifetime of a snapshot and one poll, in whatever order the
\* requests store their snapshots (peerLoaded).
THEOREM LoadedIsRecentAlways == Spec => []LoadedIsRecent
<1>1. IInv => LoadedIsRecent
  <2> SUFFICES ASSUME IInv, NEW p \in Peers, NEW s \in Current(p), NEW m \in s.all
               PROVE  idle[p][m] <= TTL + Timeout
    BY DEF LoadedIsRecent
  <2> QED
    BY CurrentIsRecent DEF RecentAt
<1> QED
  BY <1>1, Inductive, PTL

\* A peer is ranked warm for a model only if it was loaded there within two lifetimes
\* and one poll, even while the polls of the peer fail (peerModelBias).
THEOREM WarmIsRecentAlways == Spec => []WarmIsRecent
<1>1. IInv => WarmIsRecent
  <2> SUFFICES ASSUME IInv, NEW p \in Peers, NEW s \in Current(p) \cup Kept(p), NEW m \in Models,
                      peerModelBias(m, s) = 0
               PROVE  idle[p][m] <= 2 * TTL + Timeout
    BY DEF WarmIsRecent
  <2>1. m \in s.all /\ ~(s.age > 2 * TTL)
    BY DEF peerModelBias
  <2>2. idle[p][m] \in Nat
    BY Constants DEF IInv, TypeOK
  <2>3. CASE s \in Current(p)
    <3>1. idle[p][m] <= TTL + Timeout
      BY <2>1, <2>3, CurrentIsRecent DEF RecentAt
    <3> QED
      BY <2>2, <3>1, Constants
  <2>4. CASE s \in Kept(p)
    <3>1. s \in Snapshots /\ s # None /\ StampedAt(idle, hot, quiet, p, s)
      <4>1. PICK r \in Requests : req[r].at = p /\ s = req[r].found /\ s # None
        BY <2>4 DEF Kept
      <4> QED
        BY <4>1 DEF IInv, TypeOK, FoundInv, RequestStates
    <3>2. s.age \in Nat
      BY <3>1 DEF Snapshots
    <3>3. s.age <= 2 * TTL
      BY <2>1, <3>2, Constants
    <3>4. idle[p][m] <= s.age + Timeout
      BY <2>1, <3>1, <3>3 DEF StampedAt, RecentAt
    <3> QED
      BY <2>2, <3>2, <3>3, <3>4, Constants
  <2> QED
    BY <2>3, <2>4
<1> QED
  BY <1>1, Inductive, PTL

\* Only a peer that was down or failed a poll within one lifetime and one poll is
\* ranked unreachable or refused for a model it lists; any@p is sent for a cold model
\* only if the peer was so or had none loaded in that time (peerServesModel,
\* pickModelForPeer).
THEOREM UnreachableIsEarnedAlways == Spec => []UnreachableIsEarned
<1>1. IInv => UnreachableIsEarned
  <2> SUFFICES ASSUME IInv, NEW p \in Peers, NEW s \in Current(p)
               PROVE  /\ \A m \in Serves[p] :
                            peerModelBias(m, s) = 6 \/ ~peerServesModel(p, m, s)
                                => quiet[p] <= TTL + Timeout
                      /\ pickModelForPeer(p, s) \notin s.all
                            => quiet[p] <= TTL + Timeout \/ hot[p] <= TTL + Timeout
    BY DEF UnreachableIsEarned
  <2>1. /\ s \in Snapshots /\ s.age <= TTL
        /\ RecentAt(idle, hot, quiet, p, s, TTL + Timeout)
    BY CurrentIsRecent
  <2>2. s.served = Serves[p] \/ quiet[p] <= TTL + Timeout
    BY <2>1 DEF RecentAt
  <2>3. s.all # {} \/ hot[p] <= TTL + Timeout \/ quiet[p] <= TTL + Timeout
    BY <2>1 DEF RecentAt
  <2>4. ~(s.age > 2 * TTL)
    BY <2>1, Constants DEF Snapshots
  <2>5. ASSUME NEW m \in Serves[p], peerModelBias(m, s) = 6 \/ ~peerServesModel(p, m, s)
        PROVE  quiet[p] <= TTL + Timeout
    BY <2>2, <2>4, <2>5 DEF peerModelBias, peerServesModel
  <2>6. s.all # {} => pickModelForPeer(p, s) \in s.all
    <3>1. s.all \subseteq Models
      BY <2>1 DEF Snapshots
    <3>2. s.all # {} => First(s.all) \in s.all
      BY <3>1, FirstIsIn
    <3> QED
      BY <3>2 DEF pickModelForPeer
  <2> QED
    BY <2>3, <2>5, <2>6
<1> QED
  BY <1>1, Inductive, PTL

(***************************************************************************)
(* Wildcards: what a walk over the peers has seen.  The peer p was passed  *)
(* at most one lifetime of a snapshot and one poll after it lacked what is *)
(* asked for, and every peer since took at most one poll.                  *)
(***************************************************************************)
Span(n) == n * Timeout

\* p lacked what a wildcard asks for, was down or failed a poll at most t ago; h and q
\* stand for hot and quiet.
Lacked(h, q, kind, p, t) ==
    \/ q[p] <= t
    \/ kind = "any" /\ h[p] <= t
    \/ kind = "caps" /\ Serves[p] \cap Advertising \cap Capable = {}

\* The request x has seen the peers before the one it looks at, or all of them.
Walked(h, q, x) ==
    x.kind # "node" =>
        /\ x.pc \in {"look", "poll", "answered"} =>
              \A p \in Peers : p < x.at => Lacked(h, q, x.kind, p, TTL + Span(x.at - p) + x.wait)
        /\ x.pc = "refused" =>
              \A p \in Peers : Lacked(h, q, x.kind, p, TTL + Span(NumPeers))

WalkInv == \A r \in Requests : Walked(hot, quiet, req[r])

LEMMA SpanGrows ==
    ASSUME NEW n \in Nat
    PROVE  /\ Span(n) \in Nat /\ Span(n + 1) = Span(n) + Timeout
           /\ \A m \in 0 .. n : Span(m) <= Span(n)
<1>1. Timeout \in Nat
  BY Constants
<1>2. Span(n) \in Nat /\ Span(n + 1) = Span(n) + Timeout
  BY <1>1 DEF Span
<1>3. ASSUME NEW m \in 0 .. n PROVE Span(m) <= Span(n)
  <2>1. n - m \in Nat /\ n = m + (n - m)
    OBVIOUS
  <2>2. \A a, b \in Nat : (a + b) * Timeout = a * Timeout + b * Timeout /\ b * Timeout \in Nat
    BY <1>1
  <2>3. Span(n) = Span(m) + Span(n - m) /\ Span(n - m) \in Nat /\ Span(m) \in Nat
    BY <1>1, <2>1, <2>2 DEF Span
  <2> QED
    BY <2>3
<1> QED
  BY <1>2, <1>3

\* What a peer lacked, it lacked within any longer time; time adds at most d.
LEMMA StillLacked ==
    ASSUME TypeOK, TypeOK', NEW kind, NEW p \in Peers, NEW t \in Nat, NEW u \in Nat, NEW d \in Nat,
           t + d <= u, hot'[p] <= hot[p] + d, quiet'[p] <= quiet[p] + d,
           Lacked(hot, quiet, kind, p, t)
    PROVE  Lacked(hot', quiet', kind, p, u)
<1>1. hot[p] \in Nat /\ quiet[p] \in Nat /\ hot'[p] \in Nat /\ quiet'[p] \in Nat
  BY Constants DEF TypeOK
<1>2. (hot[p] <= t => hot'[p] <= u) /\ (quiet[p] <= t => quiet'[p] <= u)
  BY <1>1
<1> QED
  BY <1>2 DEF Lacked

\* The terms of Walked are times.
LEMMA WalkTimes ==
    ASSUME NEW x \in RequestStates
    PROVE  /\ TTL + Span(NumPeers) \in Nat /\ x.wait \in Nat /\ x.wait <= Timeout
           /\ x.at \in Peers /\ NumPeers \in Nat /\ x.at \in Nat /\ x.at <= NumPeers
           /\ \A p \in Peers : p < x.at => /\ x.at - p \in Nat /\ p \in Nat /\ p >= 1
                                           /\ Span(x.at - p) \in Nat
                                           /\ TTL + Span(x.at - p) + x.wait \in Nat
<1>1. /\ NumPeers \in Nat /\ x.at \in 1 .. NumPeers /\ x.wait \in 0 .. Timeout
      /\ TTL \in Nat /\ Timeout \in Nat
  BY PeerAddressAssumption DEF RequestStates, Peers
<1>2. Span(NumPeers) \in Nat
  BY <1>1, SpanGrows
<1>3. ASSUME NEW p \in Peers, p < x.at
      PROVE  /\ x.at - p \in Nat /\ p \in Nat /\ p >= 1
             /\ Span(x.at - p) \in Nat /\ TTL + Span(x.at - p) + x.wait \in Nat
  <2>1. x.at - p \in Nat /\ p \in Nat /\ p >= 1
    BY <1>1, <1>3 DEF Peers
  <2>2. Span(x.at - p) \in Nat
    BY <2>1, SpanGrows
  <2> QED
    BY <1>1, <2>1, <2>2
<1> QED
  BY <1>1, <1>2, <1>3 DEF Peers

\* A step that is no Tick keeps what a walk has seen.
LEMMA StillWalked ==
    ASSUME TypeOK, TypeOK', NotLater, NEW x \in RequestStates, Walked(hot, quiet, x)
    PROVE  Walked(hot', quiet', x)
<1>1. \A p \in Peers : hot'[p] <= hot[p] + 0 /\ quiet'[p] <= quiet[p] + 0
  BY Constants DEF NotLater, TypeOK
<1>2. ASSUME NEW p \in Peers, NEW t \in Nat, Lacked(hot, quiet, x.kind, p, t)
      PROVE  Lacked(hot', quiet', x.kind, p, t)
  <2>1. t + 0 <= t /\ 0 \in Nat
    OBVIOUS
  <2> QED
    BY <1>1, <1>2, <2>1, StillLacked
<1> QED
  BY <1>2, WalkTimes DEF Walked

\* A snapshot in which a wildcard finds nothing (firstLoadedAnywhere, resolveCapability).
LEMMA NothingIsLacking ==
    ASSUME TypeOK, NEW r \in Requests, NEW s \in Snapshots, NothingAt(r, s), NEW t,
           RecentAt(idle, hot, quiet, req[r].at, s, t)
    PROVE  Lacked(hot, quiet, req[r].kind, req[r].at, t)
<1> DEFINE p == req[r].at
           M == Matching(p, s)
<1>1. CASE req[r].kind = "any" /\ s.all = {}
  BY <1>1 DEF RecentAt, Lacked
<1>2. CASE req[r].kind = "caps" /\ firstModelMatchingCaps(p, s) = NoModel
  <2>1. s.all \subseteq Models /\ M \subseteq Models /\ NoModel \notin Models
    BY PeerAddressAssumption DEF Snapshots, Matching, NoModel, Models
  <2>2. M = {}
    <3>0. firstModelMatchingCaps(p, s) =
             IF s.all \cap M # {} THEN First(s.all \cap M)
             ELSE IF M = {} THEN NoModel ELSE First(M)
      BY DEF firstModelMatchingCaps, FirstOf
    <3> HIDE DEF M
    <3>1. ASSUME s.all \cap M # {} PROVE FALSE
      <4>1. First(s.all \cap M) \in s.all \cap M
        BY <2>1, <3>1, FirstIsIn
      <4> QED
        BY <1>2, <2>1, <3>0, <3>1, <4>1
    <3>2. ASSUME M # {} PROVE FALSE
      <4>1. First(M) \in M
        BY <2>1, <3>2, FirstIsIn
      <4> QED
        BY <1>2, <2>1, <3>0, <3>1, <3>2, <4>1
    <3> QED
      BY <3>2
  <2>3. CASE quiet[p] <= t
    BY <2>3 DEF Lacked
  <2>4. CASE s.served = Serves[p]
    <3>1. p \in Peers
      BY DEF TypeOK, RequestStates
    <3>2. Serves[p] \subseteq Models
      BY <3>1, Constants
    <3>3. Serves[p] \cap Advertising \cap Capable \subseteq M
      BY <2>4, <3>2 DEF Matching
    <3> QED
      BY <1>2, <2>2, <3>3 DEF Lacked
  <2> QED
    BY <2>3, <2>4 DEF RecentAt
<1> QED
  BY <1>1, <1>2 DEF NothingAt

\* A request uses a snapshot of the peer it looks at: if it finds nothing there, the walk
\* has seen one more peer.
LEMMA UseWalk ==
    ASSUME IInv, WalkInv, IInv', NotLater, NEW r \in Requests, NEW s, Use(r, s),
           req[r].pc \in {"look", "poll", "answered"},
           NothingAt(r, s) => Lacked(hot', quiet', req[r].kind, req[r].at, TTL + Timeout)
    PROVE  WalkInv'
<1> DEFINE x == req[r]
           y == req'[r]
<1>0. TypeOK /\ TypeOK' /\ x \in RequestStates /\ y \in RequestStates
  BY DEF IInv, TypeOK
<1>1. ASSUME NEW u \in Requests \ {r} PROVE Walked(hot', quiet', req'[u])
  <2>1. req'[u] = req[u]
    BY <1>0, UseType
  <2>2. req[u] \in RequestStates /\ Walked(hot, quiet, req[u])
    BY <1>0 DEF WalkInv, TypeOK
  <2> QED
    BY <1>0, <2>1, <2>2, StillWalked
<1>2. y = IF ~NothingAt(r, s) THEN Idle
          ELSE IF x.at < NumPeers
          THEN [Idle EXCEPT !.pc = "look", !.kind = x.kind, !.at = x.at + 1]
          ELSE [Idle EXCEPT !.pc = "refused", !.kind = x.kind]
  BY <1>0 DEF Use, TypeOK
<1>3. CASE ~NothingAt(r, s)
  <2>1. y.pc = "idle"
    BY <1>2, <1>3 DEF Idle
  <2>2. Walked(hot', quiet', y)
    BY <2>1 DEF Walked
  <2> QED
    BY <1>1, <2>2 DEF WalkInv
<1>4. CASE NothingAt(r, s)
  <2>1. x.kind # "node"
    BY <1>4 DEF NothingAt
  <2>2. Walked(hot', quiet', x)
    BY <1>0, StillWalked DEF WalkInv
  <2>3. ASSUME NEW p \in Peers, p < x.at
        PROVE  Lacked(hot', quiet', x.kind, p, TTL + Span(x.at - p) + x.wait)
    BY <2>1, <2>2, <2>3 DEF Walked
  <2>4. /\ x.wait \in Nat /\ x.wait <= Timeout /\ x.at \in Peers /\ x.at \in Nat /\ x.at <= NumPeers
        /\ NumPeers \in Nat /\ TTL \in Nat /\ Timeout \in Nat /\ Peers \subseteq Nat
    BY <1>0, WalkTimes, Constants
  <2>5. \A p \in Peers : hot'[p] \in Nat /\ quiet'[p] \in Nat
    BY <1>0, Constants DEF TypeOK
  <2>6. ASSUME NEW p \in Peers, NEW t \in Nat, NEW v \in Nat, t <= v,
               Lacked(hot', quiet', x.kind, p, t)
        PROVE  Lacked(hot', quiet', x.kind, p, v)
    <3>1. hot'[p] \in Nat /\ quiet'[p] \in Nat
      BY <2>5
    <3>2. (hot'[p] <= t => hot'[p] <= v) /\ (quiet'[p] <= t => quiet'[p] <= v)
      BY <2>6, <3>1
    <3> QED
      BY <2>6, <3>2 DEF Lacked
  <2>7. ASSUME NEW p \in Peers, p <= x.at
        PROVE  /\ Lacked(hot', quiet', x.kind, p, TTL + Span(x.at + 1 - p))
               /\ TTL + Span(x.at + 1 - p) \in Nat
    <3>1. p \in Nat /\ x.at - p \in Nat /\ x.at + 1 - p = (x.at - p) + 1
      BY <2>4, <2>7
    <3>2. /\ Span(x.at - p) \in Nat /\ Span((x.at - p) + 1) = Span(x.at - p) + Timeout
      BY <3>1, SpanGrows
    <3>3. TTL + Span(x.at + 1 - p) \in Nat /\ Span(x.at + 1 - p) = Span(x.at - p) + Timeout
      BY <2>4, <3>1, <3>2
    <3>4. CASE p = x.at
      <4>1. Lacked(hot', quiet', x.kind, p, TTL + Timeout)
        BY <1>4, <3>4
      <4>2. TTL + Timeout \in Nat /\ TTL + Timeout <= TTL + Span(x.at + 1 - p)
        BY <2>4, <3>2, <3>3
      <4> QED
        BY <2>6, <3>3, <4>1, <4>2
    <3>5. CASE p < x.at
      <4>1. Lacked(hot', quiet', x.kind, p, TTL + Span(x.at - p) + x.wait)
        BY <2>3, <3>5
      <4>2. /\ TTL + Span(x.at - p) + x.wait \in Nat
            /\ TTL + Span(x.at - p) + x.wait <= TTL + Span(x.at + 1 - p)
        BY <2>4, <3>2, <3>3
      <4> QED
        BY <2>6, <3>3, <4>1, <4>2
    <3> QED
      BY <2>4, <2>7, <3>1, <3>4, <3>5
  <2>8. CASE x.at < NumPeers
    <3>1. y.pc = "look" /\ y.kind = x.kind /\ y.at = x.at + 1 /\ y.wait = 0
      BY <1>2, <1>4, <2>8 DEF Idle
    <3>2. ASSUME NEW p \in Peers, p < y.at
          PROVE  Lacked(hot', quiet', y.kind, p, TTL + Span(y.at - p) + y.wait)
      <4>1. p <= x.at
        BY <2>4, <3>1, <3>2
      <4>2. Lacked(hot', quiet', x.kind, p, TTL + Span(x.at + 1 - p)) /\ TTL + Span(x.at + 1 - p) \in Nat
        BY <2>7, <4>1
      <4>3. TTL + Span(y.at - p) + y.wait = TTL + Span(x.at + 1 - p)
        <5>1. y.at - p = x.at + 1 - p /\ y.wait = 0
          BY <2>4, <3>1
        <5>2. TTL + Span(x.at + 1 - p) + 0 = TTL + Span(x.at + 1 - p)
          BY <4>2
        <5> QED
          BY <5>1, <5>2
      <4> QED
        BY <3>1, <4>2, <4>3
    <3>3. Walked(hot', quiet', y)
      BY <3>1, <3>2 DEF Walked
    <3> QED
      BY <1>1, <3>3 DEF WalkInv
  <2>9. CASE ~(x.at < NumPeers)
    <3>1. y.pc = "refused" /\ y.kind = x.kind
      BY <1>2, <1>4, <2>9 DEF Idle
    <3>2. ASSUME NEW p \in Peers PROVE Lacked(hot', quiet', y.kind, p, TTL + Span(NumPeers))
      <4>1. p <= x.at /\ x.at + 1 - p \in 0 .. NumPeers
        BY <2>4, <2>9 DEF Peers
      <4>2. Span(x.at + 1 - p) <= Span(NumPeers) /\ Span(NumPeers) \in Nat
        BY <2>4, <4>1, SpanGrows
      <4>3. Lacked(hot', quiet', x.kind, p, TTL + Span(x.at + 1 - p)) /\ TTL + Span(x.at + 1 - p) \in Nat
        BY <2>7, <4>1
      <4>4. TTL + Span(x.at + 1 - p) <= TTL + Span(NumPeers) /\ TTL + Span(NumPeers) \in Nat
        <5>1. Span(x.at + 1 - p) \in Nat
          BY <4>1, SpanGrows
        <5> QED
          BY <2>4, <4>2, <5>1
      <4> QED
        BY <2>6, <3>1, <4>3, <4>4
    <3>3. Walked(hot', quiet', y)
      BY <3>1, <3>2 DEF Walked
    <3> QED
      BY <1>1, <3>3 DEF WalkInv
  <2> QED
    BY <2>8, <2>9
<1> QED
  BY <1>3, <1>4

\* One unit of time adds at most one to the histories.
LEMMA TickOlder ==
    ASSUME TypeOK, Tick
    PROVE  \A p \in Peers : hot'[p] <= hot[p] + 1 /\ quiet'[p] <= quiet[p] + 1
<1> SUFFICES ASSUME NEW p \in Peers PROVE hot'[p] <= hot[p] + 1 /\ quiet'[p] <= quiet[p] + 1
  OBVIOUS
<1>1. /\ hot'[p] = IF loaded[p] = {} THEN 0 ELSE Older(hot[p])
      /\ quiet'[p] = IF up[p] THEN Older(quiet[p]) ELSE 0
  BY DEF Tick
<1>2. hot[p] \in Nat /\ quiet[p] \in Nat
  BY Constants DEF TypeOK
<1>3. \A t \in Nat : Older(t) <= t + 1 /\ 0 <= t + 1
  BY Constants DEF Older
<1> QED
  BY <1>1, <1>2, <1>3

LEMMA TickWalk == ASSUME IInv, WalkInv, IInv', Tick PROVE WalkInv'
<1> SUFFICES ASSUME NEW r \in Requests PROVE Walked(hot', quiet', req'[r])
  BY DEF WalkInv
<1> DEFINE x == req[r]
           y == req'[r]
<1>1. TypeOK /\ TypeOK' /\ x \in RequestStates /\ Walked(hot, quiet, x)
  BY DEF IInv, TypeOK, WalkInv
<1>2. CASE Polling(r)
  <2>1. y = [x EXCEPT !.wait = x.wait + 1, !.found = Aged(x.found)]
    BY <1>2 DEF Tick
  <2>2. y.pc = x.pc /\ y.kind = x.kind /\ y.at = x.at /\ y.wait = x.wait + 1
    BY <1>1, <2>1 DEF RequestStates
  <2>3. x.pc \in {"poll", "answered"}
    BY <1>2 DEF Polling
  <2>4. ASSUME x.kind # "node", NEW p \in Peers, p < x.at
        PROVE  Lacked(hot', quiet', x.kind, p, TTL + Span(x.at - p) + y.wait)
    <3> DEFINE t == TTL + Span(x.at - p) + x.wait
               v == TTL + Span(x.at - p) + y.wait
    <3>1. t \in Nat /\ v = t + 1
      <4>1. t \in Nat /\ x.wait \in Nat /\ Span(x.at - p) \in Nat /\ TTL \in Nat
        BY <1>1, <2>4, WalkTimes, Constants
      <4> QED
        BY <2>2, <4>1
    <3>2. Lacked(hot, quiet, x.kind, p, t)
      BY <1>1, <2>3, <2>4 DEF Walked
    <3> HIDE DEF t, v
    <3>3. v \in Nat /\ 1 \in Nat /\ t + 1 <= v
      BY <3>1
    <3>4. Lacked(hot', quiet', x.kind, p, v)
      BY <1>1, <3>1, <3>2, <3>3, TickOlder, StillLacked
    <3> QED
      BY <3>4 DEF v
  <2> QED
    BY <2>2, <2>3, <2>4 DEF Walked
<1>3. CASE ~Polling(r)
  <2>1. y = x /\ x.pc \notin {"look", "refused", "poll", "answered"}
    BY <1>3 DEF Tick, Polling
  <2> QED
    BY <2>1 DEF Walked
<1> QED
  BY <1>2, <1>3

\* A step that changes no request.
LEMMA PeerStepWalk == ASSUME IInv, WalkInv, IInv', NEW p \in Peers, PeerStep(p) PROVE WalkInv'
<1>1. NotLater /\ req' = req
  <2>1. CASE GoDown(p)
    BY <2>1, Constants DEF GoDown, Change, IInv, TypeOK, NotLater
  <2>2. CASE ComeUp(p)
    BY <2>2, Constants DEF ComeUp, IInv, TypeOK, NotLater
  <2>3. ASSUME NEW m \in Models, Load(p, m) PROVE NotLater /\ req' = req
    BY <2>3, Constants DEF Load, Change, IInv, TypeOK, NotLater
  <2>4. ASSUME NEW m \in Models, Unload(p, m) PROVE NotLater /\ req' = req
    BY <2>4, Constants DEF Unload, Change, IInv, TypeOK, NotLater
  <2> QED
    BY <2>1, <2>2, <2>3, <2>4 DEF PeerStep
<1>2. ASSUME NEW r \in Requests PROVE Walked(hot', quiet', req[r])
  BY <1>1, StillWalked DEF IInv, TypeOK, WalkInv
<1> QED
  BY <1>1, <1>2 DEF WalkInv

\* The request r takes a step that keeps what its walk has seen.
LEMMA RowWalk ==
    ASSUME IInv, WalkInv, IInv', NEW r \in Requests, NEW y, req' = [req EXCEPT ![r] = y],
           UNCHANGED <<worldVars, quiet>>, Walked(hot, quiet, y)
    PROVE  WalkInv'
<1>1. hot' = hot /\ quiet' = quiet
  BY DEF worldVars
<1>2. \A u \in Requests : req'[u] = IF u = r THEN y ELSE req[u]
  BY DEF IInv, TypeOK
<1> QED
  BY <1>1, <1>2 DEF WalkInv

LEMMA RequestStepWalk ==
    ASSUME IInv, WalkInv, IInv', NEW r \in Requests, RequestStep(r) PROVE WalkInv'
<1> DEFINE x == req[r]
<1>0. TypeOK /\ x \in RequestStates /\ x.at \in Peers /\ Walked(hot, quiet, x)
  BY DEF IInv, TypeOK, RequestStates, WalkInv
<1>1. CASE Resolve(r)
  <2>1. UNCHANGED <<worldVars, quiet>>
    BY <1>1 DEF Resolve
  <2>2. ASSUME NEW k \in {"any", "caps"},
               req' = [req EXCEPT ![r] = [Idle EXCEPT !.pc = "look", !.kind = k]]
        PROVE  WalkInv'
    <3> DEFINE y == [Idle EXCEPT !.pc = "look", !.kind = k]
    <3>1. y.pc = "look" /\ y.at = 1
      BY DEF Idle
    <3>2. \A p \in Peers : ~(p < 1)
      BY PeerAddressAssumption DEF Peers
    <3>3. Walked(hot, quiet, y)
      BY <3>1, <3>2 DEF Walked
    <3>4. req' = [req EXCEPT ![r] = y]
      BY <2>2
    <3> HIDE DEF y
    <3> QED
      BY <2>1, <3>3, <3>4, RowWalk
  <2>3. ASSUME NEW p \in Named, req' = [req EXCEPT ![r] = [Idle EXCEPT !.pc = "look", !.at = p]]
        PROVE  WalkInv'
    <3> DEFINE y == [Idle EXCEPT !.pc = "look", !.at = p]
    <3>1. y.kind = "node"
      BY DEF Idle
    <3>2. Walked(hot, quiet, y)
      BY <3>1 DEF Walked
    <3>3. req' = [req EXCEPT ![r] = y]
      BY <2>3
    <3> HIDE DEF y
    <3> QED
      BY <2>1, <3>2, <3>3, RowWalk
  <2> QED
    BY <1>1, <2>2, <2>3 DEF Resolve
<1>2. CASE Refuse(r)
  <2>1. UNCHANGED <<worldVars, quiet>> /\ req' = [req EXCEPT ![r] = Idle]
    BY <1>2 DEF Refuse
  <2>2. Idle.kind = "node"
    BY DEF Idle
  <2>3. Walked(hot, quiet, Idle)
    BY <2>2 DEF Walked
  <2> QED
    BY <2>1, <2>3, RowWalk
<1>3. CASE CacheHit(r)
  <2>1. /\ x.pc = "look" /\ Fresh(cache[x.at]) /\ Use(r, cache[x.at])
        /\ UNCHANGED <<worldVars, quiet>> /\ hot' = hot /\ quiet' = quiet
    BY <1>3 DEF CacheHit, worldVars
  <2>2. NotLater
    BY <1>0, <2>1, SameHistories
  <2>3. cache[x.at] \in Current(x.at)
    BY <2>1 DEF Current
  <2>4. cache[x.at] \in Snapshots /\ RecentAt(idle, hot, quiet, x.at, cache[x.at], TTL + Timeout)
    BY <1>0, <2>3, CurrentIsRecent
  <2>5. NothingAt(r, cache[x.at]) => Lacked(hot', quiet', x.kind, x.at, TTL + Timeout)
    BY <1>0, <2>1, <2>4, NothingIsLacking
  <2> QED
    BY <2>1, <2>2, <2>5, UseWalk
<1>4. CASE CacheMiss(r)
  <2> DEFINE y == [x EXCEPT !.pc = "poll", !.found = cache[x.at]]
  <2>1. /\ x.pc = "look" /\ req' = [req EXCEPT ![r] = y] /\ UNCHANGED <<worldVars, quiet>>
    BY <1>0, <1>4 DEF CacheMiss, TypeOK
  <2>2. y.pc = "poll" /\ y.kind = x.kind /\ y.at = x.at /\ y.wait = x.wait
    BY <1>0 DEF RequestStates
  <2>3. Walked(hot, quiet, y)
    BY <1>0, <2>1, <2>2 DEF Walked
  <2> HIDE DEF y
  <2> QED
    BY <2>1, <2>3, RowWalk
<1>5. CASE PeerAnswers(r)
  <2>1. PICK s : req' = [req EXCEPT ![r] = [x EXCEPT !.pc = "answered", !.found = None, !.got = s]]
    BY <1>0, <1>5 DEF PeerAnswers, TypeOK
  <2> DEFINE y == [x EXCEPT !.pc = "answered", !.found = None, !.got = s]
  <2>2. x.pc = "poll" /\ req' = [req EXCEPT ![r] = y] /\ UNCHANGED <<worldVars, quiet>>
    BY <1>5, <2>1 DEF PeerAnswers
  <2>3. y.pc = "answered" /\ y.kind = x.kind /\ y.at = x.at /\ y.wait = x.wait
    BY <1>0 DEF RequestStates
  <2>4. Walked(hot, quiet, y)
    BY <1>0, <2>2, <2>3 DEF Walked
  <2> HIDE DEF y
  <2> QED
    BY <2>2, <2>4, RowWalk
<1>6. CASE Store(r)
  <2>1. /\ x.pc = "answered" /\ Use(r, x.got)
        /\ UNCHANGED <<worldVars, quiet>> /\ hot' = hot /\ quiet' = quiet
    BY <1>6 DEF Store, worldVars
  <2>2. NotLater
    BY <1>0, <2>1, SameHistories
  <2>3. x.got \in Current(x.at)
    BY <2>1 DEF Current
  <2>4. x.got \in Snapshots /\ RecentAt(idle, hot, quiet, x.at, x.got, TTL + Timeout)
    BY <1>0, <2>3, CurrentIsRecent
  <2>5. NothingAt(r, x.got) => Lacked(hot', quiet', x.kind, x.at, TTL + Timeout)
    BY <1>0, <2>1, <2>4, NothingIsLacking
  <2> QED
    BY <2>1, <2>2, <2>5, UseWalk
<1>7. ASSUME PollFails(r), NEW s, Use(r, s) PROVE WalkInv'
  <2>1. NotLater /\ quiet'[x.at] = 0 /\ x.pc = "poll"
    BY <1>7, FailedPoll DEF PollFails
  <2>2. Lacked(hot', quiet', x.kind, x.at, TTL + Timeout)
    BY <2>1, Constants DEF Lacked
  <2> QED
    BY <1>7, <2>1, <2>2, UseWalk
<1>8. CASE KeepStale(r)
  BY <1>7, <1>8 DEF KeepStale
<1>9. CASE StoreEmpty(r)
  BY <1>7, <1>9 DEF StoreEmpty
<1> QED
  BY <1>1, <1>2, <1>3, <1>4, <1>5, <1>6, <1>8, <1>9 DEF RequestStep

\* `any` and a capability are refused only if every peer lacked such a model, was down or
\* failed a poll within one lifetime of a snapshot and one poll of each peer
\* (firstLoadedAnywhere, resolveCapability), whatever the other requests poll and store.
THEOREM RefusalIsJustifiedAlways == Spec => []RefusalIsJustified
<1>1. Init => WalkInv
  BY DEF Init, WalkInv, Walked, Idle
<1>2. IInv /\ IInv' /\ WalkInv /\ [Next]_vars => WalkInv'
  <2> SUFFICES ASSUME IInv, IInv', WalkInv, [Next]_vars PROVE WalkInv'
    OBVIOUS
  <2>1. CASE UNCHANGED vars
    BY <2>1 DEF vars, worldVars, WalkInv
  <2> QED
    BY <2>1, TickWalk, PeerStepWalk, RequestStepWalk DEF Next
<1>3. IInv /\ WalkInv => RefusalIsJustified
  <2> SUFFICES ASSUME IInv, WalkInv, NEW r \in Requests, req[r].pc = "refused", NEW p \in Peers,
                      CouldServe(req[r].kind, p)
               PROVE  FALSE
    BY DEF RefusalIsJustified
  <2>1. req[r].kind # "node"
    BY DEF CouldServe
  <2>2. Lacked(hot, quiet, req[r].kind, p, TTL + Span(NumPeers))
    BY <2>1 DEF WalkInv, Walked
  <2> QED
    BY <2>2 DEF Lacked, CouldServe, Within, Span
<1> QED
  BY <1>1, <1>2, <1>3, Inductive, PTL DEF Spec
==============================================================================
