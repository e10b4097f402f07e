---------------------------- MODULE PeerAddress ----------------------------
(***************************************************************************)
(* Addresses `<model>@<node>` and the loaded-state cache behind them       *)
(* (proxy/peeraddress.go, peerModelBias of proxy/peerproxy.go).  Requests  *)
(* read the cached snapshot of a peer and poll its /v1/models when the     *)
(* snapshot is too old; polls of several requests overlap, take time, fail *)
(* and are stored in any order, while the peers load and unload models, go *)
(* down and come back.                                                     *)
(*                                                                         *)
(* Time is the age of things.  The age of a snapshot stops growing beyond  *)
(* 2 * TTL, the largest one the code tells apart.  The program's own steps *)
(* take no time, a poll at most Timeout.  Aliases, sizes and the wording   *)
(* of addresses and errors are left out; a modality expression is          *)
(* abstracted to the models whose signature satisfies it.                  *)
(***************************************************************************)
EXTENDS Naturals

CONSTANTS
    NumPeers,            \* peers, numbered in peerOrder
    NumModels,           \* models, in the order of listings, configuration and names
    Serves,              \* models each peer lists in /v1/models, loaded or cold
    Resident,            \* models each peer has loaded when the program starts
    Declared,            \* models each peer has in the configuration
    Advertising,         \* models listed with a modality signature
    Capable,             \* of these, the ones that satisfy the capability asked for
    DeclaredCapable,     \* models whose configured signature satisfies it, by peer
    Requests,
    Named,               \* peers whose names the clients use
    TTL, Timeout,        \* loadedTTL, httpClient.Timeout
    Horizon,             \* bound: largest time since an event that is told apart
    MaxChanges,          \* bound: changes of the peers, recoveries not counted
    MaxFails,            \* bound: failed polls of a peer that is up
    None

Peers == 1 .. NumPeers
Models == 1 .. NumModels
NoModel == 0

\* peerLoadedSet: order and all, served, and the time since fetchedAt.
Snapshots == [all : SUBSET Models, served : SUBSET Models, age : 0 .. 2 * TTL + 1]
EmptySnapshot == [all |-> {}, served |-> {}, age |-> 0]

ASSUME PeerAddressAssumption ==
    /\ NumPeers \in Nat \ {0} /\ NumModels \in Nat
    /\ Serves \in [Peers -> SUBSET Models]
    /\ Resident \in [Peers -> SUBSET Models]
    /\ Declared \in [Peers -> SUBSET Models]
    /\ DeclaredCapable \in [Peers -> SUBSET Models]
    /\ TTL \in Nat /\ Timeout \in Nat
    /\ Horizon \in Nat /\ Horizon > 2 * TTL + Timeout /\ Horizon > TTL + NumPeers * Timeout
    /\ MaxChanges \in Nat /\ MaxFails \in Nat
    /\ Named \subseteq Peers /\ None \notin Snapshots

VARIABLES
    up, loaded,          \* the peers: reachable, resident models
    cache,               \* loadedCache
    req,                 \* each request in ResolveAddress or peerModelBias
    idle,                \* history: time since a model was last loaded at a peer
    hot,                 \* history: time since a peer last had nothing loaded
    quiet,               \* history: time since a peer was down or a poll of it failed
    changes, fails

worldVars == <<up, loaded, idle, hot, changes>>
vars == <<worldVars, cache, req, quiet, fails>>

Older(time) == IF time < Horizon THEN time + 1 ELSE time
Aged(s) == IF s = None \/ s.age > 2 * TTL THEN s ELSE [s EXCEPT !.age = s.age + 1]

\* kind: "any" and "caps" walk the peers, "node" looks at one; found and got are
\* the snapshots before and after the poll, wait its duration.
Idle == [pc |-> "idle", kind |-> "node", at |-> 1, found |-> None, got |-> None, wait |-> 0]

Init ==
    /\ up = [p \in Peers |-> TRUE]
    /\ loaded = Resident
    /\ cache = [p \in Peers |-> None]
    /\ req = [r \in Requests |-> Idle]
    /\ idle = [p \in Peers |-> [m \in Models |-> IF m \in loaded[p] THEN 0 ELSE Horizon]]
    /\ hot = [p \in Peers |-> 0]
    /\ quiet = [p \in Peers |-> 0]
    /\ changes = 0 /\ fails = 0
-----------------------------------------------------------------------------
(***************************************************************************)
(* The peers and the clock.                                                *)
(***************************************************************************)
Change(p, models) ==
    /\ changes < MaxChanges
    /\ changes' = changes + 1
    /\ loaded' = [loaded EXCEPT ![p] = models]
    /\ hot' = [hot EXCEPT ![p] = IF models = {} THEN 0 ELSE @]
    /\ UNCHANGED <<cache, req, fails>>

Load(p, m) ==
    /\ up[p] /\ m \in Serves[p] \ loaded[p]
    /\ Change(p, loaded[p] \cup {m})
    /\ idle' = [idle EXCEPT ![p][m] = 0]
    /\ UNCHANGED <<up, quiet>>

Unload(p, m) ==
    /\ m \in loaded[p]
    /\ Change(p, loaded[p] \ {m})
    /\ UNCHANGED <<up, idle, quiet>>

GoDown(p) ==
    /\ up[p]
    /\ up' = [up EXCEPT ![p] = FALSE]
    /\ Change(p, {})
    /\ quiet' = [quiet EXCEPT ![p] = 0]
    /\ UNCHANGED idle

ComeUp(p) ==
    /\ ~up[p]
    /\ up' = [up EXCEPT ![p] = TRUE]
    /\ UNCHANGED <<loaded, idle, hot, changes, cache, req, quiet, fails>>

Polling(r) == req[r].pc \in {"poll", "answered"}

\* One unit of time: nothing is computing, and no poll outlives its timeout.
Tick ==
    /\ \A r \in Requests : /\ req[r].pc \notin {"look", "refused"}
                           /\ Polling(r) => req[r].wait < Timeout
    /\ cache' = [p \in Peers |-> Aged(cache[p])]
    /\ req' = [r \in Requests |->
                 IF Polling(r)
                 THEN [req[r] EXCEPT !.wait = req[r].wait + 1, !.found = Aged(req[r].found)]
                 ELSE req[r]]
    /\ idle' = [p \in Peers |-> [m \in Models |->
                 IF m \in loaded[p] THEN 0 ELSE Older(idle[p][m])]]
    /\ hot' = [p \in Peers |-> IF loaded[p] = {} THEN 0 ELSE Older(hot[p])]
    /\ quiet' = [p \in Peers |-> IF up[p] THEN Older(quiet[p]) ELSE 0]
    /\ UNCHANGED <<up, loaded, changes, fails>>
-----------------------------------------------------------------------------
(***************************************************************************)
(* What a snapshot means for an address.                                   *)
(***************************************************************************)
First(S) == CHOOSE m \in S : \A n \in S : m <= n
FirstOf(S) == IF S = {} THEN NoModel ELSE First(S)

\* Signatures advertised by the peer, and the configured ones for the others.
Matching(p, s) == {m \in Models :
    IF m \in s.served \cap Advertising THEN m \in Capable ELSE m \in DeclaredCapable[p]}

\* A matching model that is loaded, else any that matches.
firstModelMatchingCaps(p, s) ==
    IF s.all \cap Matching(p, s) # {} THEN First(s.all \cap Matching(p, s))
    ELSE FirstOf(Matching(p, s))

\* any@p: a loaded model, else the first one declared.
pickModelForPeer(p, s) == IF s.all # {} THEN First(s.all) ELSE FirstOf(Declared[p])

\* Mutant: only a resident model can be pinned.
ServesResident(p, m, s) == m \in Declared[p] \cup s.all

\* m@p: declared, listed or loaded.
peerServesModel(p, m, s) == m \in Declared[p] \cup s.served \cup s.all

\* Mutant: the snapshot of a peer that does not answer any more is trusted.
BiasTrusting(m, s) ==
    IF s.served = {} THEN 6
    ELSE IF m \in s.all THEN 0
    ELSE IF s.all = {} THEN 1 ELSE 3

\* Unreachable, warm, vacant or occupied.
peerModelBias(m, s) ==
    IF s.served = {} \/ s.age > 2 * TTL THEN 6
    ELSE IF m \in s.all THEN 0
    ELSE IF s.all = {} THEN 1 ELSE 3
-----------------------------------------------------------------------------
(***************************************************************************)
(* Requests.                                                               *)
(***************************************************************************)
\* A wildcard finds nothing at this peer; an address with a node, the bias of a peer
\* and the questions of the /v1/models listing are decided by any snapshot.
NothingAt(r, s) ==
    \/ req[r].kind = "any" /\ s.all = {}
    \/ req[r].kind = "caps" /\ firstModelMatchingCaps(req[r].at, s) = NoModel

\* Mutant: a wildcard is refused when the first peer has nothing.
UseFirstPeer(r, s) ==
    req' = [req EXCEPT ![r] =
              IF NothingAt(r, s) THEN [Idle EXCEPT !.pc = "refused", !.kind = req[r].kind]
              ELSE Idle]

\* A snapshot decides, or a wildcard moves on to the next peer or is refused.
Use(r, s) ==
    req' = [req EXCEPT ![r] =
              IF ~NothingAt(r, s) THEN Idle
              ELSE IF req[r].at < NumPeers
              THEN [Idle EXCEPT !.pc = "look", !.kind = req[r].kind, !.at = req[r].at + 1]
              ELSE [Idle EXCEPT !.pc = "refused", !.kind = req[r].kind]]

\* ResolveAddress or peerModelBias; a declared m@p is pinned without a look at p.
Resolve(r) ==
    /\ req[r].pc = "idle"
    /\ \/ \E k \in {"any", "caps"} :
              req' = [req EXCEPT ![r] = [Idle EXCEPT !.pc = "look", !.kind = k]]
       \/ \E p \in Named :
              req' = [req EXCEPT ![r] = [Idle EXCEPT !.pc = "look", !.at = p]]
    /\ UNCHANGED <<worldVars, cache, quiet, fails>>

\* The error 503 of a wildcard that nothing satisfies.
Refuse(r) ==
    /\ req[r].pc = "refused"
    /\ req' = [req EXCEPT ![r] = Idle]
    /\ UNCHANGED <<worldVars, cache, quiet, fails>>

Fresh(s) == s # None /\ s.age < TTL

\* peerLoaded: a fresh snapshot is used, otherwise the peer is polled.
CacheHit(r) ==
    /\ req[r].pc = "look"
    /\ Fresh(cache[req[r].at])
    /\ Use(r, cache[req[r].at])
    /\ UNCHANGED <<worldVars, cache, quiet, fails>>

CacheMiss(r) ==
    /\ req[r].pc = "look"
    /\ ~Fresh(cache[req[r].at])
    /\ req' = [req EXCEPT ![r] = [@ EXCEPT !.pc = "poll", !.found = cache[req[r].at]]]
    /\ UNCHANGED <<worldVars, cache, quiet, fails>>

\* The peer writes its listing; one that is not well may answer something else,
\* which parses to an empty set.
PeerAnswers(r) ==
    LET p == req[r].at
    IN  /\ req[r].pc = "poll"
        /\ req' = [req EXCEPT ![r] = [@ EXCEPT !.pc = "answered", !.found = None, !.got =
                     IF up[p] THEN [all |-> loaded[p], served |-> Serves[p], age |-> 0]
                     ELSE EmptySnapshot]]
        /\ UNCHANGED <<worldVars, cache, quiet, fails>>

\* fetchPeerLoaded read the body and stamps the snapshot, which is stored and used.
Store(r) ==
    /\ req[r].pc = "answered"
    /\ cache' = [cache EXCEPT ![req[r].at] = req[r].got]
    /\ Use(r, req[r].got)
    /\ UNCHANGED <<worldVars, quiet, fails>>

\* Refused, timed out, another status than 200, or the body breaks off; in the last
\* case what the peer wrote is lost, as if it had not answered.
PollFails(r) ==
    LET p == req[r].at
    IN  /\ req[r].pc = "poll"
        /\ up[p] => fails < MaxFails
        /\ fails' = IF up[p] THEN fails + 1 ELSE fails
        /\ quiet' = [quiet EXCEPT ![p] = 0]
        /\ UNCHANGED worldVars

\* Mutant: the old snapshot is stamped anew, so that the peer is left alone for a while.
KeepStaleRestamped(r) ==
    /\ PollFails(r)
    /\ req[r].found # None
    /\ cache' = [cache EXCEPT ![req[r].at] = [req[r].found EXCEPT !.age = 0]]
    /\ Use(r, req[r].found)

\* The poll failed: the snapshot found before it is used, whatever its age.
KeepStale(r) ==
    /\ PollFails(r)
    /\ req[r].found # None
    /\ Use(r, req[r].found)
    /\ UNCHANGED cache

\* The poll failed and there was no snapshot: an empty one is stored.
StoreEmpty(r) ==
    /\ PollFails(r)
    /\ req[r].found = None
    /\ cache' = [cache EXCEPT ![req[r].at] = EmptySnapshot]
    /\ Use(r, EmptySnapshot)

\* Requests of clients, and the goroutines of WarmLoaded, which look at one peer each.
RequestStep(r) ==
    \/ Resolve(r) \/ Refuse(r) \/ CacheHit(r) \/ CacheMiss(r) \/ PeerAnswers(r)
    \/ Store(r) \/ KeepStale(r) \/ StoreEmpty(r)

PeerStep(p) == GoDown(p) \/ ComeUp(p) \/ \E m \in Models : Load(p, m) \/ Unload(p, m)

Next ==
    \/ Tick
    \/ \E p \in Peers : PeerStep(p)
    \/ \E r \in Requests : RequestStep(r)

Spec == Init /\ [][Next]_vars
-----------------------------------------------------------------------------
RequestStates ==
    [pc : {"idle", "look", "poll", "answered", "refused"}, kind : {"any", "caps", "node"},
     at : Peers, found : Snapshots \cup {None}, got : Snapshots \cup {None}, wait : 0 .. Timeout]

\* The variables keep their types.
TypeOK ==
    /\ up \in [Peers -> BOOLEAN] /\ loaded \in [Peers -> SUBSET Models]
    /\ cache \in [Peers -> Snapshots \cup {None}]
    /\ req \in [Requests -> RequestStates]
    /\ idle \in [Peers -> [Models -> 0 .. Horizon]]
    /\ hot \in [Peers -> 0 .. Horizon] /\ quiet \in [Peers -> 0 .. Horizon]
    /\ changes \in 0 .. MaxChanges /\ fails \in 0 .. MaxFails

\* The snapshots of p that a request may use now: current ones, and, if its poll
\* fails, the one it found before.
Current(p) == {s \in {cache[p]} : Fresh(s)}
                  \cup {req[r].got : r \in {r \in Requests : req[r].pc = "answered" /\ req[r].at = p}}
Kept(p) == {req[r].found : r \in {r \in Requests : req[r].pc = "poll" /\ req[r].at = p}} \ {None}

\* A by-name request ranks a peer as warm only if the model was loaded there within
\* two lifetimes of a snapshot and one poll, however long the polls of that peer
\* have been failing (peerModelBias).
WarmIsRecent ==
    \A p \in Peers : \A s \in Current(p) \cup Kept(p) : \A m \in Models :
        peerModelBias(m, s) = 0 => idle[p][m] <= 2 * TTL + Timeout

\* Unless its own poll of the peer fails, a request takes a model for loaded only
\* where it was loaded within one lifetime and one poll, in whatever order other
\* requests store what they fetched (peerLoaded, firstLoadedAnywhere).
LoadedIsRecent ==
    \A p \in Peers : \A s \in Current(p) : \A m \in s.all : idle[p][m] <= TTL + Timeout

\* p could satisfy a wildcard all the time since a request began its walk, at the
\* latest, and its polls did not fail.
Within(time) == time <= TTL + NumPeers * Timeout
CouldServe(kind, p) ==
    /\ ~Within(quiet[p])
    /\ \/ kind = "any" /\ ~Within(hot[p])
       \/ kind = "caps" /\ Serves[p] \cap Advertising \cap Capable # {}

\* `any` and a capability are refused only if every peer lacked such a model, was
\* down or failed a poll, within one lifetime and the polls of the walk
\* (firstLoadedAnywhere, resolveCapability).
RefusalIsJustified ==
    \A r \in Requests : req[r].pc = "refused" => \A p \in Peers : ~CouldServe(req[r].kind, p)

\* A peer is ranked unreachable, and a model it lists refused for it, only if it
\* was down or failed a poll within one lifetime and one poll; any@p makes it load
\* a model only if it had none loaded, was down or failed a poll in that time.
UnreachableIsEarned ==
    \A p \in Peers : \A s \in Current(p) :
        /\ \A m \in Serves[p] :
               peerModelBias(m, s) = 6 \/ ~peerServesModel(p, m, s) => quiet[p] <= TTL + Timeout
        /\ pickModelForPeer(p, s) \notin s.all
               => quiet[p] <= TTL + Timeout \/ hot[p] <= TTL + Timeout
=============================================================================
