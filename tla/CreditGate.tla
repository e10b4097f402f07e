----------------------------- MODULE CreditGate -----------------------------
(***************************************************************************)
(* The prepaid-credit gate for one key: reserve at admission, resolve on   *)
(* every exit (credit_gate.go, credit_gate_wiring.go), the per-key account *)
(* (credit_ledger.go) and the ingestion of pushed allowances               *)
(* (allowance.go).  Every ledger operation runs under one mutex, so each   *)
(* is one step.                                                            *)
(*                                                                         *)
(* HOME (finance) and the tailer that confirms debits are outside the      *)
(* repository's wiring.  They are modelled from the contract the code      *)
(* relies on: the tailer confirms a trued-up debit at its log position, in *)
(* log order, and may rewind and replay; HOME acknowledges a prefix of the *)
(* log and pushes snapshots with growing versions, which may be lost,      *)
(* repeated or delivered in any order.                                     *)
(***************************************************************************)
EXTENDS Pricing, Sequences, FiniteSets, FiniteSetsExt, Functions

CONSTANTS
    Requests,            \* inference requests of one key
    Rates,               \* configured rates, a set of records
    PromptBounds,        \* values of creditPromptUpperBound
    RequestedMaxes,      \* values of max_tokens, 0 when absent
    Tokens,              \* token counts a backend may report
    Grants,              \* credits bought: first entry at the start, then top-ups
    MaxVer,              \* bound: snapshots HOME pushes
    Faults,              \* calls that may panic: "admit", "resolve", "release"
    FailOpen,            \* config.CreditGateCanaryFailOpen
    Drops                \* the debit emitter may drop an event

ASSUME CreditGateAssumption ==
    /\ IsFiniteSet(Requests)
    /\ Rates \subseteq [input : Int, output : Int, maxOutput : Int]
    /\ PromptBounds \cup Tokens \cup RequestedMaxes \subseteq Nat
    /\ Grants \in Seq(Nat) /\ Len(Grants) > 0
    /\ MaxVer \in Nat
    /\ Faults \subseteq {"admit", "resolve", "release"}
    /\ FailOpen \in BOOLEAN /\ Drops \in BOOLEAN

\* No product of a billable rate and a token count leaves the range of an int64.
PricesFit ==
    \A rate \in Rates : Billable(rate) =>
        /\ Fits(rate.maxOutput * rate.output)
        /\ \A tokens \in PromptBounds \cup Tokens : Fits(tokens * rate.input)
        /\ \A tokens \in Tokens : Fits(tokens * rate.output)

VARIABLES
    allowance, allowanceVer, ackWatermark,   \* keyCredit, as pushed
    confirmed,           \* keyCredit.confirmed: log position -> cost
    confirmedSum, confirmedHigh, pending, reserved,
    lastVer,             \* allowanceIngester
    req,                 \* each request: where it is, its hold and its bill
    log,                 \* the debit log: a sequence of costs
    cursor,              \* tailer: log position confirmed last
    home,                \* HOME: credits granted, log prefix ingested, version
    pushed               \* snapshots in flight, never removed

accountVars == <<allowance, allowanceVer, ackWatermark, confirmed,
                 confirmedSum, confirmedHigh, pending, reserved>>
homeVars == <<home, pushed>>
vars == <<accountVars, lastVer, req, log, cursor, homeVars>>

NewRequest == [pc |-> "new", price |-> <<>>, hold |-> 0, bill |-> 0, seq |-> 0]

PCs == {"new", "denied", "unmetered", "held", "failed", "metered", "unmeasured",
        "panicked", "stranded", "billed", "released"}

Init ==
    /\ allowance = 0 /\ allowanceVer = 0 /\ ackWatermark = 0
    /\ confirmed = <<>>
    /\ confirmedSum = 0 /\ confirmedHigh = 0
    /\ pending = 0 /\ reserved = 0
    /\ lastVer = 0
    /\ req = [r \in Requests |-> NewRequest]
    /\ log = <<>>
    /\ cursor = 0
    /\ home = [grants |-> 1, ack |-> 0, ver |-> 0]
    /\ pushed = {}

\* keyCredit.available: what may still be reserved.
available == allowance - reserved - pending - confirmedSum
-----------------------------------------------------------------------------
(***************************************************************************)
(* Admission: guardedAdmit, admit and Reserve.                             *)
(***************************************************************************)
\* The hold is placed.  (As a mutant of Reserve: the balance is not checked.)
PlaceHold(r, price, cost) ==
    /\ req' = [req EXCEPT ![r].pc = "held", ![r].price = price,
                          ![r].hold = NonNegative(cost)]
    /\ reserved' = reserved + NonNegative(cost)

Reserve(r, price, cost) ==
    IF available < NonNegative(cost)
    THEN /\ req' = [req EXCEPT ![r].pc = "denied"]
         /\ UNCHANGED reserved
    ELSE PlaceHold(r, price, cost)

\* A rate that priceBookFromConfig dropped leaves its model unpriced: denied.
Admit(r) ==
    /\ req[r].pc = "new"
    /\ \E rate \in Rates, promptUpper \in PromptBounds, requestedMax \in RequestedMaxes :
          IF Billable(rate)
          THEN Reserve(r, [rate |-> rate, prompt |-> promptUpper, max |-> requestedMax],
                       ReserveCost(rate, promptUpper, requestedMax))
          ELSE /\ req' = [req EXCEPT ![r].pc = "denied"]
               /\ UNCHANGED reserved
    /\ UNCHANGED <<allowance, allowanceVer, ackWatermark, confirmed, confirmedSum,
                   confirmedHigh, pending, lastVer, log, cursor, homeVars>>

\* The gate panics: recovered to a denial, or to an unmetered pass when FailOpen.
AdmitFault(r) ==
    /\ "admit" \in Faults
    /\ req[r].pc = "new"
    /\ req' = [req EXCEPT ![r].pc = IF FailOpen THEN "unmetered" ELSE "denied"]
    /\ UNCHANGED <<accountVars, lastVer, log, cursor, homeVars>>
-----------------------------------------------------------------------------
(***************************************************************************)
(* Serving and the deferred resolveReservation.                            *)
(***************************************************************************)
\* The request fails, or the upstream answers anything but 200: no debit event.
ServeFails(r) ==
    /\ req[r].pc = "held"
    /\ req' = [req EXCEPT ![r].pc = "failed"]
    /\ UNCHANGED <<accountVars, lastVer, log, cursor, homeVars>>

\* The debit event leaves before the hold is resolved; the emitter may drop it.
\* An entry of the log stands for the cost Confirm is later called with, which the
\* contract makes the cost TrueUp bills.
EmitDebit(r, bill, pc) ==
    \/ /\ log' = Append(log, bill)
       /\ req' = [req EXCEPT ![r].pc = pc, ![r].bill = bill, ![r].seq = Len(log) + 1]
    \/ /\ Drops
       /\ req' = [req EXCEPT ![r].pc = pc, ![r].bill = bill]
       /\ UNCHANGED log

\* TrueUp never bills more than was held.
Clamp(actual, hold) == IF actual > hold THEN hold ELSE NonNegative(actual)

\* parseMetrics: the token counts of the last usage or timings object of the answer.
Usages == {u \in [input : Tokens, output : Tokens] : u.input > 0 \/ u.output > 0}

\* Served 200 with usage: resolveReservation will true up the actual cost.
ServeMetered(r) ==
    /\ req[r].pc = "held"
    /\ \E u \in Usages :
          EmitDebit(r, Clamp(ActualCost(req[r].price.rate, u.input, u.output), req[r].hold),
                    "metered")
    /\ UNCHANGED <<accountVars, lastVer, cursor, homeVars>>

\* Served 200 without usable usage: trueUpReserved bills the whole hold.
ServeUnmeasured(r) ==
    /\ req[r].pc = "held"
    /\ EmitDebit(r, req[r].hold, "unmeasured")
    /\ UNCHANGED <<accountVars, lastVer, cursor, homeVars>>

\* A request let through by FailOpen: its debit event is emitted all the same, with
\* no hold behind it.
ServeUnmetered(r) ==
    /\ req[r].pc = "unmetered"
    /\ \E rate \in Rates, input \in Tokens, output \in Tokens :
          /\ Billable(rate)
          /\ EmitDebit(r, ActualCost(rate, input, output), "released")
    /\ UNCHANGED <<accountVars, lastVer, cursor, homeVars>>

TrueUp(r) ==
    /\ req[r].pc \in {"metered", "unmeasured"}
    /\ req' = [req EXCEPT ![r].pc = "billed"]
    /\ reserved' = reserved - req[r].hold
    /\ pending' = pending + req[r].bill
    /\ UNCHANGED <<allowance, allowanceVer, ackWatermark, confirmed, confirmedSum,
                   confirmedHigh, lastVer, log, cursor, homeVars>>

\* Mutant: no done latch, a resolved hold is released again.
ReleaseUnlatched(r) ==
    /\ req[r].pc \in {"failed", "panicked", "billed", "released"}
    /\ req' = [req EXCEPT ![r].pc = "released"]
    /\ reserved' = reserved - req[r].hold
    /\ UNCHANGED <<allowance, allowanceVer, ackWatermark, confirmed, confirmedSum,
                   confirmedHigh, pending, lastVer, log, cursor, homeVars>>

\* Release: the deferred one of a failed request, or guardedResolve's compensation.
Release(r) ==
    /\ req[r].pc \in {"failed", "panicked"}
    /\ req' = [req EXCEPT ![r].pc = "released"]
    /\ reserved' = reserved - req[r].hold
    /\ UNCHANGED <<allowance, allowanceVer, ackWatermark, confirmed, confirmedSum,
                   confirmedHigh, pending, lastVer, log, cursor, homeVars>>

\* resolveReservation panics before it touches the account.
ResolveFault(r) ==
    /\ "resolve" \in Faults
    /\ req[r].pc \in {"failed", "metered", "unmeasured"}
    /\ req' = [req EXCEPT ![r].pc = "panicked"]
    /\ UNCHANGED <<accountVars, lastVer, log, cursor, homeVars>>

\* The compensating release panics too: the hold is never given back.
ReleaseFault(r) ==
    /\ "release" \in Faults
    /\ req[r].pc = "panicked"
    /\ req' = [req EXCEPT ![r].pc = "stranded"]
    /\ UNCHANGED <<accountVars, lastVer, log, cursor, homeVars>>
-----------------------------------------------------------------------------
(***************************************************************************)
(* Confirm: the tailer walks the log in order and may start over.          *)
(***************************************************************************)
\* The request whose debit is at a log position has resolved its hold.
Resolved(seq) ==
    \A r \in Requests : req[r].seq = seq => req[r].pc \in {"billed", "released", "stranded"}

\* The debit moves from pending to confirmed.  (As a mutant of Confirm: no dedupe by
\* confirmedHigh, a replay is applied again.)
MoveToConfirmed(cost, seq) ==
    /\ confirmedHigh' = seq
    /\ pending' = IF pending >= cost THEN pending - cost ELSE 0
    /\ IF seq > ackWatermark
       THEN /\ confirmed' = [s \in DOMAIN confirmed \cup {seq} |->
                                IF s = seq THEN cost ELSE confirmed[s]]
            /\ confirmedSum' = confirmedSum + cost
       ELSE UNCHANGED <<confirmed, confirmedSum>>

\* A debit of no cost, and a replayed one, change nothing.
Confirm(cost, seq) ==
    IF cost <= 0 \/ seq <= confirmedHigh
    THEN UNCHANGED <<confirmed, confirmedSum, confirmedHigh, pending>>
    ELSE MoveToConfirmed(cost, seq)

ConfirmNext ==
    /\ cursor < Len(log)
    /\ Resolved(cursor + 1)
    /\ Confirm(log[cursor + 1], cursor + 1)
    /\ cursor' = cursor + 1
    /\ UNCHANGED <<allowance, allowanceVer, ackWatermark, reserved,
                   lastVer, req, log, homeVars>>

Rewind ==
    /\ cursor > 0
    /\ \E c \in 0 .. cursor - 1 : cursor' = c
    /\ UNCHANGED <<accountVars, lastVer, req, log, homeVars>>
-----------------------------------------------------------------------------
(***************************************************************************)
(* HOME and the pushed allowances.                                         *)
(***************************************************************************)
SumSeq(s, n) == SumFunctionOnSet(s, 1 .. n)
Granted == SumSeq(Grants, home.grants)
Logged == SumSeq(log, Len(log))

TopUp ==
    /\ home.grants < Len(Grants)
    /\ home' = [home EXCEPT !.grants = @ + 1]
    /\ UNCHANGED <<accountVars, lastVer, req, log, cursor, pushed>>

Ingest ==
    /\ home.ack < Len(log)
    /\ home' = [home EXCEPT !.ack = @ + 1]
    /\ UNCHANGED <<accountVars, lastVer, req, log, cursor, pushed>>

Push ==
    /\ home.ver < MaxVer
    /\ home' = [home EXCEPT !.ver = @ + 1]
    /\ pushed' = pushed \cup {[ver |-> home.ver + 1, balance |-> Granted - SumSeq(log, home.ack),
                               watermark |-> home.ack]}
    /\ UNCHANGED <<accountVars, lastVer, req, log, cursor>>

\* Mutant: the watermark moves but the debits it covers are not aged out.
SetAllowanceNoAging(balance, watermark, ver) ==
    /\ allowanceVer' = ver
    /\ allowance' = balance
    /\ ackWatermark' = IF watermark > ackWatermark THEN watermark ELSE ackWatermark
    /\ UNCHANGED <<confirmed, confirmedSum>>

SetAllowance(balance, watermark, ver) ==
    IF ver < allowanceVer
    THEN UNCHANGED <<allowance, allowanceVer, ackWatermark, confirmed, confirmedSum>>
    ELSE LET aged == IF watermark > ackWatermark
                     THEN {seq \in DOMAIN confirmed : seq <= watermark}
                     ELSE {}
         IN  /\ allowanceVer' = ver
             /\ allowance' = balance
             /\ confirmed' = Restrict(confirmed, DOMAIN confirmed \ aged)
             /\ confirmedSum' = confirmedSum - SumFunctionOnSet(confirmed, aged)
             /\ ackWatermark' = IF watermark > ackWatermark THEN watermark ELSE ackWatermark

\* parseAllowanceSnapshot: the checks a push of HOME can fail.
Valid(s) == s.ver # 0 /\ s.balance >= 0

\* A well-formed snapshot that is strictly newer; any other push is rejected.
Apply ==
    /\ \E s \in pushed :
          /\ Valid(s)
          /\ s.ver > lastVer
          /\ SetAllowance(s.balance, s.watermark, s.ver)
          /\ lastVer' = s.ver
    /\ UNCHANGED <<confirmedHigh, pending, reserved, req, log, cursor, homeVars>>
-----------------------------------------------------------------------------
RequestStep(r) ==
    \/ Admit(r) \/ AdmitFault(r)
    \/ ServeFails(r) \/ ServeMetered(r) \/ ServeUnmeasured(r) \/ ServeUnmetered(r)
    \/ TrueUp(r) \/ Release(r) \/ ResolveFault(r) \/ ReleaseFault(r)

Next ==
    \/ \E r \in Requests : RequestStep(r)
    \/ ConfirmNext
    \/ Rewind
    \/ TopUp
    \/ Ingest
    \/ Push
    \/ Apply

Spec == Init /\ [][Next]_vars
-----------------------------------------------------------------------------
In(pcs) == {r \in Requests : req[r].pc \in pcs}
holds == [r \in Requests |-> req[r].hold]
bills == [r \in Requests |-> req[r].bill]

HoldsOf(pcs) == SumFunctionOnSet(holds, In(pcs))

\* Bills that are in the log but were never trued up, and bills that were trued up
\* but whose event the emitter dropped.
Unbilled(pcs) == SumFunctionOnSet(bills, {r \in In(pcs) : req[r].seq > 0})
Dropped == SumFunctionOnSet(bills, {r \in In({"billed"}) : req[r].seq = 0})

Prices == [rate : Rates, prompt : PromptBounds, max : RequestedMaxes]

\* Types; in particular no sum of the account goes below zero and no bill exceeds its
\* hold.
TypeOK ==
    /\ {allowance, confirmedSum, pending, reserved} \subseteq Nat
    /\ {allowanceVer, lastVer} \subseteq 0 .. MaxVer
    /\ {ackWatermark, confirmedHigh, cursor} \subseteq 0 .. Len(log)
    /\ DOMAIN confirmed \subseteq 1 .. Len(log)
    /\ req \in [Requests -> [pc : PCs, price : Prices \cup {<<>>},
                             hold : Nat, bill : Nat, seq : Nat]]
    /\ \A r \in Requests : req[r].pc = "billed" => req[r].bill <= req[r].hold
    /\ log \in Seq(Nat)
    /\ home \in [grants : 1 .. Len(Grants), ack : 0 .. Len(log), ver : 0 .. MaxVer]
    /\ pushed \subseteq [ver : 1 .. home.ver, balance : Int, watermark : 0 .. home.ack]

\* What two requests racing a near-zero balance may never do together: the debits
\* logged and the holds still open exceed the credits bought only by the bills of
\* requests whose true-up panicked or that FailOpen let through, whatever snapshots
\* are lost, repeated or reordered and however often the log is replayed.
NoOverspend == Logged + HoldsOf({"held"}) <= Granted + Unbilled({"released"})

\* The balance the gate decides on (available) exceeds what is really left only by the
\* same bills: a snapshot, a confirmation or a replay never opens room already spent.
NeverOverstated ==
    available <= Granted + Unbilled({"released"}) - Logged - HoldsOf({"held"})

\* Once every hold is resolved, every logged debit is confirmed and the account holds a
\* snapshot that includes the last top-up, available is what is left, less holds that
\* were stranded and dropped debits: no debit is counted twice by pending,
\* confirmedSum and the snapshot.  A bill that was never trued up is taken out of
\* pending when it is confirmed, and so may cancel a dropped one.
ExactAtRest ==
    /\ \A r \in Requests :
          req[r].pc \in {"new", "denied", "unmetered", "billed", "released", "stranded"}
    /\ cursor = Len(log)
    /\ \E s \in pushed : s.ver = lastVer /\ s.balance + SumSeq(log, s.watermark) = Granted
    => LET short == Granted - Logged - available - HoldsOf({"stranded"})
       IN  short \in Dropped - Unbilled({"released", "stranded"}) .. Dropped

\* The balance the gate decides on is honest: never overstated, and exact at rest,
\* whatever order debits, confirmations, replays and snapshots arrive in.
BalanceIsHonest == NeverOverstated /\ ExactAtRest

\* reserved is the sum of the holds of requests that are still to resolve them, or
\* whose resolution panicked twice: every exit gives its hold back exactly once.
ReservedIsHeld ==
    reserved = HoldsOf({"held", "failed", "metered", "unmeasured", "panicked", "stranded"})

\* ReserveCost of a request covers ActualCost of every completion within the bounds
\* it was priced at, so TrueUp's clamp never bites on a backend that respects them.
HoldCoversBill ==
    \A r \in Requests : req[r].pc = "held" =>
        \A input \in 0 .. req[r].price.prompt,
           output \in 0 .. CompletionUpper(req[r].price.rate, req[r].price.max) :
              ActualCost(req[r].price.rate, input, output) <= req[r].hold
=============================================================================
