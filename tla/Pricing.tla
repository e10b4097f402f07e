------------------------------ MODULE Pricing ------------------------------
(***************************************************************************)
(* Token to credit pricing of proxy/pricing.go and the configured price    *)
(* book of proxy/pricing_config.go.  All of it is integer arithmetic on    *)
(* int64: a product that leaves the range wraps around.                    *)
(***************************************************************************)
EXTENDS Integers

CONSTANT MaxInt          \* largest int64, or a smaller bound for model checking

ASSUME MaxIntAssumption == MaxInt \in Nat /\ MaxInt >= 2000

InRange(x) == -(MaxInt + 1) <= x /\ x <= MaxInt

\* Two's complement: the value an int64 holds after computing x.
Wrap(x) == IF InRange(x)
           THEN x
           ELSE ((x + MaxInt + 1) % (2 * (MaxInt + 1))) - (MaxInt + 1)

\* Mutant: rounds down, as plain integer division does.
floorDiv(a, b) == IF a <= 0 THEN 0 ELSE a \div b

ceilDiv(a, b) == IF a <= 0 THEN 0 ELSE Wrap(a + b - 1) \div b

NonNegative(x) == IF x < 0 THEN 0 ELSE x

\* The completion bound a reservation is priced at.
CompletionUpper(rate, requestedMax) ==
    IF requestedMax > 0 /\ requestedMax < rate.maxOutput
    THEN requestedMax
    ELSE rate.maxOutput

\* Mutant: the reservation rounds down while the bill rounds up.
ReserveCostRoundedDown(rate, promptTokens, requestedMax) ==
    Wrap(floorDiv(Wrap(NonNegative(promptTokens) * rate.input), 1000)
         + floorDiv(Wrap(CompletionUpper(rate, requestedMax) * rate.output), 1000))

ReserveCost(rate, promptTokens, requestedMax) ==
    Wrap(ceilDiv(Wrap(NonNegative(promptTokens) * rate.input), 1000)
         + ceilDiv(Wrap(CompletionUpper(rate, requestedMax) * rate.output), 1000))

ActualCost(rate, promptTokens, completionTokens) ==
    Wrap(ceilDiv(Wrap(NonNegative(promptTokens) * rate.input), 1000)
         + ceilDiv(Wrap(NonNegative(completionTokens) * rate.output), 1000))

\* An amount that rounding up and adding another such amount keeps in range.
Fits(x) == x \in Nat /\ 2 * (x + 1000) <= MaxInt

\* priceBookFromConfig drops a rate it cannot bill safely; its model is unpriced.
Billable(rate) == rate.input >= 0 /\ rate.output >= 0 /\ rate.maxOutput > 0
=============================================================================
