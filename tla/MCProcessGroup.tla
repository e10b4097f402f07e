--------------------------- MODULE MCProcessGroup ---------------------------
(***************************************************************************)
(* TLC instance of ProcessGroup: a and b swap in the group main; main and  *)
(* other, the group of c, evict each other; d is in the persistent group.  *)
(***************************************************************************)
EXTENDS ProcessGroup

CONSTANTS a, b, c, d, main, other, keep

MCGroupOf == [m \in Models |-> CASE m \in {a, b} -> main [] m = c -> other [] m = d -> keep]

\* The model of the persistent group serves one request at a time.
MCLimit == [m \in Models |-> IF m = d THEN 1 ELSE 2]

\* Nothing runs yet, or a request for a was handled before.
Served ==
    /\ state = [m \in Models |-> IF m = a THEN "ready" ELSE "stopped"]
    /\ inFlight = [m \in Models |-> {}]
    /\ lock = [g \in Groups |-> None]
    /\ lastUsed = [g \in Groups |-> IF g = main THEN a ELSE None]
    /\ pc = [t \in Threads |-> "idle"]
    /\ model = [r \in Requests |-> None]
    /\ evict = [r \in Requests |-> {}]
    /\ stops = [t \in Threads |-> NoStops]
    /\ raced = {} /\ beside = {}

MCSpec == (Init \/ Served) /\ [][Next]_vars /\ Fairness
=============================================================================
