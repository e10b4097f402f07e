------------------------------ MODULE EventBus ------------------------------
(***************************************************************************)
(* What event/event.go promises to the subscribers of one event type:      *)
(* every event published while a subscriber is on the list is handed to    *)
(* its handler once, in the order of publication.                          *)
(***************************************************************************)
EXTENDS Sequences

CONSTANTS Events, Consumers

VARIABLES
    subs,                \* consumers on the list
    unseen               \* events each consumer's handler has yet to see

vars == <<subs, unseen>>

Init ==
    /\ subs = {}
    /\ unseen = [c \in Consumers |-> <<>>]

Subscribe(c) ==
    /\ c \notin subs
    /\ unseen[c] = <<>>
    /\ subs' = subs \cup {c}
    /\ UNCHANGED unseen

\* What was published before the removal is still handed over.
Unsubscribe(c) ==
    /\ c \in subs
    /\ subs' = subs \ {c}
    /\ UNCHANGED unseen

Publish(e) ==
    /\ unseen' = [c \in Consumers |-> IF c \in subs THEN Append(unseen[c], e) ELSE unseen[c]]
    /\ UNCHANGED subs

Deliver(c) ==
    /\ unseen[c] # <<>>
    /\ unseen' = [unseen EXCEPT ![c] = Tail(@)]
    /\ UNCHANGED subs

Next ==
    \/ \E c \in Consumers : Subscribe(c) \/ Unsubscribe(c) \/ Deliver(c)
    \/ \E e \in Events : Publish(e)

Spec == Init /\ [][Next]_vars
=============================================================================
