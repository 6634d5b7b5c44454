------------------------------ MODULE Tickets ------------------------------
(***************************************************************************)
(* What net/FetchPool promises the page that asks for a fetch: a ticket    *)
(* that ends once, with an answer or an error, in the end always, and whose *)
(* result is given out once.                                               *)
(***************************************************************************)
CONSTANT Jobs

VARIABLE state    \* of each ticket

Init == state = [j \in Jobs |-> "unasked"]

Ask(j) == state[j] = "unasked" /\ state' = [state EXCEPT ![j] = "asked"]

End(j) ==
    /\ state[j] = "asked"
    /\ \E how \in {"answer", "error"} : state' = [state EXCEPT ![j] = how]

Give(j) ==
    /\ state[j] \in {"answer", "error"}
    /\ state' = [state EXCEPT ![j] = "taken"]

Next == \E j \in Jobs : Ask(j) \/ End(j) \/ Give(j)

Spec == Init /\ [][Next]_state /\ \A j \in Jobs : WF_state(End(j))
=============================================================================
