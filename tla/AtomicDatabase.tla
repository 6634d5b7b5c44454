--------------------------- MODULE AtomicDatabase ---------------------------
(***************************************************************************)
(* What IndexedDB promises the pages that share a database: a transaction   *)
(* works apart, no two of them on the same store, and all of its changes    *)
(* appear at once, when its page is told it is complete, or none ever does. *)
(***************************************************************************)
CONSTANTS Transactions, Parts, Nothing

VARIABLES
    committed,   \* what is in the database: a function from its parts
    work,        \* what each transaction has changed so far: a part of such a function
    told         \* what the page has been told of each

vars == <<committed, work, told>>

Idle == <<>>

Init ==
    /\ DOMAIN committed = Parts
    /\ work = [t \in Transactions |-> Idle]
    /\ told = [t \in Transactions |-> "nothing"]

Others(t) == Transactions \ {t}

\* A transaction changes what no other is changing.
Write(t) ==
    /\ told[t] = "nothing"
    /\ \A u \in Others(t) : work'[u] = work[u] /\ DOMAIN work[u] \cap DOMAIN work'[t] = {}
    /\ DOMAIN work[t] \subseteq DOMAIN work'[t]
    /\ UNCHANGED <<committed, told>>

Commit(t) ==
    /\ told[t] = "nothing"
    /\ committed' = [x \in Parts |-> IF x \in DOMAIN work[t] THEN work[t][x] ELSE committed[x]]
    /\ work' = [work EXCEPT ![t] = Idle]
    /\ told' = [told EXCEPT ![t] = "complete"]

\* What some transactions did is forgotten: an abort, or the end of their realm.
Discard ==
    /\ \A t \in Transactions : work'[t] \in {work[t], Idle}
    /\ UNCHANGED <<committed, told>>

Tell(t) ==
    /\ told[t] = "nothing" /\ work[t] = Idle
    /\ told' = [told EXCEPT ![t] = "abort"]
    /\ UNCHANGED <<committed, work>>

\* The database is deleted while nobody works on it.
Delete ==
    /\ \A t \in Transactions : work[t] = Idle
    /\ committed' = Nothing
    /\ UNCHANGED <<work, told>>

Next == Discard \/ Delete \/ \E t \in Transactions : Write(t) \/ Commit(t) \/ Tell(t)

Spec == Init /\ [][Next]_vars
=============================================================================
