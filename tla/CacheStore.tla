----------------------------- MODULE CacheStore -----------------------------
(***************************************************************************)
(* What net/HttpCache promises its callers: for each URL it holds one whole *)
(* response that was stored for it, or nothing.  It may forget any of them  *)
(* at any time, but a response once replaced or forgotten never comes back, *)
(* whatever files the last run left behind.                                 *)
(***************************************************************************)
CONSTANTS Keys, None

VARIABLES
    held,     \* the response a lookup of the URL would find
    used,     \* the stores that have been seen
    served    \* the response handed out last, and for which URL

vars == <<held, used, served>>

\* The response of a store: its headers and the body that came with them.
Whole(store) == [headers |-> store, body |-> store]
Nothing == [headers |-> None, body |-> None]

Init ==
    /\ held = [k \in Keys |-> None]
    /\ used = {}
    /\ served = None

\* Any of them forgotten, and at most one replaced by what has just been stored.
Change ==
    /\ \A k \in Keys : held'[k] \in {held[k], None}
                       \/ \E store \in used' \ used : held'[k] = Whole(store)
    /\ \A k, l \in Keys : held'[k] = held'[l] => k = l \/ held'[k] = None
    /\ used \subseteq used'

Serve == served' \in {served, None} \cup {[url |-> k, response |-> held'[k]] : k \in Keys}

Next == Change /\ Serve

Spec == Init /\ [][Next]_vars
=============================================================================
