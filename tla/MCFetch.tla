------------------------------ MODULE MCFetch ------------------------------
(* Two fetches among two URLs of one origin, with a third they are refused;    *)
(* a GET and a POST, and GETs of two variants.                                  *)
EXTENDS Fetch, TLC

CONSTANTS f1, f2, u1, u2, u3, va, vb

MCFetches == {f1, f2}
MCUrls == {u1, u2}
MCNone == {}
MCOneUrl == {u1}
MCElsewhere == {u3}
MCTwoStatuses == {302, 307}
MCKeptOrNot == {"max-age", "no-store"}
MCStale == {"no-cache"}

Ask(m, u, v) == [method |-> m, url |-> u, variant |-> v]
MCMethods == {Ask("GET", u1, va), Ask("POST", u1, va)}
MCMixed == {Ask("GET", u1, va), Ask("GET", u1, vb)}

Symmetry == Permutations(MCFetches)
=============================================================================
