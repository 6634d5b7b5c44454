---------------------------- MODULE MCHttpCache ----------------------------
(* Two URLs; a small response that can be asked about once it is stale, and a  *)
(* larger one that cannot; caps that hold one body and a half.                 *)
EXTENDS HttpCache, TLC

CONSTANTS k1, k2

MCKeys == {k1, k2}

Response(s, l, v) == [size |-> s, life |-> l, validator |-> v]
MCResponses == {Response(1, 1, TRUE), Response(2, 1, FALSE)}
MCFailures == {"short", "lost", "unopened", "stays"}
Symmetry == Permutations(MCKeys)
=============================================================================
