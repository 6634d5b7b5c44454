-------------------------- MODULE MCConnectionPool --------------------------
(* Two fetches, with a hint or without, and the sessions they can hold. *)
EXTENDS ConnectionPool, TLC

CONSTANTS f1, f2, h1, s1, s2, s3, s4

MCFetches == {f1, f2}
MCHints == {h1}
MCNoHints == {}
MCThreeSessions == {s1, s2, s3}
MCFourSessions == {s1, s2, s3, s4}
Symmetry == Permutations(MCFetches) \cup Permutations(MCFourSessions)
=============================================================================
